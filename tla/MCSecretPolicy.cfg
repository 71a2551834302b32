CONSTANTS
    Callers = {c1, c2, c3}
    Names = {n1}
    TTLs = {1}
    Horizon = 2
    MaxCalls = 3
SPECIFICATION Spec
SYMMETRY CallerSymmetry
INVARIANTS IndInv ReadableValueHasItsPolicy
PROPERTIES ReleasesAreCurrent NoResurrection PruneTakesOnlyExpired TombstoneStays ImplementsRegistry
CHECK_DEADLOCK FALSE
