CONSTANTS
    Callers = {c1, c2}
    Names = {n1, n2}
    TTLs = {1}
    Horizon = 2
    MaxCalls = 2
SPECIFICATION FairSpec
PROPERTIES EveryCallReturns
CHECK_DEADLOCK FALSE
