CONSTANTS
    Callers = {c1}
    Names = {n1}
    TTLs = {1}
    Horizon = 3
    MaxCalls = 3
SPECIFICATION Spec
PROPERTIES PruneDeletesEveryExpired
CHECK_DEADLOCK FALSE
