CONSTANTS
    c1 = c1
    c2 = c2
    Calls = {c1}
    Slots = 1
    Requests <- Demanding
SPECIFICATION Spec
INVARIANT FailedStartsStartedNothing
CHECK_DEADLOCK FALSE
