CONSTANTS
    p1 = p1
    p2 = p2
    t1 = t1
    t2 = t2
    t3 = t3
    Processes = {p1, p2}
    Tasks = {t1, t2, t3}
    ProcessOf <- ServerAndCli
    RequestScoped = {t1}
    Inodes = {i1, i2, i3, i4}
    NoFile = NoFile
    Threshold = 1
    Wanted = {0}
    MaxCalls = 3
SPECIFICATION FairSpec
PROPERTIES CancelledWaitEnds EveryCallReturns
CHECK_DEADLOCK FALSE
