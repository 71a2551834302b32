CONSTANTS
    p1 = p1
    p2 = p2
    t1 = t1
    t2 = t2
    t3 = t3
    Processes = {p1, p2}
    Tasks = {t1, t2}
    ProcessOf <- AloneEach
    RequestScoped = {}
    Inodes = {i1, i2, i3, i4}
    NoFile = NoFile
    Threshold = 2
    Wanted = {}
    MaxCalls = 2
SPECIFICATION Spec
PROPERTIES OneObjectPerLine
CHECK_DEADLOCK FALSE
