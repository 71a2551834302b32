CONSTANTS
    stdout = stdout
    stderr = stderr
    Streams = {stdout}
    Capped = {}
    K1 = K1
    K2 = K2
    Names = {K1, K2}
    NoName = NoName
    Bytes = {1, 2, 3, 4}
    Families <- Overlapping
    Encoded <- MCEncoded
    MinRawLen = 4
    TokenSize = 2
    Limit = 3
    MaxInput = 4
SPECIFICATION Spec
INVARIANTS SplitsAreStillCaught
CHECK_DEADLOCK FALSE
