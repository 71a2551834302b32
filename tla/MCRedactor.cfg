CONSTANTS
    stdout = stdout
    stderr = stderr
    Streams = {stdout, stderr}
    Capped = {stdout}
    K1 = K1
    K2 = K2
    Names = {K1, K2}
    NoName = NoName
    Bytes = {1, 2, 3}
    Families <- MCFamilies
    Encoded <- MCEncoded
    MinRawLen = 3
    TokenSize = 2
    Limit = 3
    MaxInput = 4
SPECIFICATION Spec
INVARIANTS ExactInv StartsAreHidden OutputIsExact
CHECK_DEADLOCK FALSE
