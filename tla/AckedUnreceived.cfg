CONSTANTS
    m1 = a
    m2 = b
    m3 = c
    m4 = d
    Data = {a}
    Span = 2
    ReplayProtected = TRUE
    MaxMessages = 3
    MaxBare = 1
    MaxNow = 3
    WindowSize = 4
    ExpireAfter = 2
    MaxId = 20
SPECIFICATION Spec
INVARIANT
    AckedIsReceived
CHECK_DEADLOCK FALSE
