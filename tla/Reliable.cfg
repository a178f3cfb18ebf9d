CONSTANTS
    m1 = m1
    m2 = m2
    m3 = m3
    m4 = m4
    Data = {m1, m2, m3, m4}
    Span = 2
    ReplayProtected = TRUE
    MaxMessages = 4
    MaxBare = 1
    MaxNow = 1
    WindowSize = 4
    ExpireAfter = 2
    MaxId = 8
SPECIFICATION FairSpec
CONSTRAINT DistinctMessages
INVARIANTS
    TypeOK
    AckedIsReceived
    ReceiverHasRoom
PROPERTIES
    AllDelivered
    FifoSpec
CHECK_DEADLOCK FALSE
