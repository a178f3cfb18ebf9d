CONSTANTS
    HandshakeWindow = 4
    BecomePrimary = 3
    Renegotiate = 8
    TranWindow = 8
    MaxKeyId = 7
    DataLimited = FALSE
    MaxLag = 2
    NoKey = NoKey
SPECIFICATION FairSpec
INVARIANTS TypeOK SharedKey SessionSurvives DistinctKeyIds ActiveIsInitial
PROPERTY KeysAreRefreshed
