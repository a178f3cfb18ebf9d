CONSTANTS
    HandshakeWindow = 3
    BecomePrimary = 1
    Renegotiate = 4
    TranWindow = 4
    MaxKeyId = 3
    DataLimited = TRUE
    MaxLag = 0
    NoKey = NoKey
SPECIFICATION Spec
INVARIANT LimitHonoured
