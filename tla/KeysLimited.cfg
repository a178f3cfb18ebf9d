CONSTANTS
    HandshakeWindow = 2
    BecomePrimary = 1
    Renegotiate = 4
    TranWindow = 4
    MaxKeyId = 3
    DataLimited = TRUE
    MaxLag = 1
    NoKey = NoKey
SPECIFICATION Spec
INVARIANT KeyAgeBounded
PROPERTY RetiredStaysRetired
