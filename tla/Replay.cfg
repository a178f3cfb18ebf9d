CONSTANTS
    WindowSize = 3
    ExpireAfter = 1
    MaxId = 7
    LongForm = TRUE
    MaxNow = 2
SPECIFICATION Spec
INVARIANTS
    TypeOK
    NoReplay
    NoFalseReplay
PROPERTY
    NoReuse
CHECK_DEADLOCK FALSE
