CONSTANTS
    HttpProxy = TRUE
    ConnTimeout = FALSE
    RetryOnAuthFailed = TRUE
    ClockTick = TRUE
    LateControl = TRUE
    Errors <- MCServerErrors
    MaxGen = 3
SPECIFICATION Spec
INVARIANT
    DeadSessionGivesWay
CHECK_DEADLOCK FALSE
