CONSTANTS
    HttpProxy = FALSE
    ConnTimeout = TRUE
    RetryOnAuthFailed = FALSE
    ClockTick = FALSE
    LateControl = FALSE
    Errors <- MCErrors
    MaxGen = 3
SPECIFICATION FairSpec
INVARIANTS
    TypeOK
    NeverOutOfWork
    NoSilentSession
    ConnTimeoutCovers
    WaitsAreCurrent
    HaltReleases
PROPERTIES
    NoSessionAfterStop
    AnsweredSessionKept
    EventsSpec
    StopReturns
    AlwaysRetries
CHECK_DEADLOCK FALSE
