CONSTANTS
    HttpProxy = TRUE
    ConnTimeout = FALSE
    RetryOnAuthFailed = FALSE
    ClockTick = FALSE
    LateControl = FALSE
    Errors <- MCRestartOnly
    MaxGen = 2
    RetainSd = FALSE
    Options = {o1, o2}
    Descriptors = {d1, d2}
    None = None
SPECIFICATION TunnelSpec
INVARIANT CallerOwnsDescriptor
CHECK_DEADLOCK FALSE
