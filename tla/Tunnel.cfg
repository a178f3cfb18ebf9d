CONSTANTS
    HttpProxy = TRUE
    ConnTimeout = FALSE
    RetryOnAuthFailed = FALSE
    ClockTick = FALSE
    LateControl = FALSE
    Errors <- MCTunnelErrors
    MaxGen = 3
    RetainSd = TRUE
    Options = {o1, o2}
    Descriptors = {d1, d2}
    None = None
SPECIFICATION TunnelSpec
INVARIANTS
    TunnelTypeOK
    ConnectedHasTunnel
    
    NoForeignClose
    PushRequestPending
PROPERTIES
    TunnelKept
    InfoWhileConnected
CHECK_DEADLOCK FALSE
