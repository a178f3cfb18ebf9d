CONSTANTS
    h1 = h1
    h2 = h2
    Hosts = {h1, h2}
    Remotes <- MCRemotes
    MaxAddrs = 2
SPECIFICATION FairSpec
INVARIANTS
    TypeOK
    IndexInRange
    AddressesOfHost
PROPERTY
    CachedRotation
CHECK_DEADLOCK FALSE
