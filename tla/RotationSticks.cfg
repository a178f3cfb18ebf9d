CONSTANTS
    h1 = h1
    h2 = h2
    Hosts = {h1, h2}
    Remotes <- MCTwoRemotes
    MaxAddrs = 2
SPECIFICATION FairSpec
PROPERTY EveryRemoteTried
CHECK_DEADLOCK FALSE
