SPECIFICATION FairSpec
CONSTANTS
    k1 = k1
    k2 = k2
    k3 = k3
    N = 2
    Conns = {k1, k2}
    Shared = FALSE
    MaxConnections = 1
    StoppableByHost = {}
    MayMoveAway = TRUE
PROPERTY CallsReturn
