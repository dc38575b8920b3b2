SPECIFICATION FairSpec
CONSTANTS
    k1 = k1
    k2 = k2
    k3 = k3
    N = 2
    Conns = {k1}
    Shared = TRUE
    MaxConnections = 0
    StoppableByHost = {1}
    MayMoveAway = FALSE
PROPERTY StopReturns
CHECK_DEADLOCK FALSE
