SPECIFICATION Spec
CONSTANTS
    k1 = k1
    k2 = k2
    k3 = k3
    N = 2
    Conns = {k1, k2, k3}
    Shared = TRUE
    MaxConnections = 2
    StoppableByHost = {2}
    MayMoveAway = TRUE
SYMMETRY Symmetry
INVARIANTS TicketsExact ShutdownReachesSessions ForceIsLast
INVARIANTS NothingLeftUnforced AllReturned TeardownAlone
PROPERTY AcceptBarrier
