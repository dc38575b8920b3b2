SPECIFICATION FairSpec
CONSTANTS
    c1 = c1
    c2 = c2
    a1 = a1
    a2 = a2
    Callers = {c1, c2}
    Abortables = {a1, a2}
    MaxCalls = 2
    None = None
INVARIANTS ShutdownReachesAll  AbortAllWaits
PROPERTY WalksReturn
