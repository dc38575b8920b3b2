SPECIFICATION FairSpec
CONSTANTS
    o = o
    a1 = a1
    a2 = a2
    Callers = {o}
    MaxCalls = 2
    None = None
    Abortables = {a1, a2}
    MaxDatagrams = 2
INVARIANT RootsOutliveLoop
PROPERTIES PhasesReturn Hears
CHECK_DEADLOCK FALSE
