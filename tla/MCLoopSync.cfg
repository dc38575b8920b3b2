SPECIFICATION FairSpec
CONSTANTS
    c1 = c1
    c2 = c2
    Callers = {c1, c2}
    MaxCalls = 3
    None = None
INVARIANTS RunsOnce NoDanglingCall
PROPERTIES NoRaceWithLoop EveryCallReturns
