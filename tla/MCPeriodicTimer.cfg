SPECIFICATION TimerFairSpec
CONSTANTS
    c1 = c1
    c2 = c2
    Callers = {c1, c2}
    MaxCalls = 4
    Generations = 6
INVARIANTS NoStaleFire OneChain StartKept
PROPERTY KeepsFiring
