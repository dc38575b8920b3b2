SPECIFICATION GateSpec
CONSTANTS
    t1 = t1
    t2 = t2
    t3 = t3
    l1 = l1
    l2 = l2
    l3 = l3
    Threads = {t1, t2, t3}
    Leases = {l1, l2, l3}
    Limits = {0, 1, 2, 3}
    MaxEntries = 6
SYMMETRY Symmetry
INVARIANTS OutWithinLimit InflightExact RefusesNearlyFull
