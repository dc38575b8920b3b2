SPECIFICATION Spec
CONSTANTS
    t1 = t1
    t2 = t2
    t3 = t3
    l1 = l1
    l2 = l2
    l3 = l3
    Threads = {t1, t2, t3}
    Leases = {l1, l2, l3}
    Maximum = 2
    CounterMax = 2
    MaxEntries = 5
SYMMETRY Symmetry
INVARIANTS PlacesExact HighWaterExact CountersExact
PROPERTY KeepsPromise
