SPECIFICATION Spec
CONSTANTS
    n1 = n1
    n2 = n2
    n3 = n3
    n4 = n4
    Nodes = {n1, n2, n3, n4}
    Null = Null
    MaxDepth = 2
INVARIANT WellLinked
PROPERTY KeepsPromise
