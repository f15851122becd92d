SPECIFICATION Spec

CONSTANTS
    Keys <- MCKeys
    Values = {"a", "b"}
    HashCode <- MCHashCode
    InitialSlots = 4
    MaxSlots = 8
    EmptyPerBucket = 1
    Budgets = {1, 2}
    NoNode = NoNode
    NoCall = NoCall
    RehashNone = RehashNone

INVARIANT NodesPlaced
INVARIANT LoadBounded
INVARIANT IterationExact
PROPERTY ImplementsMap
