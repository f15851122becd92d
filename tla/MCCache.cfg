SPECIFICATION Spec
SYMMETRY Symmetry
CONSTANTS
    MaxKeys = 0
    MaxMemory = 6
    Overhead = 1
    Keys = {k1, k2, k3}
    Collections = {"hash"}
    Fields = {"f"}
    Lengths = {1, 2, 3, 6}
    Ttls = {1, 2}
    AofAttached = FALSE
    ExpireBudget = 1
    MaxClock = 3
    MaxJournal = 0
INVARIANTS
    TypeOK
    LruIsRecency
PROPERTIES
    EvictsColdest
    ErrorChangesNothing
