SPECIFICATION Spec
SYMMETRY Symmetry
CONSTANTS
    MaxKeys = 1
    MaxMemory = 0
    Overhead = 1
    Keys = {k1, k2}
    Collections = {"hash"}
    Fields = {"f", "g"}
    Lengths = {1, 2}
    Ttls = {1}
    AofAttached = TRUE
    ExpireBudget = 1
    MaxClock = 3
    MaxJournal = 3
INVARIANTS
    AccountExact
    ReplayRestores
