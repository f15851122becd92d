SPECIFICATION HeapSpec
CONSTANTS
    MaxKeys = 0
    MaxMemory = 0
    Overhead = 1
    Keys <- MCKeys
    Collections = {}
    Fields = {}
    Lengths = {1}
    Ttls = {1, 2}
    AofAttached = FALSE
    ExpireBudget = 2
    MaxClock = 3
    MaxJournal = 0
INVARIANTS
    HeapExact
PROPERTIES
    MaintainClears
