SPECIFICATION Spec

CONSTANTS
    SaveChanges = 2
    HighWater = 2
    LowWater = 0
    MaxChanges = 3
    MaxSaves = 2
    MaxFaults = 1
    MaxCrashes = 2
    NoSnapshot = NoSnapshot

INVARIANT SnapshotAndLogAgree
INVARIANT ChangesAccounted
PROPERTY BgsaveEnds
