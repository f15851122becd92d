SPECIFICATION Spec
CONSTANTS
    Strings = {"s"}
    Hashes = {"h"}
    Absent = Absent
    MaxKeys = 1
    MaxWrites = 3
    MaxLog = 7
    MaxCrashes = 3
    Losses = {1, 2}
    PartMarkers = TRUE
INVARIANTS
    SnapshotIsCurrent
    MutationsReachTables
    StartupAccepts
CHECK_DEADLOCK FALSE
