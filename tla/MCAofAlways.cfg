SPECIFICATION Spec
CONSTANTS
    Policy = "always"
    ChunkCapacity = 2
    HighWater = 3
    LowWater = 1
    WritevMax = 2
    RecordSizes = {1, 2}
    TokenSize = 1
    EvictOutside = TRUE
    AllocMayFail = TRUE
    IoMayFail = TRUE
    MaxBytes = 5
    MaxBegins = 3
    MaxCrashes = 2
INVARIANTS
    AckedSurvives
PROPERTY KeepsContract
