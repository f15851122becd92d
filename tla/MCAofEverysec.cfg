SPECIFICATION FairSpec
CONSTANTS
    Policy = "everysec"
    ChunkCapacity = 2
    HighWater = 3
    LowWater = 1
    WritevMax = 2
    RecordSizes = {1, 2}
    TokenSize = 1
    EvictOutside = TRUE
    AllocMayFail = FALSE
    IoMayFail = TRUE
    MaxBytes = 4
    MaxBegins = 4
    MaxCrashes = 1
INVARIANTS
    TypeOK
    FileInOrder
    NumbersCovered
    AckedSurvives
    ForkFindsWriterParked
    BackpressureHysteresis
    CheckpointIsDurable
    CloseLosesNothing
PROPERTIES
    CaughtUp
    CallsReturn
