SPECIFICATION Spec
CONSTANTS
    Conns = {c1, c2}
    Serial = {c1}
    Kinds = {"read", "write", "missWrite"}
    OutputHighWater = 2
    MaxRequests = 3
    MaxLeaving = 1
    MayFail = FALSE
    MayEvict = FALSE
INVARIANTS
    TypeOK
    RepliesInOrder
    SerialAckAfterWrite
    NoLostWakeup
