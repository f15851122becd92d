SPECIFICATION FairSpec
CONSTANTS
    Conns = {c1}
    Serial = {}
    Kinds = {"read", "write", "missRead", "missWrite", "bad"}
    OutputHighWater = 1
    MaxRequests = 2
    MaxLeaving = 1
    MayFail = TRUE
    MayEvict = TRUE
PROPERTIES
    RepliesNotDropped
    RepliesArrive
