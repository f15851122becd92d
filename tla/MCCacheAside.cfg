SPECIFICATION Spec
SYMMETRY Symmetry
CONSTANTS
    Clients = {a, b}
    NoClient = NoClient
    Strings = {"s"}
    Hashes = {"h"}
    Absent = Absent
    MaxKeys = 1
    Readers = 1
    ReadLimit = 1
    WriteLimit = 2
    Following = {"GET", "DEL", "SET", "HSET"}
    MaxWrites = 3
INVARIANTS
    LatestIsFound
    NoStaleAnswer
    HeldOnce
    NobodyForgotten
