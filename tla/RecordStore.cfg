CONSTANTS
    ChunkRecords = 2
    MaxRecords = 3
    Keys = {k1}
    Values = {v1, v2}
    Missing = missing
    NoFile = nofile
    MaxObjects = 3
    Sparse = TRUE
    MaxCached = 1
    MaxSlots = 2
    MaxRequests = 3
    MaxKills = 1
SPECIFICATION Spec
SYMMETRY Symmetry
INVARIANTS
    TypeOK
    NoLostRecord
    MissingChunkIsInOld
    CacheIsFresh
    KeysAgree
    KeysNameRecords
CHECK_DEADLOCK FALSE
