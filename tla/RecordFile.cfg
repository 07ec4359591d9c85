CONSTANTS
    ChunkRecords = 2
    Values = {v1, v2}
    Missing = missing
    Torn = torn
    HeaderSize = 1
    HeadLen = 1
    Padding = 1
    EncLens = {2, 4}
    MaxSize = 13
SPECIFICATION Spec
INVARIANTS
    TypeOK
    SlotsApart
    MappedWrites
    RefusedMeansDied
PROPERTIES
    OnlyTheTarget
    SetTakesEffect
