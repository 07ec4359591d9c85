CONSTANTS
    Msgs = {1, 2, 3}
    OldMsgs = {3}
    AnnotatedMsgs = {2}
    MissingMsgs = {}
    Words = {1, 2}
    TagWords = {1}
    WordsOf <- MCWordsOf
    Rounds = 1
    RareLimit = 2
    MaxPairs = 2
    BatchSize = 1
    BatchSizeFull = 2
    MaxImports = 1
    MaxFaults = 1
SPECIFICATION SpecUploadFails
INVARIANT
    UntaggedIsIndexed
CHECK_DEADLOCK FALSE
