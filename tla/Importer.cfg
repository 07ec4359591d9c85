CONSTANTS
    Msgs = {1, 2, 3, 4}
    OldMsgs = {4}
    AnnotatedMsgs = {3}
    MissingMsgs = {1}
    Words = {1, 2}
    TagWords = {1}
    WordsOf <- MCWordsOf
    Rounds = 1
    RareLimit = 2
    MaxPairs = 2
    BatchSize = 1
    BatchSizeFull = 2
    MaxImports = 1
    MaxFaults = 1
SPECIFICATION FairSpec
INVARIANTS
    TypeOK
    UntaggedIsIndexed
PROPERTIES
    IncomingIsProcessedUnlessStuck
    AnnotationsLeaveTheTable
CHECK_DEADLOCK FALSE
