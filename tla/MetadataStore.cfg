CONSTANTS
    Msgs = {m1, m2, m3}
    NoMsg = nomsg
    NoCache = nocache
    MaxEvents = 2
SPECIFICATION Spec
SYMMETRY Symmetry
INVARIANTS
    TypeOK
    ThreadsConsistent
    ThreadCacheFresh
    ReportedUnlessEarly
    HangMeansCircular
CHECK_DEADLOCK FALSE
