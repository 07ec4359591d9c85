CONSTANTS
    Callers = {c1, c2, c3}
    MaxWorkers = 1
    Attempts = 2
    MaxFaults = 2
SPECIFICATION FairSpec
INVARIANTS
    TypeOK
    OneWriter
    CountDrift
PROPERTY
    CallsEnd
