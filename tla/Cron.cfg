CONSTANTS
    a = a
    b = b
    Jobs = {a, b}
    Loader = loader
    Bad = bad
    Period <- MCPeriod
    Phase <- MCPhase
    Horizon = 3
    Back = 2
    Shift = 2
    NoSkip = {a}
    Texts <- MCTexts
    Reruns = 1
    MaxTime = 5
    MaxEdits = 1
    MaxFaults = 1
SPECIFICATION Spec
INVARIANTS
    TypeOK
    NothingSkipped
    RunsOnce
PROPERTY
    DueIsServed
CHECK_DEADLOCK FALSE
