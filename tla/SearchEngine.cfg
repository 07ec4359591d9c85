CONSTANTS
    x = x
    y = y
    ns = ns
    m1 = m1
    m2 = m2
    Msgs = {m1, m2}
    Tags = {x, y}
    Star = star
    All = all
    Spaces = {ns}
    None = none
    Batches <- MCBatches
    Imported = {{m2}}
    L1Keywords = 4
    HistSlots = 2
    K = 2
    M = 4
    MaxVersion = 4
    MaxStops = 1
SPECIFICATION Spec
INVARIANTS
    TypeOK
    UndoRestores
    ChangesAreFound
    TaggedAreMarked
    SlotsAreExclusive
PROPERTY
    NamespaceIsolation
CHECK_DEADLOCK FALSE
