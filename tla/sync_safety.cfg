SPECIFICATION Spec
CONSTANTS
    x = x
    y = y
    u = u
    v = v
    Missing = Missing
    Unknown = Unknown
    Cells = {x, y}
    Vals = {u, v}
    Seed <- MCSeed
    Listened = {x, y}
    Fetched = {}
    OtherTasks = {}
    MaxPending = 3
INVARIANTS
    TypeOK
    SyncInv
    LocalIsDurable
PROPERTIES
    ImplementsDurableStore
    ShowsDocuments
