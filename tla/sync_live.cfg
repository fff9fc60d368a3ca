SPECIFICATION FairSpec
CONSTANTS
    x = x
    y = y
    u = u
    v = v
    Missing = Missing
    Unknown = Unknown
    Cells = {x, y}
    Vals = {u}
    Seed <- MCSeedEmpty
    Listened = {}
    Fetched = {x, y}
    OtherTasks = {}
    MaxPending = 2
PROPERTIES
    Publishes
    GetsAnswered
