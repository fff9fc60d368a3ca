SPECIFICATION HuntSpec
CONSTANTS
    c1 = c1
    c10 = c10
    url = url
    slash = slash
    Missing = Missing
    Unknown = Unknown
    None = None
    LastPath = LastPath
    DoneIntro = DoneIntro
    intro0 = "done"
    Bundled = {c1}
    Final = c10
    Foreign = {url}
    Malformed = {}
    MaxInputs = 1
    MaxPending = 4
    Cells <- MCCells
    Vals <- MCVals
    Seed <- MCSeed
    Listened = {}
    Fetched = {LastPath, DoneIntro}
    OtherTasks <- MCOtherTasks
INVARIANTS
    LaunchSurvives
