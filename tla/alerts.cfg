SPECIFICATION FairSpec
CONSTANTS
    None = None
    Modal = {Retry}
    Transient = {Success}
    MaxMessages = 3
    MaxTaps = 2
    MaxPans = 1
INVARIANTS
    TypeOK
    OnlyCurrent
    NeverStuck
    TransientIsTimed
PROPERTIES
    ShowsOneAtATime
    EveryMessageShown
    TransientLeaves
CHECK_DEADLOCK FALSE
