SPECIFICATION Spec
CONSTANTS
    Absent = Absent
    None = None
    Menu = Menu
    Riddle = Riddle
    NumClues = 2
    MaxCalls = 1
    MaxOpens = 1
INVARIANTS
    OpensUnlocked
