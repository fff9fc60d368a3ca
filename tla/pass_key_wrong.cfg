SPECIFICATION Spec
CONSTANTS
    Key = Key
    Secret = Secret
    Love = Love
    LetterCount <- MCLetterCount
    Delay = 3
    MaxEntries = 2
    MaxAsks = 2
INVARIANTS
    WrongIsWrong
