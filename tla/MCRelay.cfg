SPECIFICATION ReadingSpec
CONSTANTS
    IdleChoices = {0, 2, 5}
    RefreshFloor = 2
    RefreshCap = 3
    DrainCap = 4
    MaxChunks = 1
INVARIANTS
    IdleCutBound
    NoActiveSessionIsCut
PROPERTIES
    ImplementsPipe
    RelayReturns
