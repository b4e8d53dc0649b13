SPECIFICATION FairSpec
CONSTANTS
    MaxTakes = 2
    MaxAsks = 2
    MaxChecks = 1
    MaxLost = 1
    MaxDepth = 2
INVARIANTS
    CloseLosesNothing
    PauseIsWhatItSays
PROPERTIES
    StopIsSeen
    UpdateWaitsForTheTake
CHECK_DEADLOCK FALSE
