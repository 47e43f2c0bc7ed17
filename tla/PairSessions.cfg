CONSTANTS
    Cap = 2
    MaxTimeDiff = 1
    MaxStamp = 3
    MaxSessions = 2
SPECIFICATION SessionsSpec
INVARIANTS
    MixesOnlyAfterRestart
    RendersInSessionOrder
    StaleGoneAfterCap
    LateAtMostOne
