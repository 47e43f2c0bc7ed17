CONSTANTS
    Producers = {p1, p2}
    BatchSize = 2
    MaxFrames = 5
SPECIFICATION Spec
INVARIANTS
    NothingLost
    NoGap
    ShutdownDurable
    NoLostWakeup
    IdleLoss
PROPERTIES
    RefinesLogFile
    BatchReachesFile
