CONSTANTS
    MaxHandles = 2
    Calibs = {c1, c2}
    default = default
SPECIFICATION CalibFairSpec
INVARIANTS
    CalibratedBeforeDrawing
    RacesOnlyWithOldCall
    CurrentCallReadsOneCalibration
    CallsFitTheHandle
    FailedAttachReleased
    ConnectedMeansStreaming
    FlagsAgree
PROPERTIES
    ConnectedIsServed
    ShutdownEnds
