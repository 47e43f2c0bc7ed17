CONSTANTS
    Calibs = {c1, c2}
    Unusable = {c2}
SPECIFICATION Spec
INVARIANTS
    SpinsWithOneCalibration
    AgreesWithDriver
PROPERTIES
    
    DepthStarts
