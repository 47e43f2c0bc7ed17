CONSTANTS
    MaxHandles = 2
    Calibs = {c1}
    default = default
SPECIFICATION CalibSpec
PROPERTY ReplugRepairs
