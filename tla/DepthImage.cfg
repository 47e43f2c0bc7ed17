CONSTANTS
    image_width = 22
    image_height = 15
    scale = 7
    point_sampling_rate = 5
    TotalPoints = 3
    Points <- MCPoints
    PlainPoints <- MCPlainPoints
    Origins <- MCOrigins
SPECIFICATION Spec
INVARIANTS
    DepthIsReference
    ZerosLeaveNoTrace
    CompactsInOrder
    BrighterNotDarker
    EveryPixelInCloud
