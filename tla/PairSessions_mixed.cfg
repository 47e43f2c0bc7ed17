CONSTANTS
    Cap = 2
    MaxTimeDiff = 1
    MaxStamp = 2
    MaxSessions = 2
SPECIFICATION SessionsSpec
INVARIANT RendersOneSession
