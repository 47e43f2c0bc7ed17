CONSTANTS
    Cap = 2
    MaxTimeDiff = 1
    MaxStamp = 4
SPECIFICATION SafeSpec
PROPERTY RemovesTheOlder
