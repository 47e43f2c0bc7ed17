CONSTANTS
    Cap = 2
    MaxTimeDiff = 1
    MaxStamp = 5
SPECIFICATION Spec
INVARIANTS
    NeverPopsEmpty
    PopsWhatItCompared
    RendersInOrder
    RendersAllItCan
PROPERTIES
    DiscardIsSafe
    CallReturns
