CONSTANTS
    Threads = {t1, t2}
    MaxData = 3
SPECIFICATION Spec
SYMMETRY ThreadSymmetry
INVARIANTS
    IndicesAccountedFor
    OvertakenOnlyByOverlap
    RecordedIffPublished
    PublishedWhenReturned
    StreamsInOrder
