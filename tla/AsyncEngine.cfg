CONSTANTS
    NumRequests = 3
    Streams = {2}
    MaxNew = 2
    MaxBatch = 2
    NumSlots = 2
    MaxQueueDepth = 2
    MaxErrors = 2
    CanFail = TRUE
    CanStop = TRUE
SPECIFICATION Spec
INVARIANTS
    CountsExact
    NoAnswerLost
PROPERTIES
    Answered
CHECK_DEADLOCK FALSE
