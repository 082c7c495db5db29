SPECIFICATION DSpec
CONSTANTS
    NumRequests = 3
    NumSlots = 2
    MaxNew = 2
    BlockSize = 2
    SchedBlocks = 1
    PrefillBlocks = 1
    CanFail = TRUE
    CanStop = TRUE
    JoinLate = FALSE
INVARIANTS
    TransfersExact
    AnswerWhole
PROPERTY
    Served
CHECK_DEADLOCK FALSE
