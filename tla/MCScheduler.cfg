CONSTANTS
    NumRequests = 3
    PromptLen <- MCPromptLen
    MaxNew <- MCMaxNew
    Priority <- MCMixed
    MaxBatch = 2
    MaxPrefill = 2
    KVBlockSize = 2
    MaxKVBlocks = 4
    EnablePreemption = TRUE
    CanCancel = TRUE
    CanFail = TRUE
SPECIFICATION Spec
INVARIANTS
    OneQueue
    BlocksExact
    SteadyStops
PROPERTIES
    WorkKept
    Finishes
CHECK_DEADLOCK FALSE
