SPECIFICATION ModelSpec
CONSTANTS
    NumExperts = 4
    VocabSize = 5
    NumRoutes = 3
    PrimaryWeight = 7
    SharedScale = 2
    RoutedScale = 3
    BmmThreshold = 2
    NumHeads = 4
    NumKvHeads = 2
    BlockSize = 2
    MaxBlocks = 3
    ExactUpTo = 16
    Inter = 4
    SharedInter = 3
    GroupSize = 2
    Routes <- MCRoutes
    Confs <- MCConfs
    Batches <- MCBatches
    KernelBatches <- MCKernelBatches
    Rows <- MCRows
\* A load that raises ends the process.
CHECK_DEADLOCK FALSE
INVARIANTS
    RoutesVerbatim
    ForwardExact
    AttendsOwnPast
    PackedExact
