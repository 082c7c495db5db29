CONSTANTS
    s1 = s1
    s2 = s2
    s3 = s3
    x1 = x1
    x2 = x2
    a3 = a3
    a4 = a4
    a5 = a5
    b3 = b3
    b4 = b4
    b5 = b5
    NumBlocks = 5
    BlockSize = 2
    MaxBlocks = 3
    Seqs <- MCSeqs
    Values <- MCValues
    Zero = Zero
    Hash <- MCHash
    NoHash = NoHash
    Streams <- MCStreams
    PromptLen = 4
    NoStream = NoStream
    Caching = TRUE
    Graphs = TRUE
    Preemption = TRUE
SPECIFICATION Spec
SYMMETRY Symmetry
INVARIANTS
    StructuresAgree
    ReadsOwnKV
    CachedContentExact
PROPERTIES
    ForwardKeepsBlocks
