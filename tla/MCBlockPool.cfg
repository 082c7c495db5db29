CONSTANTS
    NumBlocks = 4
    h1 = h1
    h2 = h2
    h3 = h3
    s1 = s1
    s2 = s2
    s3 = s3
    Hash <- MCHash
    NoHash = NoHash
    Seqs <- MCSeqs
    Prompts <- MCPrompts
    NoPrompt = NoPrompt
SPECIFICATION LSpec
SYMMETRY Symmetry
INVARIANTS
    RefCountExact
    FreeQueueExact
    CacheEntriesSound
    LinksExact
PROPERTIES
    ChainsFreedTailFirst
    ImplementsOwnership
