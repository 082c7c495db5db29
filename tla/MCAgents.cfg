CONSTANTS
    Header = 1
    Opening = 1
    MaxSeqLen = 34
    CompactAt = 0
    RecentTurns = 2
    MaxSummary = 12
    LeastSummary = 6
    StopSummary = 4
    SnippetMax = 3
    LeastContent = 4
    Rounds = 8
    MaxWorkers = 2
    MaxTasks = 2
    MaxAsks = 3
    MaxSteps = 2
    MaxTokens = 8
    Thinking <- MCThinking
    Prefill <- MCPrefill
    Tools <- MCTools
    System <- MCSystem
    Task <- MCTask
    ToolOutput <- MCToolOutput
    Speech <- MCSpeech
    Final <- MCFinal
    Stops <- MCStops
SPECIFICATION AgentsSpec
INVARIANTS TasksAccounted ContextFits SpeechExact
PROPERTY RunEnds
CHECK_DEADLOCK FALSE
