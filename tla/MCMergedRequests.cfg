SPECIFICATION Spec
CONSTANTS
    NumRequests = 4
    p1 = p1
    Prompts = {p1}
    PromptOf <- MCPromptOf
    MaxNewOf <- MCMaxNewOf
    Sampled = {4}
    EosAt = 3
    MaxBatch = 1
    CanLeave = TRUE
    Async = TRUE
INVARIANTS
    GroupsExact
    
PROPERTY
    EveryoneAnswered
CHECK_DEADLOCK FALSE
