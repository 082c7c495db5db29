CONSTANTS
    Token <- MCToken
    Eos <- MCEos
    JsonEos <- MCJsonEos
    Char <- MCChar
    Prompt <- MCPrompt
    Case <- MCCase
    MaxNew = 6
    K = 2
SPECIFICATION GSpec
INVARIANTS StopExcluded JsonEnds DrawsAgree
CHECK_DEADLOCK FALSE
