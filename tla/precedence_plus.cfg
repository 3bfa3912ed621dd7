SPECIFICATION Spec
CONSTANTS
    Token <- LevelTokens
    MaxTokens = 5
INVARIANT
    OperandsKept
CHECK_DEADLOCK FALSE
