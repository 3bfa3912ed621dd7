SPECIFICATION Spec
CONSTANTS
    Token <- LevelTokens
    MaxTokens = 9
INVARIANTS
    TypeOK
    GrammarTree
    LevelsClimb
    OnlyPlusLosesOperands
PROPERTY
    EndIsReached
CHECK_DEADLOCK FALSE
