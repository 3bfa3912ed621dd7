SPECIFICATION Spec
CONSTANTS
    x = x
    y = y
    Node <- Nodes
    Var <- Vars
    Kind <- Kinds
    Name <- Names
    Heaps <- SmallHeaps
    Target <- Bool
    NULL = NULL
    MaxCalls = 2
INVARIANTS
    TypeOK
    Acyclic
    GrantedStaysEqual
    AnswersAreRight
    OnlyWhatFollows
PROPERTY
    CallsEnd
CHECK_DEADLOCK FALSE
