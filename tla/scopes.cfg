SPECIFICATION Spec
CONSTANTS
    Name = {x, y}
    Declared = {x}
    ScopeId = {g, p, q, r}
    Global = g
    NULL = NULL
    MaxIdent = 3
    MaxDeclarations = 3
INVARIANTS
    TypeOK
    ScopesAlive
    ScopesBalanced
    LiftedClosed
    IdentsUnique
PROPERTY
    LoopsEnd
CHECK_DEADLOCK FALSE
