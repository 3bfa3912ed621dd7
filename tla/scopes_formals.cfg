SPECIFICATION Spec
CONSTANTS
    Name = {x, y, z}
    Declared = {x, y, z}
    ScopeId = {g, p, q}
    Global = g
    NULL = NULL
    MaxIdent = 2
    MaxDeclarations = 2
INVARIANT
    FormalsAreLocal
CHECK_DEADLOCK FALSE
