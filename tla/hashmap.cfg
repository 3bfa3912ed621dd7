SPECIFICATION Spec
CONSTANTS
    a = a
    b = b
    c = c
    Key <- Keys
    Value = {v, w}
    NULL = NULL
    CAIRO = CAIRO
    Absent = Absent
    Hash <- Hashes
    INITIAL_CAPACITY = 2
INVARIANTS
    TypeOK
    StoredKeysAreFound
    LoadBounded
    NeverDiverges
PROPERTY PutReturns
