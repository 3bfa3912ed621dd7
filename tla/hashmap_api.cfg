SPECIFICATION ApiSpec
CONSTANTS
    a = a
    b = b
    c = c
    Key <- Keys
    Value = {v, w}
    NULL = NULL
    CAIRO = CAIRO
    Absent = Absent
    Hash <- Hashes
    INITIAL_CAPACITY = 2
INVARIANTS
    StoredKeysAreFound
    CountMatches
PROPERTY ImplementsDictionary
CHECK_DEADLOCK FALSE
