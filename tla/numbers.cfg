SPECIFICATION Spec
CONSTANTS
    DigitChar <- DigitChars
    TypeChar <- TypeChars
    MaxDigits = 5
    MaxPart = 1
    Width <- Narrow
INVARIANTS
    TypeOK
    ValueIsRight
    TypeIsRight
CHECK_DEADLOCK FALSE
