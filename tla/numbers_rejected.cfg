SPECIFICATION Spec
CONSTANTS
    DigitChar <- DigitChars
    TypeChar <- TypeChars
    MaxDigits = 5
    MaxPart = 0
    Width <- Narrow
INVARIANT
    NumbersAreTaken
CHECK_DEADLOCK FALSE
