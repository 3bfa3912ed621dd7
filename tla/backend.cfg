SPECIFICATION Spec
CONSTANTS
    NULL = NULL
    Programs <- SmallPrograms
    Answer <- Answers
INVARIANTS
    TypeOK
    WellTyped
    JumpsLand
    LocalsDistinct
    ReadsFollowWrites
    MeaningKept
CHECK_DEADLOCK FALSE
