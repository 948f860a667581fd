SPECIFICATION Spec
CONSTANTS
    DPUN = 2
    Families <- AllFamilies
INVARIANTS
    CorrectlyRounded
    FlagsTellLoss
    FitsContext
\* one call ends
CHECK_DEADLOCK FALSE
