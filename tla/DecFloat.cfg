SPECIFICATION Spec
CONSTANTS
    DECPMAX = 3
    DECEMAX = 5
    DIVDIGITS = 2
    IntMax = 127
    WORD = 3
    BUFFER = 5
    Families <- AllFamilies
    FollowUps <- Calculations
INVARIANTS
    ContextKept
    OrderInFormat
    RoundedInFormat
\* a calculation ends
CHECK_DEADLOCK FALSE
