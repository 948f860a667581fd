SPECIFICATION Spec
CONSTANTS
    DPUN = 2
    Families <- Divisions
INVARIANTS
    StaysInArrays
    NothingLost
    QuotientRounded
    WholeAndRest
    ExceptionsSignalled
PROPERTIES
    Ended
\* one division ends
CHECK_DEADLOCK FALSE
