SPECIFICATION Spec
CONSTANTS
    DPUN = 2
    TinyExp <- Infinitesimal
    IntHi = 12
    UIntHi = 25
    IntDigits = 3
    Families <- UsedContext
    Thirds <- OrderThirds
INVARIANTS
    IntegralCannotFail
\* one call ends
CHECK_DEADLOCK FALSE
