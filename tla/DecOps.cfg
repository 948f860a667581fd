SPECIFICATION Spec
CONSTANTS
    DPUN = 2
    TinyExp <- Infinitesimal
    IntHi = 12
    UIntHi = 25
    IntDigits = 3
    Families <- AllFamilies
    Thirds <- OrderThirds
INVARIANTS
    FitsContext
    OrderIsSound
    QuantizedOnce
    NextIsNeighbour
    DigitsMoved
    ReadsBack
    FlagsGather
\* one call ends
CHECK_DEADLOCK FALSE
