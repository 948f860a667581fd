SPECIFICATION MulSpec
CONSTANTS
    DPUN = 1
    FASTDIGS = 1
    FASTBASE = 10
    FASTLAZY = 2
    WordSize = 200
    DECNUMMAXE = 20
    IntRange = 43
    DEC_MAX_MATH = 5
    Families <- AllFamilies
INVARIANTS
    RoundedOnce
    AccumulatorFits
PROPERTIES
    MultipliesInRows
\* one call ends
CHECK_DEADLOCK FALSE
