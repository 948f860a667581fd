SPECIFICATION FairSpec
CONSTANTS
    AddrSpace = 3
    MaxPop = 1
    Imports = {i1, i2}
    NoImport = NoImport
    NoAnswer = NoAnswer
    Chunk = 2
    Insns <- MCInsns
    Funcs <- MCFuncs
INVARIANTS
    TypeOK
    ListsInBounds
    OnlyReachable
    NoReturnMissed
    NearestReturn
PROPERTIES
    Terminates
    Implements
CHECK_DEADLOCK FALSE
