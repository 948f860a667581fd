SPECIFICATION ScanFairSpec
CONSTANTS
    foo = foo
    hasdata = hasdata
    NoTail = NoTail
    Tails <- MCTails
    DataTails <- MCDataTails
    Syms <- MCSyms
    Word = 64
    Texts <- MCTexts
INVARIANTS
    InsideText
    ScanIsLookup
    HintOfOwnLine
PROPERTIES
    ScanEnds
CHECK_DEADLOCK FALSE
