SPECIFICATION FairSpec
CONSTANTS
    fa = fa
    fb = fb
    na = na
    nb = nb
    foo = foo
    bar = bar
    cpp = cpp
    Null = Null
    NoTail = NoTail
    Tails <- MCTails
    DataTails <- MCDataTails
    Syms <- MCSyms
    Mangled <- MCMangled
    Target <- MCTarget
    Unnamed <- MCUnnamed
    Word = 64
    Files = {fa, fb}
    Names = {na, nb}
    Base <- MCBase
    Images <- MCImages
    Argvs <- MCArgvs
    Dirs <- MCDirs
    HintDisks <- MCHintDisks
    Pops <- MCPops
    Crlf = TRUE
    FreedNext = {"kept"}
INVARIANTS
    TypeOK
    OwnExports
    EachDumpedOnce
    StaleOnlyIfRewritten
    WrittenReadsBack
    CodeBeatsHint
PROPERTIES
    AllInputsReached
CHECK_DEADLOCK FALSE
