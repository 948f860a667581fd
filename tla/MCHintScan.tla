----------------------------- MODULE MCHintScan -----------------------------
(***************************************************************************)
(* TLC instance of HintScan: all texts of at most three lines over four    *)
(* names, two of which begin with a third.                                 *)
(***************************************************************************)
EXTENDS HintScan

CONSTANTS foo, hasdata

MCTails == {foo, hasdata}
MCDataTails == {hasdata}

Plain(tail) == [digits |-> <<>>, tail |-> tail]
Number(d)   == [digits |-> d, tail |-> NoTail]

\* foo, foo@4, and one with DATA in it
MCSyms == {<<Plain(foo)>>, <<Plain(foo), Number(<<4>>)>>, <<Plain(hasdata)>>}
MCNames == MCSyms \union {<<Plain(foo), Number(<<9, 9>>)>>}

Bare(n)      == [name |-> n, term |-> "lf", digits |-> <<>>, data |-> FALSE]
Spaced(n, g, d) == [name |-> n, term |-> "ws", digits |-> g, data |-> d]

MCLines == {Bare(n) : n \in MCNames}
           \union {Spaced(n, <<>>, d) : n \in MCNames \union {<<>>}, d \in BOOLEAN}
           \union {Spaced(n, <<1, 2>>, FALSE) : n \in MCSyms}

MCTexts == {[lines |-> l, nl |-> b] : l \in SeqOf(MCLines, 3), b \in BOOLEAN}
=============================================================================
