------------------------------ MODULE MCGendef ------------------------------
(***************************************************************************)
(* TLC instances of Gendef: two input files fa and fb, every combination of  *)
(* images from a small set, four command lines.                            *)
(***************************************************************************)
EXTENDS Gendef

CONSTANTS fa, fb, na, nb, foo, bar, cpp

MCTails == {foo, bar, cpp}
Plain(tail) == [digits |-> <<>>, tail |-> tail]
Number(d)   == [digits |-> d, tail |-> NoTail]

\* foo, bar (with DATA in it), foo@4, and a C++ name
s1 == <<Plain(foo)>>
s2 == <<Plain(bar)>>
s3 == <<Plain(foo), Number(<<4>>)>>
s4 == <<Plain(cpp)>>

MCSyms      == {s1, s2, s3, s4}
MCDataTails == {bar}
MCMangled   == {s4}
MCUnnamed   == {}

MCBase == (fa :> na) @@ (fb :> nb)

To(n, s) == [dll |-> n, sym |-> s, data |-> s = s2]
MCTarget == {To(nb, s2), To(na, s1)}
F(k, p, i) == [kind |-> k, pop |-> p, imp |-> i]
Code(s, f) == [sym |-> s, kind |-> "code", found |-> f, to |-> Null]
Fwd(s, n, t) == [sym |-> s, kind |-> "fwd", found |-> F("none", 0, Null),
                 to |-> To(n, t)]
Data(s)    == [sym |-> s, kind |-> "data", found |-> F("none", 0, Null), to |-> Null]
Img(k, e)  == [kind |-> k, hasdir |-> TRUE, exports |-> e]

MCImages ==
    {[kind |-> "absent", hasdir |-> FALSE, exports |-> <<>>],
     [kind |-> "junk",   hasdir |-> FALSE, exports |-> <<>>],
     [kind |-> "pe",     hasdir |-> FALSE, exports |-> <<>>],
     Img("pe",  <<>>),
     Img("pe",  <<Code(s1, F("imm", 12, To(nb, s2))), Code(s2, F("plain", 0, Null))>>),
     Img("pe",  <<Fwd(s1, nb, s2), Code(s2, F("none", 0, To(na, s1)))>>),
     Img("pe",  <<Code(s1, F("plain", 0, To(na, s1))), Fwd(s2, na, s1)>>),
     Img("pe",  <<Data(s1), Code(s2, F("ill", 0, Null))>>),
     Img("pe",  <<Code(s3, F("imm", 12, Null)), Fwd(s1, na, s1),
                  Code(s4, F("imm", 12, Null))>>),
     Img("pep", <<Code(s1, F("none", 0, Null)), Fwd(s2, nb, s2)>>)}

MCArgvs == {<<fa, fb>>, <<fa, "-a", fb>>, <<"-", "-f", fa, fb>>,
            <<"-I", "d", fb, "-I", "d", fa, "-I">>}

MCDirs == {"d"}
NoFiles == [n \in Names |-> Null]
Ln(s, d) == [name |-> s, term |-> "ws", digits |-> <<>>, data |-> d]
Old  == [lines |-> <<Header, Ln(s1, FALSE), Ln(s2, TRUE)>>, nl |-> TRUE]
Good == [lines |-> <<Header, Ln(s2 \o <<Number(<<1, 8>>)>>, FALSE)>>, nl |-> TRUE]

\* No hint files, a hint file only in d, and one in each directory.
MCHintDisks ==
    {("." :> NoFiles) @@ ("d" :> NoFiles),
     ("." :> NoFiles) @@ ("d" :> [NoFiles EXCEPT ![nb] = Good]),
     ("." :> [NoFiles EXCEPT ![nb] = Old]) @@ ("d" :> [NoFiles EXCEPT ![nb] = Good])}

MCPops == {0, 12}
=============================================================================
