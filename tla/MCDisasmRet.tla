---------------------------- MODULE MCDisasmRet -----------------------------
(***************************************************************************)
(* TLC instances of DisasmRet: every program over a small address space.   *)
(***************************************************************************)
EXTENDS DisasmRet

Mk(c, s, j, n, i) == [code |-> c, sz |-> s, jmp |-> j, pop |-> n, imp |-> i]

Unmapped == Mk("c_ill", 0, 0, 0, NoImport)

\* One- and two-byte instructions, jumps and branches to every address, stops
\* with and without an import, and returns popping 0, 1 or an unstated count.
MCInsns ==
    {Unmapped, Mk("c_ret", 1, 0, 0, NoImport)}
    \union {Mk("c_plain", s, 0, 0, NoImport) : s \in {1, 2}}
    \union {Mk(c, 1, a, 0, NoImport) : c \in {"c_jmp", "c_jxx"}, a \in Addr}
    \union {Mk("c_stop", 1, 0, 0, i) : i \in Imports \union {NoImport}}
    \union {Mk("c_retlw", 1, 0, n, NoImport) : n \in 0..MaxPop}

MCFuncs == {1}
=============================================================================
