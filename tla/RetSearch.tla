----------------------------- MODULE RetSearch ------------------------------
(***************************************************************************)
(* What disassembleRet promises its caller dump_def, whatever the order in *)
(* which it looks: if the code reachable from the export holds a return    *)
(* instruction it finds one and reports the argument bytes of one that is  *)
(* reachable; if not it says so; and the export is called data exactly     *)
(* when the very first instruction cannot be decoded.                      *)
(***************************************************************************)
EXTENDS RetCode

CONSTANT NoAnswer

VARIABLES prog,             \* the decoded image
          func,             \* the export's address
          assume_stdcall,   \* option -a
          answer            \* NoAnswer, then what disassembleRet returned

avars == <<prog, func, assume_stdcall, answer>>

Answers ==
    {r \in [hasret : BOOLEAN, retpop : Pops, beData : BOOLEAN,
            pimpname : Imports \union {NoImport}] :
        /\ r.beData <=> ~Legal(prog[func])
        /\ IF r.hasret
           THEN \E a \in Addr : /\ Reach(prog, func, a)
                                /\ IsRet(prog[a])
                                /\ r.retpop = RetpopOf(prog[a], assume_stdcall)
           ELSE /\ r.retpop = NoPop
                /\ \A a \in Addr : Reach(prog, func, a) => ~IsRet(prog[a])
        /\ r.pimpname = NoImport
           \/ \E a \in Addr : /\ Reach(prog, func, a)
                              /\ IsStop(prog[a])
                              /\ r.pimpname = prog[a].imp}

AInit == /\ prog \in [Addr -> Insn]
         /\ func \in Addr
         /\ assume_stdcall \in BOOLEAN
         /\ answer = NoAnswer

Answer == /\ answer = NoAnswer
          /\ answer' \in Answers
          /\ UNCHANGED <<prog, func, assume_stdcall>>

ASpec == AInit /\ [][Answer]_avars
=============================================================================
