------------------------------ MODULE RetCode -------------------------------
(***************************************************************************)
(* The code of one image as gendef's return search sees it: the decoded    *)
(* instruction at every address (what getMemonic returns for it), and the  *)
(* control flow the search follows.                                        *)
(*                                                                         *)
(* An instruction has a class, a length, a jump target, the byte count of  *)
(* a "ret imm16" and the import-table entry that an indirect jmp goes      *)
(* through.  An address that is not mapped decodes as c_ill with length 0. *)
(* Classes the search treats alike are one class:                          *)
(*   c_plain  every class the switch of disassembleRetIntern falls through *)
(*   c_jmp    c_jmpnjb, c_jmpnjv                                           *)
(*   c_jxx    c_jxx (getMemonic turns c_jxxv into it)                      *)
(*   c_stop   c_jmpfap, c_int3 (an indirect jmp of c_g4 is turned into it) *)
(*   c_ret    c_iret, c_retf, c_retn                                       *)
(*   c_retlw  c_retflw, c_retnlw                                           *)
(***************************************************************************)
EXTENDS Naturals

CONSTANTS AddrSpace,  \* size of the address space, 2^32 in the code
          MaxPop,     \* largest "ret imm16" operand, 65535 in the code
          Imports,    \* the entries of the image's import table
          NoImport    \* the null sImportname pointer

ASSUME AddrSpaceAssumption == AddrSpace \in Nat \ {0}
ASSUME MaxPopAssumption    == MaxPop \in Nat
ASSUME NoImportAssumption  == NoImport \notin Imports

Addr  == 0..(AddrSpace - 1)
Codes == {"c_ill", "c_plain", "c_jmp", "c_jxx", "c_stop", "c_ret", "c_retlw"}

Insn == [code : Codes, sz : Nat, jmp : Addr, pop : 0..MaxPop,
         imp : Imports \union {NoImport}]

\* *retpop == (uint32_t)-1, which no 16-bit operand is equal to.
NoPop == AddrSpace + MaxPop + 1
Pops  == 0..MaxPop \union {NoPop}

Legal(i) == i.sz # 0 /\ i.code # "c_ill"
IsRet(i) == Legal(i) /\ i.code \in {"c_ret", "c_retlw"}
IsStop(i) == Legal(i) /\ i.code = "c_stop"

\* Mutant: the program counter does not wrap.
NextPcNoWrap(pc, i) == pc + i.sz

\* pc += sz on a uint32_t.
NextPc(pc, i) == (pc + i.sz) % AddrSpace

\* *retpop after the return instruction i.
RetpopOf(i, stdcall) ==
    IF i.code = "c_retlw" THEN i.pop ELSE IF stdcall THEN 0 ELSE NoPop

\* The address control reaches without a conditional branch being taken, and
\* every address control reaches.
Follow(p, a) ==
    IF ~Legal(p[a]) \/ IsRet(p[a]) \/ IsStop(p[a]) THEN {}
    ELSE IF p[a].code = "c_jmp" THEN {p[a].jmp} ELSE {NextPc(a, p[a])}
Taken(p, a) == IF Legal(p[a]) /\ p[a].code = "c_jxx" THEN {p[a].jmp} ELSE {}
Succ(p, a)  == Follow(p, a) \union Taken(p, a)

Closed(p, S)    == \A a \in S : Succ(p, a) \subseteq S
\* a is reachable from f: it is in every closed set that holds f.
Reach(p, f, a) == \A S \in SUBSET Addr : f \in S /\ Closed(p, S) => a \in S
=============================================================================
