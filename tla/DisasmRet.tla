----------------------------- MODULE DisasmRet ------------------------------
(***************************************************************************)
(* disassembleRet of gendef.c: find out how many argument bytes a function *)
(* of a 32-bit DLL pops, by following its code from the export's address   *)
(* to a return instruction.  The outer loop takes addresses from a         *)
(* worklist; the inner loop (disassembleRetIntern) decodes along a straight*)
(* line, following unconditional jumps and putting the targets of          *)
(* conditional ones on the worklist.                                       *)
(***************************************************************************)
EXTENDS RetCode, AddrList

CONSTANTS Insns,     \* the instructions programs are made of
          Funcs,     \* the export addresses (dump_def skips address 0)
          NoAnswer

ASSUME InsnsAssumption == Insns \subseteq Insn
ASSUME FuncsAssumption == Funcs \subseteq Addr
ASSUME NoAnswerAssumption ==
    NoAnswer \notin [hasret : BOOLEAN, retpop : Pops, beData : BOOLEAN,
                     pimpname : Imports \union {NoImport}]

VARIABLES prog,            \* the decoded image (constant)
          func,            \* the export's address (constant)
          assume_stdcall,  \* option -a (constant)
          phase,           \* where control is, see Phases
          pc,              \* pc of disassembleRetIntern
          seen,            \* addresses decoded so far
          stack,           \* the worklist
          hasret,
          atleast_one,     \* only its being non-zero is ever read
          retpop,
          pimpname

vars == <<prog, func, assume_stdcall, phase, pc, seen, stack, hasret,
          atleast_one, retpop, pimpname>>
input == <<prog, func, assume_stdcall>>

\* "while": the loop condition of disassembleRet; "intern": the head of the
\* inner loop; "exit": after the outer loop; "done": disassembleRet returned.
Phases == {"while", "intern", "exit", "done"}

Init == /\ prog \in [Addr -> Insns]
        /\ func \in Funcs
        /\ assume_stdcall \in BOOLEAN
        /\ phase = "while"
        /\ pc = func
        /\ seen = InitAddr
        /\ stack = PushAddr(InitAddr, func)
        /\ hasret = FALSE
        /\ atleast_one = FALSE
        /\ retpop = NoPop
        /\ pimpname = NoImport

\* while (!hasret && pop_addr (stack, &pc)): enter disassembleRetIntern.
PopNext == /\ phase = "while"
           /\ ~hasret /\ CanPop(stack)
           /\ pc' = TopAddr(stack)
           /\ stack' = PopAddr(stack)
           /\ phase' = "intern"
           /\ UNCHANGED <<input, seen, hasret, atleast_one, retpop, pimpname>>

LeaveLoop == /\ phase = "while"
             /\ hasret \/ ~CanPop(stack)
             /\ phase' = "exit"
             /\ UNCHANGED <<input, pc, seen, stack, hasret, atleast_one, retpop,
                            pimpname>>

\* push_addr (seen, pc) fails: the address was decoded before, return 0.
AlreadySeen == /\ phase = "intern"
               /\ Holds(seen, pc)
               /\ phase' = "while"
               /\ UNCHANGED <<input, pc, seen, stack, hasret, atleast_one,
                              retpop, pimpname>>

\* push_addr (seen, pc) succeeds and getMemonic decodes one of the given codes.
Enter(codes) == /\ phase = "intern"
                /\ ~Holds(seen, pc)
                /\ Legal(prog[pc])
                /\ prog[pc].code \in codes
                /\ seen' = PushAddr(seen, pc)
                /\ atleast_one' = TRUE
                /\ UNCHANGED input

\* Mutant: undecodable bytes end the whole search.
IllegalEndsSearch ==
    /\ phase = "intern" /\ ~Holds(seen, pc) /\ ~Legal(prog[pc])
    /\ seen' = PushAddr(seen, pc)
    /\ phase' = "exit"
    /\ UNCHANGED <<input, pc, stack, hasret, atleast_one, retpop, pimpname>>

\* !sz || code == c_ill: pc stays in seen, nothing else is recorded.
Illegal == /\ phase = "intern"
           /\ ~Holds(seen, pc)
           /\ ~Legal(prog[pc])
           /\ seen' = PushAddr(seen, pc)
           /\ phase' = "while"
           /\ UNCHANGED <<input, pc, stack, hasret, atleast_one, retpop,
                          pimpname>>

Plain == /\ Enter({"c_plain"})
         /\ pc' = NextPc(pc, prog[pc])
         /\ UNCHANGED <<phase, stack, hasret, retpop, pimpname>>

\* Mutant: a jump is followed without its address being recorded.
JumpUnseen == /\ phase = "intern" /\ ~Holds(seen, pc)
              /\ Legal(prog[pc]) /\ prog[pc].code = "c_jmp"
              /\ pc' = prog[pc].jmp
              /\ atleast_one' = TRUE
              /\ UNCHANGED <<input, phase, seen, stack, hasret, retpop, pimpname>>

Jump == /\ Enter({"c_jmp"})
        /\ pc' = prog[pc].jmp
        /\ UNCHANGED <<phase, stack, hasret, retpop, pimpname>>

\* Mutant: the branch is followed first and the fall-through queued.
BranchTakenFirst == /\ Enter({"c_jxx"})
                    /\ stack' = PushAddr(stack, NextPc(pc, prog[pc]))
                    /\ pc' = prog[pc].jmp
                    /\ UNCHANGED <<phase, hasret, retpop, pimpname>>

Branch == /\ Enter({"c_jxx"})
          /\ stack' = PushAddr(stack, prog[pc].jmp)
          /\ pc' = NextPc(pc, prog[pc])
          /\ UNCHANGED <<phase, hasret, retpop, pimpname>>

\* Mutant: the search runs on behind a far jump (break_it is not set).
StopRunsOn == /\ Enter({"c_stop"})
              /\ pimpname' = IF prog[pc].imp = NoImport THEN pimpname ELSE prog[pc].imp
              /\ pc' = NextPc(pc, prog[pc])
              /\ UNCHANGED <<phase, stack, hasret, retpop>>

\* getMemonic stores the import entry an indirect jmp goes through, and leaves
\* *ppimpname as it was when the operand is not in the import address table.
Stop == /\ Enter({"c_stop"})
        /\ pimpname' = IF prog[pc].imp = NoImport THEN pimpname ELSE prog[pc].imp
        /\ pc' = NextPc(pc, prog[pc])
        /\ phase' = "while"
        /\ UNCHANGED <<stack, hasret, retpop>>

Return == /\ Enter({"c_ret"})
          /\ hasret' = TRUE
          /\ retpop' = IF assume_stdcall THEN 0 ELSE retpop
          /\ pc' = NextPc(pc, prog[pc])
          /\ phase' = "exit"
          /\ UNCHANGED <<stack, pimpname>>

\* Mutant: the operand of "ret imm16" is not stored.
ReturnImmForgets == /\ Enter({"c_retlw"})
                    /\ hasret' = TRUE
                    /\ pc' = NextPc(pc, prog[pc])
                    /\ phase' = "exit"
                    /\ UNCHANGED <<stack, retpop, pimpname>>

ReturnImm == /\ Enter({"c_retlw"})
             /\ hasret' = TRUE
             /\ retpop' = prog[pc].pop
             /\ pc' = NextPc(pc, prog[pc])
             /\ phase' = "exit"
             /\ UNCHANGED <<stack, pimpname>>

\* *seen_ret = hasret; return (atleast_one ? 0 : 1).
Finish == /\ phase = "exit"
          /\ phase' = "done"
          /\ UNCHANGED <<input, pc, seen, stack, hasret, atleast_one, retpop,
                         pimpname>>

beData == ~atleast_one

Next == \/ PopNext \/ LeaveLoop \/ AlreadySeen \/ Illegal
        \/ Plain \/ Jump \/ Branch \/ Stop \/ Return \/ ReturnImm
        \/ Finish

Spec     == Init /\ [][Next]_vars
\* The search is one thread that nothing can block.
FairSpec == Spec /\ WF_vars(Next)
-----------------------------------------------------------------------------
\* Every variable has its type; both lists hold addresses.
TypeOK == /\ prog \in [Addr -> Insn]
          /\ func \in Addr
          /\ assume_stdcall \in BOOLEAN
          /\ phase \in Phases
          /\ pc \in Addr
          /\ seen \in AddrListOf(Addr)
          /\ stack \in AddrListOf(Addr)
          /\ hasret \in BOOLEAN
          /\ atleast_one \in BOOLEAN
          /\ retpop \in Pops
          /\ pimpname \in Imports \union {NoImport}

\* The address lists never store past their allocation, never read past their
\* contents and never hold an address twice (push_addr, pop_addr).
ListsInBounds == WellFormed(seen) /\ WellFormed(stack)

Seen == Members(seen)

\* The search never decodes bytes that control cannot reach from the export:
\* the answer comes from this function's code.
OnlyReachable == \A a \in Seen : Reach(prog, func, a)

\* If disassembleRet says the function does not return ("Check!!! Couldn't
\* determine function argument count. Function doesn't return."), no return
\* instruction is reachable: the worklist forgot nothing.
NoReturnMissed ==
    phase = "done" /\ ~hasret =>
        \A a \in Addr : Reach(prog, func, a) => ~IsRet(prog[a])

\* The byte count printed as @N is the one of a return instruction that was
\* decoded, and none is printed without a return instruction.
RetpopIsOfARet ==
    IF hasret
    THEN \E a \in Seen : /\ IsRet(prog[a])
                         /\ retpop = RetpopOf(prog[a], assume_stdcall)
    ELSE retpop = NoPop

\* An export is printed as DATA exactly when its first instruction is not code;
\* meeting undecodable bytes later on does not make a function data.
DataIffFirstIllegal == phase = "done" => (beData <=> ~Legal(prog[func]))

\* The addresses control reaches in program p from S with no further conditional
\* branch taken, and those it reaches from f with at most k taken.
Straight(p, S) ==
    {a \in Addr : \A T \in SUBSET Addr :
        S \subseteq T /\ (\A t \in T : Follow(p, t) \subseteq T) => a \in T}

WithinTaken(p, f) ==
    LET within[k \in 0..AddrSpace] ==
            IF k = 0 THEN Straight(p, {f})
            ELSE Straight(p, within[k - 1]
                             \union UNION {Taken(p, a) : a \in within[k - 1]})
    IN  within

\* Of several return instructions the search reports one that the fewest taken
\* conditional branches lead to: the worklist is a queue, not a stack.
NearestReturn ==
    phase = "done" /\ hasret =>
        LET within == WithinTaken(prog, func)
        IN  \E k \in 0..AddrSpace :
                /\ \E a \in Seen \cap within[k] :
                       IsRet(prog[a]) /\ retpop = RetpopOf(prog[a], assume_stdcall)
                /\ k > 0 => \A a \in within[k - 1] : ~IsRet(prog[a])

\* Loops in the code are cut by the list of decoded addresses: the search
\* ends for every program.
Terminates == <>(phase = "done")
-----------------------------------------------------------------------------
answer == IF phase = "done"
          THEN [hasret |-> hasret, retpop |-> retpop, beData |-> beData,
                pimpname |-> pimpname]
          ELSE NoAnswer

\* refinement mapping: the answer is what disassembleRet returns, once it does;
\* the other variables of RetSearch are the ones of the same name
Abstract == INSTANCE RetSearch WITH answer <- answer

\* The search, in the order the code makes it, implements the promise of
\* module RetSearch.
Implements == Abstract!ASpec
=============================================================================
