-------------------------- MODULE DisasmRetProofs ---------------------------
(***************************************************************************)
(* TLAPS proofs about DisasmRet, for every address space, program, export  *)
(* address and allocation chunk.                                           *)
(***************************************************************************)
EXTENDS DisasmRet, LeastNumber, FiniteSetTheorems

Popped(ad) == {ad.ptrs[i] : i \in 1..ad.idx}

\* The addresses the inner loop will still look at.
Current == IF phase = "intern" THEN {pc} ELSE {}

\* Whatever is decoded, queued or about to be decoded is reachable.
Reached == \A S \in SUBSET Addr :
              func \in S /\ Closed(prog, S) =>
                 /\ Seen \subseteq S
                 /\ Members(stack) \subseteq S
                 /\ Current \subseteq S

\* Nothing control can reach next from a decoded instruction is forgotten.
Frontier == /\ func \in Members(stack)
            /\ Popped(stack) \subseteq Seen \union Current
            /\ \A a \in Seen : Succ(prog, a) \subseteq
                                  Seen \union Pending(stack) \union Current
            /\ phase \in {"exit", "done"} /\ ~hasret => Pending(stack) = {}

RetFound == IF hasret
            THEN /\ phase \in {"exit", "done"}
                 /\ \E a \in Seen : /\ IsRet(prog[a])
                                    /\ retpop = RetpopOf(prog[a], assume_stdcall)
            ELSE /\ \A a \in Seen : ~IsRet(prog[a])
                 /\ retpop = NoPop

\* atleast_one tells whether the first instruction was decoded; if it was not,
\* the search is over.
First == IF func \in Seen
         THEN /\ atleast_one <=> Legal(prog[func])
              /\ ~atleast_one => ~CanPop(stack) /\ phase # "intern"
         ELSE /\ ~atleast_one
              /\ phase \in {"while", "intern"}
              /\ ~hasret
              /\ stack.ptrs = <<func>>
              /\ phase = "while" => stack.idx = 0
              /\ phase = "intern" => pc = func /\ stack.idx = 1

ImportFound == \/ pimpname = NoImport
               \/ \E a \in Seen : IsStop(prog[a]) /\ pimpname = prog[a].imp

IInv == /\ TypeOK
        /\ ListsInBounds
        /\ Reached
        /\ Frontier
        /\ RetFound
        /\ First
        /\ ImportFound
-----------------------------------------------------------------------------
(* The address list. *)

LEMMA HoldsMembers ==
    ASSUME NEW ad, NEW val
    PROVE  Holds(ad, val) <=> val \in Members(ad)
BY DEF Holds, Members

\* push_addr adds the address, keeps the list well formed and the read
\* position where it was.
LEMMA PushFacts ==
    ASSUME NEW A, NEW ad \in AddrListOf(A), NEW val \in A, WellFormed(ad)
    PROVE  /\ PushAddr(ad, val) \in AddrListOf(A)
           /\ WellFormed(PushAddr(ad, val))
           /\ Members(PushAddr(ad, val)) = Members(ad) \union {val}
           /\ Popped(PushAddr(ad, val)) = Popped(ad)
           /\ Pending(ad) \subseteq Pending(PushAddr(ad, val))
           /\ Pending(PushAddr(ad, val)) \subseteq Pending(ad) \union {val}
           /\ PushAddr(ad, val).idx = ad.idx
<1>1. CASE Holds(ad, val)
  BY <1>1 DEF PushAddr, Holds, Members
<1>2. CASE ~Holds(ad, val)
  <2> DEFINE new == PushAddr(ad, val)
             n   == Len(ad.ptrs)
  <2>1. new = [ad EXCEPT !.ptrs = Append(@, val), !.max = Grown(ad)]
    BY <1>2 DEF PushAddr
  <2>2. /\ ad.ptrs \in Seq(A) /\ ad.max \in Nat /\ ad.idx \in Nat
        /\ n \in Nat /\ n <= ad.max /\ ad.idx <= n
    BY DEF AddrListOf, WellFormed
  <2>3. /\ new.ptrs = Append(ad.ptrs, val)
        /\ new.max = Grown(ad)
        /\ new.idx = ad.idx
    BY <2>1 DEF AddrListOf
  <2>4. /\ Len(new.ptrs) = n + 1
        /\ \A i \in 1..n : new.ptrs[i] = ad.ptrs[i]
        /\ new.ptrs[n + 1] = val
        /\ new.ptrs \in Seq(A)
    BY <2>2, <2>3
  <2>5. Grown(ad) \in Nat /\ n + 1 <= Grown(ad)
    BY <2>2, ChunkAssumption DEF Grown
  <2>6. new \in AddrListOf(A)
    BY <2>1, <2>2, <2>3, <2>4, <2>5 DEF AddrListOf
  <2>7. \A i \in 1..n : ad.ptrs[i] # val
    BY <1>2 DEF Holds
  <2>8. WellFormed(new)
    <3>1. ASSUME NEW i \in 1..(n + 1), NEW j \in 1..(n + 1),
                 new.ptrs[i] = new.ptrs[j]
          PROVE  i = j
      <4>1. \A k, l \in 1..n : ad.ptrs[k] = ad.ptrs[l] => k = l
        BY DEF WellFormed
      <4> HIDE DEF new
      <4>2. CASE i \in 1..n /\ j \in 1..n
        BY <2>4, <3>1, <4>1, <4>2
      <4>3. \A k \in 1..n : new.ptrs[k] # new.ptrs[n + 1]
        BY <2>4, <2>7
      <4>4. i \in 1..n \/ i = n + 1
        BY <2>2
      <4>5. j \in 1..n \/ j = n + 1
        BY <2>2
      <4> HIDE DEF n
      <4>6. CASE i = n + 1
        BY <3>1, <4>3, <4>5, <4>6
      <4>7. CASE j = n + 1
        BY <3>1, <4>3, <4>4, <4>7
      <4> QED
        BY <4>2, <4>4, <4>5, <4>6, <4>7
    <3> QED
      BY <2>2, <2>3, <2>4, <2>5, <3>1 DEF WellFormed
  <2>9. 1..(n + 1) = 1..n \union {n + 1}
    BY <2>2
  <2>10. Members(new) = Members(ad) \union {val}
    BY <2>4, <2>9 DEF Members
  <2>11. Popped(new) = Popped(ad)
    BY <2>2, <2>3, <2>4 DEF Popped
  <2>12. /\ Pending(ad) \subseteq Pending(new)
         /\ Pending(new) \subseteq Pending(ad) \union {val}
    BY <2>2, <2>3, <2>4 DEF Pending
  <2> QED
    BY <2>3, <2>6, <2>8, <2>10, <2>11, <2>12
<1> QED
  BY <1>1, <1>2

\* What push_addr adds to a list is pending unless it had been popped before.
LEMMA PushPends ==
    ASSUME NEW A, NEW ad \in AddrListOf(A), NEW val \in A, WellFormed(ad)
    PROVE  /\ Members(ad) = Popped(ad) \union Pending(ad)
           /\ val \in Popped(ad) \union Pending(PushAddr(ad, val))
<1>1. /\ ad.ptrs \in Seq(A) /\ ad.idx \in Nat
      /\ Len(ad.ptrs) \in Nat /\ ad.idx <= Len(ad.ptrs)
  BY DEF AddrListOf, WellFormed
<1>2. 1..Len(ad.ptrs) = 1..ad.idx \union (ad.idx + 1)..Len(ad.ptrs)
  BY <1>1
<1>3. Members(ad) = Popped(ad) \union Pending(ad)
  BY <1>2 DEF Members, Popped, Pending
<1>4. PushAddr(ad, val) \in AddrListOf(A) /\ WellFormed(PushAddr(ad, val))
  BY PushFacts
<1>5. /\ Members(PushAddr(ad, val)) = Members(ad) \union {val}
      /\ Popped(PushAddr(ad, val)) = Popped(ad)
      /\ PushAddr(ad, val).idx = ad.idx
  BY PushFacts
<1> DEFINE new == PushAddr(ad, val)
<1>6. 1..Len(new.ptrs) = 1..new.idx \union (new.idx + 1)..Len(new.ptrs)
  BY <1>4 DEF AddrListOf, WellFormed
<1>7. Members(new) = Popped(new) \union Pending(new)
  BY <1>6 DEF Members, Popped, Pending
<1> QED
  BY <1>3, <1>5, <1>7

\* pop_addr moves the first pending address to the popped ones.
LEMMA PopFacts ==
    ASSUME NEW A, NEW ad \in AddrListOf(A), WellFormed(ad), CanPop(ad)
    PROVE  /\ TopAddr(ad) \in A
           /\ TopAddr(ad) \in Members(ad)
           /\ PopAddr(ad) \in AddrListOf(A)
           /\ WellFormed(PopAddr(ad))
           /\ Members(PopAddr(ad)) = Members(ad)
           /\ Popped(PopAddr(ad)) = Popped(ad) \union {TopAddr(ad)}
           /\ Pending(ad) = Pending(PopAddr(ad)) \union {TopAddr(ad)}
           /\ PopAddr(ad).ptrs = ad.ptrs
           /\ PopAddr(ad).idx = ad.idx + 1
<1>1. /\ ad.ptrs \in Seq(A) /\ ad.max \in Nat /\ ad.idx \in Nat
      /\ Len(ad.ptrs) \in Nat /\ ad.idx < Len(ad.ptrs)
  BY DEF AddrListOf, WellFormed, CanPop
<1>2. ad.idx + 1 \in 1..Len(ad.ptrs)
  BY <1>1
<1>3. /\ PopAddr(ad).ptrs = ad.ptrs
      /\ PopAddr(ad).idx = ad.idx + 1
      /\ PopAddr(ad).max = ad.max
      /\ PopAddr(ad) \in AddrListOf(A)
  BY <1>1 DEF PopAddr, AddrListOf
<1>4. WellFormed(PopAddr(ad))
  BY <1>1, <1>3 DEF WellFormed
<1>5. Members(PopAddr(ad)) = Members(ad)
  BY <1>3 DEF Members
<1>6. Popped(PopAddr(ad)) = Popped(ad) \union {TopAddr(ad)}
  <2>1. 1..(ad.idx + 1) = 1..ad.idx \union {ad.idx + 1}
    BY <1>1
  <2> QED
    BY <1>3, <2>1 DEF Popped, TopAddr
<1>7. Pending(ad) = Pending(PopAddr(ad)) \union {TopAddr(ad)}
  <2>1. (ad.idx + 1)..Len(ad.ptrs)
          = (ad.idx + 1 + 1)..Len(ad.ptrs) \union {ad.idx + 1}
    BY <1>1
  <2> QED
    BY <1>3, <2>1 DEF Pending, TopAddr
<1> QED
  BY <1>1, <1>2, <1>3, <1>4, <1>5, <1>6, <1>7 DEF TopAddr, Members
-----------------------------------------------------------------------------
(* Types, and the lists stay well formed. *)

LEMMA InitPush ==
    ASSUME NEW a \in Addr
    PROVE  /\ InitAddr \in AddrListOf(Addr) /\ WellFormed(InitAddr)
           /\ Members(InitAddr) = {} /\ Popped(InitAddr) = {}
           /\ PushAddr(InitAddr, a).ptrs = <<a>>
           /\ PushAddr(InitAddr, a).idx = 0
<1>1. InitAddr \in AddrListOf(Addr) /\ WellFormed(InitAddr)
  BY ChunkAssumption DEF InitAddr, AddrListOf, WellFormed
<1>2. Members(InitAddr) = {} /\ Popped(InitAddr) = {}
  BY DEF InitAddr, Members, Popped
<1>3. ~Holds(InitAddr, a)
  BY DEF InitAddr, Holds
<1>4. PushAddr(InitAddr, a).ptrs = <<a>> /\ PushAddr(InitAddr, a).idx = 0
  BY <1>3 DEF PushAddr, InitAddr
<1> QED
  BY <1>1, <1>2, <1>4

LEMMA NextPcType ==
    ASSUME NEW a \in Addr, NEW i \in Insn
    PROVE  NextPc(a, i) \in Addr
BY AddrSpaceAssumption DEF NextPc, Addr, Insn

LEMMA TypeInit == Init => TypeOK /\ ListsInBounds
<1> SUFFICES ASSUME Init PROVE TypeOK /\ ListsInBounds
  OBVIOUS
<1>1. prog \in [Addr -> Insn] /\ func \in Addr
  BY InsnsAssumption, FuncsAssumption DEF Init
<1>2. stack \in AddrListOf(Addr) /\ WellFormed(stack)
  BY <1>1, InitPush, PushFacts DEF Init
<1>3. seen \in AddrListOf(Addr) /\ WellFormed(seen)
  BY <1>1, InitPush DEF Init
<1> QED
  BY <1>1, <1>2, <1>3 DEF Init, TypeOK, ListsInBounds, Phases, Pops

LEMMA TypeStep ==
    ASSUME TypeOK, ListsInBounds, [Next]_vars
    PROVE  TypeOK' /\ ListsInBounds'
<1> USE DEF TypeOK, ListsInBounds
<1>0. CASE UNCHANGED vars
  BY <1>0 DEF vars
<1>a. prog[pc] \in Insn /\ NextPc(pc, prog[pc]) \in Addr
  BY NextPcType
<1>b. PushAddr(seen, pc) \in AddrListOf(Addr) /\ WellFormed(PushAddr(seen, pc))
  BY PushFacts
<1>c. prog[pc].jmp \in Addr /\ prog[pc].pop \in Pops
      /\ prog[pc].imp \in Imports \union {NoImport}
  BY <1>a DEF Insn, Pops
<1>1. CASE PopNext
  <2>1. /\ TopAddr(stack) \in Addr
        /\ PopAddr(stack) \in AddrListOf(Addr) /\ WellFormed(PopAddr(stack))
    BY <1>1, PopFacts DEF PopNext
  <2> QED
    BY <1>1, <2>1 DEF PopNext, input, Phases
<1>2. CASE LeaveLoop
  BY <1>2 DEF LeaveLoop, input, Phases
<1>3. CASE AlreadySeen
  BY <1>3 DEF AlreadySeen, input, Phases
<1>4. CASE Illegal
  BY <1>4, <1>b DEF Illegal, input, Phases
<1>5. CASE Plain
  BY <1>5, <1>a, <1>b DEF Plain, Enter, input
<1>6. CASE Jump
  BY <1>6, <1>b, <1>c DEF Jump, Enter, input
<1>7. CASE Branch
  <2>1. /\ PushAddr(stack, prog[pc].jmp) \in AddrListOf(Addr)
        /\ WellFormed(PushAddr(stack, prog[pc].jmp))
    BY <1>c, PushFacts
  <2> QED
    BY <1>7, <1>a, <1>b, <2>1 DEF Branch, Enter, input
<1>8. CASE Stop
  BY <1>8, <1>a, <1>b, <1>c DEF Stop, Enter, input, Phases
<1>9. CASE Return
  BY <1>9, <1>a, <1>b, MaxPopAssumption DEF Return, Enter, input, Phases, Pops
<1>10. CASE ReturnImm
  BY <1>10, <1>a, <1>b, <1>c DEF ReturnImm, Enter, input, Phases
<1>11. CASE Finish
  BY <1>11 DEF Finish, input, Phases
<1> QED
  BY <1>0, <1>1, <1>2, <1>3, <1>4, <1>5, <1>6, <1>7, <1>8, <1>9, <1>10, <1>11
     DEF Next

\* Type correctness of the search.
THEOREM TypeCorrect == Spec => []TypeOK
<1>1. Init => TypeOK /\ ListsInBounds
  BY TypeInit
<1>2. TypeOK /\ ListsInBounds /\ [Next]_vars => TypeOK' /\ ListsInBounds'
  BY TypeStep
<1> QED
  BY <1>1, <1>2, PTL DEF Spec

\* The address lists of gendef never overrun their arrays and never hold an
\* address twice, whatever the program and the allocation chunk.
THEOREM ListsStayInBounds == Spec => []ListsInBounds
<1>1. Init => TypeOK /\ ListsInBounds
  BY TypeInit
<1>2. TypeOK /\ ListsInBounds /\ [Next]_vars => TypeOK' /\ ListsInBounds'
  BY TypeStep
<1> QED
  BY <1>1, <1>2, PTL DEF Spec
-----------------------------------------------------------------------------
(* The search, abstracted to sets: which addresses are decoded and pending. *)

\* The insn at pc is decoded: pc joins the decoded addresses.
LEMMA SeenGrows ==
    ASSUME TypeOK, ListsInBounds, seen' = PushAddr(seen, pc)
    PROVE  Seen' = Seen \union {pc}
BY PushFacts DEF TypeOK, ListsInBounds, Seen

LEMMA SuccType ==
    ASSUME TypeOK, NEW a \in Addr
    PROVE  Succ(prog, a) \subseteq Addr
<1>1. prog[a] \in Insn
  BY DEF TypeOK
<1> QED
  BY <1>1, NextPcType DEF Succ, Follow, Taken, Insn

\* What the classes of instructions lead to.
LEMMA SuccOfClass ==
    ASSUME TypeOK, Legal(prog[pc])
    PROVE  /\ prog[pc].code = "c_plain" =>
                 Succ(prog, pc) = {NextPc(pc, prog[pc])}
           /\ prog[pc].code = "c_jmp" => Succ(prog, pc) = {prog[pc].jmp}
           /\ prog[pc].code = "c_jxx" =>
                 Succ(prog, pc) = {NextPc(pc, prog[pc]), prog[pc].jmp}
           /\ prog[pc].code \in {"c_stop", "c_ret", "c_retlw"} =>
                 Succ(prog, pc) = {}
BY DEF Succ, Follow, Taken, IsRet, IsStop

LEMMA SuccOfIllegal ==
    ASSUME ~Legal(prog[pc])
    PROVE  Succ(prog, pc) = {}
BY DEF Succ, Follow, Taken
-----------------------------------------------------------------------------
(* The inductive invariant. *)

LEMMA InitInv == Init => IInv
<1> SUFFICES ASSUME Init PROVE IInv
  OBVIOUS
<1>1. TypeOK /\ ListsInBounds
  BY TypeInit
<1>2. func \in Addr /\ phase = "while" /\ ~hasret /\ ~atleast_one
      /\ retpop = NoPop /\ pimpname = NoImport
  BY <1>1 DEF Init, TypeOK
<1>3. Seen = {}
  BY <1>2, InitPush DEF Init, Seen
<1>4. Members(stack) = {func} /\ Popped(stack) = {}
  BY <1>2, InitPush, PushFacts DEF Init
<1>5. stack.ptrs = <<func>> /\ stack.idx = 0
  BY <1>2, InitPush DEF Init
<1>6. Reached
  BY <1>2, <1>3, <1>4 DEF Reached, Current
<1>7. Frontier
  BY <1>2, <1>3, <1>4 DEF Frontier
<1>8. RetFound
  BY <1>2, <1>3 DEF RetFound
<1>9. First
  BY <1>2, <1>3, <1>5 DEF First
<1>10. ImportFound
  BY <1>2 DEF ImportFound
<1> QED
  BY <1>1, <1>6, <1>7, <1>8, <1>9, <1>10 DEF IInv

LEMMA ReachedStep == IInv /\ [Next]_vars => Reached'
<1> SUFFICES ASSUME IInv, [Next]_vars PROVE Reached'
  OBVIOUS
<1> USE DEF IInv
<1>t. TypeOK /\ ListsInBounds /\ Reached /\ pc \in Addr
  BY DEF TypeOK
<1>0. CASE UNCHANGED vars
  BY <1>0, <1>t DEF vars, Reached, Seen, Current
<1>g. prog' = prog /\ func' = func
  BY <1>0 DEF Next, PopNext, LeaveLoop, AlreadySeen, Illegal, Plain, Jump, Branch,
     Stop, Return, ReturnImm, Finish, Enter, input, vars
<1> SUFFICES ASSUME NEW S \in SUBSET Addr, func \in S, Closed(prog, S)
             PROVE  (Seen \subseteq S /\ Members(stack) \subseteq S
                       /\ Current \subseteq S)'
  BY <1>g DEF Reached, Closed
<1>s. Seen \subseteq S /\ Members(stack) \subseteq S /\ Current \subseteq S
  BY <1>t DEF Reached
<1>1. CASE PopNext
  BY <1>1, <1>s, <1>t, PopFacts DEF PopNext, Seen, Current, TypeOK, ListsInBounds
<1>2. CASE LeaveLoop \/ AlreadySeen \/ Finish
  BY <1>2, <1>s DEF LeaveLoop, AlreadySeen, Finish, Seen, Current
<1>3. ASSUME phase = "intern", seen' = PushAddr(seen, pc)
      PROVE  Seen' \subseteq S /\ pc \in S /\ Succ(prog, pc) \subseteq S
  BY <1>3, <1>s, <1>t, SeenGrows DEF Current, Closed
<1>4. CASE Illegal
  BY <1>4, <1>3, <1>s DEF Illegal, Current
<1>5. CASE Plain
  BY <1>5, <1>3, <1>s, <1>t, SuccOfClass DEF Plain, Enter, Current
<1>6. CASE Jump
  BY <1>6, <1>3, <1>s, <1>t, SuccOfClass DEF Jump, Enter, Current
<1>7. CASE Branch
  <2>1. prog[pc].jmp \in Addr
    BY <1>t DEF TypeOK, Insn
  <2>2. Members(stack') = Members(stack) \union {prog[pc].jmp}
    BY <1>7, <1>t, <2>1, PushFacts DEF Branch, TypeOK, ListsInBounds
  <2>3. Succ(prog, pc) = {NextPc(pc, prog[pc]), prog[pc].jmp}
    BY <1>7, <1>t, SuccOfClass DEF Branch, Enter
  <2> QED
    BY <1>7, <1>3, <1>s, <2>2, <2>3 DEF Branch, Enter, Current
<1>8. CASE Stop \/ Return \/ ReturnImm
  BY <1>8, <1>3, <1>s DEF Stop, Return, ReturnImm, Enter, Current
<1> QED
  BY <1>0, <1>1, <1>2, <1>4, <1>5, <1>6, <1>7, <1>8, <1>s, <1>t DEF Next, vars,
     Seen, Current

LEMMA FrontierStep == IInv /\ [Next]_vars => Frontier'
<1> SUFFICES ASSUME IInv, [Next]_vars PROVE Frontier'
  OBVIOUS
<1>t. TypeOK /\ ListsInBounds /\ Frontier /\ pc \in Addr
  BY DEF IInv, TypeOK
<1>0. CASE UNCHANGED vars
  BY <1>0, <1>t DEF vars, Frontier, Seen, Current
<1>1. CASE PopNext
  <2>1. /\ Members(stack') = Members(stack)
        /\ Popped(stack') = Popped(stack) \union {pc'}
        /\ Pending(stack) = Pending(stack') \union {pc'}
    BY <1>1, <1>t, PopFacts DEF PopNext, TypeOK, ListsInBounds
  <2>2. Seen' = Seen /\ Current = {} /\ Current' = {pc'}
    BY <1>1 DEF PopNext, Seen, Current
  <2> QED
    BY <1>1, <1>t, <2>1, <2>2 DEF PopNext, Frontier, input
<1>2. CASE LeaveLoop
  <2>1. ~CanPop(stack) => Pending(stack) = {}
    BY <1>t DEF CanPop, Pending, TypeOK, AddrListOf
  <2> QED
    BY <1>2, <1>t, <2>1 DEF LeaveLoop, Frontier, Seen, Current, input
<1>3. CASE AlreadySeen
  <2>1. pc \in Seen
    BY <1>3, HoldsMembers DEF AlreadySeen, Seen
  <2> QED
    BY <1>3, <1>t, <2>1 DEF AlreadySeen, Frontier, Seen, Current, input
<1>4. CASE Illegal
  <2>1. Seen' = Seen \union {pc}
    BY <1>4, <1>t, SeenGrows DEF Illegal
  <2>2. Succ(prog, pc) = {}
    BY <1>4, SuccOfIllegal DEF Illegal
  <2> QED
    BY <1>4, <1>t, <2>1, <2>2 DEF Illegal, Frontier, Current, input
<1>e. ASSUME phase = "intern", seen' = PushAddr(seen, pc), prog' = prog,
             func' = func, stack' = stack, hasret' \/ phase' \notin {"exit", "done"},
             Succ(prog, pc) \subseteq Current'
      PROVE  Frontier'
  <2>1. Seen' = Seen \union {pc}
    BY <1>e, <1>t, SeenGrows
  <2> QED
    BY <1>e, <1>t, <2>1 DEF Frontier, Current
<1>5. CASE Plain \/ Jump
  <2>1. Succ(prog, pc) \subseteq {pc'}
    BY <1>5, <1>t, SuccOfClass DEF Plain, Jump, Enter
  <2>2. Current' = {pc'} /\ phase' = "intern"
    BY <1>5 DEF Plain, Jump, Enter, Current
  <2> QED
    BY <1>5, <1>e, <2>1, <2>2 DEF Plain, Jump, Enter, input
<1>6. CASE Stop \/ Return \/ ReturnImm
  <2>1. Succ(prog, pc) = {}
    BY <1>6, <1>t, SuccOfClass DEF Stop, Return, ReturnImm, Enter
  <2> QED
    BY <1>6, <1>e, <2>1 DEF Stop, Return, ReturnImm, Enter, input
<1>7. CASE Branch
  <2>1. prog[pc].jmp \in Addr
    BY <1>t DEF TypeOK, Insn
  <2>2. /\ Members(stack') = Members(stack) \union {prog[pc].jmp}
        /\ Popped(stack') = Popped(stack)
        /\ Pending(stack) \subseteq Pending(stack')
    BY <1>7, <1>t, <2>1, PushFacts, SMTT(30) DEF Branch, TypeOK, ListsInBounds
  <2>3. prog[pc].jmp \in Popped(stack) \union Pending(stack')
    BY <1>7, <1>t, <2>1, PushPends DEF Branch, TypeOK, ListsInBounds
  <2>4. Succ(prog, pc) = {pc', prog[pc].jmp}
    BY <1>7, <1>t, SuccOfClass DEF Branch, Enter
  <2>5. Seen' = Seen \union {pc} /\ Current = {pc} /\ Current' = {pc'}
    BY <1>7, <1>t, SeenGrows DEF Branch, Enter, Current
  <2>6. phase' = "intern" /\ prog' = prog /\ func' = func
    BY <1>7 DEF Branch, Enter, input
  <2> QED
    BY <1>t, <2>2, <2>3, <2>4, <2>5, <2>6 DEF Frontier
<1>8. CASE Finish
  BY <1>8, <1>t DEF Finish, Frontier, Seen, Current, input
<1> QED
  BY <1>0, <1>1, <1>2, <1>3, <1>4, <1>5, <1>6, <1>7, <1>8 DEF Next

LEMMA RetFoundStep == IInv /\ [Next]_vars => RetFound'
<1> SUFFICES ASSUME IInv, [Next]_vars PROVE RetFound'
  OBVIOUS
<1>t. TypeOK /\ ListsInBounds /\ RetFound /\ pc \in Addr
  BY DEF IInv, TypeOK
<1>0. CASE UNCHANGED vars
  BY <1>0, <1>t DEF vars, RetFound, Seen
<1>1. CASE PopNext \/ LeaveLoop \/ AlreadySeen \/ Finish
  BY <1>1, <1>t DEF PopNext, LeaveLoop, AlreadySeen, Finish, RetFound, Seen, input
<1>2. CASE Illegal \/ Plain \/ Jump \/ Branch \/ Stop
  <2>1. Seen' = Seen \union {pc}
    BY <1>2, <1>t, SeenGrows DEF Illegal, Plain, Jump, Branch, Stop, Enter
  <2>2. ~IsRet(prog[pc])
    BY <1>2 DEF Illegal, Plain, Jump, Branch, Stop, Enter, IsRet
  <2>3. /\ prog' = prog /\ assume_stdcall' = assume_stdcall
        /\ hasret' = hasret /\ retpop' = retpop /\ phase = "intern"
    BY <1>2 DEF Illegal, Plain, Jump, Branch, Stop, Enter, input
  <2> QED
    BY <1>t, <2>1, <2>2, <2>3 DEF RetFound
<1>3. CASE Return \/ ReturnImm
  <2>1. Seen' = Seen \union {pc}
    BY <1>3, <1>t, SeenGrows DEF Return, ReturnImm, Enter
  <2>2. IsRet(prog[pc]) /\ phase = "intern"
    BY <1>3 DEF Return, ReturnImm, Enter, IsRet
  <2>3. retpop = NoPop
    BY <1>t, <2>2 DEF RetFound
  <2>4. retpop' = RetpopOf(prog[pc], assume_stdcall)
    BY <1>3, <2>3 DEF Return, ReturnImm, Enter, RetpopOf
  <2>5. prog' = prog /\ assume_stdcall' = assume_stdcall
        /\ hasret' /\ phase' = "exit"
    BY <1>3 DEF Return, ReturnImm, Enter, input
  <2> QED
    BY <2>1, <2>2, <2>4, <2>5 DEF RetFound
<1> QED
  BY <1>0, <1>1, <1>2, <1>3 DEF Next

LEMMA FirstStep == IInv /\ [Next]_vars => First'
<1> SUFFICES ASSUME IInv, [Next]_vars PROVE First'
  OBVIOUS
<1>t. TypeOK /\ ListsInBounds /\ First /\ pc \in Addr
  BY DEF IInv, TypeOK
<1>0. CASE UNCHANGED vars
  BY <1>0, <1>t DEF vars, First, Seen, CanPop
<1>1. CASE PopNext
  <2>1. /\ stack'.ptrs = stack.ptrs /\ stack'.idx = stack.idx + 1
        /\ pc' = stack.ptrs[stack.idx + 1]
    BY <1>1, <1>t, PopFacts DEF PopNext, TypeOK, ListsInBounds, TopAddr
  <2> QED
    BY <1>1, <1>t, <2>1 DEF PopNext, First, Seen, CanPop, input
<1>2. CASE LeaveLoop
  BY <1>2, <1>t DEF LeaveLoop, First, Seen, CanPop, input
<1>3. CASE AlreadySeen
  <2>1. pc \in Seen
    BY <1>3, HoldsMembers DEF AlreadySeen, Seen
  <2> QED
    BY <1>3, <1>t, <2>1 DEF AlreadySeen, First, Seen, CanPop, input
<1>4. CASE Illegal
  <2>1. Seen' = Seen \union {pc}
    BY <1>4, <1>t, SeenGrows DEF Illegal
  <2>2. func \notin Seen => ~CanPop(stack)
    BY <1>4, <1>t DEF Illegal, First, CanPop
  <2> QED
    BY <1>4, <1>t, <2>1, <2>2 DEF Illegal, First, CanPop, input
<1>5. CASE \E c \in SUBSET Codes : Enter(c)
  <2>1. Seen' = Seen \union {pc} /\ phase = "intern" /\ Legal(prog[pc])
        /\ atleast_one' /\ prog' = prog /\ func' = func
    BY <1>5, <1>t, SeenGrows DEF Enter, input
  <2>2. func \in Seen => Legal(prog[func])
    BY <1>t, <2>1 DEF First
  <2>3. func \notin Seen => pc = func
    BY <1>t, <2>1 DEF First
  <2> QED
    BY <2>1, <2>2, <2>3 DEF First
<1>6. CASE Plain \/ Jump \/ Branch \/ Stop \/ Return \/ ReturnImm
  BY <1>5, <1>6 DEF Plain, Jump, Branch, Stop, Return, ReturnImm, Codes
<1>7. CASE Finish
  BY <1>7, <1>t DEF Finish, First, Seen, CanPop, input
<1> QED
  BY <1>0, <1>1, <1>2, <1>3, <1>4, <1>6, <1>7 DEF Next

LEMMA ImportStep == IInv /\ [Next]_vars => ImportFound'
<1> SUFFICES ASSUME IInv, [Next]_vars PROVE ImportFound'
  OBVIOUS
<1>t. TypeOK /\ ListsInBounds /\ ImportFound /\ pc \in Addr
  BY DEF IInv, TypeOK
<1>0. CASE UNCHANGED vars
  BY <1>0, <1>t DEF vars, ImportFound, Seen
<1>1. CASE PopNext \/ LeaveLoop \/ AlreadySeen \/ Finish
  BY <1>1, <1>t DEF PopNext, LeaveLoop, AlreadySeen, Finish, ImportFound, Seen, input
<1>2. CASE Illegal \/ Plain \/ Jump \/ Branch \/ Return \/ ReturnImm
  <2>1. Seen' = Seen \union {pc} /\ prog' = prog /\ pimpname' = pimpname
    BY <1>2, <1>t, SeenGrows DEF Illegal, Plain, Jump, Branch, Return, ReturnImm,
       Enter, input
  <2> QED
    BY <1>t, <2>1 DEF ImportFound
<1>3. CASE Stop
  <2>1. Seen' = Seen \union {pc} /\ prog' = prog /\ IsStop(prog[pc])
    BY <1>3, <1>t, SeenGrows DEF Stop, Enter, input, IsStop
  <2> QED
    BY <1>3, <1>t, <2>1 DEF Stop, ImportFound
<1> QED
  BY <1>0, <1>1, <1>2, <1>3 DEF Next

THEOREM Invariant == Spec => []IInv
<1>1. IInv /\ [Next]_vars => IInv'
  BY TypeStep, ReachedStep, FrontierStep, RetFoundStep, FirstStep, ImportStep
     DEF IInv
<1> QED
  BY <1>1, InitInv, PTL DEF Spec
-----------------------------------------------------------------------------
(* What the invariant says about the answer. *)

\* Every decoded address is reachable from the export, for every program.
THEOREM Soundness == Spec => []OnlyReachable
<1>1. IInv => OnlyReachable
  BY DEF IInv, Reached, OnlyReachable, Reach
<1> QED
  BY <1>1, Invariant, PTL

\* When the search is over without a return instruction, the decoded addresses
\* are all the reachable ones.
LEMMA DrainedIsClosed ==
    ASSUME IInv, phase = "done", ~hasret
    PROVE  \A a \in Addr : Reach(prog, func, a) => a \in Seen
<1>1. TypeOK /\ ListsInBounds /\ Frontier
  BY DEF IInv
<1>2. Pending(stack) = {} /\ Current = {}
  BY <1>1 DEF Frontier, Current
<1>3. Closed(prog, Seen)
  BY <1>1, <1>2 DEF Frontier, Closed
<1>4. func \in Addr
  BY <1>1 DEF TypeOK
<1>5. Members(stack) = Popped(stack) \union Pending(stack)
  BY <1>1, <1>4, PushPends DEF TypeOK, ListsInBounds
<1>6. func \in Seen
  BY <1>1, <1>2, <1>5 DEF Frontier
<1>7. Seen \in SUBSET Addr
  BY <1>1 DEF TypeOK, AddrListOf, Seen, Members
<1> QED
  BY <1>3, <1>6, <1>7 DEF Reach

\* "Function doesn't return" is only said of functions whose reachable code
\* holds no return instruction, for every program.
THEOREM Completeness == Spec => []NoReturnMissed
<1>1. IInv => NoReturnMissed
  BY DrainedIsClosed DEF IInv, RetFound, NoReturnMissed
<1> QED
  BY <1>1, Invariant, PTL

\* The reported byte count is the one of a return instruction of the function.
THEOREM RetpopCorrect == Spec => []RetpopIsOfARet
<1>1. IInv => RetpopIsOfARet
  BY DEF IInv, RetFound, RetpopIsOfARet
<1> QED
  BY <1>1, Invariant, PTL

LEMMA FirstDecided ==
    ASSUME IInv, phase = "done"
    PROVE  beData <=> ~Legal(prog[func])
BY DEF IInv, First, beData

\* DATA is printed exactly for exports whose first instruction is no code.
THEOREM DataCorrect == Spec => []DataIffFirstIllegal
<1>1. IInv => DataIffFirstIllegal
  BY FirstDecided DEF DataIffFirstIllegal
<1> QED
  BY <1>1, Invariant, PTL
-----------------------------------------------------------------------------
(* Refinement. *)

\* The instance reads the code of the image the way the search does.
LEMMA SameCode ==
    /\ Abstract!Addr = Addr
    /\ Abstract!Insn = Insn
    /\ Abstract!Pops = Pops
    /\ Abstract!NoPop = NoPop
    /\ \A i : /\ Abstract!Legal(i) <=> Legal(i)
              /\ Abstract!IsRet(i) <=> IsRet(i)
              /\ Abstract!IsStop(i) <=> IsStop(i)
    /\ \A i, b : Abstract!RetpopOf(i, b) = RetpopOf(i, b)
    /\ \A p, f, a : Abstract!Reach(p, f, a) <=> Reach(p, f, a)
<1>1. /\ Abstract!Addr = Addr
      /\ Abstract!Insn = Insn
      /\ Abstract!Pops = Pops
      /\ Abstract!NoPop = NoPop
  BY DEF Abstract!Addr, Addr, Abstract!Insn, Insn, Abstract!Pops, Pops,
     Abstract!NoPop, NoPop, Abstract!Codes, Codes
<1>2. \A i : /\ Abstract!Legal(i) <=> Legal(i)
             /\ Abstract!IsRet(i) <=> IsRet(i)
             /\ Abstract!IsStop(i) <=> IsStop(i)
  BY DEF Abstract!Legal, Legal, Abstract!IsRet, IsRet, Abstract!IsStop, IsStop
<1>3. \A i, b : Abstract!RetpopOf(i, b) = RetpopOf(i, b)
  BY <1>1 DEF Abstract!RetpopOf, RetpopOf
<1>4. \A p, a : Abstract!Succ(p, a) = Succ(p, a)
  BY <1>2 DEF Abstract!Succ, Succ, Abstract!Follow, Follow, Abstract!Taken, Taken,
     Abstract!NextPc, NextPc
<1>5. \A p, f, a : Abstract!Reach(p, f, a) <=> Reach(p, f, a)
  BY <1>1, <1>4 DEF Abstract!Reach, Reach, Abstract!Closed, Closed
<1> QED
  BY <1>1, <1>2, <1>3, <1>5

LEMMA InitRefines == Init => Abstract!AInit
BY InsnsAssumption, FuncsAssumption, SameCode DEF Init, Abstract!AInit, answer

LEMMA AnswerCorrect ==
    ASSUME IInv, phase = "done"
    PROVE  answer \in Abstract!Answers
<1>1. TypeOK /\ ListsInBounds /\ RetFound /\ ImportFound /\ OnlyReachable
  BY DEF IInv, Reached, OnlyReachable, Reach
<1>2. Seen \subseteq Addr
  BY <1>1 DEF TypeOK, AddrListOf, Seen, Members
<1>3. answer = [hasret |-> hasret, retpop |-> retpop, beData |-> beData,
                pimpname |-> pimpname]
  BY DEF answer
<1>4. answer \in [hasret : BOOLEAN, retpop : Pops, beData : BOOLEAN,
                  pimpname : Imports \union {NoImport}]
  BY <1>1, <1>3 DEF TypeOK, beData
<1>5. /\ answer.hasret = hasret /\ answer.retpop = retpop
      /\ answer.beData = beData /\ answer.pimpname = pimpname
  BY <1>3
<1>6. answer.beData <=> ~Legal(prog[func])
  BY <1>5, FirstDecided
<1>7. hasret => \E a \in Addr : /\ Reach(prog, func, a)
                                /\ IsRet(prog[a])
                                /\ retpop = RetpopOf(prog[a], assume_stdcall)
  BY <1>1, <1>2 DEF RetFound, OnlyReachable
<1>8. ~hasret => /\ retpop = NoPop
                 /\ \A a \in Addr : Reach(prog, func, a) => ~IsRet(prog[a])
  BY <1>1, DrainedIsClosed DEF RetFound
<1>9. pimpname = NoImport
      \/ \E a \in Addr : /\ Reach(prog, func, a)
                         /\ IsStop(prog[a])
                         /\ pimpname = prog[a].imp
  BY <1>1, <1>2 DEF ImportFound, OnlyReachable
<1> QED
  BY <1>4, <1>5, <1>6, <1>7, <1>8, <1>9, SameCode DEF Abstract!Answers

LEMMA StepRefines ==
    IInv /\ IInv' /\ [Next]_vars => [Abstract!Answer]_(Abstract!avars)
<1> SUFFICES ASSUME IInv, IInv', [Next]_vars
             PROVE  [Abstract!Answer]_(Abstract!avars)
  OBVIOUS
<1>1. CASE Finish
  <2>1. answer = NoAnswer
    BY <1>1 DEF Finish, answer
  <2>2. /\ prog' = prog /\ func' = func /\ assume_stdcall' = assume_stdcall
        /\ phase' = "done"
    BY <1>1 DEF Finish, input
  <2>4. (phase = "done" => answer \in Abstract!Answers)'
    BY AnswerCorrect, PTL
  <2>5. Abstract!Answers' = Abstract!Answers
    BY <2>2 DEF Abstract!Answers
  <2> QED
    BY <2>1, <2>2, <2>4, <2>5 DEF Abstract!Answer
<1>2. CASE ~Finish
  <2>1. prog' = prog /\ func' = func /\ assume_stdcall' = assume_stdcall
        /\ (phase' = phase \/ (phase # "done" /\ phase' # "done"))
        /\ (phase' = phase => UNCHANGED vars \/ phase # "done")
    BY <1>2 DEF Next, PopNext, LeaveLoop, AlreadySeen, Illegal, Plain, Jump, Branch,
       Stop, Return, ReturnImm, Enter, input, vars
  <2>2. answer' = answer
    BY <2>1 DEF answer, beData, vars
  <2> QED
    BY <2>1, <2>2 DEF Abstract!avars
<1> QED
  BY <1>1, <1>2

\* disassembleRet implements the promise of RetSearch for every program,
\* export and option.
THEOREM Refinement == Spec => Implements
<1>1. Abstract!ASpec <=> Abstract!AInit /\ [][Abstract!Answer]_(Abstract!avars)
  BY DEF Abstract!ASpec
<1> QED
  BY <1>1, InitRefines, StepRefines, Invariant, PTL DEF Spec, Implements

(***************************************************************************)
(* Reachability without taken branches.                                    *)
(***************************************************************************)
LEMMA StraightFacts ==
    ASSUME NEW p, NEW S \in SUBSET Addr, \A a \in Addr : Follow(p, a) \subseteq Addr
    PROVE  /\ Straight(p, S) \subseteq Addr
           /\ S \subseteq Straight(p, S)
           /\ \A a \in Straight(p, S) : Follow(p, a) \subseteq Straight(p, S)
           /\ \A T \in SUBSET Addr :
                  S \subseteq T /\ (\A t \in T : Follow(p, t) \subseteq T)
                      => Straight(p, S) \subseteq T
<1>1. Straight(p, S) \subseteq Addr /\ S \subseteq Straight(p, S)
  BY DEF Straight
<1>2. ASSUME NEW a \in Straight(p, S), NEW b \in Follow(p, a)
      PROVE  b \in Straight(p, S)
  <2> SUFFICES ASSUME NEW T \in SUBSET Addr, S \subseteq T,
                      \A t \in T : Follow(p, t) \subseteq T
               PROVE  b \in T
    BY <1>1, <1>2 DEF Straight
  <2>1. a \in T
    BY DEF Straight
  <2> QED
    BY <2>1
<1>3. ASSUME NEW T \in SUBSET Addr, S \subseteq T,
             \A t \in T : Follow(p, t) \subseteq T
      PROVE  Straight(p, S) \subseteq T
  BY <1>3 DEF Straight
<1> QED
  BY <1>1, <1>2, <1>3

LEMMA FollowType ==
    ASSUME NEW p \in [Addr -> Insn], NEW a \in Addr
    PROVE  Follow(p, a) \subseteq Addr /\ Taken(p, a) \subseteq Addr
<1>1. p[a] \in Insn
  OBVIOUS
<1>2. p[a].jmp \in Addr /\ NextPc(a, p[a]) \in Addr
  BY <1>1, NextPcType DEF Insn
<1> QED
  BY <1>2 DEF Follow, Taken

(***************************************************************************)
(* WithinTaken satisfies its recursive definition.                         *)
(***************************************************************************)
\* what is reached from a set with one more taken branch
Further(p, S) == Straight(p, S \union UNION {Taken(p, a) : a \in S})

IsWithin(w, p, f, n) ==
    w = [k \in 0..n |-> IF k = 0 THEN Straight(p, {f}) ELSE Further(p, w[k - 1])]

LEMMA WithinExists ==
    ASSUME NEW p, NEW f, NEW n \in Nat
    PROVE  \E w : IsWithin(w, p, f, n)
<1> DEFINE Good == {m \in 0..n : \E w : IsWithin(w, p, f, m)}
<1>1. 0 \in Good
  <2>1. IsWithin([k \in 0..0 |-> Straight(p, {f})], p, f, 0)
    BY DEF IsWithin
  <2> QED
    BY <2>1
<1>2. ASSUME NEW i \in 1..n, i - 1 \in Good PROVE i \in Good
  <2>1. PICK w : IsWithin(w, p, f, i - 1)
    BY <1>2
  <2> DEFINE v == [k \in 0..i |-> IF k = i THEN Further(p, w[i - 1]) ELSE w[k]]
  <2>2. ASSUME NEW k \in 0..i
        PROVE  v[k] = IF k = 0 THEN Straight(p, {f}) ELSE Further(p, v[k - 1])
    <3>1. CASE k = i
      BY <3>1
    <3>2. CASE k # i
      <4>1. k \in 0..(i - 1) /\ v[k] = w[k]
        BY <3>2
      <4>2. w[k] = IF k = 0 THEN Straight(p, {f}) ELSE Further(p, w[k - 1])
        BY <2>1, <4>1 DEF IsWithin
      <4>3. k # 0 => v[k - 1] = w[k - 1]
        BY <4>1
      <4> QED
        BY <4>1, <4>2, <4>3
    <3> QED
      BY <3>1, <3>2
  <2>3. IsWithin(v, p, f, i)
    BY <2>2 DEF IsWithin
  <2> QED
    BY <2>3
<1> HIDE DEF Good
<1>3. n \in Good
  BY <1>1, <1>2, Climb
<1> QED
  BY <1>3 DEF Good

LEMMA WithinAt ==
    ASSUME NEW p, NEW f
    PROVE  /\ WithinTaken(p, f)[0] = Straight(p, {f})
           /\ \A k \in 1..AddrSpace :
                  WithinTaken(p, f)[k] = Further(p, WithinTaken(p, f)[k - 1])
<1> DEFINE w == CHOOSE w : IsWithin(w, p, f, AddrSpace)
<1>1. IsWithin(w, p, f, AddrSpace)
  <2>1. AddrSpace \in Nat
    BY AddrSpaceAssumption
  <2>2. \E v : IsWithin(v, p, f, AddrSpace)
    BY <2>1, WithinExists
  <2> QED
    BY <2>2
<1>2. WithinTaken(p, f) = w
  BY DEF WithinTaken, IsWithin, Further
<1> HIDE DEF w
<1>3. \A k \in 0..AddrSpace :
          w[k] = IF k = 0 THEN Straight(p, {f}) ELSE Further(p, w[k - 1])
  BY <1>1, Zenon DEF IsWithin
<1>4. 0 \in 0..AddrSpace /\ \A k \in 1..AddrSpace : k \in 0..AddrSpace /\ k # 0
  BY AddrSpaceAssumption
<1> QED
  BY <1>2, <1>3, <1>4

LEMMA WithinNext ==
    ASSUME NEW p, NEW f, NEW k \in 0..(AddrSpace - 1)
    PROVE  WithinTaken(p, f)[k + 1] = Further(p, WithinTaken(p, f)[k])
<1> DEFINE w == WithinTaken(p, f)
<1>1. \A j \in 1..AddrSpace : w[j] = Further(p, w[j - 1])
  BY WithinAt
<1>2. k + 1 \in 1..AddrSpace /\ (k + 1) - 1 = k
  BY AddrSpaceAssumption
<1> HIDE DEF w
<1>3. w[k + 1] = Further(p, w[(k + 1) - 1])
  BY <1>1, <1>2, Zenon
<1>4. w[k + 1] = Further(p, w[k])
  BY <1>2, <1>3, Zenon
<1> QED
  BY <1>4 DEF w

(***************************************************************************)
(* Each level holds the one below, and what follows or branches from it.   *)
(***************************************************************************)
LEMMA LevelType ==
    ASSUME NEW p \in [Addr -> Insn], NEW f \in Addr
    PROVE  \A k \in 0..AddrSpace : WithinTaken(p, f)[k] \subseteq Addr
<1> DEFINE w == WithinTaken(p, f)
           Good == {k \in 0..AddrSpace : w[k] \subseteq Addr}
<1>1. AddrSpace \in Nat
  BY AddrSpaceAssumption
<1>2. 0 \in Good
  BY <1>1, WithinAt DEF Straight
<1>3. ASSUME NEW k \in 1..AddrSpace, k - 1 \in Good PROVE k \in Good
  BY <1>1, <1>3, WithinAt DEF Further, Straight
<1> HIDE DEF Good
<1>4. \A k \in 0..AddrSpace : k \in Good
  BY <1>1, <1>2, <1>3, Climb
<1> QED
  BY <1>4 DEF Good

LEMMA LevelZero ==
    ASSUME NEW p \in [Addr -> Insn], NEW f \in Addr
    PROVE  /\ f \in WithinTaken(p, f)[0]
           /\ \A a \in WithinTaken(p, f)[0] :
                  Follow(p, a) \subseteq WithinTaken(p, f)[0]
           /\ \A T \in SUBSET Addr :
                  f \in T /\ (\A t \in T : Follow(p, t) \subseteq T)
                      => WithinTaken(p, f)[0] \subseteq T
<1>1. \A a \in Addr : Follow(p, a) \subseteq Addr
  BY FollowType
<1>2. {f} \in SUBSET Addr
  OBVIOUS
<1> DEFINE zero == Straight(p, {f})
<1>3. /\ {f} \subseteq zero
      /\ \A a \in zero : Follow(p, a) \subseteq zero
      /\ \A T \in SUBSET Addr :
             {f} \subseteq T /\ (\A t \in T : Follow(p, t) \subseteq T)
                 => zero \subseteq T
  BY <1>1, <1>2, StraightFacts
<1>4. WithinTaken(p, f)[0] = zero
  BY WithinAt
<1> HIDE DEF zero
<1> QED
  BY <1>3, <1>4

LEMMA LevelStep ==
    ASSUME NEW p \in [Addr -> Insn], NEW f \in Addr, NEW k \in 0..(AddrSpace - 1)
    PROVE  LET low  == WithinTaken(p, f)[k]
               high == WithinTaken(p, f)[k + 1]
           IN  /\ low \subseteq high
               /\ \A a \in low : Taken(p, a) \subseteq high
               /\ \A a \in high : Follow(p, a) \subseteq high
               /\ \A T \in SUBSET Addr :
                      /\ low \subseteq T
                      /\ \A a \in low : Taken(p, a) \subseteq T
                      /\ \A t \in T : Follow(p, t) \subseteq T
                      => high \subseteq T
<1> DEFINE low  == WithinTaken(p, f)[k]
           high == WithinTaken(p, f)[k + 1]
           S    == low \union UNION {Taken(p, a) : a \in low}
<1>1. k + 1 \in 1..AddrSpace /\ (k + 1) - 1 = k /\ k \in 0..AddrSpace
  BY AddrSpaceAssumption
<1>2. high = Straight(p, S)
  BY WithinNext, Zenon DEF Further
<1>3. low \subseteq Addr
  BY <1>1, LevelType
<1>4. \A a \in Addr : Follow(p, a) \subseteq Addr /\ Taken(p, a) \subseteq Addr
  BY FollowType
<1>5. S \in SUBSET Addr
  BY <1>3, <1>4
<1>6. low \subseteq S /\ \A a \in low : Taken(p, a) \subseteq S
  OBVIOUS
<1>7. ASSUME NEW T \in SUBSET Addr, low \subseteq T,
             \A a \in low : Taken(p, a) \subseteq T
      PROVE  S \subseteq T
  BY <1>7
<1> HIDE DEF S, high, low
<1>8. /\ S \subseteq high
      /\ \A a \in high : Follow(p, a) \subseteq high
      /\ \A T \in SUBSET Addr :
             S \subseteq T /\ (\A t \in T : Follow(p, t) \subseteq T)
                 => high \subseteq T
  BY <1>2, <1>4, <1>5, StraightFacts
<1>9. /\ low \subseteq high
      /\ \A a \in low : Taken(p, a) \subseteq high
      /\ \A a \in high : Follow(p, a) \subseteq high
      /\ \A T \in SUBSET Addr :
             /\ low \subseteq T
             /\ \A a \in low : Taken(p, a) \subseteq T
             /\ \A t \in T : Follow(p, t) \subseteq T
             => high \subseteq T
  BY <1>6, <1>7, <1>8
<1> QED
  BY <1>9 DEF low, high

LEMMA LevelClosed ==
    ASSUME NEW p \in [Addr -> Insn], NEW f \in Addr, NEW k \in 0..AddrSpace,
           NEW a \in WithinTaken(p, f)[k]
    PROVE  Follow(p, a) \subseteq WithinTaken(p, f)[k]
<1>1. CASE k = 0
  BY <1>1, LevelZero
<1>2. CASE k # 0
  <2>1. k - 1 \in 0..(AddrSpace - 1) /\ (k - 1) + 1 = k
    BY <1>2, AddrSpaceAssumption
  <2> QED
    BY <2>1, LevelStep
<1> QED
  BY <1>1, <1>2

(***************************************************************************)
(* The order of the search.  The entries of the worklist up to m are of    *)
(* level k, those behind it of the next level; what is below is decoded.   *)
(***************************************************************************)
Within == WithinTaken(prog, func)
Entries(m) == {stack.ptrs[i] : i \in 1..m}

InOrder(k, m) ==
    /\ Seen \union Current \union Entries(m) \subseteq Within[k]
    /\ \A b \in Members(stack) :
           b \in Entries(m) \/ \E a \in Within[k] : b \in Taken(prog, a)
    /\ IF k = 0 THEN func \in Entries(m)
       ELSE /\ Within[k - 1] \subseteq Seen
            /\ \A a \in Within[k - 1] :
                   ~IsRet(prog[a]) /\ Taken(prog, a) \subseteq Entries(m)

\* A line is decoded to its end, and its branches are on the worklist.
LinesDecoded ==
    \A a \in Seen : /\ Follow(prog, a) \subseteq Seen \union Current
                    /\ Taken(prog, a) \subseteq Members(stack)

Nearest ==
    /\ LinesDecoded
    /\ \E k \in 0..stack.idx, m \in stack.idx..Len(stack.ptrs) : InOrder(k, m)

\* no address is on the worklist twice, so it is no longer than the addresses are
LEMMA ListFits ==
    ASSUME NEW ad \in AddrListOf(Addr), WellFormed(ad)
    PROVE  Len(ad.ptrs) <= AddrSpace
<1> DEFINE n == Len(ad.ptrs)
<1>1. ad.ptrs \in [1..n -> Addr] /\ n \in Nat /\ AddrSpace \in Nat
  BY AddrSpaceAssumption DEF AddrListOf
<1>2. IsFiniteSet(1..n) /\ Cardinality(1..n) = n
  <2>1. 1 \in Int /\ n \in Int /\ (IF 1 > n THEN 0 ELSE n - 1 + 1) = n
    BY <1>1
  <2> HIDE DEF n
  <2> QED
    BY <2>1, FS_Interval
<1>3. IsFiniteSet(Addr) /\ Cardinality(Addr) = AddrSpace
  <2>1. 0 \in Int /\ AddrSpace - 1 \in Int /\ ~(0 > AddrSpace - 1)
        /\ (AddrSpace - 1) - 0 + 1 = AddrSpace
    BY AddrSpaceAssumption
  <2> QED
    BY <2>1, FS_Interval DEF Addr
<1>4. \A i, j \in 1..n : ad.ptrs[i] = ad.ptrs[j] => i = j
  BY DEF WellFormed
<1> HIDE DEF n
<1>5. ASSUME AddrSpace < n PROVE FALSE
  <2>1. \E i, j \in 1..n : i # j /\ ad.ptrs[i] = ad.ptrs[j]
    BY <1>1, <1>2, <1>3, <1>5, FS_PigeonHole
  <2> QED
    BY <1>4, <2>1
<1> QED
  BY <1>1, <1>5 DEF n

LEMMA InitNearest == Init => Nearest
<1> SUFFICES ASSUME Init PROVE Nearest
  OBVIOUS
<1>1. TypeOK
  BY TypeInit
<1>2. prog \in [Addr -> Insn] /\ func \in Addr
  BY <1>1 DEF TypeOK
<1>3. Seen = {} /\ Current = {}
  BY <1>2, InitPush DEF Init, Seen, Current
<1>4. stack.ptrs = <<func>> /\ stack.idx = 0
  BY <1>2, InitPush DEF Init
<1>5. Len(stack.ptrs) = 1 /\ Entries(1) = {func} /\ Members(stack) = {func}
  BY <1>4 DEF Entries, Members
<1>6. InOrder(0, 1)
  BY <1>2, <1>3, <1>5, LevelZero DEF InOrder, Within
<1> QED
  BY <1>3, <1>4, <1>5, <1>6 DEF Nearest, LinesDecoded

LEMMA NearestType ==
    ASSUME TypeOK, ListsInBounds
    PROVE  /\ prog \in [Addr -> Insn] /\ func \in Addr /\ pc \in Addr
           /\ Seen \subseteq Addr
           /\ stack.idx \in Nat /\ Len(stack.ptrs) \in Nat
           /\ stack.idx <= Len(stack.ptrs) /\ Len(stack.ptrs) <= AddrSpace
           /\ Entries(stack.idx) = Popped(stack)
           /\ Entries(Len(stack.ptrs)) = Members(stack)
<1>1. stack \in AddrListOf(Addr) /\ WellFormed(stack)
  BY DEF TypeOK, ListsInBounds
<1>2. Len(stack.ptrs) <= AddrSpace
  BY <1>1, ListFits
<1> QED
  BY <1>1, <1>2 DEF TypeOK, AddrListOf, WellFormed, Seen, Members, Entries, Popped

(***************************************************************************)
(* One lemma for each kind of step.                                        *)
(***************************************************************************)
Inv == IInv /\ Nearest

\* the worklist still has an entry of this level
LEMMA PopSameLevel ==
    ASSUME Inv, PopNext, NEW k \in 0..stack.idx, NEW m \in stack.idx..Len(stack.ptrs),
           InOrder(k, m), stack.idx # m
    PROVE  Nearest'
<1>1. TypeOK /\ ListsInBounds /\ LinesDecoded
  BY DEF Inv, IInv, Nearest
<1>2. /\ stack' = PopAddr(stack) /\ pc' = stack.ptrs[stack.idx + 1]
      /\ phase = "while" /\ phase' = "intern" /\ UNCHANGED <<prog, func, seen>>
  BY DEF PopNext, input, TopAddr
<1>3. stack'.ptrs = stack.ptrs /\ stack'.idx = stack.idx + 1
  BY <1>1, <1>2, PopFacts DEF PopNext, TypeOK, ListsInBounds
<1>4. stack.idx \in Nat /\ Len(stack.ptrs) \in Nat
  BY <1>1, NearestType
<1>5. k \in 0..stack'.idx /\ m \in stack'.idx..Len(stack'.ptrs)
  BY <1>3, <1>4
<1>6. Current' = {pc'} /\ pc' \in Entries(m)
  BY <1>2, <1>4 DEF Current, Entries
<1>7. /\ Seen' = Seen /\ Current = {} /\ Within' = Within
      /\ Entries(m)' = Entries(m) /\ Members(stack') = Members(stack)
  BY <1>2, <1>3 DEF Seen, Current, Within, Entries, Members
<1>8. InOrder(k, m)'
  BY <1>2, <1>6, <1>7 DEF InOrder
<1>9. LinesDecoded'
  BY <1>1, <1>2, <1>7 DEF LinesDecoded
<1> QED
  BY <1>5, <1>8, <1>9 DEF Nearest

\* the entries of level k are all decoded, so all of level k is
LEMMA LevelDecoded ==
    ASSUME Inv, phase = "while", NEW k \in 0..stack.idx, InOrder(k, stack.idx)
    PROVE  Within[k] \subseteq Seen
<1>1. TypeOK /\ ListsInBounds /\ LinesDecoded /\ Frontier
  BY DEF Inv, IInv, Nearest
<1>2. /\ prog \in [Addr -> Insn] /\ func \in Addr /\ Seen \in SUBSET Addr
      /\ stack.idx <= AddrSpace /\ stack.idx \in Nat
      /\ Entries(stack.idx) = Popped(stack)
  BY <1>1, NearestType, AddrSpaceAssumption
<1>3. Current = {} /\ Popped(stack) \subseteq Seen
  BY <1>1 DEF Frontier, Current
<1>4. \A t \in Seen : Follow(prog, t) \subseteq Seen
  BY <1>1, <1>3 DEF LinesDecoded
<1>5. CASE k = 0
  <2>1. func \in Seen
    BY <1>2, <1>3, <1>5 DEF InOrder
  <2> QED
    BY <1>2, <1>4, <1>5, <2>1, LevelZero DEF Within
<1>6. CASE k # 0
  <2>1. /\ Within[k - 1] \subseteq Seen
        /\ \A a \in Within[k - 1] : Taken(prog, a) \subseteq Seen
    BY <1>2, <1>3, <1>6 DEF InOrder
  <2>2. k - 1 \in 0..(AddrSpace - 1) /\ (k - 1) + 1 = k
    BY <1>2, <1>6, AddrSpaceAssumption
  <2> QED
    BY <1>2, <1>4, <2>1, <2>2, LevelStep DEF Within
<1> QED
  BY <1>5, <1>6

\* the worklist has only entries of the next level left
LEMMA PopNextLevel ==
    ASSUME Inv, PopNext, NEW k \in 0..stack.idx, InOrder(k, stack.idx)
    PROVE  Nearest'
<1>1. TypeOK /\ ListsInBounds /\ LinesDecoded /\ RetFound
  BY DEF Inv, IInv, Nearest
<1>2. /\ stack' = PopAddr(stack) /\ pc' = stack.ptrs[stack.idx + 1] /\ ~hasret
      /\ phase = "while" /\ phase' = "intern" /\ UNCHANGED <<prog, func, seen>>
  BY DEF PopNext, input, TopAddr
<1>3. /\ stack'.ptrs = stack.ptrs /\ stack'.idx = stack.idx + 1
      /\ pc' \in Members(stack)
  BY <1>1, <1>2, PopFacts DEF PopNext, TypeOK, ListsInBounds
<1>4. /\ prog \in [Addr -> Insn] /\ func \in Addr
      /\ stack.idx \in Nat /\ Len(stack.ptrs) \in Nat
      /\ Len(stack.ptrs) <= AddrSpace /\ stack.idx < Len(stack.ptrs)
      /\ Entries(Len(stack.ptrs)) = Members(stack)
  BY <1>1, NearestType DEF PopNext, CanPop
<1>n. PICK n \in Nat : n = Len(stack.ptrs)
  BY <1>4
<1>5. k + 1 \in 0..stack'.idx /\ n \in stack'.idx..Len(stack'.ptrs)
      /\ k \in 0..(AddrSpace - 1) /\ k + 1 # 0 /\ (k + 1) - 1 = k
  BY <1>3, <1>4, <1>n, AddrSpaceAssumption
<1>6. Within[k] \subseteq Seen
  BY <1>2, LevelDecoded
<1>7. /\ Within[k] \subseteq Within[k + 1]
      /\ \A a \in Within[k] : Taken(prog, a) \subseteq Within[k + 1]
  BY <1>4, <1>5, LevelStep DEF Within
<1>8. /\ Seen \subseteq Within[k] /\ Entries(stack.idx) \subseteq Within[k]
      /\ \A b \in Members(stack) :
             b \in Entries(stack.idx) \/ \E a \in Within[k] : b \in Taken(prog, a)
  BY DEF InOrder
<1>9. Members(stack) \subseteq Within[k + 1]
  BY <1>7, <1>8
<1>10. /\ Seen' = Seen /\ Current' = {pc'} /\ Current = {} /\ Within' = Within
       /\ Entries(n)' = Members(stack) /\ Members(stack') = Members(stack)
  BY <1>2, <1>3, <1>4, <1>n DEF Seen, Current, Within, Entries, Members
<1>11. \A a \in Within[k] :
           ~IsRet(prog[a]) /\ Taken(prog, a) \subseteq Members(stack)
  BY <1>1, <1>2, <1>6 DEF RetFound, LinesDecoded
<1>12. InOrder(k + 1, n)'
  BY <1>2, <1>3, <1>5, <1>6, <1>7, <1>8, <1>9, <1>10, <1>11 DEF InOrder
<1>13. LinesDecoded'
  BY <1>1, <1>2, <1>10 DEF LinesDecoded
<1> QED
  BY <1>5, <1>12, <1>13 DEF Nearest

LEMMA PopNearest == Inv /\ PopNext => Nearest'
<1> SUFFICES ASSUME Inv, PopNext PROVE Nearest'
  OBVIOUS
<1>1. PICK k \in 0..stack.idx, m \in stack.idx..Len(stack.ptrs) : InOrder(k, m)
  BY DEF Inv, Nearest
<1> QED
  BY <1>1, PopSameLevel, PopNextLevel

\* an instruction that is not a branch, or undecodable bytes
LEMMA DecodeNearest ==
    ASSUME Inv, UNCHANGED <<prog, func, stack>>, phase = "intern",
           seen' = PushAddr(seen, pc), Current' \subseteq Follow(prog, pc),
           Follow(prog, pc) \subseteq Current', Taken(prog, pc) = {}
    PROVE  Nearest'
<1>1. TypeOK /\ ListsInBounds /\ LinesDecoded
  BY DEF Inv, IInv, Nearest
<1>2. /\ prog \in [Addr -> Insn] /\ func \in Addr
      /\ stack.idx \in Nat /\ stack.idx <= AddrSpace
  BY <1>1, NearestType, AddrSpaceAssumption
<1>3. Seen' = Seen \union {pc} /\ Current = {pc} /\ Within' = Within
  BY <1>1, SeenGrows DEF Current, Within
<1>4. PICK k \in 0..stack.idx, m \in stack.idx..Len(stack.ptrs) : InOrder(k, m)
  BY DEF Inv, Nearest
<1>5. k \in 0..AddrSpace /\ pc \in Within[k]
  BY <1>2, <1>3, <1>4, AddrSpaceAssumption DEF InOrder
<1>6. Current' \subseteq Within[k]
  BY <1>2, <1>5, LevelClosed DEF Within
<1>7. Entries(m)' = Entries(m) /\ Members(stack') = Members(stack)
  BY DEF Entries
<1>8. InOrder(k, m)'
  BY <1>3, <1>4, <1>6, <1>7 DEF InOrder
<1>9. LinesDecoded'
  BY <1>1, <1>3 DEF LinesDecoded
<1> QED
  BY <1>4, <1>8, <1>9 DEF Nearest

\* a branch puts an entry of the next level behind the others
LEMMA BranchNearest == Inv /\ Branch => Nearest'
<1> SUFFICES ASSUME Inv, Branch PROVE Nearest'
  OBVIOUS
<1>1. TypeOK /\ ListsInBounds /\ LinesDecoded
  BY DEF Inv, IInv, Nearest
<1>2. /\ prog \in [Addr -> Insn] /\ func \in Addr /\ pc \in Addr
      /\ stack.idx \in Nat /\ stack.idx <= AddrSpace /\ Len(stack.ptrs) \in Nat
      /\ stack \in AddrListOf(Addr) /\ WellFormed(stack)
  BY <1>1, NearestType, AddrSpaceAssumption DEF TypeOK, ListsInBounds
<1> DEFINE to == prog[pc].jmp
<1>3. to \in Addr
  BY <1>2 DEF Insn
<1>4. /\ phase = "intern" /\ phase' = "intern" /\ UNCHANGED <<prog, func>>
      /\ seen' = PushAddr(seen, pc) /\ stack' = PushAddr(stack, to)
      /\ Follow(prog, pc) = {pc'} /\ Taken(prog, pc) = {to}
  BY DEF Branch, Enter, input, Follow, Taken, IsRet, IsStop
<1>5. /\ Members(stack') = Members(stack) \union {to}
      /\ stack'.idx = stack.idx
  BY <1>2, <1>3, <1>4, PushFacts
<1>6. /\ Len(stack'.ptrs) \in Nat /\ Len(stack'.ptrs) >= Len(stack.ptrs)
      /\ \A i \in 1..Len(stack.ptrs) : stack'.ptrs[i] = stack.ptrs[i]
  <2>1. stack.ptrs \in Seq(Addr)
    BY <1>2 DEF AddrListOf
  <2>2. stack'.ptrs = stack.ptrs \/ stack'.ptrs = Append(stack.ptrs, to)
    BY <1>2, <1>4 DEF PushAddr, AddrListOf
  <2> QED
    BY <1>3, <2>1, <2>2
<1>7. Seen' = Seen \union {pc} /\ Current = {pc} /\ Current' = {pc'} /\ Within' = Within
  BY <1>1, <1>4, SeenGrows DEF Current, Within
<1> HIDE DEF to
<1>8. PICK k \in 0..stack.idx, m \in stack.idx..Len(stack.ptrs) : InOrder(k, m)
  BY DEF Inv, Nearest
<1>9. m \in stack'.idx..Len(stack'.ptrs) /\ Entries(m)' = Entries(m)
  BY <1>2, <1>5, <1>6, <1>8 DEF Entries
<1>10. k \in 0..AddrSpace /\ pc \in Within[k]
  BY <1>2, <1>7, <1>8, AddrSpaceAssumption DEF InOrder
<1>11. pc' \in Within[k]
  BY <1>2, <1>4, <1>10, LevelClosed DEF Within
<1>12. InOrder(k, m)'
  BY <1>4, <1>5, <1>7, <1>8, <1>9, <1>10, <1>11 DEF InOrder
<1>13. LinesDecoded'
  BY <1>1, <1>4, <1>5, <1>7 DEF LinesDecoded
<1> QED
  BY <1>5, <1>8, <1>9, <1>12, <1>13 DEF Nearest

\* the list of decoded addresses stays as it is
LEMMA QuietNearest ==
    ASSUME Inv, UNCHANGED <<prog, func, seen, stack>>,
           Current' = {}, Current \subseteq Seen
    PROVE  Nearest'
<1>1. Seen' = Seen /\ Within' = Within /\ Members(stack') = Members(stack)
  BY DEF Seen, Within
<1>2. PICK k \in 0..stack.idx, m \in stack.idx..Len(stack.ptrs) : InOrder(k, m)
  BY DEF Inv, Nearest
<1>3. Entries(m)' = Entries(m)
  BY DEF Entries
<1>4. InOrder(k, m)'
  BY <1>1, <1>2, <1>3 DEF InOrder
<1>5. LinesDecoded'
  BY <1>1 DEF LinesDecoded, Inv, Nearest
<1> QED
  BY <1>2, <1>4, <1>5 DEF Nearest

LEMMA StepNearest == Inv /\ [Next]_vars => Nearest'
<1> SUFFICES ASSUME Inv, [Next]_vars PROVE Nearest'
  OBVIOUS
<1>1. TypeOK /\ ListsInBounds
  BY DEF Inv, IInv
<1>2. CASE UNCHANGED vars
  BY <1>2 DEF vars, Inv, Nearest, LinesDecoded, InOrder, Within, Entries, Seen, Current
<1>3. CASE LeaveLoop \/ Finish
  BY <1>3, QuietNearest DEF LeaveLoop, Finish, input, Current
<1>4. CASE AlreadySeen
  <2>1. pc \in Seen
    BY <1>4, HoldsMembers DEF AlreadySeen, Seen
  <2> QED
    BY <1>4, <2>1, QuietNearest DEF AlreadySeen, input, Current
<1>5. CASE Illegal
  <2>1. Follow(prog, pc) = {} /\ Taken(prog, pc) = {}
    BY <1>5 DEF Illegal, Follow, Taken
  <2> QED
    BY <1>5, <2>1, DecodeNearest DEF Illegal, input, Current
<1>6. CASE Plain \/ Jump
  <2>1. Follow(prog, pc) = {pc'} /\ Taken(prog, pc) = {}
    BY <1>6 DEF Plain, Jump, Enter, Follow, Taken, IsRet, IsStop
  <2> QED
    BY <1>6, <2>1, DecodeNearest DEF Plain, Jump, Enter, input, Current
<1>7. CASE Stop \/ Return \/ ReturnImm
  <2>1. Follow(prog, pc) = {} /\ Taken(prog, pc) = {}
    BY <1>7 DEF Stop, Return, ReturnImm, Enter, Follow, Taken, IsRet, IsStop
  <2> QED
    BY <1>7, <2>1, DecodeNearest DEF Stop, Return, ReturnImm, Enter, input, Current
<1> QED
  BY <1>2, <1>3, <1>4, <1>5, <1>6, <1>7, PopNearest, BranchNearest DEF Next

(***************************************************************************)
(* The theorem.                                                            *)
(***************************************************************************)

\* Of the return instructions of a function, gendef takes the byte count from
\* one that is reached with the fewest taken branches, whatever the program
\* and wherever its loops lead (disassembleRet, pop_addr).
THEOREM NearestFound == Spec => []NearestReturn
<1>1. Init => Inv
  BY InitInv, InitNearest DEF Inv
<1>2. Inv /\ [Next]_vars => Inv'
  BY StepNearest, TypeStep, ReachedStep, FrontierStep, RetFoundStep, FirstStep,
     ImportStep DEF Inv, IInv
<1>3. Inv => NearestReturn
  <2> SUFFICES ASSUME Inv, phase = "done", hasret PROVE NearestReturn
    BY DEF NearestReturn
  <2>1. PICK k \in 0..stack.idx, m \in stack.idx..Len(stack.ptrs) : InOrder(k, m)
    BY DEF Inv, Nearest
  <2>2. k \in 0..AddrSpace
    <3>1. TypeOK /\ ListsInBounds
      BY DEF Inv, IInv
    <3> QED
      BY <2>1, <3>1, NearestType, AddrSpaceAssumption
  <2>3. PICK a \in Seen : /\ IsRet(prog[a])
                          /\ retpop = RetpopOf(prog[a], assume_stdcall)
    BY DEF Inv, IInv, RetFound
  <2>4. a \in Seen \cap Within[k]
    BY <2>1, <2>3 DEF InOrder
  <2>5. k > 0 => \A b \in Within[k - 1] : ~IsRet(prog[b])
    BY <2>1, <2>2 DEF InOrder
  <2> QED
    BY <2>2, <2>3, <2>4, <2>5 DEF NearestReturn, Within
<1> QED
  BY <1>1, <1>2, <1>3, PTL DEF Spec

=============================================================================
