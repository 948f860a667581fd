------------------------------ MODULE AddrList ------------------------------
(***************************************************************************)
(* The growable address list of gendef.c (sAddresses): an array ptrs of    *)
(* max slots of which the first cnt are in use, and a read position idx.   *)
(* push_addr refuses an address that was ever pushed, also one that has    *)
(* been popped since, because popping only advances idx.  cnt is the       *)
(* length of the sequence ptrs here.                                       *)
(***************************************************************************)
EXTENDS Naturals, Sequences

CONSTANT Chunk      \* slots added by one allocation; the code's constant is 8

ASSUME ChunkAssumption == Chunk \in Nat \ {0}

AddrListOf(A) == [ptrs : Seq(A), max : Nat, idx : Nat]

InitAddr == [ptrs |-> <<>>, max |-> Chunk, idx |-> 0]

\* Mutant: the list grows one store too late.
GrownLate(ad) == IF ad.max < Len(ad.ptrs) THEN ad.max + Chunk ELSE ad.max

\* The array must have grown before the store ad->ptrs[ad->cnt++].
Grown(ad) == IF ad.max = Len(ad.ptrs) THEN ad.max + Chunk ELSE ad.max

Holds(ad, val) == \E i \in 1..Len(ad.ptrs) : ad.ptrs[i] = val

PushAddr(ad, val) ==
    IF Holds(ad, val)
    THEN ad
    ELSE [ad EXCEPT !.ptrs = Append(@, val), !.max = Grown(ad)]

CanPop(ad)  == ad.idx # Len(ad.ptrs)
TopAddr(ad) == ad.ptrs[ad.idx + 1]
PopAddr(ad) == [ad EXCEPT !.idx = @ + 1]

Members(ad) == {ad.ptrs[i] : i \in 1..Len(ad.ptrs)}
Pending(ad) == {ad.ptrs[i] : i \in (ad.idx + 1)..Len(ad.ptrs)}

\* What every list built by these operations satisfies: the array is large
\* enough for its contents, the read position is inside it, and no address
\* occurs in it twice.
WellFormed(ad) ==
    /\ Len(ad.ptrs) <= ad.max
    /\ ad.idx <= Len(ad.ptrs)
    /\ \A i, j \in 1..Len(ad.ptrs) : ad.ptrs[i] = ad.ptrs[j] => i = j
=============================================================================
