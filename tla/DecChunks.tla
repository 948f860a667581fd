----------------------------- MODULE DecChunks ------------------------------
(***************************************************************************)
(* The fast path of decMultiplyOp (decNumber.c): both coefficients are cut *)
(* into chunks of FASTDIGS digits, the products of chunks are added up in  *)
(* an array of 64-bit items, and carries are resolved only when FASTLAZY   *)
(* rows were added, or after the last.  The least chunk comes first.  With *)
(* DECDPUN odd a chunk is below 10^9 and 18 rows are added; else 10^8 and  *)
(* 1844.                                                                   *)
(***************************************************************************)
EXTENDS Integers, Sequences

CONSTANTS
    FASTBASE,    \* 10^FASTDIGS
    FASTLAZY,    \* rows between two carry resolutions
    WordSize     \* 2^64: an item of the accumulator is below

\* what the comment on FASTLAZY computes, with room for carries on their way
ASSUME FastAssumption ==
    /\ FASTBASE \in Nat /\ FASTBASE > 1
    /\ FASTLAZY \in Nat /\ FASTLAZY > 0
    /\ WordSize \in Nat
    /\ FASTLAZY * ((FASTBASE - 1) * (FASTBASE - 1))
           + 2 * (FASTBASE - 1) + FASTLAZY < WordSize

VARIABLES
    stage,    \* "add" a row, "resolve" carries, "chunked" when finished
    zlhi,     \* chunks of the multiplicand
    zrhi,     \* chunks of the multiplier
    zacc,     \* the accumulator
    rip,      \* the multiplier's chunk to use
    lp,       \* the item whose carry is to be resolved
    lazy      \* rows to go until carries are resolved

chunkVars == <<stage, zlhi, zrhi, zacc, rip, lp, lazy>>

Chunks == Seq(0..(FASTBASE - 1))

\* the arrays are set up and the accumulator is zeroed
Start(left, right) ==
    /\ stage = "add" /\ zlhi = left /\ zrhi = right
    /\ zacc = [k \in 1..(Len(left) + Len(right)) |-> 0]
    /\ rip = 1 /\ lp = 1 /\ lazy = FASTLAZY

ChunksInit == \E left \in Chunks, right \in Chunks :
            left # <<>> /\ right # <<>> /\ Start(left, right)

(***************************************************************************)
(* One row: the multiplicand times one chunk, without carries.             *)
(***************************************************************************)
RowAdded ==
    [k \in DOMAIN zacc |->
        IF k - rip + 1 \in DOMAIN zlhi
        THEN zacc[k] + zlhi[k - rip + 1] * zrhi[rip]
        ELSE zacc[k]]

\* mutant: carries wait for one row more
PostponedLonger == lazy > 0 /\ rip # Len(zrhi)

Postponed == lazy - 1 > 0 /\ rip # Len(zrhi)

AddRow ==
    /\ stage = "add"
    /\ zacc' = RowAdded
    /\ IF Postponed
       THEN lazy' = lazy - 1 /\ rip' = rip + 1 /\ UNCHANGED <<stage, lp>>
       ELSE lazy' = FASTLAZY /\ stage' = "resolve" /\ lp' = 1 /\ UNCHANGED rip
    /\ UNCHANGED <<zlhi, zrhi>>

(***************************************************************************)
(* Carry resolution, one item after the other.  A carry that does not fit  *)
(* a chunk goes to two places.                                             *)
(***************************************************************************)
Resolving == stage = "resolve" /\ lp <= Len(zacc)

lcarry == zacc[lp] \div FASTBASE

Fits ==
    /\ Resolving /\ zacc[lp] < FASTBASE
    /\ lp' = lp + 1
    /\ UNCHANGED <<stage, zlhi, zrhi, zacc, rip, lazy>>

CarryOnePlace ==
    /\ Resolving /\ zacc[lp] >= FASTBASE /\ lcarry < FASTBASE
    /\ zacc' = [zacc EXCEPT ![lp] = @ - FASTBASE * lcarry,
                            ![lp + 1] = @ + lcarry]
    /\ lp' = lp + 1
    /\ UNCHANGED <<stage, zlhi, zrhi, rip, lazy>>

\* mutant: both parts of the carry go to the next item
CarryTwoTogether ==
    LET carry2 == lcarry \div FASTBASE
        carry  == lcarry - FASTBASE * carry2
    IN  /\ Resolving /\ zacc[lp] >= FASTBASE /\ lcarry >= FASTBASE
        /\ zacc' = [zacc EXCEPT ![lp] = @ - FASTBASE * FASTBASE * carry2
                                          - FASTBASE * carry,
                                ![lp + 1] = @ + carry + carry2]
        /\ lp' = lp + 1
        /\ UNCHANGED <<stage, zlhi, zrhi, rip, lazy>>

\* carry2, and carry below it
CarryTwoPlaces ==
    LET carry2 == lcarry \div FASTBASE
        carry  == lcarry - FASTBASE * carry2
    IN  /\ Resolving /\ zacc[lp] >= FASTBASE /\ lcarry >= FASTBASE
        /\ zacc' = [zacc EXCEPT ![lp] = @ - FASTBASE * FASTBASE * carry2
                                          - FASTBASE * carry,
                                ![lp + 1] = @ + carry,
                                ![lp + 2] = @ + carry2]
        /\ lp' = lp + 1
        /\ UNCHANGED <<stage, zlhi, zrhi, rip, lazy>>

Resolved ==
    /\ stage = "resolve" /\ lp > Len(zacc)
    /\ IF rip < Len(zrhi) THEN rip' = rip + 1 /\ stage' = "add"
       ELSE stage' = "chunked" /\ UNCHANGED rip
    /\ UNCHANGED <<zlhi, zrhi, zacc, lp, lazy>>

ChunksNext == AddRow \/ Fits \/ CarryOnePlace \/ CarryTwoPlaces \/ Resolved

ChunksSpec == ChunksInit /\ [][ChunksNext]_chunkVars

(***************************************************************************)
(* Properties.                                                             *)
(***************************************************************************)

\* No item of the accumulator reaches the width of its type, whatever rows
\* were added since the last resolution and whatever carries came from the
\* items below; no carry is added behind the end of the array; and when the
\* rows are added every item is a single chunk, so that unchunking may cut it
\* to 32 bits (decMultiplyOp, comment at decNumber.c:5005-5020).
AccumulatorFits ==
    /\ \A k \in DOMAIN zacc : zacc[k] \in 0..(WordSize - 1)
    /\ Resolving =>
           /\ zacc[lp] >= FASTBASE => lp + 1 \in DOMAIN zacc
           /\ lcarry >= FASTBASE => lp + 2 \in DOMAIN zacc
    /\ stage = "chunked" => \A k \in DOMAIN zacc : zacc[k] < FASTBASE

=============================================================================
