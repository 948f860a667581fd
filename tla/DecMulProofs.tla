-------------------------- MODULE DecMulProofs ------------------------------
(***************************************************************************)
(* Multiplication.  First the fast path by itself: its lazy carries never  *)
(* overflow an item of the accumulator and its chunks are those of the     *)
(* product, for every base, every number of rows between two resolutions   *)
(* that FastAssumption allows, and operands of every length.  Then what    *)
(* the chunks are made of and cut into, the rows of Units, exponents that  *)
(* wrap and products far below the context.  Last the call: decMultiplyOp  *)
(* implements the long multiplication, and a multiplication is rounded     *)
(* once.                                                                   *)
(***************************************************************************)
EXTENDS DecMulCorrect, DecRoundProofs

(***************************************************************************)
(* Arithmetic.                                                             *)
(***************************************************************************)
Top    == FASTBASE - 1
Square == Top * Top

\* the product of two chunks is bounded by the square of the largest
LEMMA ChunkProduct ==
    ASSUME NEW x \in 0..Top, NEW y \in 0..Top
    PROVE  x * y \in Nat /\ x * y <= Square
<1>1. x * y \in Nat /\ x * y <= x * Top
  BY FastAssumption DEF Top
<1>2. x * Top <= Top * Top
  BY FastAssumption DEF Top
<1> QED
  BY <1>1, <1>2, FastAssumption DEF Square, Top

\* dividing by the base leaves a chunk
LEMMA Divide ==
    ASSUME NEW x \in Nat
    PROVE  /\ x \div FASTBASE \in Nat
           /\ x - FASTBASE * (x \div FASTBASE) \in 0..Top
<1>1. x \div FASTBASE \in Nat /\ x % FASTBASE \in 0..Top
  BY FastAssumption DEF Top
<1>2. x = FASTBASE * (x \div FASTBASE) + (x % FASTBASE)
  BY FastAssumption
<1> QED
  BY <1>1, <1>2, FastAssumption DEF Top

\* all that an item holds when FASTLAZY rows were added to a chunk
Full == Top + FASTLAZY * Square

\* the types of these numbers
LEMMA Constants ==
    /\ Top \in Nat /\ Square \in Nat /\ Full \in Nat
    /\ FASTLAZY * Square \in Nat
    /\ Full + Top + FASTLAZY < WordSize
<1>1. Top \in Nat /\ Square \in Nat
  BY FastAssumption DEF Top, Square
<1>2. FASTLAZY * Square \in Nat
  BY <1>1, FastAssumption
<1>3. FASTLAZY * Square + 2 * Top + FASTLAZY < WordSize
  BY FastAssumption DEF Top, Square
<1> QED
  BY <1>1, <1>2, <1>3, FastAssumption DEF Full

\* the upper part of the largest item's carry is at most FASTLAZY
LEMMA UpperCarry ==
    ASSUME NEW x \in Nat, x <= Full + Top + FASTLAZY
    PROVE  (x \div FASTBASE) \div FASTBASE \in 0..FASTLAZY
<1> DEFINE q == x \div FASTBASE
           c == q \div FASTBASE
<1>1. q \in Nat /\ FASTBASE * q <= x
  BY Divide, FastAssumption DEF Top
<1>2. c \in Nat /\ FASTBASE * c <= q
  BY <1>1, Divide, FastAssumption DEF Top
<1> HIDE DEF q, c
<1>3. FASTBASE * (FASTBASE * c) <= x
  <2>1. FASTBASE * (FASTBASE * c) <= FASTBASE * q
    BY <1>1, <1>2, FastAssumption
  <2> QED
    BY <1>1, <1>2, <2>1, FastAssumption
<1>4. x <= FASTLAZY * (FASTBASE * FASTBASE)
  <2>1. FASTLAZY * (FASTBASE * FASTBASE)
            = FASTLAZY * Square + 2 * (FASTLAZY * Top) + FASTLAZY
    BY FastAssumption DEF Square, Top
  <2>2. Top <= FASTLAZY * Top
    BY Constants, FastAssumption
  <2>3. FASTLAZY * Top \in Nat
    BY Constants, FastAssumption
  <2> QED
    BY <2>1, <2>2, <2>3, Constants, FastAssumption DEF Full
<1>5. ASSUME c > FASTLAZY PROVE FALSE
  <2>1. FASTBASE * FASTBASE \in Nat /\ FASTBASE * FASTBASE > 0
    BY FastAssumption
  <2>2. (FASTLAZY + 1) * (FASTBASE * FASTBASE) <= c * (FASTBASE * FASTBASE)
    BY <1>2, <1>5, <2>1, FastAssumption
  <2>3. c * (FASTBASE * FASTBASE) = FASTBASE * (FASTBASE * c)
    BY <1>2, FastAssumption
  <2>4. (FASTLAZY + 1) * (FASTBASE * FASTBASE)
            = FASTLAZY * (FASTBASE * FASTBASE) + FASTBASE * FASTBASE
    BY <2>1, FastAssumption
  <2>5. /\ FASTLAZY * (FASTBASE * FASTBASE) \in Nat
        /\ c * (FASTBASE * FASTBASE) \in Nat
    BY <1>2, <2>1, FastAssumption
  <2> HIDE DEF Full, Top
  <2>6. c * (FASTBASE * FASTBASE) <= FASTLAZY * (FASTBASE * FASTBASE)
    BY <1>3, <1>4, <2>3, <2>5
  <2> QED
    BY <2>1, <2>2, <2>4, <2>5, <2>6
<1> QED
  BY <1>2, <1>5, FastAssumption DEF q, c

(***************************************************************************)
(* The inductive invariant: how much an item may hold depends on the rows  *)
(* added since the last resolution and on where the resolution is.         *)
(***************************************************************************)
ChunksTypeOK ==
    /\ stage \in {"add", "resolve", "chunked"}
    /\ zlhi \in Chunks /\ zrhi \in Chunks
    /\ zacc \in [1..(Len(zlhi) + Len(zrhi)) -> Nat]
    /\ rip \in 1..Len(zrhi)
    /\ lp \in Nat \ {0}
    /\ lazy \in 1..FASTLAZY

\* between rows
RowsBound ==
    stage = "add"
        => \A k \in DOMAIN zacc : zacc[k] <= Top + (FASTLAZY - lazy) * Square

\* the items below lp are chunks; lp and the next may have taken carries
Limit(k) == IF k < lp THEN Top
            ELSE IF k = lp THEN Full + Top + FASTLAZY
            ELSE IF k = lp + 1 THEN Full + FASTLAZY
            ELSE Full

CarryBound == stage = "resolve" => \A k \in DOMAIN zacc : zacc[k] <= Limit(k)

AllChunks == stage = "chunked" => \A k \in DOMAIN zacc : zacc[k] <= Top

ChunksInv == ChunksTypeOK /\ RowsBound /\ CarryBound /\ AllChunks

\* the arrays start as zeros
LEMMA InitChunksInv == ChunksInit => ChunksInv
<1> SUFFICES ASSUME NEW l \in Chunks, NEW r \in Chunks, l # <<>>, r # <<>>,
                    Start(l, r)
             PROVE  ChunksInv
  BY DEF ChunksInit
<1>1. Len(l) \in Nat /\ Len(r) \in Nat /\ Len(r) > 0
  BY DEF Chunks
<1>2. ChunksTypeOK
  BY <1>1, FastAssumption DEF ChunksTypeOK, Start
<1>3. RowsBound
  <2>1. (FASTLAZY - lazy) * Square = 0
    BY Constants, FastAssumption DEF Start
  <2> QED
    BY <2>1, Constants DEF RowsBound, Start
<1> QED
  BY <1>2, <1>3 DEF ChunksInv, CarryBound, AllChunks, Start

(***************************************************************************)
(* One step lemma for each action.                                         *)
(***************************************************************************)

\* one more row fits, and the first resolution finds full items at most
LEMMA AddRowStep == ChunksInv /\ AddRow => ChunksInv'
<1> SUFFICES ASSUME ChunksInv, AddRow PROVE ChunksInv'
  OBVIOUS
<1> USE DEF ChunksInv
<1>1. /\ Len(zlhi) \in Nat /\ Len(zrhi) \in Nat
      /\ \A k \in DOMAIN zlhi : zlhi[k] \in 0..Top
      /\ \A k \in DOMAIN zrhi : zrhi[k] \in 0..Top
      /\ DOMAIN zlhi = 1..Len(zlhi) /\ DOMAIN zrhi = 1..Len(zrhi)
  BY FastAssumption DEF ChunksTypeOK, Chunks, Top
<1> DEFINE old == FASTLAZY - lazy
<1>2. old \in Nat /\ old * Square \in Nat /\ old + 1 \in Nat
      /\ (old + 1) * Square = old * Square + Square
  BY Constants, FastAssumption DEF ChunksTypeOK
<1>3. DOMAIN zacc = 1..(Len(zlhi) + Len(zrhi)) /\ DOMAIN zacc' = DOMAIN zacc
  BY DEF ChunksTypeOK, AddRow, RowAdded
<1>4. ASSUME NEW k \in DOMAIN zacc
      PROVE  zacc'[k] \in Nat /\ zacc'[k] <= Top + (old + 1) * Square
  <2>1. zacc[k] \in Nat /\ zacc[k] <= Top + old * Square
    BY <1>3 DEF ChunksTypeOK, RowsBound, AddRow
  <2>2. zacc'[k] = IF k - rip + 1 \in DOMAIN zlhi
                   THEN zacc[k] + zlhi[k - rip + 1] * zrhi[rip] ELSE zacc[k]
    BY DEF AddRow, RowAdded
  <2>3. CASE k - rip + 1 \in DOMAIN zlhi
    <3> DEFINE x == zlhi[k - rip + 1]
               y == zrhi[rip]
    <3>1. x \in 0..Top /\ y \in 0..Top
      BY <1>1, <2>3 DEF ChunksTypeOK
    <3>2. x * y \in Nat /\ x * y <= Square
      BY <3>1, ChunkProduct
    <3>3. zacc'[k] = zacc[k] + x * y
      BY <2>2, <2>3
    <3> HIDE DEF x, y, old
    <3> QED
      BY <1>2, <2>1, <3>2, <3>3, Constants
  <2>4. CASE k - rip + 1 \notin DOMAIN zlhi
    <3> HIDE DEF old
    <3> QED
      BY <1>2, <2>1, <2>2, <2>4, Constants
  <2> QED
    BY <2>3, <2>4
<1>5. zacc' \in [1..(Len(zlhi) + Len(zrhi)) -> Nat]
  BY <1>3, <1>4 DEF AddRow, RowAdded
<1>6. CASE Postponed
  <2>1. /\ lazy' = lazy - 1 /\ rip' = rip + 1 /\ stage' = "add"
        /\ UNCHANGED <<lp, zlhi, zrhi>>
    BY <1>6 DEF AddRow
  <2>2. ChunksTypeOK'
    <3>1. rip' \in 1..Len(zrhi) /\ lazy' \in 1..FASTLAZY
      <4>1. Len(zrhi) \in Nat /\ rip \in 1..Len(zrhi) /\ lazy \in 1..FASTLAZY
        BY <1>1 DEF ChunksTypeOK
      <4>2. lazy - 1 > 0 /\ rip # Len(zrhi)
        BY <1>6 DEF Postponed
      <4>3. rip' = rip + 1 /\ lazy' = lazy - 1
        BY <2>1
      <4> QED
        BY ONLY <4>1, <4>2, <4>3, FastAssumption
    <3>2. zacc' \in [1..(Len(zlhi') + Len(zrhi')) -> Nat]
      BY <1>5, <2>1
    <3> QED
      BY <2>1, <3>1, <3>2 DEF ChunksTypeOK
  <2>3. FASTLAZY - lazy' = old + 1
    BY <2>1, FastAssumption DEF ChunksTypeOK
  <2>4. RowsBound'
    <3> HIDE DEF old
    <3> QED
      BY <1>3, <1>4, <2>3 DEF RowsBound
  <2> QED
    BY <2>1, <2>2, <2>4 DEF CarryBound, AllChunks
<1>7. CASE ~Postponed
  <2>1. /\ lazy' = FASTLAZY /\ stage' = "resolve" /\ lp' = 1
        /\ UNCHANGED <<rip, zlhi, zrhi>>
    BY <1>7 DEF AddRow
  <2>2. ChunksTypeOK'
    BY <1>5, <2>1, FastAssumption DEF ChunksTypeOK
  <2>3. (old + 1) * Square <= FASTLAZY * Square
    <3>1. old + 1 \in Nat /\ old + 1 <= FASTLAZY
      BY FastAssumption DEF ChunksTypeOK
    <3> HIDE DEF old
    <3> QED
      BY <3>1, Constants, FastAssumption
  <2>4. CarryBound'
    <3> SUFFICES ASSUME NEW k \in DOMAIN zacc
                 PROVE  zacc'[k] <= Limit(k)'
      BY <1>3 DEF CarryBound
    <3>1. zacc'[k] <= Full
      <4> HIDE DEF old
      <4> QED
        BY <1>2, <1>4, <2>3, Constants DEF Full
    <3> QED
      BY <1>3, <1>4, <2>1, <3>1, Constants, FastAssumption DEF Limit, ChunksTypeOK
  <2> QED
    BY <2>1, <2>2, <2>4 DEF RowsBound, AllChunks
<1> QED
  BY <1>6, <1>7

\* an item that is a chunk already
LEMMA FitsStep == ChunksInv /\ Fits => ChunksInv'
<1> SUFFICES ASSUME ChunksInv, Fits PROVE ChunksInv'
  OBVIOUS
<1> USE DEF ChunksInv
<1>1. ChunksTypeOK'
  BY DEF ChunksTypeOK, Fits
<1>2. CarryBound'
  <2> SUFFICES ASSUME NEW k \in DOMAIN zacc
               PROVE  zacc[k] <= Limit(k)'
    BY DEF Fits, CarryBound
  <2>1. zacc[k] \in Nat /\ k \in Nat /\ zacc[k] <= Limit(k)
    BY DEF ChunksTypeOK, Fits, Resolving, CarryBound
  <2>2. lp' = lp + 1 /\ lp \in Nat /\ (k = lp => zacc[k] <= Top)
    BY <2>1, FastAssumption DEF Fits, ChunksTypeOK, Top
  <2> QED
    BY <2>1, <2>2, Constants, FastAssumption DEF Limit
<1> QED
  BY <1>1, <1>2 DEF Fits, Resolving, RowsBound, AllChunks

\* the carry is divided from the item and added above
LEMMA CarryOneStep == ChunksInv /\ CarryOnePlace => ChunksInv'
<1> SUFFICES ASSUME ChunksInv, CarryOnePlace PROVE ChunksInv'
  OBVIOUS
<1> USE DEF ChunksInv
<1>1. lp \in DOMAIN zacc /\ zacc[lp] \in Nat
  BY DEF ChunksTypeOK, CarryOnePlace, Resolving
<1>2. lcarry \in 0..Top /\ zacc[lp] - FASTBASE * lcarry \in 0..Top
  BY <1>1, Divide, FastAssumption DEF lcarry, CarryOnePlace, Top
<1> HIDE DEF lcarry
<1>3. ASSUME NEW k \in DOMAIN zacc
      PROVE  /\ zacc'[k] \in Nat
             /\ zacc'[k] <= Limit(k)'
  <2>1. zacc[k] \in Nat /\ k \in Nat /\ lp \in Nat /\ zacc[k] <= Limit(k)
    BY DEF ChunksTypeOK, CarryOnePlace, Resolving, CarryBound
  <2>2. lp' = lp + 1 /\ lp # lp + 1
    BY <2>1 DEF CarryOnePlace
  <2>3. CASE k = lp
    BY <1>2, <2>1, <2>2, <2>3, Constants DEF CarryOnePlace, Limit, ChunksTypeOK
  <2>4. CASE k = lp + 1
    <3>1. zacc'[k] = zacc[k] + lcarry
      BY <2>1, <2>2, <2>4 DEF CarryOnePlace, ChunksTypeOK
    <3> QED
      BY <1>2, <2>1, <2>2, <2>4, <3>1, Constants, FastAssumption DEF Limit
  <2>5. CASE k # lp /\ k # lp + 1
    <3>1. zacc'[k] = zacc[k]
      BY <2>5 DEF CarryOnePlace, ChunksTypeOK
    <3> QED
      BY <2>1, <2>2, <2>5, <3>1, Constants, FastAssumption DEF Limit
  <2> QED
    BY <2>3, <2>4, <2>5
<1>4. DOMAIN zacc' = DOMAIN zacc
  BY DEF CarryOnePlace, ChunksTypeOK
<1>5. ChunksTypeOK'
  <2>1. zacc' \in [1..(Len(zlhi) + Len(zrhi)) -> Nat]
    BY <1>3, <1>4 DEF ChunksTypeOK, CarryOnePlace
  <2>2. UNCHANGED <<stage, zlhi, zrhi, rip, lazy>> /\ lp' \in Nat \ {0}
    BY DEF ChunksTypeOK, CarryOnePlace
  <2> QED
    BY <2>1, <2>2 DEF ChunksTypeOK
<1>6. CarryBound'
  BY <1>3, <1>4 DEF CarryBound
<1> QED
  BY <1>5, <1>6 DEF CarryOnePlace, Resolving, RowsBound, AllChunks

\* the carry's upper part is at most FASTLAZY, its lower part a chunk
LEMMA CarryTwoStep == ChunksInv /\ CarryTwoPlaces => ChunksInv'
<1> SUFFICES ASSUME ChunksInv, CarryTwoPlaces PROVE ChunksInv'
  OBVIOUS
<1> USE DEF ChunksInv
<1>1. lp \in DOMAIN zacc /\ zacc[lp] \in Nat /\ lp \in Nat
      /\ zacc[lp] <= Full + Top + FASTLAZY
  BY DEF ChunksTypeOK, CarryTwoPlaces, Resolving, CarryBound, Limit
<1> DEFINE carry2 == lcarry \div FASTBASE
           carry  == lcarry - FASTBASE * carry2
           rest   == zacc[lp] - FASTBASE * FASTBASE * carry2 - FASTBASE * carry
<1>2. lcarry \in Nat /\ zacc[lp] - FASTBASE * lcarry \in 0..Top
  BY <1>1, Divide DEF lcarry
<1>3. carry2 \in 0..FASTLAZY
  BY <1>1, UpperCarry DEF lcarry
<1>4. carry \in 0..Top
  BY <1>2, Divide
<1>5. zacc' = [zacc EXCEPT ![lp] = rest, ![lp + 1] = @ + carry,
                           ![lp + 2] = @ + carry2]
  BY DEF CarryTwoPlaces
<1> HIDE DEF lcarry, carry2
<1>6. rest \in 0..Top
  <2>1. FASTBASE * carry = FASTBASE * lcarry - FASTBASE * FASTBASE * carry2
    BY <1>2, <1>3, FastAssumption
  <2> HIDE DEF carry
  <2>2. /\ FASTBASE * lcarry \in Int /\ FASTBASE * FASTBASE * carry2 \in Int
        /\ FASTBASE * carry \in Int
    BY <1>2, <1>3, <1>4, Constants, FastAssumption
  <2>3. rest = zacc[lp] - FASTBASE * lcarry
    BY <1>1, <2>1, <2>2
  <2> QED
    BY <1>2, <2>3
<1> HIDE DEF rest, carry
<1>7. ASSUME NEW k \in DOMAIN zacc
      PROVE  /\ zacc'[k] \in Nat
             /\ zacc'[k] <= Limit(k)'
  <2>1. zacc[k] \in Nat /\ k \in Nat /\ zacc[k] <= Limit(k)
    BY SMTT(30) DEF ChunksTypeOK, CarryTwoPlaces, Resolving, CarryBound
  <2>2. lp' = lp + 1
    BY DEF CarryTwoPlaces
  <2>3. CASE k = lp
    BY <1>1, <1>5, <1>6, <2>1, <2>2, <2>3, Constants DEF Limit, ChunksTypeOK
  <2>4. CASE k = lp + 1
    <3>1. zacc'[k] = zacc[k] + carry
      BY <1>1, <1>5, <2>1, <2>4 DEF ChunksTypeOK
    <3> QED
      BY <1>1, <1>4, <2>1, <2>2, <2>4, <3>1, Constants, FastAssumption DEF Limit
  <2>5. CASE k = lp + 2
    <3>1. zacc'[k] = zacc[k] + carry2
      BY <1>1, <1>5, <2>1, <2>5 DEF ChunksTypeOK
    <3> QED
      BY <1>1, <1>3, <2>1, <2>2, <2>5, <3>1, Constants, FastAssumption DEF Limit
  <2>6. CASE k # lp /\ k # lp + 1 /\ k # lp + 2
    <3>1. zacc'[k] = zacc[k]
      BY <1>5, <2>6 DEF ChunksTypeOK
    <3> QED
      BY <1>1, <2>1, <2>2, <2>6, <3>1, Constants, FastAssumption DEF Limit
  <2> QED
    BY <2>3, <2>4, <2>5, <2>6
<1>8. DOMAIN zacc' = DOMAIN zacc
  BY <1>5 DEF ChunksTypeOK
<1>9. ChunksTypeOK'
  <2>1. zacc' \in [1..(Len(zlhi) + Len(zrhi)) -> Nat]
    BY <1>5, <1>7, <1>8 DEF ChunksTypeOK
  <2>2. UNCHANGED <<stage, zlhi, zrhi, rip, lazy>> /\ lp' \in Nat \ {0}
    BY DEF ChunksTypeOK, CarryTwoPlaces
  <2> QED
    BY <2>1, <2>2 DEF ChunksTypeOK
<1>10. CarryBound'
  BY <1>7, <1>8 DEF CarryBound
<1> QED
  BY <1>9, <1>10 DEF CarryTwoPlaces, Resolving, RowsBound, AllChunks

\* when the resolution is through every item is a chunk
LEMMA ResolvedStep == ChunksInv /\ Resolved => ChunksInv'
<1> SUFFICES ASSUME ChunksInv, Resolved PROVE ChunksInv'
  OBVIOUS
<1> USE DEF ChunksInv
<1>1. \A k \in DOMAIN zacc : zacc[k] \in Nat /\ zacc[k] <= Top
  <2> SUFFICES ASSUME NEW k \in DOMAIN zacc
               PROVE  zacc[k] \in Nat /\ zacc[k] <= Top
    OBVIOUS
  <2>1. k \in Nat /\ k < lp /\ zacc[k] \in Nat /\ zacc[k] <= Limit(k)
    <3>1. Len(zacc) = Len(zlhi) + Len(zrhi) /\ k \in 1..Len(zacc)
      BY DEF ChunksTypeOK, Chunks
    <3> QED
      BY <3>1 DEF Resolved, ChunksTypeOK, CarryBound
  <2> QED
    BY <2>1 DEF Limit
<1>2. ChunksTypeOK'
  <2>1. rip' \in 1..Len(zrhi) /\ stage' \in {"add", "chunked"}
    BY DEF Resolved, ChunksTypeOK, Chunks
  <2> QED
    BY <2>1 DEF Resolved, ChunksTypeOK
<1>3. RowsBound'
  <2>1. (FASTLAZY - lazy) * Square \in Nat
    <3>1. FASTLAZY - lazy \in Nat
      BY FastAssumption DEF ChunksTypeOK
    <3> QED
      BY <3>1, Constants
  <2> QED
    BY <1>1, <2>1, Constants DEF RowsBound, Resolved
<1>4. AllChunks' /\ CarryBound'
  BY <1>1 DEF AllChunks, CarryBound, Resolved
<1> QED
  BY <1>2, <1>3, <1>4

LEMMA FastBase == FASTBASE \in Nat /\ FASTBASE > 1
BY FastAssumption

USE FastBase

(***************************************************************************)
(* The second invariant: the accumulator stands for the multiplicand times *)
(* the part of the multiplier that was used.                               *)
(***************************************************************************)
Used == IF stage = "add" THEN rip - 1 ELSE rip

Accumulated ==
    /\ Worth(FASTBASE, zacc)[Len(zacc)] = Worth(FASTBASE, zlhi)[Len(zlhi)] * Worth(FASTBASE, zrhi)[Used]
    /\ stage = "chunked" => rip = Len(zrhi)

\* what the type invariant says of the three arrays
Shape ==
    /\ NatItems(zlhi) /\ NatItems(zrhi) /\ NatItems(zacc)
    /\ \A k \in DOMAIN zlhi : zlhi[k] <= Top
    /\ \A k \in DOMAIN zrhi : zrhi[k] <= Top
    /\ DOMAIN zlhi = 1..Len(zlhi) /\ DOMAIN zrhi = 1..Len(zrhi)
    /\ DOMAIN zacc = 1..Len(zacc) /\ Len(zacc) = Len(zlhi) + Len(zrhi)
    /\ Len(zlhi) \in Nat /\ Len(zrhi) \in Nat /\ Len(zacc) \in Nat
    /\ rip \in 1..Len(zrhi) /\ Used \in Nat /\ Used <= Len(zrhi)

LEMMA ShapeHolds == ChunksInv => Shape
<1> SUFFICES ASSUME ChunksTypeOK PROVE Shape
  BY DEF ChunksInv
<1>1. ASSUME NEW s \in Chunks
      PROVE  /\ NatItems(s) /\ (\A k \in DOMAIN s : s[k] <= Top)
             /\ DOMAIN s = 1..Len(s) /\ Len(s) \in Nat
  BY FastAssumption DEF Chunks, NatItems, Top
<1>2. zlhi \in Chunks /\ zrhi \in Chunks
  BY DEF ChunksTypeOK
<1>3. Len(zlhi) \in Nat /\ Len(zrhi) \in Nat
  BY <1>1, <1>2
<1>4. /\ NatItems(zacc) /\ DOMAIN zacc = 1..Len(zacc)
      /\ Len(zacc) = Len(zlhi) + Len(zrhi) /\ Len(zacc) \in Nat
  BY <1>3 DEF ChunksTypeOK, NatItems
<1>5. rip \in 1..Len(zrhi) /\ Used \in Nat /\ Used <= Len(zrhi)
  BY <1>3 DEF ChunksTypeOK, Used
<1> QED
  BY <1>1, <1>2, <1>3, <1>4, <1>5 DEF Shape

LEMMA InitProduct == ChunksInit => Accumulated
<1> SUFFICES ASSUME ChunksInit PROVE Accumulated
  OBVIOUS
<1>1. stage = "add" /\ rip = 1 /\ \A k \in DOMAIN zacc : zacc[k] = 0
  BY DEF ChunksInit, Start
<1>2. Shape
  BY InitChunksInv, ShapeHolds
<1>3. Used = 0
  BY <1>1 DEF Used
<1>4. Worth(FASTBASE, zrhi)[Used] = 0
  BY <1>2, <1>3, WorthZero DEF Shape
<1>5. Worth(FASTBASE, zacc)[Len(zacc)] = 0
  <2>1. NatItems(<<>>) /\ DOMAIN <<>> = {}
    BY DEF NatItems
  <2>2. \A k \in 1..Len(zacc) : Item(zacc, k) = Item(<<>>, k)
    BY <1>1, <2>1 DEF Item
  <2>3. Worth(FASTBASE, zacc)[Len(zacc)] = Worth(FASTBASE, <<>>)[Len(zacc)]
    BY <1>2, <2>1, <2>2, SameWorth DEF Shape
  <2>4. Worth(FASTBASE, <<>>)[Len(zacc)] = Worth(FASTBASE, <<>>)[0]
    BY <1>2, <2>1, WorthAbove DEF Shape
  <2> QED
    BY <2>1, <2>3, <2>4, WorthZero
<1>6. PICK a \in Nat : a = Worth(FASTBASE, zlhi)[Len(zlhi)]
  BY <1>2, WorthZero DEF Shape
<1>7. a * 0 = 0
  OBVIOUS
<1> QED
  BY <1>1, <1>4, <1>5, <1>6, <1>7 DEF Accumulated

\* a row adds the multiplicand times the chunk that is used next
LEMMA AddRowProduct == ChunksInv /\ Accumulated /\ AddRow => Accumulated'
<1> SUFFICES ASSUME ChunksInv, Accumulated, AddRow PROVE Accumulated'
  OBVIOUS
<1>1. Shape /\ Shape'
  BY AddRowStep, ShapeHolds, PTL
<1>2. /\ NatItems(zlhi) /\ NatItems(zrhi) /\ NatItems(zacc) /\ NatItems(zacc')
      /\ DOMAIN zlhi = 1..Len(zlhi) /\ DOMAIN zrhi = 1..Len(zrhi)
      /\ DOMAIN zacc = 1..Len(zacc) /\ Len(zacc) = Len(zlhi) + Len(zrhi)
      /\ Len(zlhi) \in Nat /\ Len(zrhi) \in Nat /\ Len(zacc) \in Nat
      /\ rip \in 1..Len(zrhi)
  BY <1>1 DEF Shape
<1>3. PICK n \in Nat : n = Len(zacc)
  BY <1>2
<1>4. PICK r \in 1..n : r = rip
  BY <1>2, <1>3
<1>5. PICK d \in Nat : d = zrhi[rip]
  BY <1>2 DEF NatItems
<1>6. stage = "add" /\ zlhi' = zlhi /\ zrhi' = zrhi /\ zacc' = RowAdded
  BY DEF AddRow
<1>7. DOMAIN zacc' = 1..n /\ Len(zacc') = n
  <2>1. DOMAIN zacc' = DOMAIN zacc
    BY <1>6 DEF RowAdded
  <2>2. DOMAIN zacc' = 1..Len(zacc') /\ Len(zacc') \in Nat
    BY <1>1 DEF Shape
  <2>3. Len(zacc') = Len(zlhi') + Len(zrhi')
    BY <1>1 DEF Shape
  <2> QED
    BY <1>2, <1>3, <1>6, <2>1, <2>2, <2>3
<1>8. ASSUME NEW k \in 1..n
      PROVE  zacc'[k] = IF k - r + 1 \in DOMAIN zlhi
                        THEN zacc[k] + zlhi[k - r + 1] * d ELSE zacc[k]
  BY <1>2, <1>3, <1>4, <1>5, <1>6 DEF RowAdded
<1>9. ASSUME NEW k \in 1..n
      PROVE  Item(zacc', k) = zacc'[k] /\ Item(zacc, k) = zacc[k] /\ zacc[k] \in Nat
  BY <1>2, <1>3, <1>7 DEF Item, NatItems
<1>10. ASSUME NEW k \in 1..n, k < r PROVE Item(zacc', k) = Item(zacc, k)
  <2>1. k - r + 1 \notin DOMAIN zlhi
    BY <1>2, <1>10
  <2> QED
    BY <1>8, <1>9, <2>1, Zenon
<1>11. ASSUME NEW k \in 1..n, k >= r
       PROVE  Item(zacc', k) = Item(zacc, k) + Item(zlhi, k - r + 1) * d
  <2>1. CASE k - r + 1 \in DOMAIN zlhi
    BY <1>8, <1>9, <2>1, Zenon DEF Item
  <2>2. CASE k - r + 1 \notin DOMAIN zlhi
    <3>1. Item(zacc', k) = Item(zacc, k) /\ Item(zacc, k) \in Nat
      BY <1>8, <1>9, <2>2, Zenon
    <3>2. Item(zlhi, k - r + 1) = 0
      BY <2>2 DEF Item
    <3> QED
      BY <3>1, <3>2
  <2> QED
    BY <2>1, <2>2
<1>12. Worth(FASTBASE, zacc')[n] = Worth(FASTBASE, zacc)[n] + Worth(FASTBASE, zlhi)[n - r + 1] * (d * Power(FASTBASE)[r - 1])
  <2>1. /\ NatItems(zacc) /\ NatItems(zacc') /\ NatItems(zlhi)
        /\ \A k \in 1..n : k < r => Item(zacc', k) = Item(zacc, k)
        /\ \A k \in 1..n : k >= r => Item(zacc', k) = Item(zacc, k) + Item(zlhi, k - r + 1) * d
    BY <1>2, <1>10, <1>11
  <2> HIDE DEF Item, NatItems, Worth, Power
  <2> QED
    BY <2>1, RowWorth, SMTT(30)
<1>13. Worth(FASTBASE, zlhi)[n - r + 1] = Worth(FASTBASE, zlhi)[Len(zlhi)]
  <2>1. n - r + 1 \in Nat /\ Len(zlhi) <= n - r + 1
        /\ \A k \in Nat : k > Len(zlhi) => k \notin DOMAIN zlhi
    BY <1>2, <1>3, <1>4
  <2> QED
    BY <1>2, <2>1, WorthAbove
<1>14. PICK a \in Nat : a = Worth(FASTBASE, zlhi)[Len(zlhi)]
  BY <1>2, WorthZero
<1>15. r \in Nat \ {0} /\ r - 1 \in Nat
  OBVIOUS
<1>16. PICK p \in Nat : p = Power(FASTBASE)[r - 1]
  BY <1>15, PowerFacts
<1>17. PICK w \in Nat : w = Worth(FASTBASE, zrhi)[r - 1]
  BY <1>2, <1>15, WorthZero
<1>18. Worth(FASTBASE, zrhi)[r] = w + d * p
  <2>1. Item(zrhi, r) = d
    BY <1>2, <1>4, <1>5 DEF Item
  <2>2. Worth(FASTBASE, zrhi)[r]
            = Worth(FASTBASE, zrhi)[r - 1] + Item(zrhi, r) * Power(FASTBASE)[r - 1]
    BY <1>2, <1>15, WorthStep
  <2> QED
    BY <1>16, <1>17, <2>1, <2>2, Zenon
<1>19. Worth(FASTBASE, zacc)[n] = a * w
  <2>1. Used = r - 1
    BY <1>4, <1>6 DEF Used
  <2> QED
    BY <1>3, <1>14, <1>17, <2>1 DEF Accumulated
<1>20. Worth(FASTBASE, zacc')[n] = a * Worth(FASTBASE, zrhi)[r]
  <2>1. Worth(FASTBASE, zacc')[n] = a * w + a * (d * p)
    BY <1>12, <1>13, <1>14, <1>16, <1>19, Zenon
  <2>2. d * p \in Nat /\ a * (w + d * p) = a * w + a * (d * p)
    OBVIOUS
  <2> QED
    BY <1>18, <2>1, <2>2, Zenon
<1>21. Used' = r /\ stage' # "chunked"
  BY <1>4, <1>6 DEF AddRow, Used
<1> QED
  BY <1>6, <1>7, <1>14, <1>20, <1>21, Zenon DEF Accumulated

\* a product of chunks has room in the array, so that a carry finds an item
LEMMA CarryHasRoom ==
    ChunksInv /\ Accumulated /\ Resolving
        => /\ zacc[lp] >= FASTBASE => lp + 1 \in DOMAIN zacc
           /\ lcarry >= FASTBASE => lp + 2 \in DOMAIN zacc
<1> SUFFICES ASSUME ChunksInv, Accumulated, Resolving
             PROVE  /\ zacc[lp] >= FASTBASE => lp + 1 \in DOMAIN zacc
                    /\ lcarry >= FASTBASE => lp + 2 \in DOMAIN zacc
  OBVIOUS
<1>1. Shape
  BY ShapeHolds
<1>2. lp \in 1..Len(zacc) /\ stage = "resolve"
  BY <1>1 DEF ChunksInv, ChunksTypeOK, Resolving, Shape
<1>3. PICK n \in Nat : n = Len(zacc)
  BY <1>1 DEF Shape
<1>4. PICK i \in 1..n : i = lp
  BY <1>2, <1>3
<1>5. i \in Nat \ {0} /\ i - 1 \in Nat /\ (i - 1) + 1 = i
  OBVIOUS
<1>6. DOMAIN zacc = 1..n
  BY <1>1, <1>3 DEF Shape
<1>7. PICK x \in Nat : x = zacc[lp]
  BY <1>4, <1>6, <1>1 DEF Shape, NatItems
<1>8. PICK p \in Nat : p = Power(FASTBASE)[i - 1]
  BY <1>5, PowerFacts
<1>9. PICK w \in Nat : w = Worth(FASTBASE, zacc)[n]
  BY <1>1, WorthZero DEF Shape
<1>10. x * p <= w
  <2>1. Item(zacc, i) = x
    BY <1>4, <1>6, <1>7 DEF Item
  <2>2. Item(zacc, i) * Power(FASTBASE)[i - 1] <= Worth(FASTBASE, zacc)[n]
    BY <1>1, ItemBelow DEF Shape
  <2> QED
    BY <1>8, <1>9, <2>1, <2>2, Zenon
<1>11. w < Power(FASTBASE)[n]
  <2>1. PICK l \in Nat : l = Len(zlhi)
    BY <1>1 DEF Shape
  <2>2. PICK r \in Nat : r = Len(zrhi)
    BY <1>1 DEF Shape
  <2>3. PICK u \in Nat : u = Used /\ u <= r
    BY <1>1, <2>2 DEF Shape
  <2>4. PICK a \in Nat : a = Worth(FASTBASE, zlhi)[l]
    BY <1>1, WorthZero DEF Shape
  <2>5. PICK b \in Nat : b = Worth(FASTBASE, zrhi)[u]
    BY <1>1, WorthZero DEF Shape
  <2>6. PICK f \in Nat : f = Power(FASTBASE)[l]
    BY PowerFacts
  <2>7. PICK g \in Nat : g = Power(FASTBASE)[r]
    BY PowerFacts
  <2> DEFINE Below(s) == NatItems(s) /\ \A k \in DOMAIN s : s[k] <= FASTBASE - 1
  <2>20. Below(zlhi) /\ Below(zrhi)
    BY <1>1 DEF Shape, Top
  <2>21. ASSUME NEW s, Below(s), NEW k \in Nat PROVE Worth(FASTBASE, s)[k] < Power(FASTBASE)[k]
    BY <2>21, WorthBelow
  <2> HIDE DEF Below
  <2>8. a < f
    BY <2>4, <2>6, <2>20, <2>21
  <2>9. b < g
    <3>1. b < Power(FASTBASE)[u] /\ Power(FASTBASE)[u] \in Nat
      BY <2>5, <2>20, <2>21, PowerFacts
    <3>2. Power(FASTBASE)[u] <= g
      BY <2>3, <2>7, PowerGrows
    <3> QED
      BY <3>1, <3>2
  <2>10. w = a * b
    BY <1>3, <1>9, <2>1, <2>3, <2>4, <2>5, Zenon DEF Accumulated
  <2>11. a * b < f * g
    <3>1. a * b <= a * g /\ a * g < f * g
      BY <2>8, <2>9
    <3>2. a * b \in Nat /\ a * g \in Nat /\ f * g \in Nat
      OBVIOUS
    <3> QED
      BY <3>1, <3>2
  <2>12. Power(FASTBASE)[n] = f * g
    <3>1. n = l + r
      BY <1>1, <1>3, <2>1, <2>2 DEF Shape
    <3> QED
      BY <2>6, <2>7, <3>1, PowerSum
  <2> QED
    BY <2>10, <2>11, <2>12
<1>12. Power(FASTBASE)[i] = FASTBASE * p /\ Power(FASTBASE)[i + 1] = FASTBASE * (FASTBASE * p)
  <2>1. i \in Nat /\ i - 1 \in Nat /\ (i - 1) + 1 = i
    OBVIOUS
  <2>2. Power(FASTBASE)[(i - 1) + 1] = FASTBASE * Power(FASTBASE)[i - 1]
    BY <2>1, PowerFacts
  <2>3. Power(FASTBASE)[i + 1] = FASTBASE * Power(FASTBASE)[i]
    BY <2>1, PowerFacts
  <2> QED
    BY <1>8, <2>1, <2>2, <2>3, Zenon
<1>13. FASTBASE \in Nat /\ FASTBASE > 1 /\ FASTBASE * p \in Nat
       /\ FASTBASE * (FASTBASE * p) \in Nat
  <2>1. FASTBASE \in Nat /\ FASTBASE > 1 /\ FASTBASE * p \in Nat
    BY FastAssumption
  <2> QED
    BY <2>1
<1>14. ASSUME NEW j \in Nat, Power(FASTBASE)[j] <= w PROVE j + 1 \in 1..n
  <2>3. Power(FASTBASE)[j] \in Nat /\ Power(FASTBASE)[n] \in Nat
    BY PowerFacts
  <2>1. Power(FASTBASE)[j] < Power(FASTBASE)[n]
    BY <1>11, <1>14, <2>3
  <2>2. ~(n <= j)
    <3> SUFFICES ASSUME n <= j PROVE FALSE
      OBVIOUS
    <3>1. Power(FASTBASE)[n] <= Power(FASTBASE)[j]
      BY PowerGrows
    <3> QED
      BY <2>1, <2>3, <3>1
  <2> QED
    BY <2>2
<1>15. ASSUME zacc[lp] >= FASTBASE PROVE lp + 1 \in DOMAIN zacc
  <2>1. x >= FASTBASE
    BY <1>7, <1>15
  <2>2. FASTBASE * p <= x * p /\ x * p \in Nat
    BY <1>13, <2>1
  <2>3. Power(FASTBASE)[i] <= w
    BY <1>10, <1>12, <1>13, <2>2
  <2> QED
    BY <1>4, <1>5, <1>6, <1>14, <2>3
<1>16. ASSUME lcarry >= FASTBASE PROVE lp + 2 \in DOMAIN zacc
  <2>1. PICK q \in Nat : q = lcarry
    BY <1>7, Divide DEF lcarry
  <2>2. q >= FASTBASE /\ FASTBASE * q <= x
    <3>1. x - FASTBASE * (x \div FASTBASE) \in 0..Top /\ q = x \div FASTBASE
      BY <1>7, <2>1, Divide DEF lcarry
    <3>2. FASTBASE * q \in Nat
      BY <1>13
    <3> QED
      BY <1>16, <2>1, <3>1, <3>2, Constants
  <2>3. FASTBASE * FASTBASE <= FASTBASE * q
    BY <1>13, <2>2
  <2>4. FASTBASE * FASTBASE \in Nat /\ FASTBASE * q \in Nat
    BY <1>13
  <2>5. FASTBASE * FASTBASE <= x
    BY <2>2, <2>3, <2>4
  <2>6. (FASTBASE * FASTBASE) * p <= x * p /\ x * p \in Nat
    BY <2>4, <2>5
  <2>7. (FASTBASE * FASTBASE) * p = FASTBASE * (FASTBASE * p)
    BY <1>13, Spread
  <2>8. Power(FASTBASE)[i + 1] <= w
    BY <1>10, <1>12, <1>13, <2>6, <2>7
  <2>9. (i + 1) + 1 = lp + 2 /\ i + 1 \in Nat
    BY <1>4
  <2> QED
    BY <1>6, <1>14, <2>8, <2>9
<1> QED
  BY <1>15, <1>16

\* x is left of the i-th item, the next takes c
Carried(s, n, i, x, c) ==
    [k \in 1..n |-> IF k = i THEN x ELSE IF k = i + 1 THEN s[k] + c ELSE s[k]]

\* the i-th item is x and a carry of c, and has an item above it
CarryFits(s, n, i, x, c) ==
    /\ n \in Nat /\ s \in [1..n -> Nat] /\ i \in 1..n /\ i + 1 \in 1..n
    /\ x \in Nat /\ c \in Nat /\ s[i] = x + FASTBASE * c

\* a carry that finds an item leaves the number as it was
LEMMA CarryKeeps ==
    ASSUME NEW s, NEW n, NEW i, NEW x, NEW c, CarryFits(s, n, i, x, c)
    PROVE  /\ Carried(s, n, i, x, c) \in [1..n -> Nat]
           /\ Worth(FASTBASE, Carried(s, n, i, x, c))[n] = Worth(FASTBASE, s)[n]
<1>0. n \in Nat /\ s \in [1..n -> Nat] /\ i \in 1..n /\ i + 1 \in 1..n
      /\ x \in Nat /\ c \in Nat /\ s[i] = x + FASTBASE * c
  BY DEF CarryFits
<1>1. PICK u : u = [k \in 1..n |-> IF k = i THEN x ELSE s[k]]
  OBVIOUS
<1>2. PICK v : v = [k \in 1..n |-> IF k = i THEN x
                                   ELSE IF k = i + 1 THEN s[k] + c ELSE s[k]]
  OBVIOUS
<1>3. Carried(s, n, i, x, c) = v
  BY <1>2 DEF Carried
<1>4. u \in [1..n -> Nat] /\ v \in [1..n -> Nat]
  BY <1>0, <1>1, <1>2
<1>5. NatItems(s) /\ NatItems(u) /\ NatItems(v)
  BY <1>0, <1>4 DEF NatItems
<1>6. ElseSame(s, u, i)
  BY <1>0, <1>1 DEF Item, ElseSame
<1>7. ElseSame(u, v, i + 1)
  BY <1>0, <1>1, <1>2 DEF Item, ElseSame
<1>8. Item(s, i) = Item(u, i) + FASTBASE * c
  BY <1>0, <1>1 DEF Item
<1>9. Item(v, i + 1) = Item(u, i + 1) + c
  BY <1>0, <1>1, <1>2 DEF Item
<1>10. Worth(FASTBASE, v)[n] = Worth(FASTBASE, s)[n]
  BY <1>0, <1>5, <1>6, <1>7, <1>8, <1>9, CarryMoved
<1> QED
  BY <1>3, <1>4, <1>10, Zenon

\* one place: the item above takes what the item loses
LEMMA CarryOneProduct == ChunksInv /\ Accumulated /\ CarryOnePlace => Accumulated'
<1> SUFFICES ASSUME ChunksInv, Accumulated, CarryOnePlace PROVE Accumulated'
  OBVIOUS
<1>1. Shape /\ Shape'
  BY CarryOneStep, ShapeHolds, PTL
<1>2. /\ stage = "resolve" /\ stage' = stage /\ zlhi' = zlhi /\ zrhi' = zrhi
      /\ rip' = rip /\ lp \in DOMAIN zacc /\ lp + 1 \in DOMAIN zacc
  BY CarryHasRoom DEF CarryOnePlace, Resolving, ChunksInv, ChunksTypeOK
<1>3. PICK n \in Nat : n = Len(zacc)
  BY <1>1 DEF Shape
<1>4. PICK i \in 1..n : i = lp /\ i + 1 \in 1..n
  BY <1>1, <1>2, <1>3 DEF Shape
<1>5. PICK s \in [1..n -> Nat] : s = zacc
  BY <1>1, <1>3 DEF Shape, ChunksInv, ChunksTypeOK
<1>6. PICK c \in Nat : c = lcarry
  BY <1>4, <1>5, Divide DEF lcarry
<1>7. PICK x \in Nat : x = s[i] - FASTBASE * c
  <2>1. c = s[i] \div FASTBASE /\ s[i] \in Nat
    BY <1>4, <1>5, <1>6 DEF lcarry
  <2>2. s[i] - FASTBASE * (s[i] \div FASTBASE) \in 0..Top
    BY <2>1, Divide
  <2> QED
    BY <2>1, <2>2, Constants
<1>8. s[i] = x + FASTBASE * c
  <2>1. FASTBASE * c \in Nat /\ s[i] \in Nat
    BY FastAssumption
  <2> QED
    BY <1>7, <2>1
<1>9. zacc' = [s EXCEPT ![i] = x, ![i + 1] = @ + c]
  BY <1>4, <1>5, <1>6, <1>7 DEF CarryOnePlace
<1>10. zacc' = Carried(s, n, i, x, c)
  <2>1. i # i + 1
    BY <1>4
  <2>2. DOMAIN zacc' = 1..n /\ zacc' = [k \in 1..n |-> zacc'[k]]
    BY <1>9
  <2>3. ASSUME NEW k \in 1..n
        PROVE  zacc'[k] = IF k = i THEN x ELSE IF k = i + 1 THEN s[k] + c ELSE s[k]
    BY <1>4, <1>9, <2>1
  <2> QED
    BY <2>2, <2>3, Zenon DEF Carried
<1>11. Worth(FASTBASE, zacc')[n] = Worth(FASTBASE, s)[n]
  <2>1. CarryFits(s, n, i, x, c)
    BY <1>4, <1>8 DEF CarryFits
  <2> QED
    BY <1>10, <2>1, CarryKeeps
<1>12. Len(zacc') = n /\ Used' = Used
  <2>1. Len(zacc') = Len(zlhi') + Len(zrhi') /\ Len(zacc) = Len(zlhi) + Len(zrhi)
    BY <1>1 DEF Shape
  <2> QED
    BY <1>2, <1>3, <2>1 DEF Used
<1> QED
  BY <1>2, <1>3, <1>5, <1>11, <1>12, Zenon DEF Accumulated

\* two places: what would be too much for the item above goes one higher
LEMMA CarryTwoProduct == ChunksInv /\ Accumulated /\ CarryTwoPlaces => Accumulated'
<1> SUFFICES ASSUME ChunksInv, Accumulated, CarryTwoPlaces PROVE Accumulated'
  OBVIOUS
<1>1. Shape /\ Shape'
  BY CarryTwoStep, ShapeHolds, PTL
<1>2. /\ stage = "resolve" /\ stage' = stage /\ zlhi' = zlhi /\ zrhi' = zrhi
      /\ rip' = rip /\ lp \in DOMAIN zacc
      /\ lp + 1 \in DOMAIN zacc /\ lp + 2 \in DOMAIN zacc
  BY CarryHasRoom DEF CarryTwoPlaces, Resolving, ChunksInv, ChunksTypeOK
<1>3. PICK n \in Nat : n = Len(zacc)
  BY <1>1 DEF Shape
<1>4. PICK i \in 1..n : i = lp /\ i + 1 \in 1..n /\ i + 2 \in 1..n
  BY <1>1, <1>2, <1>3 DEF Shape
<1>5. PICK s \in [1..n -> Nat] : s = zacc
  BY <1>1, <1>3 DEF Shape, ChunksInv, ChunksTypeOK
<1>6. PICK q \in Nat : q = lcarry
  BY <1>4, <1>5, Divide DEF lcarry
<1>7. PICK x \in Nat : x = s[i] - FASTBASE * q
  <2>1. q = s[i] \div FASTBASE /\ s[i] \in Nat
    BY <1>4, <1>5, <1>6 DEF lcarry
  <2>2. s[i] - FASTBASE * (s[i] \div FASTBASE) \in 0..Top
    BY <2>1, Divide
  <2> QED
    BY <2>1, <2>2, Constants
<1>8. PICK d \in Nat : d = q \div FASTBASE
  BY Divide
<1>9. PICK c \in Nat : c = q - FASTBASE * d
  <2>1. q - FASTBASE * (q \div FASTBASE) \in 0..Top
    BY Divide
  <2>2. q - FASTBASE * (q \div FASTBASE) \in Nat
    BY <2>1, Constants
  <2> QED
    BY <1>8, <2>2
<1>10. FASTBASE * q \in Nat /\ FASTBASE * d \in Nat /\ FASTBASE * c \in Nat
       /\ FASTBASE * (FASTBASE * d) \in Nat
  <2>1. FASTBASE * q \in Nat /\ FASTBASE * d \in Nat /\ FASTBASE * c \in Nat
    BY FastAssumption
  <2> QED
    BY <2>1, FastAssumption
<1>11. s[i] = x + FASTBASE * q /\ q = c + FASTBASE * d
  <2>1. s[i] \in Nat /\ FASTBASE * q \in Nat /\ FASTBASE * d \in Nat
    BY <1>10
  <2>2. s[i] = x + FASTBASE * q
    BY <1>7, <2>1
  <2>3. q = c + FASTBASE * d
    BY <1>9, <2>1
  <2> QED
    BY <2>2, <2>3
<1>12. (s[i] - FASTBASE * FASTBASE * d) - FASTBASE * c = x
  <2>1. FASTBASE * q = FASTBASE * c + FASTBASE * (FASTBASE * d)
    BY <1>10, <1>11, FastAssumption
  <2>2. FASTBASE * FASTBASE * d = FASTBASE * (FASTBASE * d)
    BY FastAssumption, Spread
  <2>3. PICK f, g \in Nat : f = FASTBASE * c /\ g = FASTBASE * (FASTBASE * d)
    BY <1>10
  <2>4. s[i] = x + (f + g)
    BY <1>11, <2>1, <2>3, Zenon
  <2>5. (s[i] - g) - f = x
    BY <2>4
  <2> QED
    BY <2>2, <2>3, <2>5, Zenon
<1>13. zacc' = [s EXCEPT ![i] = x, ![i + 1] = @ + c, ![i + 2] = @ + d]
  <2>1. zacc' = [s EXCEPT ![i] = @ - FASTBASE * FASTBASE * d - FASTBASE * c,
                          ![i + 1] = @ + c, ![i + 2] = @ + d]
    BY <1>4, <1>5, <1>6, <1>8, <1>9, Zenon DEF CarryTwoPlaces
  <2> QED
    BY <1>12, <2>1
<1>14. PICK t : t = Carried(s, n, i, x, q)
  OBVIOUS
<1>15. t \in [1..n -> Nat] /\ Worth(FASTBASE, t)[n] = Worth(FASTBASE, s)[n]
  <2>1. CarryFits(s, n, i, x, q)
    BY <1>4, <1>11 DEF CarryFits
  <2> QED
    BY <1>14, <2>1, CarryKeeps, SMTT(30)
<1>16. PICK y \in Nat : y = s[i + 1] + c
  BY <1>4
<1>17. t[i + 1] = y + FASTBASE * d
  <2>1. t[i + 1] = s[i + 1] + q /\ s[i + 1] \in Nat
    BY <1>4, <1>14 DEF Carried
  <2>2. s[i + 1] + (c + FASTBASE * d) = (s[i + 1] + c) + FASTBASE * d
    BY <1>10, <2>1
  <2> QED
    BY <1>11, <1>16, <2>1, <2>2, Zenon
<1>18. zacc' = Carried(t, n, i + 1, y, d)
  <2>1. i # i + 1 /\ i # i + 2 /\ i + 1 # i + 2 /\ (i + 1) + 1 = i + 2
    BY <1>4
  <2>2. DOMAIN zacc' = 1..n /\ zacc' = [k \in 1..n |-> zacc'[k]]
    BY <1>13
  <2>3. ASSUME NEW k \in 1..n
        PROVE  zacc'[k] = IF k = i THEN x ELSE IF k = i + 1 THEN s[k] + c
                          ELSE IF k = i + 2 THEN s[k] + d ELSE s[k]
    BY <1>4, <1>13, <2>1
  <2>4. ASSUME NEW k \in 1..n
        PROVE  t[k] = IF k = i THEN x ELSE IF k = i + 1 THEN s[k] + q ELSE s[k]
    BY <1>14 DEF Carried
  <2>5. ASSUME NEW k \in 1..n
        PROVE  zacc'[k] = IF k = i + 1 THEN y
                          ELSE IF k = (i + 1) + 1 THEN t[k] + d ELSE t[k]
    BY <1>16, <2>1, <2>3, <2>4
  <2> QED
    BY <2>2, <2>5, Zenon DEF Carried
<1>19. Worth(FASTBASE, zacc')[n] = Worth(FASTBASE, t)[n]
  <2>1. CarryFits(t, n, i + 1, y, d)
    <3>1. i + 1 \in 1..n /\ (i + 1) + 1 \in 1..n
      BY <1>4
    <3> QED
      BY <1>15, <1>17, <3>1, Zenon DEF CarryFits
  <2> QED
    BY <1>18, <2>1, CarryKeeps
<1>20. Len(zacc') = n /\ Used' = Used
  <2>1. Len(zacc') = Len(zlhi') + Len(zrhi') /\ Len(zacc) = Len(zlhi) + Len(zrhi)
    BY <1>1 DEF Shape
  <2> QED
    BY <1>2, <1>3, <2>1 DEF Used
<1> QED
  BY <1>2, <1>3, <1>5, <1>15, <1>19, <1>20, Zenon DEF Accumulated

\* the other two actions leave the numbers alone
LEMMA OthersProduct == ChunksInv /\ Accumulated /\ (Fits \/ Resolved) => Accumulated'
<1> SUFFICES ASSUME ChunksInv, Accumulated, Fits \/ Resolved PROVE Accumulated'
  OBVIOUS
<1>1. zlhi' = zlhi /\ zrhi' = zrhi /\ zacc' = zacc
  BY DEF Fits, Resolved
<1>2. Used' = Used /\ (stage' = "chunked" => rip' = Len(zrhi))
  <2>1. rip \in 1..Len(zrhi) /\ Len(zrhi) \in Nat
    BY ShapeHolds DEF Shape
  <2> QED
    BY <2>1 DEF Fits, Resolved, Resolving, Used
<1> QED
  BY <1>1, <1>2, Zenon DEF Accumulated

(***************************************************************************)
(* The theorems.                                                           *)
(***************************************************************************)

\* Both invariants together.
LEMMA ChunkStepKeeps == ChunksInv /\ Accumulated /\ ChunksNext => ChunksInv' /\ Accumulated'
<1> SUFFICES ASSUME ChunksInv, Accumulated, ChunksNext PROVE ChunksInv' /\ Accumulated'
  OBVIOUS
<1>1. ChunksInv'
  BY AddRowStep, FitsStep, CarryOneStep, CarryTwoStep, ResolvedStep DEF ChunksNext
<1>2. Accumulated'
  BY AddRowProduct, CarryOneProduct, CarryTwoProduct, OthersProduct DEF ChunksNext
<1> QED
  BY <1>1, <1>2

THEOREM ProductInvariant == ChunksSpec => [](ChunksInv /\ Accumulated)
<1>1. ChunksInit => ChunksInv /\ Accumulated
  BY InitChunksInv, InitProduct
<1>2. ChunksInv /\ Accumulated /\ [ChunksNext]_chunkVars => (ChunksInv /\ Accumulated)'
  <2> SUFFICES ASSUME ChunksInv, Accumulated, [ChunksNext]_chunkVars PROVE ChunksInv' /\ Accumulated'
    OBVIOUS
  <2>1. CASE ChunksNext
    BY <2>1, ChunkStepKeeps
  <2>2. CASE UNCHANGED chunkVars
    BY <2>2 DEF chunkVars, ChunksInv, ChunksTypeOK, RowsBound, CarryBound, Limit, AllChunks,
                Accumulated, Used
  <2> QED
    BY <2>1, <2>2
<1> QED
  BY <1>1, <1>2, PTL DEF ChunksSpec

\* The chunks that are left stand for the product of the numbers that the
\* operands' chunks stand for, with operands of any length (decMultiplyOp).
THEOREM ProductExact ==
    ChunksSpec => [](stage = "chunked"
        => Worth(FASTBASE, zacc)[Len(zacc)] = Worth(FASTBASE, zlhi)[Len(zlhi)] * Worth(FASTBASE, zrhi)[Len(zrhi)])
<1>1. Accumulated => (stage = "chunked"
        => Worth(FASTBASE, zacc)[Len(zacc)] = Worth(FASTBASE, zlhi)[Len(zlhi)] * Worth(FASTBASE, zrhi)[Len(zrhi)])
  <2> SUFFICES ASSUME Accumulated, stage = "chunked"
               PROVE  Worth(FASTBASE, zacc)[Len(zacc)]
                          = Worth(FASTBASE, zlhi)[Len(zlhi)] * Worth(FASTBASE, zrhi)[Len(zrhi)]
    OBVIOUS
  <2>1. rip = Len(zrhi) /\ Used = rip
    BY DEF Accumulated, Used
  <2> QED
    BY <2>1, Zenon DEF Accumulated
<1> QED
  BY <1>1, ProductInvariant, PTL

\* every item fits, and the carries stay inside the array
LEMMA InvFits == ChunksInv /\ Accumulated => AccumulatorFits
<1>1. ChunksInv => \A k \in DOMAIN zacc : /\ zacc[k] \in 0..(WordSize - 1)
                                          /\ stage = "chunked" => zacc[k] < FASTBASE
  <2> SUFFICES ASSUME ChunksInv, NEW k \in DOMAIN zacc
               PROVE  /\ zacc[k] \in 0..(WordSize - 1)
                      /\ stage = "chunked" => zacc[k] < FASTBASE
    OBVIOUS
  <2>1. zacc[k] \in Nat /\ k \in Nat /\ lp \in Nat /\ lazy \in 1..FASTLAZY
    BY DEF ChunksInv, ChunksTypeOK
  <2>2. zacc[k] <= Full + Top + FASTLAZY
    <3>1. CASE stage = "add"
      <4>1. FASTLAZY - lazy \in Nat /\ FASTLAZY - lazy <= FASTLAZY
        BY <2>1, FastAssumption
      <4>2. (FASTLAZY - lazy) * Square <= FASTLAZY * Square
            /\ (FASTLAZY - lazy) * Square \in Nat
        BY <4>1, Constants, FastAssumption
      <4>3. zacc[k] <= Top + (FASTLAZY - lazy) * Square
        BY <3>1 DEF ChunksInv, RowsBound
      <4> QED
        BY <2>1, <4>2, <4>3, Constants, FastAssumption DEF Full
    <3>2. CASE stage = "resolve"
      <4>1. zacc[k] <= Limit(k)
        BY <3>2 DEF ChunksInv, CarryBound
      <4>2. Top <= Full
        BY Constants DEF Full
      <4> QED
        BY <2>1, <4>1, <4>2, Constants, FastAssumption DEF Limit
    <3>3. CASE stage = "chunked"
      BY <2>1, <3>3, Constants, FastAssumption DEF ChunksInv, AllChunks
    <3> QED
      BY <3>1, <3>2, <3>3 DEF ChunksInv, ChunksTypeOK
  <2>3. stage = "chunked" => zacc[k] < FASTBASE
    BY <2>1, FastAssumption DEF ChunksInv, AllChunks, Top
  <2> QED
    BY <2>1, <2>2, <2>3, Constants, FastAssumption
<1> QED
  BY <1>1, CarryHasRoom DEF AccumulatorFits

\* No item of the accumulator ever reaches the width of its type, no carry is
\* added behind the end of the array, and in the end each item is a single
\* chunk: FASTLAZY rows may wait for their carries, with operands of any
\* length (decMultiplyOp).
THEOREM NoOverflow == ChunksSpec => []AccumulatorFits
BY InvFits, ProductInvariant, PTL

(***************************************************************************)
(* Units and chunks: a number is worth the same in both.                   *)
(***************************************************************************)
LEMMA ChunkBase ==
    /\ PerChunk \in Nat \ {0} /\ DPUN * PerChunk = FASTDIGS
    /\ Power(Base)[PerChunk] = FASTBASE
    /\ FASTBASE \in Nat /\ FASTBASE > 1
<1>1. DPUN \in Nat \ {0} /\ FASTDIGS \in Nat \ {0} /\ FASTDIGS % DPUN = 0
  BY UnitBase, ChunksAssumption
<1>2. PerChunk \in Nat /\ FASTDIGS = PerChunk * DPUN
  BY <1>1, Euclid DEF PerChunk
<1> HIDE DEF PerChunk
<1>3. PerChunk # 0 /\ DPUN * PerChunk = PerChunk * DPUN
  BY <1>1, <1>2
<1> QED
  BY <1>1, <1>2, <1>3, PowerOfBase, ChunksAssumption

LEMMA PowerOfChunk ==
    ASSUME NEW k \in Nat
    PROVE  /\ k * PerChunk \in Nat
           /\ Power(Base)[k * PerChunk] = Power(FASTBASE)[k]
           /\ Power(FASTBASE)[k] = powers[FASTDIGS * k] /\ FASTDIGS * k \in Nat
<1> DEFINE Good == {j \in 0..k : Power(Base)[j * PerChunk] = Power(FASTBASE)[j]}
<1>1. PerChunk \in Nat /\ Power(Base)[PerChunk] = FASTBASE /\ FASTBASE \in Nat /\ FASTBASE > 1
      /\ Base \in Nat /\ Base > 1 /\ DPUN \in Nat /\ DPUN * PerChunk = FASTDIGS
  BY ChunkBase, UnitBase
<1> HIDE DEF PerChunk
<1>2. 0 \in Good
  <2>1. 0 * PerChunk = 0 /\ Power(Base)[0] = 1 /\ Power(FASTBASE)[0] = 1
    BY <1>1, PowerFacts
  <2> QED
    BY <2>1
<1>3. ASSUME NEW j \in 1..k, j - 1 \in Good PROVE j \in Good
  <2>1. j - 1 \in Nat /\ (j - 1) + 1 = j /\ Power(Base)[(j - 1) * PerChunk] = Power(FASTBASE)[j - 1]
    BY <1>3
  <2>2. (j - 1) * PerChunk \in Nat /\ j * PerChunk = PerChunk + (j - 1) * PerChunk
    BY <1>1, <2>1
  <2>3. Power(Base)[PerChunk + (j - 1) * PerChunk]
            = Power(Base)[PerChunk] * Power(Base)[(j - 1) * PerChunk]
    BY <1>1, <2>2, PowerSum
  <2>4. Power(FASTBASE)[j] = FASTBASE * Power(FASTBASE)[j - 1]
    <3>1. Power(FASTBASE)[(j - 1) + 1] = FASTBASE * Power(FASTBASE)[j - 1]
      BY <1>1, <2>1, PowerFacts
    <3> QED
      BY <2>1, <3>1
  <2>5. Power(Base)[j * PerChunk] = Power(FASTBASE)[j]
    BY <1>1, <2>1, <2>2, <2>3, <2>4, Zenon
  <2> QED
    BY <2>5
<1> HIDE DEF Good
<1>4. \A j \in 0..k : j \in Good
  BY <1>2, <1>3, Climb
<1>5. Power(Base)[k * PerChunk] = Power(FASTBASE)[k]
  <2>1. k \in Good
    BY <1>4
  <2> QED
    BY <2>1 DEF Good
<1>6. k * PerChunk \in Nat
  BY <1>1
<1>7. Power(Base)[k * PerChunk] = powers[DPUN * (k * PerChunk)]
  BY <1>6, PowerOfBase
<1>8. DPUN * (k * PerChunk) = FASTDIGS * k
  <2>1. DPUN * (k * PerChunk) = (DPUN * PerChunk) * k
    BY <1>1
  <2> QED
    BY <1>1, <2>1
<1>9. FASTDIGS * k \in Nat
  BY <1>1, <1>6, <1>8
<1> QED
  BY <1>5, <1>6, <1>7, <1>8, <1>9

\* what stands in an array of chunks
LEMMA ChunksFacts ==
    ASSUME NEW s \in Chunks
    PROVE  /\ Number(FASTBASE, s) = Worth(FASTBASE, s)[Len(s)] /\ NatItems(s)
           /\ Len(s) \in Nat /\ DOMAIN s = 1..Len(s)
<1>1. FASTBASE \in Nat /\ FASTBASE > 1
  BY ChunkBase
<1>2. s \in Seq(Nat) /\ Len(s) \in Nat /\ DOMAIN s = 1..Len(s)
  BY <1>1 DEF Chunks
<1> QED
  BY <1>1, <1>2, NumberWorth

\* Units out of the middle of an array
LEMMA PartIs ==
    ASSUME NEW u \in Arrays, NEW j \in Nat, NEW w \in Nat, j + w <= Len(u)
    PROVE  /\ SubSeq(u, j + 1, j + w) \in Arrays /\ Len(SubSeq(u, j + 1, j + w)) = w
           /\ Worth(Base, u)[j + w]
                  = Worth(Base, u)[j] + Power(Base)[j] * Value(SubSeq(u, j + 1, j + w))
<1> DEFINE t == SubSeq(u, j + 1, j + w)
           Unit == 0..(Base - 1)
<1>1. u \in Seq(Unit) /\ Len(u) \in Nat
  BY DEF Arrays
<1>2. \A i \in 1..Len(u) : u[i] \in Unit
  BY <1>1, ElementOfSeq
<1>3. \A i \in (j + 1)..(j + w) : i \in 1..Len(u)
  BY <1>1
<1> HIDE DEF Unit
<1>4. j + 1 \in Int /\ j + w \in Int /\ \A i \in (j + 1)..(j + w) : u[i] \in Unit
  BY <1>2, <1>3
<1>5. /\ t \in Seq(Unit) /\ Len(t) = IF j + 1 <= j + w THEN j + w - (j + 1) + 1 ELSE 0
      /\ \A i \in 1..(j + w - (j + 1) + 1) : t[i] = u[j + 1 + i - 1]
  BY <1>4, SubSeqProperties
<1> HIDE DEF t
<1>6. t \in Arrays /\ Len(t) = w /\ \A i \in 1..w : t[i] = u[j + i]
  BY <1>5 DEF Unit, Arrays
<1>7. /\ NatItems(u) /\ DOMAIN u = 1..Len(u)
      /\ NatItems(t) /\ DOMAIN t = 1..Len(t) /\ Value(t) = Worth(Base, t)[Len(t)]
  BY <1>6, ArrayFacts
<1>8. \A i \in 1..w : Item(u, j + i) = Item(t, i)
  BY <1>1, <1>6, <1>7 DEF Item
<1>9. Worth(Base, u)[j + w] = Worth(Base, u)[j] + Power(Base)[j] * Worth(Base, t)[w]
  BY <1>7, <1>8, UnitBase, WorthShift
<1> QED
  BY <1>6, <1>7, <1>9 DEF t

\* decMultiplyOp puts Units together
LEMMA ChunkedIs ==
    ASSUME NEW u \in Arrays, Len(u) > 0
    PROVE  /\ Chunked(u) \in Chunks /\ Chunked(u) # <<>>
           /\ Worth(FASTBASE, Chunked(u))[Len(Chunked(u))] = Value(u)
<1> DEFINE n == Len(u)
           m == (n + PerChunk - 1) \div PerChunk
           Front(k) == IF k * PerChunk > n THEN n ELSE k * PerChunk
           ch == Chunked(u)
           Good == {k \in 0..m : Worth(FASTBASE, ch)[k] = Worth(Base, u)[Front(k)]}
<1>1. /\ PerChunk \in Nat \ {0} /\ Power(Base)[PerChunk] = FASTBASE /\ FASTBASE \in Nat
      /\ FASTBASE > 1 /\ Base \in Nat /\ Base > 1
  BY ChunkBase, UnitBase
<1>2. n \in Nat /\ n > 0 /\ NatItems(u) /\ Value(u) = Worth(Base, u)[n]
  BY ArrayFacts
<1> HIDE DEF PerChunk, n
<1>3. m \in Nat /\ m > 0 /\ n <= m * PerChunk /\ (m - 1) * PerChunk < n
  <2>1. n + PerChunk - 1 \in Nat
    BY <1>1, <1>2
  <2>2. /\ m \in Nat /\ (n + PerChunk - 1) % PerChunk \in Nat
        /\ (n + PerChunk - 1) % PerChunk < PerChunk
        /\ n + PerChunk - 1 = m * PerChunk + ((n + PerChunk - 1) % PerChunk)
    BY <1>1, <2>1, Euclid
  <2> HIDE DEF m
  <2>3. m * PerChunk \in Nat /\ (m - 1) * PerChunk = m * PerChunk - PerChunk
    BY <1>1, <2>2
  <2>4. n <= m * PerChunk /\ (m - 1) * PerChunk < n
    BY <1>1, <1>2, <2>2, <2>3
  <2>5. m # 0
    BY <1>1, <1>2, <2>2, <2>4
  <2> QED
    BY <2>2, <2>4, <2>5
<1> HIDE DEF m
<1>4. ASSUME NEW k \in 1..m
      PROVE  /\ Front(k - 1) = (k - 1) * PerChunk /\ (k - 1) * PerChunk \in Nat
             /\ \E w \in Nat : w <= PerChunk /\ Front(k) = (k - 1) * PerChunk + w /\ Front(k) <= n
  <2>1. k - 1 \in Nat /\ k \in Nat /\ m - 1 \in Nat /\ k - 1 <= m - 1
    BY <1>3
  <2>2. (k - 1) * PerChunk <= (m - 1) * PerChunk /\ (k - 1) * PerChunk \in Nat
        /\ (m - 1) * PerChunk \in Nat /\ k * PerChunk = (k - 1) * PerChunk + PerChunk
    BY <1>1, <2>1
  <2>3. (k - 1) * PerChunk < n
    BY <1>2, <1>3, <2>2
  <2>4. PICK j \in Nat : j = (k - 1) * PerChunk
    BY <2>2
  <2>5. Front(k - 1) = j
    BY <1>2, <2>3, <2>4
  <2>6. Front(k) = IF j + PerChunk > n THEN n ELSE j + PerChunk
    BY <2>2, <2>4
  <2> HIDE DEF Front
  <2>7. CASE j + PerChunk > n
    <3>1. n - j \in Nat /\ n - j <= PerChunk /\ Front(k) = j + (n - j) /\ Front(k) <= n
      BY <1>1, <1>2, <2>3, <2>4, <2>6, <2>7
    <3> QED
      BY <2>4, <2>5, <3>1
  <2>8. CASE ~(j + PerChunk > n)
    <3>1. Front(k) = j + PerChunk /\ Front(k) <= n
      BY <1>1, <1>2, <2>6, <2>8
    <3> QED
      BY <1>1, <2>4, <2>5, <3>1
  <2> QED
    BY <2>7, <2>8
<1>5. ch = [k \in 1..m |-> Value(SubSeq(u, (k - 1) * PerChunk + 1, Front(k)))]
  BY Zenon DEF Chunked, m, n
<1> HIDE DEF ch, Front
<1>6. ASSUME NEW k \in 1..m
      PROVE  /\ ch[k] \in Nat /\ ch[k] < FASTBASE
             /\ Worth(Base, u)[Front(k)]
                    = Worth(Base, u)[Front(k - 1)] + Power(Base)[(k - 1) * PerChunk] * ch[k]
  <2>1. PICK w \in Nat : w <= PerChunk /\ Front(k) = (k - 1) * PerChunk + w /\ Front(k) <= n
    BY <1>4
  <2>2. PICK j \in Nat : j = (k - 1) * PerChunk
    BY <1>4
  <2> DEFINE t == SubSeq(u, j + 1, j + w)
  <2>3. j + w <= Len(u) /\ Front(k) = j + w /\ Front(k - 1) = j
    BY <1>4, <2>1, <2>2 DEF n
  <2>4. /\ t \in Arrays /\ Len(t) = w
        /\ Worth(Base, u)[j + w] = Worth(Base, u)[j] + Power(Base)[j] * Value(t)
    BY <2>3, PartIs
  <2>5. ch[k] = Value(t)
    BY <1>5, <2>2, <2>3
  <2> HIDE DEF t
  <2>6. Value(t) \in Nat /\ Value(t) < powers[DPUN * w]
    BY <2>4, ArrayFacts
  <2>7. Power(Base)[w] = powers[DPUN * w] /\ Power(Base)[w] <= Power(Base)[PerChunk]
        /\ Power(Base)[w] \in Nat
    BY <1>1, <2>1, PowerOfBase, PowerGrows, PowerFacts
  <2>8. ch[k] \in Nat /\ ch[k] < FASTBASE
    BY <1>1, <2>5, <2>6, <2>7
  <2> QED
    BY <2>2, <2>3, <2>4, <2>5, <2>8
<1>7. ch \in Chunks /\ Len(ch) = m
  <2> DEFINE Chunk == 0..(FASTBASE - 1)
  <2>1. \A k \in 1..m : ch[k] \in Chunk
    BY <1>1, <1>6
  <2> HIDE DEF Chunk
  <2>2. ch \in [1..m -> Chunk]
    BY <1>5, <2>1
  <2>3. ch \in Seq(Chunk) /\ Len(ch) = m
    BY <1>3, <2>2
  <2> QED
    BY <2>3 DEF Chunk, Chunks
<1>8. NatItems(ch) /\ DOMAIN ch = 1..m
  BY <1>7, ChunksFacts
<1>9. 0 \in Good
  <2>1. Front(0) = 0
    BY <1>1, <1>2 DEF Front
  <2>2. Worth(FASTBASE, ch)[0] = 0 /\ Worth(Base, u)[0] = 0
    BY <1>1, <1>2, <1>8, WorthZero
  <2> QED
    BY <1>3, <2>1, <2>2
<1>10. ASSUME NEW k \in 1..m, k - 1 \in Good PROVE k \in Good
  <2>1. k - 1 \in Nat /\ k \in Nat \ {0} /\ k \in 0..m
    BY <1>3
  <2>2. Worth(FASTBASE, ch)[k] = Worth(FASTBASE, ch)[k - 1] + Item(ch, k) * Power(FASTBASE)[k - 1]
        /\ Power(FASTBASE)[k - 1] \in Nat
    BY <1>1, <1>8, <2>1, WorthStep
  <2>3. Item(ch, k) = ch[k]
    BY <1>8 DEF Item
  <2>4. Power(Base)[(k - 1) * PerChunk] = Power(FASTBASE)[k - 1]
    BY <2>1, PowerOfChunk
  <2>5. Worth(FASTBASE, ch)[k - 1] = Worth(Base, u)[Front(k - 1)]
    BY <1>10
  <2>6. ch[k] * Power(FASTBASE)[k - 1] = Power(FASTBASE)[k - 1] * ch[k]
    BY <1>6, <2>2
  <2>7. Worth(Base, u)[Front(k)]
            = Worth(Base, u)[Front(k - 1)] + Power(Base)[(k - 1) * PerChunk] * ch[k]
    BY <1>6
  <2>8. Worth(FASTBASE, ch)[k] = Worth(Base, u)[Front(k)]
    BY <2>2, <2>3, <2>4, <2>5, <2>6, <2>7, Zenon
  <2> QED
    BY <2>1, <2>8
<1> HIDE DEF Good
<1>11. \A k \in 0..m : k \in Good
  BY <1>3, <1>9, <1>10, Climb
<1>12. Worth(FASTBASE, ch)[m] = Worth(Base, u)[Front(m)]
  <2>1. m \in Good
    BY <1>3, <1>11
  <2> QED
    BY <2>1 DEF Good
<1>13. Front(m) = n
  <2>1. m * PerChunk \in Nat
    BY <1>1, <1>3
  <2> QED
    BY <1>2, <1>3, <2>1 DEF Front
<1>14. ch # <<>>
  BY <1>3, <1>7
<1> QED
  BY <1>2, <1>7, <1>12, <1>13, <1>14 DEF ch

LEMMA PowersPositive == \A e \in Nat : powers[e] \in Nat \ {0}
BY PowersFacts

\* decMultiplyOp cuts each chunk into Units
IsCut(a, z, n) ==
    a = [k \in 1..(n * PerChunk) |->
            (z[(k - 1) \div PerChunk + 1]
                 \div powers[DPUN * ((k - 1) % PerChunk)]) % Base]

LEMMA CutIs ==
    ASSUME NEW n \in Nat, NEW z \in [1..n -> Nat], \A k \in 1..n : z[k] < FASTBASE,
           NEW a, IsCut(a, z, n)
    PROVE  a \in Arrays /\ Value(a) = Worth(FASTBASE, z)[n]
<1> DEFINE Good == {k \in 0..n : Worth(Base, a)[k * PerChunk] = Worth(FASTBASE, z)[k]}
<1>1. /\ PerChunk \in Nat \ {0} /\ DPUN * PerChunk = FASTDIGS /\ FASTBASE \in Nat
      /\ FASTBASE > 1 /\ Base \in Nat \ {0} /\ Base > 1 /\ DPUN \in Nat
      /\ FASTBASE = powers[FASTDIGS]
  BY ChunkBase, UnitBase, ChunksAssumption
<1> HIDE DEF PerChunk
<1>2. n * PerChunk \in Nat
  BY <1>1
<1>11. \A x \in 1..(n * PerChunk) :
           a[x] = (z[(x - 1) \div PerChunk + 1] \div powers[DPUN * ((x - 1) % PerChunk)]) % Base
  BY Zenon DEF IsCut
<1>3. ASSUME NEW k \in 1..(n * PerChunk) PROVE a[k] \in 0..(Base - 1)
  <2>1. k - 1 \in Nat /\ k - 1 < n * PerChunk
    BY <1>2
  <2>2. PICK q \in Nat : q = (k - 1) \div PerChunk
    BY <1>1, <2>1, Euclid
  <2>3. PICK r \in Nat : r = (k - 1) % PerChunk
    BY <1>1, <2>1, Euclid
  <2>4. k - 1 = q * PerChunk + r
    BY <1>1, <2>1, <2>2, <2>3, Euclid
  <2>5. ~(n <= q)
    <3>1. n <= q => n * PerChunk <= q * PerChunk
      BY <1>1
    <3>2. q * PerChunk \in Nat
      BY <1>1
    <3> QED
      BY <1>2, <2>1, <2>4, <3>1, <3>2
  <2>6. q + 1 \in 1..n /\ z[q + 1] \in Nat
    BY <2>5
  <2>7. DPUN * r \in Nat
    BY <1>1
  <2>8. powers[DPUN * r] \in Nat \ {0}
    BY <2>7, PowersPositive, Zenon
  <2>9. z[q + 1] \div powers[DPUN * r] \in Nat
    BY <2>6, <2>8, Euclid
  <2>10. (z[q + 1] \div powers[DPUN * r]) % Base \in 0..(Base - 1)
    <3>1. PICK x \in Nat : x = z[q + 1] \div powers[DPUN * r]
      BY <2>9
    <3>2. x % Base \in 0..(Base - 1)
      BY <1>1, Euclid
    <3> QED
      BY <3>1, <3>2, Zenon
  <2>11. a[k] = (z[q + 1] \div powers[DPUN * r]) % Base
    BY <2>2, <2>3, Zenon DEF IsCut
  <2> QED
    BY <2>10, <2>11
<1>4. a \in Arrays /\ Len(a) = n * PerChunk /\ DOMAIN a = 1..(n * PerChunk)
  <2> DEFINE Unit == 0..(Base - 1)
  <2>0. a = [k \in 1..(n * PerChunk) |-> a[k]]
    BY DEF IsCut
  <2>1. \A k \in 1..(n * PerChunk) : a[k] \in Unit
    BY <1>3
  <2> HIDE DEF Unit
  <2>2. a \in [1..(n * PerChunk) -> Unit]
    BY <2>0, <2>1
  <2>3. a \in [1..(n * PerChunk) -> 0..(Base - 1)]
    BY <2>2 DEF Unit
  <2> QED
    BY <1>2, <2>3, ArrayIs
<1>5. /\ NatItems(a) /\ Value(a) = Worth(Base, a)[n * PerChunk]
      /\ NatItems(z) /\ DOMAIN z = 1..n
  BY <1>4, ArrayFacts DEF NatItems
<1>6. ASSUME NEW k \in 1..n
      PROVE  /\ (k - 1) * PerChunk \in Nat /\ k * PerChunk = (k - 1) * PerChunk + PerChunk
             /\ Worth(Base, a)[k * PerChunk]
                    = Worth(Base, a)[(k - 1) * PerChunk] + Power(Base)[(k - 1) * PerChunk] * z[k]
  <2> DEFINE t == ToUnits(z[k], PerChunk)
  <2>1. z[k] \in Nat /\ z[k] < FASTBASE /\ k - 1 \in Nat /\ k - 1 < n
    BY <1>2
  <2>2. PICK j \in Nat : j = (k - 1) * PerChunk
    BY <1>1, <2>1
  <2>3. k * PerChunk = j + PerChunk /\ k * PerChunk <= n * PerChunk
    BY <1>1, <2>1, <2>2
  <2>4. ASSUME NEW i \in 1..PerChunk
        PROVE  a[j + i] = (z[k] \div powers[DPUN * (i - 1)]) % Base /\ j + i \in 1..(n * PerChunk)
    <3>1. (j + i) - 1 \in Nat /\ i - 1 \in Nat /\ i - 1 < PerChunk /\ (j + i) - 1 = (k - 1) * PerChunk + (i - 1)
      BY <1>1, <2>2
    <3>2. ((j + i) - 1) \div PerChunk = k - 1 /\ ((j + i) - 1) % PerChunk = i - 1
      <4>1. PICK x \in Nat : x = (j + i) - 1
        BY <3>1
      <4>2. PICK p \in Nat : p = k - 1
        BY <2>1
      <4>3. PICK y \in Nat : y = i - 1
        BY <3>1
      <4>4. x = p * PerChunk + y /\ y < PerChunk
        BY <3>1, <4>1, <4>2, <4>3
      <4>5. x \div PerChunk = p /\ x % PerChunk = y
        BY <1>1, <4>4, QuotientIs
      <4> QED
        BY <4>1, <4>2, <4>3, <4>5, Zenon
    <3>3. j + i \in 1..(n * PerChunk)
      BY <1>1, <1>2, <2>3
    <3>4. (k - 1) + 1 = k
      OBVIOUS
    <3>5. PICK x : x = j + i
      OBVIOUS
    <3>6. a[x] = (z[(x - 1) \div PerChunk + 1] \div powers[DPUN * ((x - 1) % PerChunk)]) % Base
      BY <1>11, <3>3, <3>5, Zenon
    <3>7. (x - 1) \div PerChunk = k - 1 /\ (x - 1) % PerChunk = i - 1
      BY <3>2, <3>5, Zenon
    <3>8. (x - 1) \div PerChunk + 1 = k
      BY <3>4, <3>7, Zenon
    <3> QED
      BY <3>3, <3>5, <3>6, <3>7, <3>8, Zenon
  <2>5. t = [i \in 1..PerChunk |-> (z[k] \div powers[DPUN * (i - 1)]) % Base]
    BY DEF ToUnits
  <2>6. /\ t \in Arrays /\ Len(t) = PerChunk /\ Value(t) = z[k] % powers[DPUN * PerChunk]
    BY <1>1, <2>1, ToUnitsIs
  <2> HIDE DEF t
  <2>7. NatItems(t) /\ DOMAIN t = 1..PerChunk /\ Value(t) = Worth(Base, t)[PerChunk]
    BY <2>6, ArrayFacts
  <2>8. \A i \in 1..PerChunk : Item(a, j + i) = Item(t, i)
    BY <1>4, <2>4, <2>5, <2>7, Zenon DEF Item
  <2>9. Worth(Base, a)[j + PerChunk] = Worth(Base, a)[j] + Power(Base)[j] * Worth(Base, t)[PerChunk]
    BY <1>1, <1>5, <2>7, <2>8, WorthShift
  <2>10. z[k] % powers[DPUN * PerChunk] = z[k]
    <3>1. z[k] = 0 * FASTBASE + z[k]
      BY <1>1, <2>1
    <3>2. z[k] % FASTBASE = z[k]
      <4>1. PICK x \in Nat : x = z[k]
        BY <2>1
      <4>2. x < FASTBASE /\ x = 0 * FASTBASE + x
        BY <1>1, <2>1, <4>1
      <4>3. x % FASTBASE = x
        BY <1>1, <4>2, QuotientIs
      <4> QED
        BY <4>1, <4>3, Zenon
    <3> QED
      BY <1>1, <3>2
  <2> QED
    BY <2>2, <2>3, <2>6, <2>7, <2>9, <2>10
<1>7. 0 \in Good
  <2>1. 0 * PerChunk = 0
    BY <1>1
  <2>2. Worth(FASTBASE, z)[0] = 0 /\ Worth(Base, a)[0] = 0
    BY <1>1, <1>5, WorthZero
  <2> QED
    BY <2>1, <2>2
<1>8. ASSUME NEW k \in 1..n, k - 1 \in Good PROVE k \in Good
  <2>1. k - 1 \in Nat /\ k \in Nat \ {0} /\ k \in 0..n
    OBVIOUS
  <2>2. Worth(FASTBASE, z)[k] = Worth(FASTBASE, z)[k - 1] + Item(z, k) * Power(FASTBASE)[k - 1]
        /\ Power(FASTBASE)[k - 1] \in Nat
    <3>1. PICK b : b = FASTBASE
      OBVIOUS
    <3>2. b \in Nat /\ b > 1 /\ NatItems(z)
      BY <1>1, <1>5, <3>1
    <3>3. \A i \in Nat \ {0} : /\ Worth(b, z)[i] = Worth(b, z)[i - 1] + Item(z, i) * Power(b)[i - 1]
                             /\ Power(b)[i - 1] \in Nat
      BY ONLY <3>2, WorthStep
    <3> QED
      BY <2>1, <3>1, <3>3, Zenon
  <2>3. Item(z, k) = z[k] /\ z[k] \in Nat
    BY <1>5 DEF Item
  <2>4. Power(Base)[(k - 1) * PerChunk] = Power(FASTBASE)[k - 1]
    BY <2>1, PowerOfChunk
  <2>5. Worth(Base, a)[(k - 1) * PerChunk] = Worth(FASTBASE, z)[k - 1]
    BY <1>8
  <2>6. z[k] * Power(FASTBASE)[k - 1] = Power(FASTBASE)[k - 1] * z[k]
    BY <2>2, <2>3
  <2>7. Worth(Base, a)[k * PerChunk]
            = Worth(Base, a)[(k - 1) * PerChunk] + Power(Base)[(k - 1) * PerChunk] * z[k]
    BY <1>6
  <2>8. Worth(Base, a)[k * PerChunk] = Worth(FASTBASE, z)[k]
    BY <2>2, <2>3, <2>4, <2>5, <2>6, <2>7, Zenon
  <2> QED
    BY <2>1, <2>8
<1> HIDE DEF Good
<1>9. \A k \in 0..n : k \in Good
  BY <1>7, <1>8, Climb
<1>10. n \in Good
  BY <1>9
<1> QED
  BY <1>4, <1>5, <1>10 DEF Good

\* a Unit of the multiplier adds its multiple, above the Units that are complete
IsRow(t, a, b, j, m) ==
    t = IF m = 0 THEN Append(a, 0)
        ELSE SubSeq(a, 1, j) \o UnitAddSub(SubSeq(a, j + 1, Len(a)), b, 0, m).units

LEMMA RowIs ==
    ASSUME NEW a \in Arrays, NEW b \in Arrays, b # <<>>, NEW j \in 0..Len(a),
           NEW m \in 0..(Base - 1), NEW t, IsRow(t, a, b, j, m)
    PROVE  /\ t \in Arrays /\ j + 1 <= Len(t)
           /\ Value(t) = Value(a) + powers[DPUN * j] * (m * Value(b))
<1> DEFINE low  == SubSeq(a, 1, j)
           high == SubSeq(a, j + 1, Len(a))
<1>1. Base \in Nat /\ Base > 1 /\ DPUN \in Nat
  BY UnitBase
<1>2. Len(a) \in Nat /\ Value(a) \in Nat /\ Value(b) \in Nat /\ Len(b) \in Nat /\ Len(b) > 0
  <2>1. Len(b) # 0
    BY DEF Arrays
  <2> QED
    BY <2>1, ArrayFacts
<1>3. j \in Nat /\ powers[DPUN * j] \in Nat
  <2>1. DPUN * j \in Nat
    BY <1>1, <1>2
  <2> QED
    BY <1>2, <2>1, PowersPositive
<1>4. CASE m = 0
  <2>1. t = Append(a, 0) /\ 0 \in 0..(Base - 1)
    BY <1>1, <1>4 DEF IsRow
  <2>2. t \in Arrays /\ Value(t) = Value(a) + powers[DPUN * Len(a)] * 0
    BY <2>1, ValueAppend
  <2>3. powers[DPUN * Len(a)] \in Nat
    <3>1. DPUN * Len(a) \in Nat
      BY <1>1, <1>2
    <3> QED
      BY <3>1, PowersFacts
  <2>4. Len(t) = Len(a) + 1
    BY <2>1 DEF Arrays
  <2>5. m * Value(b) = 0 /\ powers[DPUN * j] * 0 = 0 /\ powers[DPUN * Len(a)] * 0 = 0
    BY <1>2, <1>3, <1>4, <2>3
  <2> QED
    BY <1>2, <1>3, <2>2, <2>4, <2>5
<1>5. CASE m # 0
  <2> DEFINE r == UnitAddSub(high, b, 0, m)
  <2>1. /\ low \in Arrays /\ Len(low) = j /\ high \in Arrays
        /\ Value(a) = Value(low) + powers[DPUN * j] * Value(high)
    BY ValueSplits
  <2> HIDE DEF low, high
  <2>2. IsMultiplier(m) /\ m \in Nat
    BY <1>1 DEF IsMultiplier
  <2>3. /\ r.units \in Arrays /\ Len(r.units) >= Len(b) + 0
        /\ r.neg \in BOOLEAN /\ (r.neg => Value(r.units) > 0)
        /\ SignedAs(r, Value(high) + m * (Value(b) * powers[DPUN * 0]))
    BY <2>1, <2>2, UnitAddSubExact
  <2>4. t = low \o r.units
    BY <1>5, Zenon DEF low, high, IsRow
  <2> HIDE DEF r
  <2>5. powers[DPUN * 0] = 1
    BY <1>1, PowersFacts
  <2>6. PICK h \in Nat : h = Value(high)
    BY <2>1, ArrayFacts
  <2>7. PICK v \in Nat : v = Value(b)
    BY <1>2
  <2>8. PICK u \in Nat : u = Value(r.units)
    BY <2>3, ArrayFacts
  <2>9. v * 1 = v /\ m * v \in Nat
    BY <2>2
  <2>10. SignedAs(r, h + m * v)
    BY <2>3, <2>5, <2>6, <2>7, <2>9, Zenon
  <2>11. u = h + m * v
    BY <2>3, <2>8, <2>9, <2>10 DEF SignedAs
  <2>12. t \in Arrays /\ Value(t) = Value(low) + powers[DPUN * j] * u
    BY <2>1, <2>3, <2>4, <2>8, ValueConcat
  <2>13. Len(t) = j + Len(r.units) /\ Len(r.units) \in Nat
    <3>1. PICK x \in Arrays : x = r.units
      BY <2>3
    <3>2. Len(low \o x) = Len(low) + Len(x) /\ Len(x) \in Nat
      BY <2>1 DEF Arrays
    <3> QED
      BY <2>1, <2>4, <3>1, <3>2, Zenon
  <2>14. PICK p \in Nat : p = powers[DPUN * j]
    BY <1>3
  <2>15. PICK w \in Nat : w = Value(low)
    BY <2>1, ArrayFacts
  <2>16. w + p * (h + m * v) = (w + p * h) + p * (m * v)
    BY <2>2
  <2>17. Value(t) = Value(a) + powers[DPUN * j] * (m * Value(b))
    BY <2>1, <2>6, <2>7, <2>11, <2>12, <2>14, <2>15, <2>16, Zenon
  <2> QED
    BY <1>2, <1>3, <2>3, <2>12, <2>13, <2>17
<1> QED
  BY <1>4, <1>5

(***************************************************************************)
(* What is far below the context is delivered alike, however far it is.    *)
(***************************************************************************)
LiftsTiny(neg, mode) ==
    \/ mode \in {"UP", "05UP"}
    \/ mode = "CEILING" /\ ~neg
    \/ mode = "FLOOR" /\ neg

LEMMA RoundsTiny ==
    ASSUME NEW neg \in BOOLEAN, NEW mode \in Modes, NEW n \in Nat \ {0}, NEW unit \in Nat,
           2 * n < unit
    PROVE  RoundsAway(mode, neg, 0, n, unit) <=> LiftsTiny(neg, mode)
<1>1. n > 0 /\ ~(2 * n >= unit) /\ ~(2 * n > unit) /\ 2 * n # unit /\ 0 % 10 = 0
  OBVIOUS
<1>2. 0 \in {0, 5}
  OBVIOUS
<1>3. CASE mode \in {"HALF_UP", "HALF_DOWN", "HALF_EVEN"}
  BY <1>1, <1>3, Zenon DEF RoundsAway, LiftsTiny
<1>4. CASE mode \in {"UP", "DOWN", "05UP"}
  BY <1>1, <1>2, <1>4, Zenon DEF RoundsAway, LiftsTiny
<1>5. CASE mode = "CEILING"
  BY <1>1, <1>5, Zenon DEF RoundsAway, LiftsTiny
<1>6. CASE mode = "FLOOR"
  BY <1>1, <1>6, Zenon DEF RoundsAway, LiftsTiny
<1> QED
  BY <1>3, <1>4, <1>5, <1>6 DEF Modes

LEMMA SunkIs ==
    ASSUME NEW neg \in BOOLEAN, NEW ctx, Context(ctx), NEW n \in Nat \ {0}, NEW q \in Int,
           q + Digits(n) < Etiny(ctx)
    PROVE  /\ Nearest(neg, n, q, ctx)
                  = Neighbour(neg, IF LiftsTiny(neg, ctx.round) THEN 1 ELSE 0, Etiny(ctx), ctx)
           /\ n % powers[Place(n, q, ctx) - q] # 0 /\ Place(n, q, ctx) > q
           /\ IsTiny(n, q, ctx)
<1>1. PICK e \in Int : e = Etiny(ctx) /\ e <= ctx.emin
  BY ContextRange
<1>2. PICK d \in Nat \ {0} : d = Digits(n)
  BY DigitsFacts
<1>3. n < powers[d] /\ ctx.digits \in Nat \ {0} /\ ctx.emin \in Int /\ ctx.round \in Modes
  BY <1>2, DigitsFacts DEF Context
<1>4. Place(n, q, ctx) = e
  <2>1. q <= e /\ q + d - ctx.digits <= e
    BY <1>1, <1>2, <1>3
  <2> QED
    BY <1>1, <1>2, <2>1, PlaceIs
<1>5. PICK k \in Nat : k = e - q /\ d < k
  BY <1>1, <1>2
<1>6. powers[d] \in Nat \ {0} /\ powers[k] \in Nat \ {0} /\ 10 * powers[d] <= powers[k]
  BY <1>5, PowersGrow, PowersPositive
<1>7. n < powers[k] /\ 2 * n < powers[k]
  BY <1>3, <1>6
<1>8. RoundsAway(ctx.round, neg, 0, n, powers[k]) <=> LiftsTiny(neg, ctx.round)
  BY <1>3, <1>6, <1>7, RoundsTiny
<1> DEFINE c == IF LiftsTiny(neg, ctx.round) THEN 1 ELSE 0
<1>9. RoundsTo(neg, n, q, ctx, k, 0, n, c)
  <2>1. e = q + k /\ 0 \in Nat /\ n = 0 * powers[k] + n /\ 0 + 1 = 1
    BY <1>5, <1>6
  <2>2. RestAbove(n, q, ctx, k, 0, n)
    BY <1>4, <1>7, <2>1 DEF RestAbove
  <2> QED
    BY <1>8, <2>1, <2>2, Zenon DEF RoundsTo
<1> HIDE DEF c
<1>10. /\ n % powers[Place(n, q, ctx) - q] = n
       /\ Nearest(neg, n, q, ctx) = Neighbour(neg, c, q + k, ctx)
  BY <1>9, NearestIs
<1>11. q + k = e /\ e > q /\ n # 0
  BY <1>5
<1>12. IsTiny(n, q, ctx)
  <2>1. q + d - 1 < ctx.emin
    BY <1>1, <1>2, <1>3
  <2> QED
    BY <1>2, <2>1 DEF IsTiny
<1> QED
  BY <1>1, <1>4, <1>10, <1>11, <1>12, Zenon DEF c

LEMMA SunkAlike ==
    ASSUME NEW neg \in BOOLEAN, NEW ctx, Context(ctx), NEW n \in Nat,
           NEW q1 \in Int, q1 + Digits(n) < Etiny(ctx),
           NEW q2 \in Int, q2 + Digits(n) < Etiny(ctx)
    PROVE  /\ Delivered(neg, n, q1, ctx) = Delivered(neg, n, q2, ctx)
           /\ FlagsFor(neg, n, q1, ctx) = FlagsFor(neg, n, q2, ctx)
<1>1. CASE n = 0
  <2>1. PICK e \in Int : e = Etiny(ctx)
    BY ContextRange
  <2>2. Digits(n) = 1
    BY <1>1, DigitsFacts
  <2>3. q1 < e /\ q2 < e
    BY <2>1, <2>2
  <2>4. ZeroPlace(q1, ctx) = e /\ ZeroPlace(q2, ctx) = e
    BY <2>1, <2>3, Zenon DEF ZeroPlace
  <2>5. e # q1 /\ e # q2
    BY <2>3
  <2>6. /\ Delivered(neg, 0, q1, ctx) = Finite(neg, 0, ZeroPlace(q1, ctx))
        /\ FlagsFor(neg, 0, q1, ctx) = IF ZeroPlace(q1, ctx) # q1 THEN {"Clamped"} ELSE {}
        /\ Delivered(neg, 0, q2, ctx) = Finite(neg, 0, ZeroPlace(q2, ctx))
        /\ FlagsFor(neg, 0, q2, ctx) = IF ZeroPlace(q2, ctx) # q2 THEN {"Clamped"} ELSE {}
    BY ZeroDelivered
  <2> QED
    BY <1>1, <2>4, <2>5, <2>6, Zenon
<1>2. CASE n # 0
  <2>1. n \in Nat \ {0}
    BY <1>2
  <2>2. Nearest(neg, n, q1, ctx) = Nearest(neg, n, q2, ctx)
    BY <2>1, SunkIs, Zenon
  <2>3. /\ n % powers[Place(n, q1, ctx) - q1] # 0 /\ Place(n, q1, ctx) > q1 /\ IsTiny(n, q1, ctx)
        /\ n % powers[Place(n, q2, ctx) - q2] # 0 /\ Place(n, q2, ctx) > q2 /\ IsTiny(n, q2, ctx)
    BY <2>1, SunkIs
  <2>4. Delivered(neg, n, q1, ctx) = Delivered(neg, n, q2, ctx)
    <3>1. Delivered(neg, n, q1, ctx) = InRange(Nearest(neg, n, q1, ctx), ctx)
      BY <1>2, DeliveredIs
    <3>2. Delivered(neg, n, q2, ctx) = InRange(Nearest(neg, n, q2, ctx), ctx)
      BY <1>2, DeliveredIs
    <3> QED
      BY <2>2, <3>1, <3>2, Zenon
  <2>5. ASSUME NEW f PROVE f \in FlagsFor(neg, n, q1, ctx) <=> f \in FlagsFor(neg, n, q2, ctx)
    <3> DEFINE Told(q) == LET r == Nearest(neg, n, q, ctx)
                              d == Delivered(neg, n, q, ctx)
                              overflow == TooLarge(r, ctx)
                              inexact == overflow \/ n % powers[Place(n, q, ctx) - q] # 0
                          IN  \/ f = "Inexact" /\ inexact
                              \/ f = "Rounded" /\ (overflow \/ Place(n, q, ctx) > q)
                              \/ f = "Subnormal" /\ IsTiny(n, q, ctx)
                              \/ f = "Underflow" /\ IsTiny(n, q, ctx) /\ inexact
                              \/ f = "Overflow" /\ overflow
                              \/ f = "Clamped" /\ d.kind = "finite"
                                 /\ (d.coef = 0 \/ (d.exp < r.exp /\ ~overflow))
    <3>1. f \in FlagsFor(neg, n, q1, ctx) <=> Told(q1)
      BY <1>2, FlagsAre, Zenon
    <3>2. f \in FlagsFor(neg, n, q2, ctx) <=> Told(q2)
      BY <1>2, FlagsAre, Zenon
    <3>3. Told(q1) <=> Told(q2)
      BY <2>2, <2>3, <2>4, Zenon
    <3> QED
      BY <3>1, <3>2, <3>3, Zenon
  <2>6. FlagsFor(neg, n, q1, ctx) = FlagsFor(neg, n, q2, ctx)
    BY <2>5
  <2> QED
    BY <2>4, <2>6
<1> QED
  BY <1>1, <1>2

\* 32-bit arithmetic on two exponents
LEMMA WrappedIs ==
    ASSUME NEW a \in Int, NEW b \in Int, -IntRange < a, 2 * a < IntRange,
           -IntRange < b, 2 * b < IntRange
    PROVE  /\ a + b >= -IntRange => Wrapped(a + b) = a + b
           /\ a + b < -IntRange => Wrapped(a + b) > 0 /\ a < 0 /\ b < 0
<1>1. IntRange \in Nat /\ IntRange # 0
  BY RangeAssumption
<1>2. PICK m \in Nat \ {0} : m = 2 * IntRange
  BY <1>1
<1>3. PICK x \in Int : x = a + b + IntRange
  BY <1>1
<1>4. x < m /\ -m < x
  BY <1>1, <1>2, <1>3
<1>5. Wrapped(a + b) = (x % m) - IntRange
  BY <1>2, <1>3 DEF Wrapped
<1>6. CASE x >= 0
  <2>1. x \in Nat /\ x = 0 * m + x
    BY <1>6
  <2>2. x % m = x
    BY <1>4, <2>1, QuotientIs
  <2> QED
    BY <1>1, <1>3, <1>5, <1>6, <2>2
<1>7. CASE x < 0
  <2>1. x \div m \in Int /\ x % m \in Nat /\ x % m < m /\ x = m * (x \div m) + (x % m)
    OBVIOUS
  <2>2. PICK q \in Int : q = x \div m
    BY <2>1
  <2>3. PICK r \in Nat : r = x % m
    BY <2>1
  <2>4. x = m * q + r /\ r < m
    BY <2>1, <2>2, <2>3
  <2>5. q <= -2 => m * q <= m * (-2)
    OBVIOUS
  <2>6. q >= 0 => m * q >= 0
    OBVIOUS
  <2>7. m * q \in Int /\ m * (-2) = -(2 * m) /\ m * (-1) = -m
    OBVIOUS
  <2>8. q = -1
    <3>1. ~(q >= 0)
      BY <1>7, <2>4, <2>6, <2>7
    <3>2. ~(q <= -2)
      BY <1>4, <2>4, <2>5, <2>7
    <3> QED
      BY <3>1, <3>2
  <2>9. r = x + m
    BY <2>4, <2>7, <2>8
  <2> QED
    BY <1>1, <1>2, <1>3, <1>5, <1>7, <2>3, <2>9
<1> QED
  BY <1>6, <1>7

\* the exponent a product is built with is the sum of the factors' exponents, or
\* both are far below the context
LEMMA ExponentIs ==
    ASSUME NEW l \in Numbers, NEW r \in Numbers, Addable(l), Addable(r),
           NEW ctx, Context(ctx), Underflows(l, r, ctx), NEW q, q = l.exp + r.exp,
           NEW e, e = LET x == Wrapped(l.exp + r.exp)
                      IN  IF l.exp < 0 /\ r.exp < 0 /\ x > 0 THEN -2 * DECNUMMAXE ELSE x
    PROVE  /\ q \in Int /\ e \in Int
           /\ \/ e = q
              \/ /\ q + Digits(l.coef) + Digits(r.coef) < Etiny(ctx)
                 /\ e + Digits(l.coef) + Digits(r.coef) < Etiny(ctx)
<1>1. PICK a \in Int : a = l.exp
  BY DEF Numbers
<1>2. PICK b \in Int : b = r.exp
  BY DEF Numbers
<1>3. IntRange \in Nat /\ DECNUMMAXE \in Nat /\ 2 * DECNUMMAXE <= IntRange
  BY RangeAssumption
<1>4. -IntRange < a /\ 2 * a < IntRange /\ -IntRange < b /\ 2 * b < IntRange
  BY <1>1, <1>2 DEF Addable
<1>5. PICK x : x = Wrapped(a + b)
  OBVIOUS
<1>6. /\ a + b >= -IntRange => x = a + b
      /\ a + b < -IntRange => x > 0 /\ a < 0 /\ b < 0
  BY <1>4, <1>5, WrappedIs
<1>7. q = a + b /\ e = IF a < 0 /\ b < 0 /\ x > 0 THEN -2 * DECNUMMAXE ELSE x
  BY <1>1, <1>2, <1>5, Zenon
<1>8. CASE a + b >= -IntRange
  <2>1. e = q
    BY <1>6, <1>7, <1>8
  <2> QED
    BY <1>7, <2>1
<1>9. CASE a + b < -IntRange
  <2>1. e = -2 * DECNUMMAXE
    BY <1>6, <1>7, <1>9
  <2>2. PICK dl \in Nat : dl = Digits(l.coef)
    BY DigitsFacts DEF Numbers
  <2>3. PICK dr \in Nat : dr = Digits(r.coef)
    BY DigitsFacts DEF Numbers
  <2>4. PICK t \in Int : t = Etiny(ctx) /\ t = ctx.emin - (ctx.digits - 1)
    BY ContextRange
  <2>5. ctx.digits - ctx.emin + dl + dr <= 2 * DECNUMMAXE /\ ctx.digits \in Nat /\ ctx.emin \in Int
    BY <2>2, <2>3 DEF Underflows, Context
  <2>6. e + dl + dr < t /\ q + dl + dr < t /\ e \in Int /\ q \in Int
    BY <1>3, <1>7, <1>9, <2>1, <2>4, <2>5
  <2> QED
    BY <2>2, <2>3, <2>4, <2>6
<1>10. a + b >= -IntRange \/ a + b < -IntRange
  BY <1>3
<1> QED
  BY <1>8, <1>9, <1>10, Zenon

\* a product has no more digits than its factors together
LEMMA ProductDigits ==
    ASSUME NEW x \in Nat, NEW y \in Nat
    PROVE  x * y \in Nat /\ Digits(x * y) \in Nat /\ Digits(x * y) <= Digits(x) + Digits(y)
<1>1. PICK d \in Nat \ {0} : d = Digits(x) /\ x < powers[d]
  BY DigitsFacts
<1>2. PICK e \in Nat \ {0} : e = Digits(y) /\ y < powers[e]
  BY DigitsFacts
<1>3. PICK u \in Nat \ {0} : u = powers[d]
  BY <1>1, PowersPositive
<1>4. PICK v \in Nat \ {0} : v = powers[e]
  BY <1>2, PowersPositive
<1>5. x * y <= x * v /\ x * v < u * v /\ x * y \in Nat /\ x * v \in Nat /\ u * v \in Nat
  <2>1. y <= v /\ x < u
    BY <1>1, <1>2, <1>3, <1>4
  <2>2. x * y <= x * v
    BY <2>1
  <2>3. x * v < u * v
    BY <2>1
  <2> QED
    BY <2>2, <2>3
<1>6. powers[d + e] = u * v /\ d + e \in Nat \ {0}
  <2>1. powers[d + e] = powers[d] * powers[e]
    BY <1>1, <1>2, PowersSum
  <2> QED
    BY <1>3, <1>4, <2>1
<1>7. x * y < powers[d + e]
  BY <1>5, <1>6
<1>8. Digits(x * y) <= d + e
  BY <1>5, <1>6, <1>7, DigitsAtMost
<1> QED
  BY <1>1, <1>2, <1>5, <1>8, DigitsFacts

(***************************************************************************)
(* The result of a multiplication, from its factors.                       *)
(***************************************************************************)
Suitable(l, r, ctx) ==
    /\ l \in Numbers /\ r \in Numbers /\ Addable(l) /\ Addable(r)
    /\ Context(ctx) /\ Underflows(l, r, ctx)

\* the exponent RoundedOnce takes, and the one BuildProduct sets
RaisedExp(l, r, ctx) == Max({l.exp + r.exp, Etiny(ctx) - Digits(l.coef * r.coef) - 1})

BuiltExp(l, r) ==
    LET x == Wrapped(l.exp + r.exp)
    IN  IF l.exp < 0 /\ r.exp < 0 /\ x > 0 THEN -2 * DECNUMMAXE ELSE x

LEMMA ProductDelivered ==
    ASSUME NEW l, NEW r, NEW ctx, Suitable(l, r, ctx), NEW neg \in BOOLEAN
    PROVE  LET n == l.coef * r.coef
               e == BuiltExp(l, r)
               p == RaisedExp(l, r, ctx)
           IN  /\ n \in Nat /\ e \in Int /\ p \in Int
               /\ Delivered(neg, n, e, ctx) = Delivered(neg, n, p, ctx)
               /\ FlagsFor(neg, n, e, ctx) = FlagsFor(neg, n, p, ctx)
<1> DEFINE n == l.coef * r.coef
<1>1. /\ l \in Numbers /\ r \in Numbers /\ Addable(l) /\ Addable(r)
      /\ Context(ctx) /\ Underflows(l, r, ctx) /\ l.coef \in Nat /\ r.coef \in Nat
  BY DEF Suitable, Numbers
<1>2. PICK e : e = BuiltExp(l, r)
  OBVIOUS
<1>3. PICK q : q = l.exp + r.exp
  OBVIOUS
<1>4. PICK dl \in Nat : dl = Digits(l.coef)
  BY <1>1, DigitsFacts
<1>5. PICK dr \in Nat : dr = Digits(r.coef)
  BY <1>1, DigitsFacts
<1>6. PICK t \in Int : t = Etiny(ctx)
  BY <1>1, ContextRange
<1>7. q \in Int /\ e \in Int /\ (e = q \/ (q + dl + dr < t /\ e + dl + dr < t))
  <2>1. e = LET x == Wrapped(l.exp + r.exp)
            IN  IF l.exp < 0 /\ r.exp < 0 /\ x > 0 THEN -2 * DECNUMMAXE ELSE x
    BY <1>2, Zenon DEF BuiltExp
  <2> HIDE DEF n
  <2> QED
    BY <1>1, <1>3, <1>4, <1>5, <1>6, <2>1, ExponentIs
<1>8. n \in Nat /\ Digits(n) \in Nat /\ Digits(n) <= dl + dr
  BY <1>1, <1>4, <1>5, ProductDigits
<1> HIDE DEF n
<1>9. PICK d \in Nat : d = Digits(n)
  BY <1>8
<1>10. PICK p : p = RaisedExp(l, r, ctx)
  OBVIOUS
<1>11. p = IF q <= t - d - 1 THEN t - d - 1 ELSE q
  <2>1. p = Max({q, t - d - 1})
    BY <1>3, <1>6, <1>9, <1>10, Zenon DEF RaisedExp, n
  <2>2. t - d - 1 \in Int
    BY <1>6
  <2> QED
    BY <1>7, <2>1, <2>2, MaxOfTwo
<1>12. p \in Int
  BY <1>7, <1>11
<1>13. e = p \/ (e + d < t /\ p + d < t)
  BY <1>7, <1>8, <1>9, <1>11
<1>14. /\ Delivered(neg, n, e, ctx) = Delivered(neg, n, p, ctx)
       /\ FlagsFor(neg, n, e, ctx) = FlagsFor(neg, n, p, ctx)
  <2>1. CASE e = p
    BY <2>1
  <2>2. CASE e + d < t /\ p + d < t
    BY <1>1, <1>6, <1>7, <1>8, <1>9, <1>12, <2>2, SunkAlike
  <2> QED
    BY <1>13, <2>1, <2>2
<1> QED
  BY <1>2, <1>7, <1>8, <1>10, <1>12, <1>14, Zenon DEF n

\* SetCoeff and Finalize round a product of any length
LEMMA ProductFinished ==
    ASSUME NEW neg \in BOOLEAN, NEW n \in Nat, NEW e \in Int, NEW ctx, Context(ctx),
           NEW w, w = Finalize(SetCoeff(Work(Finite(neg, n, e), 0, {}), ctx), ctx)
    PROVE  w.dn = Delivered(neg, n, e, ctx) /\ w.status = FlagsFor(neg, n, e, ctx)
<1>1. PICK x, r, st : /\ SetCoeff(Work(Finite(neg, n, e), 0, {}), ctx) = Work(x, r, st)
                      /\ Carries(x, r, st, neg, n, e, ctx) /\ r >= 0
  BY SetCoeffCarries
<1>2. w = Finalize(Work(x, r, st), ctx)
  BY <1>1
<1> QED
  BY <1>1, <1>2, FinishCarries

(***************************************************************************)
(* The invariant of a call.  What is said of the accumulator holds for the *)
(* product inside a fused multiply-add as well.                            *)
(***************************************************************************)
MulSlots == Slots \cup {"acc", "far"}
MulCalls == [routine : {"Multiply", "FMA"}, left : {"a", "b"}, right : {"a", "b"},
             lhs : {"acc"}, rhs : {"a", "b", "far", "dzero"}, res : {"a", "b", "c", "far"}]

CallKnown == call \in MulCalls /\ Context(set)

FactorsKept ==
    pc \in {"call", "multiply", "chunks", "units", "build"} =>
        /\ mem \in [MulSlots -> Numbers] /\ Suitable(left, right, set) /\ status = {}
        /\ pc # "call" => given = [left |-> left, right |-> right, far |-> rhs]
        /\ pc \in {"chunks", "units", "build"} => ~IsSpecial(left) /\ ~IsSpecial(right)

\* before the chunks are made, and from then on
ChunksSound == (zacc = <<>> /\ stage = "add") \/ (ChunksInv /\ Accumulated)

InChunks ==
    pc = "chunks" =>
        /\ ChunksInv /\ Accumulated
        /\ Worth(FASTBASE, zlhi)[Len(zlhi)] = longer.coef
        /\ Worth(FASTBASE, zrhi)[Len(zrhi)] = shorter.coef

\* the Units of the multiplier below shift are used
InUnits ==
    pc = "units" =>
        /\ acc \in Arrays /\ shift \in Nat
        /\ shift <= Len(acc) /\ shift <= Len(UnitsOf(shorter))
        /\ Value(acc) = longer.coef * (shorter.coef % powers[DPUN * shift])

ProductBuilt ==
    pc = "build" => acc \in Arrays /\ Value(acc) = left.coef * right.coef

FiniteAnswer ==
    /\ res = Delivered(ResultNeg, Magnitude, ExactExp, set)
    /\ status = FlagsFor(ResultNeg, Magnitude, ExactExp, set)

\* before decStatus
SpecialDue ==
    \/ /\ res.kind = "nan" /\ \E n \in Operands : IsNaN(n)
       /\ status = IF \E n \in Operands : n.kind = "snan"
                   THEN {"Invalid_operation", "sNaN"} ELSE {}
    \/ /\ \A n \in Operands : ~IsNaN(n)
       /\ \/ InfinityByZero /\ status = {"Invalid_operation"}
          \/ ~InfinityByZero /\ res.kind = "inf" /\ status = {}

AtReport ==
    ~Fused /\ pc = "report" =>
        /\ call.res \in DOMAIN mem
        /\ IF \A n \in Operands : ~IsSpecial(n) THEN FiniteAnswer ELSE SpecialDue

PhaseKnown ==
    ~Fused => pc \in {"call", "multiply", "chunks", "units", "build", "report", "done"}

MulInv ==
    /\ CallKnown /\ FactorsKept /\ ChunksSound /\ InChunks /\ InUnits /\ ProductBuilt
    /\ AtReport /\ PhaseKnown
    /\ ~Fused => RoundedOnce

(***************************************************************************)
(* What an action leaves alone.                                            *)
(***************************************************************************)
LEMMA FactorsStay ==
    ASSUME mem' = mem, call' = call, set' = set
    PROVE  /\ left' = left /\ right' = right /\ rhs' = rhs
           /\ longer' = longer /\ shorter' = shorter /\ Fused' = Fused
           /\ Suitable(left', right', set') = Suitable(left, right, set)
<1>1. left' = left /\ right' = right /\ rhs' = rhs
  BY Zenon DEF left, right, rhs
<1>2. longer' = longer /\ shorter' = shorter
  BY <1>1, Zenon DEF longer, shorter
<1>3. Fused' = Fused
  BY Zenon DEF Fused
<1> QED
  BY <1>1, <1>2, <1>3, Zenon

LEMMA ChunksStay ==
    ASSUME UNCHANGED chunkVars
    PROVE  /\ ChunksSound' = ChunksSound /\ ChunksInv' = ChunksInv
           /\ Accumulated' = Accumulated
           /\ zlhi' = zlhi /\ zrhi' = zrhi /\ zacc' = zacc /\ stage' = stage
<1>1. /\ zlhi' = zlhi /\ zrhi' = zrhi /\ zacc' = zacc /\ stage' = stage
      /\ rip' = rip /\ lp' = lp /\ lazy' = lazy
  BY DEF chunkVars
<1>2. ChunksInv' = ChunksInv
  BY <1>1, Zenon DEF ChunksInv, ChunksTypeOK, RowsBound, CarryBound, Limit, AllChunks
<1>3. Accumulated' = Accumulated
  BY <1>1, Zenon DEF Accumulated, Used
<1> QED
  BY <1>1, <1>2, <1>3, Zenon DEF ChunksSound

\* the definitions that read what was given
LEMMA AnswerStays ==
    ASSUME call' = call, set' = set, given' = given
    PROVE  /\ Fused' = Fused /\ Operands' = Operands /\ InfinityByZero' = InfinityByZero
           /\ ResultNeg' = ResultNeg /\ Magnitude' = Magnitude /\ ExactExp' = ExactExp
           /\ Invalid' = Invalid
<1>1. Fused' = Fused
  BY Zenon DEF Fused
<1>2. Operands' = Operands /\ InfinityByZero' = InfinityByZero
  BY <1>1, Zenon DEF Operands, InfinityByZero
<1>3. P' = P /\ PNeg' = PNeg
  BY Zenon DEF P, PNeg
<1>4. PExp' = PExp
  BY <1>1, <1>3, Zenon DEF PExp
<1>5. Far' = Far
  BY <1>1, <1>3, <1>4, Zenon DEF Far
<1>6. ExactExp' = ExactExp
  BY <1>4, <1>5, Zenon DEF ExactExp
<1>7. ExactSum' = ExactSum
  BY <1>3, <1>4, <1>5, <1>6, Zenon DEF ExactSum, Signed
<1>8. ResultNeg' = ResultNeg /\ Magnitude' = Magnitude
  BY <1>3, <1>5, <1>7, Zenon DEF ResultNeg, Magnitude
<1>9. Invalid' = Invalid
  BY <1>2, <1>3, <1>5, Zenon DEF Invalid, ProductInfinite
<1> QED
  BY <1>1, <1>2, <1>6, <1>8, <1>9

\* a multiplication of finite numbers is asked for their product
LEMMA AskedFor ==
    ASSUME ~Fused, NEW l, NEW r, given.left = l, given.right = r, Suitable(l, r, set),
           ~IsSpecial(l), ~IsSpecial(r)
    PROVE  /\ ResultNeg = Xor(l.neg, r.neg) /\ Magnitude = l.coef * r.coef
           /\ ExactExp = RaisedExp(l, r, set) /\ Xor(l.neg, r.neg) \in BOOLEAN
           /\ \A n \in Operands : ~IsSpecial(n)
<1> DEFINE c == l.coef * r.coef
           g == Xor(l.neg, r.neg)
           p == RaisedExp(l, r, set)
<1>1. c \in Nat /\ p \in Int
  BY ProductDelivered
<1>2. g \in BOOLEAN
  BY DEF Xor
<1>3. P = c /\ PNeg = g
  BY Zenon DEF P, PNeg
<1>4. PExp = p
  BY <1>3, Zenon DEF PExp, RaisedExp
<1>5. Far = Finite(g, 0, p)
  BY <1>3, <1>4, Zenon DEF Far
<1> HIDE DEF c, g, p
<1>6. Far.neg = g /\ Far.coef = 0 /\ Far.exp = p
  BY <1>5, FiniteFields
<1>7. ExactExp = p
  <2>1. Min({p, p}) = p
    BY <1>1, MinOfTwo
  <2> QED
    BY <1>4, <1>6, <2>1, Zenon DEF ExactExp
<1>8. ExactSum = IF g THEN -c ELSE c
  <2>1. p - p = 0 /\ powers[0] = 1
    BY <1>1, PowersFacts
  <2>2. ExactSum = (IF g THEN -1 ELSE 1) * c * powers[p - p] + (IF g THEN -1 ELSE 1) * 0 * powers[p - p]
    BY <1>3, <1>4, <1>6, <1>7, Zenon DEF ExactSum, Signed
  <2>3. ExactSum = (IF g THEN -1 ELSE 1) * c * 1 + (IF g THEN -1 ELSE 1) * 0 * 1
    BY <2>1, <2>2, Zenon
  <2>4. (IF g THEN -1 ELSE 1) * c * 1 + (IF g THEN -1 ELSE 1) * 0 * 1 = IF g THEN -c ELSE c
    BY <1>1, <1>2
  <2> QED
    BY <2>3, <2>4
<1>9. Magnitude = c
  BY <1>1, <1>2, <1>8 DEF Magnitude
<1>10. ResultNeg = g
  <2>1. CASE c = 0
    <3>1. ExactSum = 0
      <4>1. PICK m \in Int : m = -c /\ m + c = 0
        BY <1>1
      <4>2. m = 0
        <5>1. m + c = 0
          BY <4>1
        <5> QED
          BY ONLY <2>1, <5>1
      <4> QED
        BY <1>8, <2>1, <4>1, <4>2, Zenon
    <3> QED
      BY <1>3, <1>6, <3>1 DEF ResultNeg
  <2>2. CASE c # 0
    <3>1. ExactSum # 0 /\ (ExactSum < 0 <=> g)
      BY <1>1, <1>2, <1>8, <2>2
    <3>2. ResultNeg = (ExactSum < 0)
      BY <3>1, Zenon DEF ResultNeg
    <3>3. (ExactSum < 0) = g
      BY <1>2, <3>1
    <3> QED
      BY <3>2, <3>3
  <2> QED
    BY <2>1, <2>2
<1>11. \A n \in Operands : ~IsSpecial(n)
  BY DEF Operands
<1> QED
  BY <1>2, <1>7, <1>9, <1>10, <1>11 DEF c, g, p

(***************************************************************************)
(* MulInit, and what the actions have in common.                           *)
(***************************************************************************)
LEMMA MulInitInv == MulInit => MulInv
<1> SUFFICES ASSUME MulInit PROVE MulInv
  OBVIOUS
<1>1. PICK f \in Families :
          /\ call \in f.calls /\ set \in f.contexts
          /\ \E a \in f.lhs, b \in f.rhs, c \in f.far :
                 mem = [s \in Slots \cup {"acc", "far"} |->
                            CASE s = "a" -> a [] s = "b" -> b [] s = "far" -> c
                              [] OTHER -> Finite(FALSE, 0, 0)]
  BY Zenon DEF MulInit
<1>2. PICK a \in f.lhs, b \in f.rhs, c \in f.far :
          mem = [s \in Slots \cup {"acc", "far"} |->
                     CASE s = "a" -> a [] s = "b" -> b [] s = "far" -> c
                       [] OTHER -> Finite(FALSE, 0, 0)]
  BY <1>1, Zenon
<1>3. /\ pc = "call" /\ status = {} /\ stage = "add" /\ zacc = <<>>
  BY DEF MulInit
<1>4. /\ f.calls \subseteq [routine : {"Multiply", "FMA"},
                            left : {"a", "b"}, right : {"a", "b"},
                            lhs : {"acc"}, rhs : {"a", "b", "far"},
                            res : {"a", "b", "c", "far"}]
      /\ f.lhs \subseteq Numbers /\ f.rhs \subseteq Numbers /\ f.far \subseteq Numbers
      /\ \A n \in f.lhs \cup f.rhs : Addable(n)
      /\ \A ctx \in f.contexts : /\ IsContext(ctx)
                                 /\ \A l, r \in f.lhs \cup f.rhs : Underflows(l, r, ctx)
  BY <1>1, FamiliesAssumption, Zenon
<1>5. CallKnown
  <2>1. call \in MulCalls
    BY <1>1, <1>4 DEF MulCalls
  <2>2. Context(set)
    BY <1>1, <1>4, ContextHolds, Zenon
  <2> QED
    BY <2>1, <2>2 DEF CallKnown
<1>6. mem \in [MulSlots -> Numbers] /\ mem["a"] = a /\ mem["b"] = b
  <2>1. Finite(FALSE, 0, 0) \in Numbers /\ a \in Numbers /\ b \in Numbers /\ c \in Numbers
    BY <1>1, <1>2, <1>4 DEF Finite, Numbers, Kinds
  <2>2. PICK z : z = Finite(FALSE, 0, 0) /\ z \in Numbers
    BY <2>1
  <2>3. mem = [s \in Slots \cup {"acc", "far"} |->
                  CASE s = "a" -> a [] s = "b" -> b [] s = "far" -> c [] OTHER -> z]
    BY <1>2, <2>2, Zenon
  <2>4. mem = [s \in MulSlots |->
                  IF s = "a" THEN a ELSE IF s = "b" THEN b ELSE IF s = "far" THEN c ELSE z]
    BY <2>3 DEF MulSlots
  <2>5. "a" \in MulSlots /\ "b" \in MulSlots
    BY DEF MulSlots, Slots
  <2> QED
    BY <2>1, <2>2, <2>4, <2>5
<1>7. Suitable(left, right, set)
  <2>1. left \in {a, b} /\ right \in {a, b}
    BY <1>5, <1>6 DEF left, right, CallKnown, MulCalls
  <2>2. left \in f.lhs \cup f.rhs /\ right \in f.lhs \cup f.rhs
    BY <1>2, <2>1
  <2>3. left \in Numbers /\ right \in Numbers
    BY <1>4, <2>2, Zenon
  <2>4. Addable(left) /\ Addable(right) /\ Underflows(left, right, set)
    BY <1>1, <1>4, <2>2, Zenon
  <2> QED
    BY <1>5, <2>3, <2>4, Zenon DEF Suitable, CallKnown
<1>8. FactorsKept
  BY <1>3, <1>6, <1>7 DEF FactorsKept
<1>9. ChunksSound
  BY <1>3 DEF ChunksSound
<1> QED
  BY <1>3, <1>5, <1>8, <1>9
     DEF MulInv, InChunks, InUnits, ProductBuilt, AtReport, PhaseKnown, RoundedOnce, Done

Multiplies == {"call", "multiply", "chunks", "units", "build"}

\* a step from one part of decMultiplyOp to the next
LEMMA GoesOn ==
    ASSUME MulInv, pc \in Multiplies, mem' = mem, call' = call, set' = set,
           status' = {}, pc' \in Multiplies \ {"call"},
           given' = [left |-> left, right |-> right, far |-> rhs],
           pc' # "multiply" => ~IsSpecial(left) /\ ~IsSpecial(right)
    PROVE  /\ CallKnown' /\ FactorsKept' /\ AtReport' /\ PhaseKnown'
           /\ (~Fused => RoundedOnce)'
<1>1. CallKnown /\ FactorsKept
  BY DEF MulInv
<1>2. CallKnown'
  BY <1>1 DEF CallKnown
<1>3. /\ left' = left /\ right' = right /\ rhs' = rhs
      /\ Suitable(left', right', set') = Suitable(left, right, set)
  BY FactorsStay
<1>4. mem \in [MulSlots -> Numbers] /\ Suitable(left, right, set)
  BY <1>1 DEF FactorsKept, Multiplies
<1>5. FactorsKept'
  BY <1>3, <1>4 DEF FactorsKept, Multiplies
<1>6. pc' # "report" /\ pc' # "done"
  BY DEF Multiplies
<1>7. AtReport' /\ PhaseKnown' /\ (~Fused => RoundedOnce)'
  BY <1>6 DEF AtReport, PhaseKnown, RoundedOnce, Done, Multiplies
<1> QED
  BY <1>2, <1>5, <1>7

\* a multiplication has its result
LEMMA HasResult ==
    ASSUME MulInv, pc \in Multiplies \ {"call"}, ~Fused, pc' = "report",
           UNCHANGED <<call, set, given, chunkVars>>,
           call.res \in DOMAIN mem',
           (IF \A n \in Operands : ~IsSpecial(n) THEN FiniteAnswer ELSE SpecialDue)'
    PROVE  MulInv'
<1>1. CallKnown /\ ChunksSound
  BY DEF MulInv
<1>2. CallKnown'
  BY <1>1 DEF CallKnown
<1>3. ChunksSound'
  BY <1>1, ChunksStay
<1>4. AtReport'
  BY DEF AtReport
<1> QED
  BY <1>2, <1>3, <1>4 DEF MulInv, FactorsKept, InChunks, InUnits, ProductBuilt, PhaseKnown,
                          RoundedOnce, Done

\* a fused multiply-add has left decMultiplyOp
LEMMA FusedOn ==
    ASSUME MulInv, Fused, Fused', call' \in MulCalls, set' = set, UNCHANGED chunkVars,
           pc' \notin Multiplies
    PROVE  MulInv'
<1>1. CallKnown /\ ChunksSound
  BY DEF MulInv
<1>2. CallKnown'
  BY <1>1 DEF CallKnown
<1>3. ChunksSound'
  BY <1>1, ChunksStay
<1>4. AtReport' /\ PhaseKnown'
  BY DEF AtReport, PhaseKnown
<1> QED
  BY <1>2, <1>3, <1>4 DEF MulInv, FactorsKept, InChunks, InUnits, ProductBuilt, Multiplies

(***************************************************************************)
(* Each action keeps the invariant.                                        *)
(***************************************************************************)
LEMMA EnterStep == MulInv /\ EnterMultiply => MulInv'
<1> SUFFICES ASSUME MulInv, EnterMultiply PROVE MulInv'
  OBVIOUS
<1>1. /\ pc = "call" /\ mem' = mem /\ call' = call /\ set' = set /\ UNCHANGED chunkVars
      /\ status' = IF Fused THEN Refused(left, right, rhs) ELSE {}
      /\ pc' = IF status' = {} THEN "multiply" ELSE "report"
      /\ given' = [left |-> left, right |-> right, far |-> rhs]
  BY DEF EnterMultiply
<1>2. CASE status' = {}
  <2>1. pc \in Multiplies /\ pc' \in Multiplies \ {"call"} /\ pc' = "multiply"
    BY <1>1, <1>2 DEF Multiplies
  <2>2. /\ CallKnown' /\ FactorsKept' /\ AtReport' /\ PhaseKnown' /\ (~Fused => RoundedOnce)'
    BY <1>1, <1>2, <2>1, GoesOn
  <2>3. ChunksSound'
    BY <1>1, ChunksStay DEF MulInv
  <2> QED
    BY <2>1, <2>2, <2>3 DEF MulInv, InChunks, InUnits, ProductBuilt
<1>3. CASE status' # {}
  <2>1. Fused /\ pc' = "report"
    BY <1>1, <1>3
  <2>2. Fused' /\ call' \in MulCalls
    BY <1>1, <2>1 DEF Fused, MulInv, CallKnown
  <2>3. pc' \notin Multiplies
    BY <2>1 DEF Multiplies
  <2> QED
    BY <1>1, <2>1, <2>2, <2>3, FusedOn
<1> QED
  BY <1>2, <1>3

\* the exits of decMultiplyOp that deliver n
LEMMA ExitStep ==
    ASSUME MulInv, pc \in Multiplies \ {"call"}, NEW n, NEW flags, Product(n, flags),
           ~Fused => (IF \A x \in Operands : ~IsSpecial(x) THEN FiniteAnswer ELSE SpecialDue)'
    PROVE  MulInv'
<1>1. /\ mem' = [mem EXCEPT ![IF Fused THEN "acc" ELSE call.res] = n]
      /\ pc' = IF Fused THEN "fuse" ELSE "report"
      /\ UNCHANGED <<call, set, given, chunkVars>>
  BY DEF Product
<1>2. CallKnown /\ FactorsKept
  BY DEF MulInv
<1>3. call \in MulCalls
  BY <1>2 DEF CallKnown
<1>4. CASE Fused
  <2>1. Fused' /\ call' \in MulCalls /\ pc' \notin Multiplies
    BY <1>1, <1>3, <1>4 DEF Fused, Multiplies
  <2> QED
    BY <1>1, <1>4, <2>1, FusedOn
<1>5. CASE ~Fused
  <2>1. DOMAIN mem = MulSlots
    BY <1>2 DEF FactorsKept, Multiplies
  <2>2. DOMAIN mem' = MulSlots
    BY <1>1, <2>1
  <2>3. call.res \in MulSlots
    BY <1>3 DEF MulCalls, MulSlots, Slots
  <2> QED
    BY <1>1, <1>5, <2>2, <2>3, HasResult
<1> QED
  BY <1>4, <1>5

\* what an exit writes is the result of a multiplication
LEMMA Written ==
    ASSUME MulInv, ~Fused, pc \in Multiplies \ {"call"}, NEW n, NEW flags, Product(n, flags)
    PROVE  /\ res' = n /\ status' = flags
           /\ Operands' = {left, right} /\ InfinityByZero' = InfinityByZero
           /\ given.left = left /\ given.right = right /\ Operands = {left, right}
<1>1. /\ mem' = [mem EXCEPT ![call.res] = n] /\ call' = call /\ set' = set /\ given' = given
      /\ status' = flags
  BY DEF Product
<1>2. CallKnown /\ FactorsKept
  BY DEF MulInv
<1>3. /\ mem \in [MulSlots -> Numbers]
      /\ given = [left |-> left, right |-> right, far |-> rhs]
  BY <1>2 DEF FactorsKept, Multiplies
<1>4. call.res \in MulSlots
  BY <1>2 DEF CallKnown, MulCalls, MulSlots, Slots
<1>5. res' = n
  BY <1>1, <1>3, <1>4 DEF res
<1>6. given.left = left /\ given.right = right
  BY <1>3
<1>7. Operands = {left, right}
  BY <1>6 DEF Operands
<1>8. Operands' = Operands /\ InfinityByZero' = InfinityByZero
  BY <1>1, AnswerStays
<1> QED
  BY <1>1, <1>5, <1>6, <1>7, <1>8

LEMMA NaNFactorStep == MulInv /\ NaNFactor => MulInv'
<1> SUFFICES ASSUME MulInv, NaNFactor PROVE MulInv'
  OBVIOUS
<1>1. /\ pc = "multiply" /\ (IsNaN(left) \/ IsNaN(right))
      /\ Product(QuietNaN(left, right, mset), NaNStatus(left, right))
  BY DEF NaNFactor, Multiplying
<1>2. PICK n, flags : n = QuietNaN(left, right, mset) /\ flags = NaNStatus(left, right)
  OBVIOUS
<1>3. Product(n, flags) /\ pc \in Multiplies \ {"call"}
  BY <1>1, <1>2 DEF Multiplies
<1>4. n.kind = "nan"
  BY <1>2 DEF QuietNaN
<1>5. flags = IF left.kind = "snan" \/ right.kind = "snan" THEN {"Invalid_operation", "sNaN"}
              ELSE {}
  BY <1>1, <1>2 DEF NaNStatus, NaNSource, IsNaN
<1>6. ASSUME ~Fused
      PROVE  (IF \A x \in Operands : ~IsSpecial(x) THEN FiniteAnswer ELSE SpecialDue)'
  <2>1. res' = n /\ status' = flags /\ Operands' = {left, right}
    BY <1>3, <1>6, Written
  <2>2. \E x \in Operands' : IsNaN(x) /\ IsSpecial(x)
    BY <1>1, <2>1 DEF IsNaN, IsSpecial
  <2>3. (\E x \in Operands' : x.kind = "snan") <=> left.kind = "snan" \/ right.kind = "snan"
    BY <2>1
  <2>4. SpecialDue'
    BY <1>4, <1>5, <2>1, <2>2, <2>3 DEF SpecialDue
  <2> QED
    BY <2>2, <2>4
<1> QED
  BY <1>3, <1>6, ExitStep

LEMMA InfinityStep == MulInv /\ (InfinityTimesZero \/ InfiniteFactor) => MulInv'
<1> SUFFICES ASSUME MulInv, InfinityTimesZero \/ InfiniteFactor PROVE MulInv'
  OBVIOUS
<1>1. /\ pc = "multiply" /\ {left.kind, right.kind} \subseteq {"inf", "finite"}
      /\ "inf" \in {left.kind, right.kind}
  BY DEF InfinityTimesZero, InfiniteFactor, Multiplying
<1>2. PICK n, flags :
          /\ Product(n, flags)
          /\ \/ (IsZero(left) \/ IsZero(right)) /\ flags = {"Invalid_operation"}
             \/ ~IsZero(left) /\ ~IsZero(right) /\ n.kind = "inf" /\ flags = {}
  <2>1. Special("inf", ProductNeg).kind = "inf"
    BY DEF Special
  <2> QED
    BY <2>1, Zenon DEF InfinityTimesZero, InfiniteFactor
<1>3. pc \in Multiplies \ {"call"}
  BY <1>1 DEF Multiplies
<1>4. ASSUME ~Fused
      PROVE  (IF \A x \in Operands : ~IsSpecial(x) THEN FiniteAnswer ELSE SpecialDue)'
  <2>1. /\ res' = n /\ status' = flags /\ Operands' = {left, right}
        /\ InfinityByZero' = InfinityByZero /\ given.left = left /\ given.right = right
    BY <1>2, <1>3, <1>4, Written
  <2>2. \A x \in Operands' : ~IsNaN(x)
    BY <1>1, <2>1 DEF IsNaN
  <2>3. \E x \in Operands' : IsSpecial(x)
    BY <1>1, <2>1 DEF IsSpecial
  <2>4. InfinityByZero <=> IsZero(left) \/ IsZero(right)
    <3>1. ASSUME IsZero(left) \/ IsZero(right)
          PROVE  {left.kind, right.kind} = {"inf", "finite"}
      BY <1>1, <3>1 DEF IsZero
    <3> QED
      BY <2>1, <3>1, Zenon DEF InfinityByZero
  <2>5. SpecialDue'
    BY <1>2, <2>1, <2>2, <2>4 DEF SpecialDue
  <2> QED
    BY <2>3, <2>5
<1> QED
  BY <1>2, <1>3, <1>4, ExitStep

\* the exit that delivers the product of finite numbers
LEMMA BuildStep == MulInv /\ BuildProduct => MulInv'
<1> SUFFICES ASSUME MulInv, BuildProduct PROVE MulInv'
  OBVIOUS
<1>1. CallKnown /\ FactorsKept /\ ProductBuilt /\ pc = "build"
  BY DEF MulInv, BuildProduct
<1>2. /\ pc \in Multiplies \ {"call"}
      /\ Suitable(left, right, set) /\ status = {}
      /\ ~IsSpecial(left) /\ ~IsSpecial(right)
      /\ Value(acc) = left.coef * right.coef
  BY <1>1 DEF Multiplies, FactorsKept, ProductBuilt
<1>3. PICK w : /\ w = Finalize(SetCoeff(Work(Finite(ProductNeg, Value(acc), ProductExponent),
                                             0, status), mset), mset)
               /\ Product(w.dn, w.status)
  BY Zenon DEF BuildProduct
<1>4. ASSUME ~Fused
      PROVE  (IF \A x \in Operands : ~IsSpecial(x) THEN FiniteAnswer ELSE SpecialDue)'
  <2>1. /\ res' = w.dn /\ status' = w.status
        /\ given.left = left /\ given.right = right
    BY <1>2, <1>3, <1>4, Written
  <2>2. call' = call /\ set' = set /\ given' = given
    BY <1>3 DEF Product
  <2>3. /\ ResultNeg = Xor(left.neg, right.neg) /\ Magnitude = left.coef * right.coef
        /\ ExactExp = RaisedExp(left, right, set) /\ Xor(left.neg, right.neg) \in BOOLEAN
        /\ \A n \in Operands : ~IsSpecial(n)
    BY <1>2, <1>4, <2>1, AskedFor
  <2>4. PICK neg \in BOOLEAN : neg = Xor(left.neg, right.neg)
    BY <2>3
  <2>5. PICK n, e, p : /\ n = left.coef * right.coef /\ e = BuiltExp(left, right)
                       /\ p = RaisedExp(left, right, set)
    OBVIOUS
  <2>6. /\ n \in Nat /\ e \in Int /\ p \in Int
        /\ Delivered(neg, n, e, set) = Delivered(neg, n, p, set)
        /\ FlagsFor(neg, n, e, set) = FlagsFor(neg, n, p, set)
    BY <1>2, <2>5, ProductDelivered, Zenon
  <2>7. mset = set /\ ProductNeg = neg /\ ProductExponent = e
    BY <1>4, <2>4, <2>5, Zenon DEF mset, ProductNeg, ProductExponent, BuiltExp
  <2>8. w = Finalize(SetCoeff(Work(Finite(neg, n, e), 0, {}), set), set)
    BY <1>2, <1>3, <2>5, <2>7, Zenon
  <2>9. Context(set)
    BY <1>1 DEF CallKnown
  <2>10. w.dn = Delivered(neg, n, e, set) /\ w.status = FlagsFor(neg, n, e, set)
    BY <2>6, <2>8, <2>9, ProductFinished
  <2>11. /\ res' = Delivered(ResultNeg, Magnitude, ExactExp, set)
         /\ status' = FlagsFor(ResultNeg, Magnitude, ExactExp, set)
    BY <2>1, <2>3, <2>4, <2>5, <2>6, <2>10, Zenon
  <2>12. /\ Operands' = Operands /\ ResultNeg' = ResultNeg /\ Magnitude' = Magnitude
         /\ ExactExp' = ExactExp
    BY <2>2, AnswerStays
  <2>13. FiniteAnswer'
    BY <2>2, <2>11, <2>12, Zenon DEF FiniteAnswer
  <2> QED
    BY <2>3, <2>12, <2>13, Zenon
<1> QED
  BY <1>2, <1>3, <1>4, ExitStep

(***************************************************************************)
(* The fast path.                                                          *)
(***************************************************************************)
\* the operands, as numbers and as Units
LEMMA FactorUnits ==
    ASSUME MulInv, pc \in Multiplies
    PROVE  /\ longer.coef \in Nat /\ shorter.coef \in Nat
           /\ longer.coef * shorter.coef = left.coef * right.coef
           /\ UnitsOf(longer) \in Arrays /\ Value(UnitsOf(longer)) = longer.coef
           /\ UnitsOf(shorter) \in Arrays /\ Value(UnitsOf(shorter)) = shorter.coef
           /\ Len(UnitsOf(longer)) >= 1 /\ Len(UnitsOf(shorter)) >= 1
<1>1. left \in Numbers /\ right \in Numbers
  BY DEF MulInv, FactorsKept, Multiplies, Suitable
<1>2. left.coef \in Nat /\ right.coef \in Nat
  BY <1>1 DEF Numbers
<1>3. \/ longer = left /\ shorter = right
      \/ longer = right /\ shorter = left
  BY DEF longer, shorter
<1>4. longer.coef \in Nat /\ shorter.coef \in Nat
  BY <1>2, <1>3
<1>5. longer.coef * shorter.coef = left.coef * right.coef
  <2>1. PICK a, b \in Nat : a = left.coef /\ b = right.coef
    BY <1>2
  <2>2. a * b = b * a
    OBVIOUS
  <2>3. \/ longer.coef = a /\ shorter.coef = b
        \/ longer.coef = b /\ shorter.coef = a
    BY <1>3, <2>1
  <2> QED
    BY <2>1, <2>2, <2>3, Zenon
<1> QED
  BY <1>4, <1>5, UnitsOfIs

LEMMA CutChunksStep == MulInv /\ CutIntoChunks => MulInv'
<1> SUFFICES ASSUME MulInv, CutIntoChunks PROVE MulInv'
  OBVIOUS
<1>1. /\ pc = "multiply" /\ ~IsSpecial(left) /\ ~IsSpecial(right) /\ pc' = "chunks"
      /\ mem' = mem /\ call' = call /\ set' = set /\ status' = status /\ given' = given
  BY DEF CutIntoChunks, FiniteFactors, Multiplying, inner
<1>2. /\ zlhi' = Chunked(UnitsOf(longer)) /\ zrhi' = Chunked(UnitsOf(shorter))
      /\ zacc' = [k \in 1..(Len(zlhi') + Len(zrhi')) |-> 0]
      /\ rip' = 1 /\ lp' = 1 /\ lazy' = FASTLAZY /\ stage' = "add"
  BY DEF CutIntoChunks
<1>3. /\ pc \in Multiplies /\ pc' \in Multiplies \ {"call"} /\ status = {}
      /\ given = [left |-> left, right |-> right, far |-> rhs]
  BY <1>1 DEF Multiplies, MulInv, FactorsKept
<1>4. CallKnown' /\ FactorsKept' /\ AtReport' /\ PhaseKnown' /\ (~Fused => RoundedOnce)'
  BY <1>1, <1>3, GoesOn
<1>5. /\ UnitsOf(longer) \in Arrays /\ Value(UnitsOf(longer)) = longer.coef
      /\ UnitsOf(shorter) \in Arrays /\ Value(UnitsOf(shorter)) = shorter.coef
      /\ Len(UnitsOf(longer)) > 0 /\ Len(UnitsOf(shorter)) > 0
  BY <1>3, FactorUnits, ArrayFacts
<1>6. /\ zlhi' \in Chunks /\ zlhi' # <<>> /\ Worth(FASTBASE, zlhi')[Len(zlhi')] = longer.coef
      /\ zrhi' \in Chunks /\ zrhi' # <<>> /\ Worth(FASTBASE, zrhi')[Len(zrhi')] = shorter.coef
  BY <1>2, <1>5, ChunkedIs
<1>7. ChunksInit'
  BY <1>2, <1>6, Zenon DEF ChunksInit, Start
<1>8. ChunksInv'
  BY <1>7, InitChunksInv, PTL
<1>9. Accumulated'
  BY <1>7, InitProduct, PTL
<1>10. longer' = longer /\ shorter' = shorter
  BY <1>1, FactorsStay
<1>11. InChunks' /\ ChunksSound'
  BY <1>6, <1>8, <1>9, <1>10 DEF InChunks, ChunksSound
<1> QED
  BY <1>1, <1>4, <1>11 DEF MulInv, InUnits, ProductBuilt

LEMMA ChunksStep == MulInv /\ MultiplyChunks => MulInv'
<1> SUFFICES ASSUME MulInv, MultiplyChunks PROVE MulInv'
  OBVIOUS
<1>1. pc = "chunks" /\ ChunksNext /\ UNCHANGED vars
  BY DEF MultiplyChunks
<1>2. /\ mem' = mem /\ call' = call /\ set' = set /\ status' = status /\ given' = given
      /\ pc' = "chunks"
  BY <1>1 DEF vars
<1>3. /\ pc \in Multiplies /\ pc' \in Multiplies \ {"call"} /\ status = {}
      /\ given = [left |-> left, right |-> right, far |-> rhs]
      /\ ~IsSpecial(left) /\ ~IsSpecial(right)
  BY <1>1, <1>2 DEF Multiplies, MulInv, FactorsKept
<1>4. CallKnown' /\ FactorsKept' /\ AtReport' /\ PhaseKnown' /\ (~Fused => RoundedOnce)'
  BY <1>2, <1>3, GoesOn
<1>5. /\ ChunksInv /\ Accumulated
      /\ Worth(FASTBASE, zlhi)[Len(zlhi)] = longer.coef
      /\ Worth(FASTBASE, zrhi)[Len(zrhi)] = shorter.coef
  BY <1>1 DEF MulInv, InChunks
<1>6. ChunksInv' /\ Accumulated'
  BY <1>1, <1>5, ChunkStepKeeps
<1>7. zlhi' = zlhi /\ zrhi' = zrhi
  BY <1>1, Zenon DEF ChunksNext, AddRow, Fits, CarryOnePlace, CarryTwoPlaces, Resolved
<1>8. longer' = longer /\ shorter' = shorter
  BY <1>2, FactorsStay
<1>9. InChunks' /\ ChunksSound'
  BY <1>5, <1>6, <1>7, <1>8 DEF InChunks, ChunksSound
<1> QED
  BY <1>2, <1>4, <1>9 DEF MulInv, InUnits, ProductBuilt

LEMMA CutUnitsStep == MulInv /\ CutIntoUnits => MulInv'
<1> SUFFICES ASSUME MulInv, CutIntoUnits PROVE MulInv'
  OBVIOUS
<1>1. /\ pc = "chunks" /\ stage = "chunked" /\ pc' = "build"
      /\ mem' = mem /\ call' = call /\ set' = set /\ status' = status /\ given' = given
      /\ UNCHANGED chunkVars
  BY DEF CutIntoUnits, inner
<1>2. IsCut(acc', zacc, Len(zacc))
  BY Zenon DEF CutIntoUnits, IsCut
<1>3. /\ pc \in Multiplies /\ pc' \in Multiplies \ {"call"} /\ status = {}
      /\ given = [left |-> left, right |-> right, far |-> rhs]
      /\ ~IsSpecial(left) /\ ~IsSpecial(right)
  BY <1>1 DEF Multiplies, MulInv, FactorsKept
<1>4. CallKnown' /\ FactorsKept' /\ AtReport' /\ PhaseKnown' /\ (~Fused => RoundedOnce)'
  BY <1>1, <1>3, GoesOn
<1>5. /\ ChunksInv /\ Accumulated
      /\ Worth(FASTBASE, zlhi)[Len(zlhi)] = longer.coef
      /\ Worth(FASTBASE, zrhi)[Len(zrhi)] = shorter.coef
  BY <1>1 DEF MulInv, InChunks
<1>6. /\ Len(zacc) \in Nat /\ zacc \in [1..Len(zacc) -> Nat]
      /\ \A k \in 1..Len(zacc) : zacc[k] < FASTBASE
  <2>1. Len(zacc) \in Nat /\ Len(zacc) = Len(zlhi) + Len(zrhi) /\ DOMAIN zacc = 1..Len(zacc)
    BY <1>5, ShapeHolds DEF Shape
  <2>2. zacc \in [1..Len(zacc) -> Nat]
    BY <1>5, <2>1 DEF ChunksInv, ChunksTypeOK
  <2>3. \A k \in 1..Len(zacc) : zacc[k] <= Top
    BY <1>1, <1>5, <2>1 DEF ChunksInv, AllChunks
  <2>4. \A k \in 1..Len(zacc) : zacc[k] < FASTBASE
    BY <2>2, <2>3, FastBase DEF Top
  <2> QED
    BY <2>1, <2>2, <2>4
<1>7. acc' \in Arrays /\ Value(acc') = Worth(FASTBASE, zacc)[Len(zacc)]
  BY <1>2, <1>6, CutIs
<1>8. Worth(FASTBASE, zacc)[Len(zacc)] = longer.coef * shorter.coef
  <2>1. Used = Len(zrhi)
    BY <1>1, <1>5 DEF Accumulated, Used
  <2> QED
    BY <1>5, <2>1, Zenon DEF Accumulated
<1>9. left' = left /\ right' = right
  BY <1>1, FactorsStay
<1>10. ProductBuilt'
  BY <1>3, <1>7, <1>8, <1>9, FactorUnits DEF ProductBuilt
<1>11. ChunksSound'
  BY <1>1, ChunksStay DEF MulInv
<1> QED
  BY <1>1, <1>4, <1>10, <1>11 DEF MulInv, InUnits, InChunks

(***************************************************************************)
(* Unit by Unit.                                                           *)
(***************************************************************************)
\* one Unit more of the multiplier is used
LEMMA OneUnitMore ==
    ASSUME NEW c \in Nat, NEW j \in Nat, NEW m, m = (c \div powers[DPUN * j]) % Base
    PROVE  /\ m \in 0..(Base - 1) /\ powers[DPUN * j] \in Nat
           /\ c % powers[DPUN * (j + 1)] = m * powers[DPUN * j] + (c % powers[DPUN * j])
<1>1. Base \in Nat \ {0} /\ powers[DPUN * j] \in Nat \ {0} /\ Base = powers[DPUN]
  BY UnitBase, PowerOfBase, PowersPositive DEF Base
<1>2. powers[DPUN * (j + 1)] = Base * powers[DPUN * j]
  <2>1. DPUN \in Nat /\ DPUN * j \in Nat /\ DPUN * (j + 1) = DPUN + DPUN * j
    BY UnitBase
  <2> QED
    BY <1>1, <2>1, PowersSum
<1>3. PICK p \in Nat \ {0} : p = powers[DPUN * j]
  BY <1>1
<1>4. c % (Base * p) = ((c \div p) % Base) * p + (c % p)
  BY <1>1, QuotientTwice
<1>5. m \in 0..(Base - 1)
  <2>1. c \div p \in Nat
    BY Euclid
  <2>2. (c \div p) % Base \in Nat /\ (c \div p) % Base < Base
    BY <1>1, <2>1, Euclid
  <2> QED
    BY <1>1, <1>3, <2>2
<1> QED
  BY <1>1, <1>2, <1>3, <1>4, <1>5

LEMMA StartUnitsStep == MulInv /\ StartUnits => MulInv'
<1> SUFFICES ASSUME MulInv, StartUnits PROVE MulInv'
  OBVIOUS
<1>1. /\ pc = "multiply" /\ ~IsSpecial(left) /\ ~IsSpecial(right) /\ pc' = "units"
      /\ mem' = mem /\ call' = call /\ set' = set /\ status' = status /\ given' = given
      /\ UNCHANGED chunkVars /\ acc' = <<0>> /\ shift' = 0
  BY DEF StartUnits, FiniteFactors, Multiplying, inner
<1>2. /\ pc \in Multiplies /\ pc' \in Multiplies \ {"call"} /\ status = {}
      /\ given = [left |-> left, right |-> right, far |-> rhs]
  BY <1>1 DEF Multiplies, MulInv, FactorsKept
<1>3. CallKnown' /\ FactorsKept' /\ AtReport' /\ PhaseKnown' /\ (~Fused => RoundedOnce)'
  BY <1>1, <1>2, GoesOn
<1>4. longer' = longer /\ shorter' = shorter
  BY <1>1, FactorsStay
<1>5. longer.coef \in Nat /\ shorter.coef \in Nat /\ Len(UnitsOf(shorter)) \in Nat
  BY <1>2, FactorUnits, ArrayFacts
<1>6. <<0>> \in Arrays /\ Len(<<0>>) = 1 /\ Value(<<0>>) = 0
  <2>1. <<0>> \in Arrays /\ Len(<<0>>) = 1
    BY UnitBase DEF Arrays
  <2>2. Value(<<0>>) = Worth(Base, <<0>>)[1] /\ NatItems(<<0>>) /\ DOMAIN <<0>> = 1..1
    BY <2>1, ArrayFacts
  <2>3. /\ Worth(Base, <<0>>)[1]
                = Worth(Base, <<0>>)[1 - 1] + Item(<<0>>, 1) * Power(Base)[1 - 1]
        /\ Power(Base)[1 - 1] \in Nat
    BY <2>2, UnitBase, WorthStep
  <2>4. Worth(Base, <<0>>)[0] = 0 /\ Item(<<0>>, 1) = 0 /\ 1 - 1 = 0
    BY <2>2, UnitBase, WorthZero DEF Item
  <2> QED
    BY <2>1, <2>2, <2>3, <2>4
<1>7. shorter.coef % powers[DPUN * 0] = 0
  <2>1. DPUN * 0 = 0 /\ powers[0] = 1
    BY UnitBase, PowersFacts
  <2>2. shorter.coef % 1 \in Nat /\ shorter.coef % 1 < 1
    BY <1>5, Euclid
  <2> QED
    BY <2>1, <2>2
<1>8. longer.coef * 0 = 0
  BY <1>5
<1>9. InUnits'
  BY <1>1, <1>4, <1>5, <1>6, <1>7, <1>8 DEF InUnits
<1>10. ChunksSound'
  BY <1>1, ChunksStay DEF MulInv
<1> QED
  BY <1>1, <1>3, <1>9, <1>10 DEF MulInv, InChunks, ProductBuilt

LEMMA AddUnitStep == MulInv /\ AddUnit => MulInv'
<1> SUFFICES ASSUME MulInv, AddUnit PROVE MulInv'
  OBVIOUS
<1>1. /\ pc = "units" /\ shift < Len(UnitsOf(shorter)) /\ shift' = shift + 1
      /\ UNCHANGED vars /\ UNCHANGED chunkVars
  BY DEF AddUnit
<1>2. /\ mem' = mem /\ call' = call /\ set' = set /\ status' = status /\ given' = given
      /\ pc' = "units"
  BY <1>1 DEF vars
<1>3. /\ pc \in Multiplies /\ pc' \in Multiplies \ {"call"} /\ status = {}
      /\ given = [left |-> left, right |-> right, far |-> rhs]
      /\ ~IsSpecial(left) /\ ~IsSpecial(right)
  BY <1>1, <1>2 DEF Multiplies, MulInv, FactorsKept
<1>4. CallKnown' /\ FactorsKept' /\ AtReport' /\ PhaseKnown' /\ (~Fused => RoundedOnce)'
  BY <1>2, <1>3, GoesOn
<1>5. longer' = longer /\ shorter' = shorter
  BY <1>2, FactorsStay
<1>6. /\ longer.coef \in Nat /\ shorter.coef \in Nat /\ Len(UnitsOf(shorter)) \in Nat
      /\ UnitsOf(longer) \in Arrays /\ Value(UnitsOf(longer)) = longer.coef
      /\ UnitsOf(longer) # <<>>
  BY <1>3, FactorUnits, ArrayFacts
<1>7. /\ acc \in Arrays /\ shift \in Nat /\ shift <= Len(acc) /\ Len(acc) \in Nat
      /\ Value(acc) = longer.coef * (shorter.coef % powers[DPUN * shift])
  BY <1>1, ArrayFacts DEF MulInv, InUnits
<1>8. PICK m : m = mer
  OBVIOUS
<1>9. m = (shorter.coef \div powers[DPUN * shift]) % Base
  <2>1. shift + 1 \in 1..Len(UnitsOf(shorter)) /\ shift + 1 - 1 = shift
    BY <1>1, <1>6, <1>7
  <2>2. UnitsOf(shorter) = ToUnits(shorter.coef, D2U(Digits(shorter.coef)))
        /\ Len(UnitsOf(shorter)) = D2U(Digits(shorter.coef))
    BY <1>6, UnitsOfIs, Zenon DEF UnitsOf
  <2>3. PICK n : n = D2U(Digits(shorter.coef)) /\ n = Len(UnitsOf(shorter))
    BY <2>2
  <2>4. UnitsOf(shorter)
            = [k \in 1..n |-> (shorter.coef \div powers[DPUN * (k - 1)]) % Base]
    BY <2>2, <2>3, Zenon DEF ToUnits
  <2>5. UnitsOf(shorter)[shift + 1] = (shorter.coef \div powers[DPUN * shift]) % Base
    <3>1. PICK i \in 1..n : i = shift + 1 /\ i - 1 = shift
      BY <1>7, <2>1, <2>3
    <3>2. UnitsOf(shorter)[i] = (shorter.coef \div powers[DPUN * (i - 1)]) % Base
      BY <2>4, <3>1, Zenon
    <3> QED
      BY <3>1, <3>2, Zenon
  <2> QED
    BY <1>8, <2>5, Zenon DEF mer
<1>10. /\ m \in 0..(Base - 1) /\ powers[DPUN * shift] \in Nat
       /\ shorter.coef % powers[DPUN * (shift + 1)]
              = m * powers[DPUN * shift] + (shorter.coef % powers[DPUN * shift])
  BY <1>6, <1>7, <1>9, OneUnitMore
<1>11. IsRow(acc', acc, UnitsOf(longer), shift, m)
  BY <1>8, Zenon DEF AddUnit, IsRow
<1>12. /\ acc' \in Arrays /\ shift + 1 <= Len(acc')
       /\ Value(acc') = Value(acc) + powers[DPUN * shift] * (m * longer.coef)
  <2>1. shift \in 0..Len(acc)
    BY <1>7
  <2>2. PICK b \in Arrays : b = UnitsOf(longer) /\ b # <<>> /\ Value(b) = longer.coef
    BY <1>6
  <2>3. IsRow(acc', acc, b, shift, m)
    BY <1>11, <2>2
  <2>4. /\ acc' \in Arrays /\ shift + 1 <= Len(acc')
        /\ Value(acc') = Value(acc) + powers[DPUN * shift] * (m * Value(b))
    BY <1>7, <1>10, <2>1, <2>2, <2>3, RowIs
  <2> QED
    BY <2>2, <2>4
<1>13. Value(acc') = longer.coef * (shorter.coef % powers[DPUN * (shift + 1)])
  <2>1. shorter.coef % powers[DPUN * shift] \in Nat
    <3>1. powers[DPUN * shift] \in Nat \ {0}
      BY <1>7, UnitBase, PowersPositive
    <3> QED
      BY <1>6, <3>1, Euclid
  <2>2. PICK p \in Nat, low \in Nat, x \in Nat, d \in Nat :
            /\ p = powers[DPUN * shift] /\ low = shorter.coef % powers[DPUN * shift]
            /\ x = longer.coef /\ d = m
    BY <1>6, <1>10, <2>1
  <2>3. x * low + p * (d * x) = x * (d * p + low)
    OBVIOUS
  <2>4. Value(acc') = x * low + p * (d * x)
    BY <1>7, <1>12, <2>2, Zenon
  <2>5. shorter.coef % powers[DPUN * (shift + 1)] = d * p + low
    BY <1>10, <2>2, Zenon
  <2> QED
    BY <2>2, <2>3, <2>4, <2>5, Zenon
<1>14. shift + 1 \in Nat /\ shift + 1 <= Len(UnitsOf(shorter))
  BY <1>1, <1>6, <1>7
<1>15. InUnits'
  BY <1>1, <1>2, <1>5, <1>12, <1>13, <1>14 DEF InUnits
<1>16. ChunksSound'
  BY <1>1, ChunksStay DEF MulInv
<1> QED
  BY <1>2, <1>4, <1>15, <1>16 DEF MulInv, InChunks, ProductBuilt

LEMMA UnitsAddedStep == MulInv /\ AllUnitsAdded => MulInv'
<1> SUFFICES ASSUME MulInv, AllUnitsAdded PROVE MulInv'
  OBVIOUS
<1>1. /\ pc = "units" /\ shift = Len(UnitsOf(shorter)) /\ pc' = "build" /\ acc' = acc
      /\ mem' = mem /\ call' = call /\ set' = set /\ status' = status /\ given' = given
      /\ UNCHANGED chunkVars
  BY DEF AllUnitsAdded, inner, unitVars
<1>2. /\ pc \in Multiplies /\ pc' \in Multiplies \ {"call"} /\ status = {}
      /\ given = [left |-> left, right |-> right, far |-> rhs]
      /\ ~IsSpecial(left) /\ ~IsSpecial(right)
  BY <1>1 DEF Multiplies, MulInv, FactorsKept
<1>3. CallKnown' /\ FactorsKept' /\ AtReport' /\ PhaseKnown' /\ (~Fused => RoundedOnce)'
  BY <1>1, <1>2, GoesOn
<1>4. /\ acc \in Arrays
      /\ Value(acc) = longer.coef * (shorter.coef % powers[DPUN * shift])
  BY <1>1 DEF MulInv, InUnits
<1>5. shorter.coef % powers[DPUN * shift] = shorter.coef
  <2>1. /\ UnitsOf(shorter) \in Arrays /\ Value(UnitsOf(shorter)) = shorter.coef
        /\ shorter.coef \in Nat
    BY <1>2, FactorUnits
  <2>2. shorter.coef < powers[DPUN * shift] /\ shift \in Nat
    BY <1>1, <2>1, ArrayFacts
  <2>3. PICK p \in Nat \ {0} : p = powers[DPUN * shift]
    BY <2>2, UnitBase, PowersPositive
  <2>4. PICK c \in Nat : c = shorter.coef
    BY <2>1
  <2>5. c = 0 * p + c /\ c < p
    BY <2>2, <2>3, <2>4
  <2>6. c % p = c
    BY <2>5, QuotientIs
  <2> QED
    BY <2>3, <2>4, <2>6
<1>6. left' = left /\ right' = right
  BY <1>1, FactorsStay
<1>7. ProductBuilt'
  BY <1>1, <1>2, <1>4, <1>5, <1>6, FactorUnits DEF ProductBuilt
<1>8. ChunksSound'
  BY <1>1, ChunksStay DEF MulInv
<1> QED
  BY <1>1, <1>3, <1>7, <1>8 DEF MulInv, InUnits, InChunks

(***************************************************************************)
(* The rest of a fused multiply-add, and decStatus.                        *)
(***************************************************************************)
LEMMA FusedStep == MulInv /\ (FuseInvalid \/ Fuse) => MulInv'
<1> SUFFICES ASSUME MulInv, FuseInvalid \/ Fuse PROVE MulInv'
  OBVIOUS
<1>1. /\ pc = "fuse" /\ set' = set /\ UNCHANGED chunkVars
      /\ pc' \in {"report", "add"}
      /\ \/ call' = call
         \/ call' = Addend
  BY DEF FuseInvalid, Fuse
<1>2. CallKnown /\ PhaseKnown
  BY DEF MulInv
<1>3. Fused
  BY <1>1, <1>2 DEF PhaseKnown
<1>4. call \in MulCalls
  BY <1>2 DEF CallKnown
<1>5. call' \in MulCalls /\ call'.routine = call.routine
  <2>1. CASE call' = call
    BY <1>4, <2>1
  <2>2. CASE call' = Addend
    BY <1>4, <2>2 DEF Addend, MulCalls
  <2> QED
    BY <1>1, <2>1, <2>2
<1>6. Fused' /\ pc' \notin Multiplies
  BY <1>1, <1>3, <1>5 DEF Fused, Multiplies
<1> QED
  BY <1>1, <1>3, <1>5, <1>6, FusedOn

\* where decAddOp is, and where it goes
LEMMA AddingPhases ==
    ASSUME AddStep
    PROVE  /\ pc \in {"add", "pad", "finish", "finishSum"}
           /\ pc' \in {"pad", "finish", "finishSum", "report"}
           /\ call' = call /\ set' = set
<1>1. CASE NaNOperand \/ Infinities
  BY <1>1 DEF NaNOperand, Infinities, Deliver
<1>2. CASE LhsZero \/ RhsZero
  BY <1>2 DEF LhsZero, RhsZero, BothFinite, Copy
<1>3. CASE BothZero \/ PadToZero
  BY <1>3, Zenon DEF BothZero, PadToZero
<1>4. CASE FastPath
  BY <1>4, Zenon DEF FastPath, BothNonZero, BothFinite, Deliver
<1>5. CASE BigSuffices \/ AddAligned
  BY <1>5, Zenon DEF BigSuffices, AddAligned, BothNonZero, BothFinite
<1>6. CASE Finish
  BY <1>6, Zenon DEF Finish
<1> QED
  BY <1>1, <1>2, <1>3, <1>4, <1>5, <1>6 DEF AddStep

LEMMA AddingStep == MulInv /\ AddStep => MulInv'
<1> SUFFICES ASSUME MulInv, AddStep PROVE MulInv'
  OBVIOUS
<1>1. /\ NaNOperand \/ Infinities \/ LhsZero \/ RhsZero \/ BothZero \/ PadToZero
         \/ FastPath \/ BigSuffices \/ AddAligned \/ Finish
      /\ UNCHANGED chunkVars
  BY DEF AddStep
<1>2. /\ pc \in {"add", "pad", "finish", "finishSum"}
      /\ pc' \in {"pad", "finish", "finishSum", "report"}
      /\ call' = call /\ set' = set
  BY AddingPhases
<1>3. CallKnown /\ PhaseKnown
  BY DEF MulInv
<1>4. Fused
  BY <1>2, <1>3 DEF PhaseKnown
<1>5. Fused' /\ call' \in MulCalls /\ pc' \notin Multiplies
  BY <1>2, <1>3, <1>4 DEF Fused, CallKnown, Multiplies
<1> QED
  BY <1>1, <1>2, <1>4, <1>5, FusedOn

LEMMA ReportStep == MulInv /\ ReportProduct => MulInv'
<1> SUFFICES ASSUME MulInv, ReportProduct PROVE MulInv'
  OBVIOUS
<1>1. /\ pc = "report" /\ pc' = "done"
      /\ mem' = [mem EXCEPT ![call.res] = AfterStatus(@, status)]
      /\ status' = status \ {"sNaN"}
      /\ call' = call /\ set' = set /\ given' = given /\ UNCHANGED chunkVars
  BY DEF ReportProduct, Report
<1>2. CallKnown /\ AtReport
  BY DEF MulInv
<1>3. CASE Fused
  <2>1. Fused' /\ call' \in MulCalls /\ pc' \notin Multiplies
    BY <1>1, <1>2, <1>3 DEF Fused, CallKnown, Multiplies
  <2> QED
    BY <1>1, <1>3, <2>1, FusedOn
<1>4. CASE ~Fused
  <2>1. /\ call.res \in DOMAIN mem
        /\ IF \A n \in Operands : ~IsSpecial(n) THEN FiniteAnswer ELSE SpecialDue
    BY <1>1, <1>2, <1>4 DEF AtReport
  <2>2. res' = AfterStatus(res, status)
    BY <1>1, <2>1, Zenon DEF res
  <2>3. /\ Fused' = Fused /\ Operands' = Operands /\ InfinityByZero' = InfinityByZero
        /\ ResultNeg' = ResultNeg /\ Magnitude' = Magnitude /\ ExactExp' = ExactExp
        /\ Invalid' = Invalid
    BY <1>1, AnswerStays
  <2>4. RoundedOnce'
    <3>1. CASE \A n \in Operands : ~IsSpecial(n)
      <4>1. FiniteAnswer
        BY <2>1, <3>1
      <4>2. status \subseteq LossFlags
        BY <4>1, FlagsAreLosses, Zenon DEF FiniteAnswer
      <4>3. LossFlags \cap NaNFlags = {} /\ "sNaN" \notin LossFlags
        BY DEF LossFlags, NaNFlags
      <4>4. status \cap NaNFlags = {} /\ "sNaN" \notin status
        BY <4>2, <4>3, Zenon
      <4>5. res' = res /\ status' = status
        BY <1>1, <2>2, <4>4 DEF AfterStatus
      <4>6. /\ res' = Delivered(ResultNeg', Magnitude', ExactExp', set')
            /\ status' = FlagsFor(ResultNeg', Magnitude', ExactExp', set')
        BY <1>1, <2>3, <4>1, <4>5, Zenon DEF FiniteAnswer
      <4>7. ~Fused' /\ \A n \in Operands' : ~IsSpecial(n)
        BY <1>4, <2>3, <3>1, Zenon
      <4> QED
        BY <4>6, <4>7, Zenon DEF RoundedOnce
    <3>2. CASE ~(\A n \in Operands : ~IsSpecial(n))
      <4>1. SpecialDue
        BY <2>1, <3>2
      <4>2. Operands = {given.left, given.right}
        BY <1>4 DEF Operands
      <4>3. Far.kind = "finite"
        <5>1. Far = Finite(PNeg, 0, PExp)
          BY <1>4, Zenon DEF Far
        <5> QED
          BY <5>1, FiniteFields
      <4>4. Invalid <=> \/ \E n \in Operands : n.kind = "snan"
                        \/ (\A n \in Operands : ~IsNaN(n)) /\ InfinityByZero
        BY <4>2, <4>3 DEF Invalid
      <4>5. "Invalid_operation" \in NaNFlags
        BY DEF NaNFlags
      <4>6. /\ IsNaN(res') <=> Invalid \/ \E n \in Operands : IsNaN(n)
            /\ res'.kind # "snan"
            /\ "Invalid_operation" \in status' <=> Invalid
        <5>1. CASE /\ res.kind = "nan" /\ \E n \in Operands : IsNaN(n)
                   /\ status = IF \E n \in Operands : n.kind = "snan"
                               THEN {"Invalid_operation", "sNaN"} ELSE {}
          <6>1. res' = res
            BY <2>2, <5>1 DEF AfterStatus
          <6>2. "Invalid_operation" \in status' <=> \E n \in Operands : n.kind = "snan"
            BY <1>1, <5>1
          <6> QED
            BY <4>4, <5>1, <6>1, <6>2 DEF IsNaN
        <5>2. CASE /\ \A n \in Operands : ~IsNaN(n)
                   /\ InfinityByZero /\ status = {"Invalid_operation"}
          <6>1. res'.kind = "nan"
            BY <2>2, <4>5, <5>2 DEF AfterStatus, Special
          <6>2. "Invalid_operation" \in status'
            BY <1>1, <5>2
          <6> QED
            BY <4>4, <5>2, <6>1, <6>2 DEF IsNaN
        <5>3. CASE /\ \A n \in Operands : ~IsNaN(n)
                   /\ ~InfinityByZero /\ res.kind = "inf" /\ status = {}
          <6>1. res' = res /\ status' = {}
            BY <1>1, <2>2, <5>3 DEF AfterStatus
          <6>2. \A n \in Operands : n.kind # "snan"
            BY <5>3 DEF IsNaN
          <6> QED
            BY <4>4, <5>3, <6>1, <6>2 DEF IsNaN
        <5> QED
          BY <4>1, <5>1, <5>2, <5>3 DEF SpecialDue
      <4>7. ~Fused' /\ ~(\A n \in Operands' : ~IsSpecial(n))
        BY <1>4, <2>3, <3>2, Zenon
      <4>8. /\ IsNaN(res') <=> Invalid' \/ \E n \in Operands' : IsNaN(n)
            /\ "Invalid_operation" \in status' <=> Invalid'
        BY <2>3, <4>6, Zenon
      <4> QED
        BY <4>6, <4>7, <4>8, Zenon DEF RoundedOnce
    <3> QED
      BY <3>1, <3>2
  <2>5. CallKnown'
    BY <1>1, <1>2 DEF CallKnown
  <2>6. ChunksSound'
    BY <1>1, ChunksStay DEF MulInv
  <2> QED
    BY <1>1, <2>4, <2>5, <2>6
       DEF MulInv, FactorsKept, InChunks, InUnits, ProductBuilt, AtReport, PhaseKnown
<1> QED
  BY <1>3, <1>4

(***************************************************************************)
(* The theorems.                                                           *)
(***************************************************************************)
THEOREM MulInvariant == MulSpec => []MulInv
<1>1. MulInit => MulInv
  BY MulInitInv
<1>2. MulInv /\ [MulNext]_mulVars => MulInv'
  <2> SUFFICES ASSUME MulInv, [MulNext]_mulVars PROVE MulInv'
    OBVIOUS
  <2>1. CASE MulNext
    BY <2>1, EnterStep, NaNFactorStep, InfinityStep, CutChunksStep, ChunksStep, CutUnitsStep,
       StartUnitsStep, AddUnitStep, UnitsAddedStep, BuildStep, FusedStep, AddingStep, ReportStep
       DEF MulNext
  <2>2. CASE UNCHANGED mulVars
    <3>1. UNCHANGED vars /\ UNCHANGED chunkVars /\ UNCHANGED unitVars
      BY <2>2 DEF mulVars
    <3>2. /\ mem' = mem /\ call' = call /\ set' = set /\ status' = status /\ given' = given
          /\ pc' = pc /\ acc' = acc /\ shift' = shift
      BY <3>1 DEF vars, unitVars
    <3>3. /\ left' = left /\ right' = right /\ rhs' = rhs
          /\ longer' = longer /\ shorter' = shorter /\ Fused' = Fused
          /\ Suitable(left', right', set') = Suitable(left, right, set)
      BY <3>2, FactorsStay
    <3>4. /\ ChunksSound' = ChunksSound /\ ChunksInv' = ChunksInv
          /\ Accumulated' = Accumulated
          /\ zlhi' = zlhi /\ zrhi' = zrhi /\ zacc' = zacc /\ stage' = stage
      BY <3>1, ChunksStay
    <3>5. /\ Fused' = Fused /\ Operands' = Operands /\ InfinityByZero' = InfinityByZero
          /\ ResultNeg' = ResultNeg /\ Magnitude' = Magnitude /\ ExactExp' = ExactExp
          /\ Invalid' = Invalid
      BY <3>2, AnswerStays
    <3>6. CallKnown' = CallKnown /\ FactorsKept' = FactorsKept
      BY <3>2, <3>3, Zenon DEF CallKnown, FactorsKept
    <3>7. InChunks' = InChunks
      BY <3>2, <3>3, <3>4, Zenon DEF InChunks
    <3>8. InUnits' = InUnits /\ ProductBuilt' = ProductBuilt
      BY <3>2, <3>3, Zenon DEF InUnits, ProductBuilt
    <3>9. res' = res
      BY <3>2, Zenon DEF res
    <3>10. FiniteAnswer' = FiniteAnswer /\ SpecialDue' = SpecialDue
      BY <3>2, <3>5, <3>9, Zenon DEF FiniteAnswer, SpecialDue
    <3>11. AtReport' = AtReport /\ PhaseKnown' = PhaseKnown
      BY <3>2, <3>5, <3>10, Zenon DEF AtReport, PhaseKnown
    <3>12. ASSUME ~Fused, RoundedOnce
           PROVE  RoundedOnce'
      <4>1. Done' = Done
        BY <3>2, Zenon DEF Done
      <4>2. ~RoundedByResidue /\ ~RoundedByResidue'
        BY <3>5, <3>12 DEF RoundedByResidue
      <4> QED
        BY <3>2, <3>5, <3>9, <3>12, <4>1, <4>2, Zenon DEF RoundedOnce
    <3> QED
      BY <3>4, <3>5, <3>6, <3>7, <3>8, <3>11, <3>12, Zenon DEF MulInv
  <2> QED
    BY <2>1, <2>2
<1> QED
  BY <1>1, <1>2, PTL DEF MulSpec

\* A multiplication is rounded once, correctly, with just the flags of what is
\* lost, and a NaN is delivered just when it is due: for every DECDPUN, with
\* operands of any length and any exponents, whichever way the coefficients are
\* multiplied, whichever operand the result overwrites (decNumberMultiply).
THEOREM MultiplicationRounds == MulSpec => [](~Fused => RoundedOnce)
<1>1. MulInv => (~Fused => RoundedOnce)
  BY DEF MulInv
<1> QED
  BY <1>1, MulInvariant, PTL

\* Inside a multiplication, or a fused multiply-add, as well, no item of the
\* accumulator reaches the width of its type (decMultiplyOp).
THEOREM MultiplicationFits == MulSpec => []AccumulatorFits
<1>1. ASSUME zacc = <<>>, stage = "add" PROVE AccumulatorFits
  BY <1>1 DEF AccumulatorFits, Resolving
<1>2. MulInv => AccumulatorFits
  BY <1>1, InvFits DEF MulInv, ChunksSound
<1> QED
  BY <1>2, MulInvariant, PTL

\* Both ways to multiply build the exact product, which a fused multiply-add
\* then adds to (decMultiplyOp).
THEOREM ProductsExact ==
    MulSpec => [](pc = "build" => Value(acc) = left.coef * right.coef)
<1>1. MulInv => (pc = "build" => Value(acc) = left.coef * right.coef)
  BY DEF MulInv, ProductBuilt
<1> QED
  BY <1>1, MulInvariant, PTL

(***************************************************************************)
(* Both ways to multiply are long multiplications: the part of the         *)
(* multiplier that is used is what lies below its next chunk or Unit, and  *)
(* grows with each row.                                                    *)
(***************************************************************************)
\* the low i digits of c, and the low j
LEMMA PartsGrow ==
    ASSUME NEW c \in Nat, NEW i \in Nat, NEW j \in Nat, i <= j
    PROVE  /\ c % powers[i] \in Nat /\ c % powers[j] \in Nat
           /\ c % powers[i] <= c % powers[j] /\ c % powers[j] <= c
<1>1. PICK d \in Nat : j = d + i
  <2>1. j - i \in Nat /\ j = (j - i) + i
    OBVIOUS
  <2> QED
    BY <2>1
<1>2. PICK u \in Nat \ {0}, v \in Nat \ {0} : u = powers[i] /\ v = powers[d]
  BY PowersPositive
<1>3. powers[j] = v * u
  BY <1>1, <1>2, PowersSum
<1>4. v * u \in Nat \ {0} /\ c % (v * u) = ((c \div u) % v) * u + (c % u)
  BY QuotientTwice
<1>5. c % u \in Nat
  BY Euclid
<1>6. ((c \div u) % v) * u \in Nat
  <2>1. (c \div u) \in Nat
    BY Euclid
  <2>2. PICK x \in Nat : x = (c \div u) % v
    BY <2>1, Euclid
  <2>3. x * u \in Nat
    OBVIOUS
  <2> QED
    BY <2>2, <2>3
<1>7. c % u <= c % (v * u) /\ c % (v * u) \in Nat
  <2>1. PICK x \in Nat, y \in Nat : x = ((c \div u) % v) * u /\ y = c % u
    BY <1>5, <1>6
  <2>2. c % (v * u) = x + y
    BY <1>4, <2>1
  <2>3. y <= x + y /\ x + y \in Nat
    OBVIOUS
  <2> QED
    BY <2>1, <2>2, <2>3
<1>8. c % (v * u) <= c
  <2>1. PICK w \in Nat \ {0} : w = v * u
    BY <1>4
  <2>2. c % w \in Nat /\ c \div w \in Nat /\ c = (c \div w) * w + (c % w)
    BY Euclid
  <2>3. PICK q \in Nat, r \in Nat : q = c \div w /\ r = c % w
    BY <2>2
  <2>4. q * w \in Nat /\ c = q * w + r
    BY <2>2, <2>3
  <2>5. r <= c
    BY <2>4
  <2> QED
    BY <2>1, <2>3, <2>5
<1> QED
  BY <1>2, <1>3, <1>5, <1>7, <1>8

\* what is below chunk k + 1
LEMMA ChunksBelow ==
    ASSUME NEW z \in Chunks, NEW k \in 0..Len(z)
    PROVE  Worth(FASTBASE, z)[k] = Worth(FASTBASE, z)[Len(z)] % powers[FASTDIGS * k]
<1>1. FASTBASE \in Nat /\ FASTBASE > 1 /\ k \in Nat
  BY ChunkBase
<1>2. NatItems(z) /\ Len(z) \in Nat /\ DOMAIN z = 1..Len(z)
  BY ChunksFacts
<1>3. PICK n \in Nat : Len(z) = k + n
  <2>1. Len(z) - k \in Nat /\ Len(z) = k + (Len(z) - k)
    BY <1>2
  <2> QED
    BY <2>1
<1>4. PICK t : t = [i \in 1..n |-> Item(z, k + i)]
  OBVIOUS
<1>5. NatItems(t)
  <2>1. ASSUME NEW i \in DOMAIN t PROVE t[i] \in Nat
    <3>1. Item(z, k + i) \in Nat
      BY <1>2, Zenon DEF Item, NatItems
    <3> QED
      BY <1>4, <3>1
  <2> QED
    BY <2>1 DEF NatItems
<1>6. \A i \in 1..n : Item(z, k + i) = Item(t, i)
  <2> SUFFICES ASSUME NEW i \in 1..n PROVE Item(z, k + i) = Item(t, i)
    OBVIOUS
  <2>1. i \in DOMAIN t /\ t[i] = Item(z, k + i)
    BY <1>4
  <2> QED
    BY <2>1 DEF Item
<1>7. Worth(FASTBASE, z)[k + n]
          = Worth(FASTBASE, z)[k] + Power(FASTBASE)[k] * Worth(FASTBASE, t)[n]
  BY <1>1, <1>2, <1>5, <1>6, WorthShift
<1>8. \A i \in DOMAIN z : z[i] <= FASTBASE - 1
  <2>1. \A i \in 1..Len(z) : z[i] \in 0..(FASTBASE - 1)
    BY <1>2, ElementOfSeq DEF Chunks
  <2> QED
    BY <1>1, <1>2, <2>1
<1>9. PICK u \in Nat, p \in Nat \ {0}, w \in Nat :
          u = Worth(FASTBASE, z)[k] /\ p = Power(FASTBASE)[k] /\ w = Worth(FASTBASE, t)[n]
  <2>1. Power(FASTBASE)[k] \in Nat /\ Power(FASTBASE)[k] >= 1
    BY <1>1, PowerFacts
  <2>2. Worth(FASTBASE, z)[k] \in Nat /\ Worth(FASTBASE, t)[n] \in Nat
    BY <1>1, <1>2, <1>5, WorthZero
  <2>3. Power(FASTBASE)[k] \in Nat \ {0}
    BY <2>1
  <2> QED
    BY <2>2, <2>3
<1>10. u < p
  BY <1>1, <1>2, <1>8, <1>9, WorthBelow
<1>11. PICK c \in Nat : c = u + p * w
  <2>1. ASSUME NEW a \in Nat, NEW b \in Nat PROVE a * b \in Nat
    OBVIOUS
  <2>2. PICK v \in Nat : v = p * w
    BY <2>1
  <2>3. u + v \in Nat
    BY <2>2
  <2> QED
    BY <2>2, <2>3
<1>12. c % p = u
  <2>1. c = w * p + u
    BY <1>11
  <2> QED
    BY <1>10, <2>1, QuotientIs
<1>13. p = powers[FASTDIGS * k]
  BY <1>1, <1>9, PowerOfChunk
<1> QED
  BY <1>3, <1>7, <1>9, <1>11, <1>12, <1>13

\* the digits of the multiplier that were used, and the sum
DigitsUsed == CASE pc \in {"call", "multiply"} -> 0
                [] pc = "units" -> DPUN * shift
                [] pc = "chunks" -> FASTDIGS * Used
                [] OTHER -> Digits(ShortCoef)

RowSum == IF ~Multiplied \/ pc \in {"call", "multiply"} THEN 0
          ELSE IF pc = "chunks" THEN Number(FASTBASE, zacc)
          ELSE Value(acc)

RowSumRight ==
    /\ LongCoef \in Nat /\ ShortCoef \in Nat
    /\ DigitsUsed \in Nat /\ UsedUp = powers[DigitsUsed]
    /\ Multiplied => RowSum = LongCoef * (ShortCoef % UsedUp)
    /\ pc = "build" => ShortCoef % UsedUp = ShortCoef

InMultiply == pc \in Multiplies

LEMMA RowSumIs == MulInv /\ InMultiply => RowSumRight
<1> SUFFICES ASSUME MulInv, pc \in Multiplies
             PROVE  /\ LongCoef \in Nat /\ ShortCoef \in Nat
                    /\ DigitsUsed \in Nat /\ UsedUp = powers[DigitsUsed]
                    /\ Multiplied => RowSum = LongCoef * (ShortCoef % UsedUp)
                    /\ pc = "build" => ShortCoef % UsedUp = ShortCoef
  BY Zenon DEF RowSumRight, InMultiply
<1>1. Factors.left = left /\ Factors.right = right
  BY DEF MulInv, FactorsKept, Factors, Multiplies
<1>2. /\ longer.coef \in Nat /\ shorter.coef \in Nat
      /\ longer.coef * shorter.coef = left.coef * right.coef
  BY FactorUnits
<1>3. LongCoef = longer.coef /\ ShortCoef = shorter.coef
  <2>1. left.coef \in Nat /\ right.coef \in Nat
    BY DEF MulInv, FactorsKept, Multiplies, Suitable, Numbers
  <2>2. Digits(left.coef) \in Nat /\ Digits(right.coef) \in Nat
    BY <2>1, DigitsFacts
  <2>3. FirstLonger <=> ~(Digits(left.coef) < Digits(right.coef))
    BY <1>1, <2>2 DEF FirstLonger
  <2> QED
    BY <1>1, <2>3, Zenon DEF LongCoef, ShortCoef, longer, shorter
<1>4. PICK x \in Nat, y \in Nat : x = longer.coef /\ y = shorter.coef
  BY <1>2
<1>5. CASE pc \in {"call", "multiply"}
  <2>1. DigitsUsed = 0 /\ UsedUp = 1 /\ RowSum = 0
    BY <1>5 DEF DigitsUsed, UsedUp, RowSum
  <2>2. powers[0] = 1
    BY PowersFacts
  <2>3. y % 1 = 0
    <3>1. y % 1 \in Nat /\ y % 1 < 1
      BY Euclid
    <3> QED
      BY <3>1
  <2>4. x * 0 = 0
    OBVIOUS
  <2> QED
    BY <1>2, <1>3, <1>4, <1>5, <2>1, <2>2, <2>3, <2>4
<1>6. CASE pc = "chunks"
  <2>1. /\ ChunksInv /\ Accumulated
        /\ Worth(FASTBASE, zlhi)[Len(zlhi)] = x
        /\ Worth(FASTBASE, zrhi)[Len(zrhi)] = y
    BY <1>4, <1>6 DEF MulInv, InChunks
  <2>2. /\ zrhi \in Chunks /\ Used \in Nat /\ Used <= Len(zrhi) /\ Len(zrhi) \in Nat
        /\ NatItems(zacc) /\ Len(zacc) \in Nat /\ DOMAIN zacc = 1..Len(zacc)
    BY <2>1, ShapeHolds DEF Shape, ChunksInv, ChunksTypeOK
  <2>3. DigitsUsed = FASTDIGS * Used
    BY <1>6 DEF DigitsUsed
  <2>4. FASTDIGS * Used \in Nat
    BY <2>2, PowerOfChunk
  <2>5. UsedUp = powers[FASTDIGS * Used]
    BY <1>6 DEF UsedUp, Used
  <2>6. Worth(FASTBASE, zrhi)[Used] = y % UsedUp
    BY <2>1, <2>2, <2>5, ChunksBelow
  <2>7. Worth(FASTBASE, zacc)[Len(zacc)] = x * (y % UsedUp)
    BY <2>1, <2>6, Zenon DEF Accumulated
  <2>8. zacc \in Seq(Nat)
    BY <2>1, <2>2 DEF ChunksInv, ChunksTypeOK
  <2>9. Number(FASTBASE, zacc) = Worth(FASTBASE, zacc)[Len(zacc)]
    BY <2>2, <2>8, ChunkBase, NumberWorth
  <2>10. Multiplied => RowSum = Number(FASTBASE, zacc)
    BY <1>6 DEF RowSum
  <2> QED
    BY <1>2, <1>3, <1>4, <1>6, <2>3, <2>4, <2>5, <2>7, <2>9, <2>10
<1>7. CASE pc = "units"
  <2>1. /\ acc \in Arrays /\ shift \in Nat
        /\ Value(acc) = x * (y % powers[DPUN * shift])
    BY <1>4, <1>7 DEF MulInv, InUnits
  <2>2. DigitsUsed = DPUN * shift /\ UsedUp = powers[DPUN * shift]
    BY <1>7 DEF DigitsUsed, UsedUp
  <2>3. DPUN * shift \in Nat
    BY <2>1, PowerOfBase
  <2>4. Multiplied => RowSum = Value(acc)
    BY <1>7 DEF RowSum
  <2> QED
    BY <1>2, <1>3, <1>4, <1>7, <2>1, <2>2, <2>3, <2>4
<1>8. CASE pc = "build"
  <2>1. Value(acc) = x * y
    BY <1>2, <1>4, <1>8 DEF MulInv, ProductBuilt
  <2>2. DigitsUsed = Digits(ShortCoef) /\ UsedUp = powers[Digits(ShortCoef)]
    BY <1>8 DEF DigitsUsed, UsedUp
  <2>3. Digits(y) \in Nat /\ y < powers[Digits(y)]
    BY DigitsFacts
  <2>4. PICK p \in Nat \ {0} : p = powers[Digits(y)]
    BY <2>3, PowersPositive
  <2>5. y = 0 * p + y /\ y < p
    BY <2>3, <2>4
  <2>6. y % p = y
    BY <2>5, QuotientIs
  <2>7. Multiplied => RowSum = Value(acc)
    BY <1>8 DEF RowSum
  <2> QED
    BY <1>2, <1>3, <1>4, <2>1, <2>2, <2>3, <2>4, <2>6, <2>7, Zenon
<1> QED
  BY <1>5, <1>6, <1>7, <1>8 DEF Multiplies

\* a row takes one part more of the multiplier, unless that part is zero
LEMMA PartTaken ==
    ASSUME NEW x \in Nat, NEW y \in Nat, NEW u \in Nat, NEW v \in Nat, u <= v, v <= y
    PROVE  /\ y - v \in Nat
           /\ u = v \/ y - v < y - u
           /\ x * v = x * u + x * ((y - u) - (y - v))
<1>1. y - v \in Nat /\ (u = v \/ y - v < y - u) /\ (y - u) - (y - v) = v - u
  OBVIOUS
<1>2. PICK d \in Nat : v = u + d
  <2>1. v - u \in Nat /\ v = u + (v - u)
    OBVIOUS
  <2> QED
    BY <2>1
<1>3. v - u = d
  BY <1>2
<1>4. x * (u + d) = x * u + x * d
  OBVIOUS
<1> QED
  BY <1>1, <1>2, <1>3, <1>4

\* what a step leaves of the multiplication asked for
LEMMA FactorsStand ==
    ASSUME MulInv, MulNext
    PROVE  /\ LongCoef' = LongCoef /\ ShortCoef' = ShortCoef /\ Multiplied' = Multiplied
           /\ pc' # "call"
<1>1. /\ call'.routine = call.routine /\ set' = set /\ given' = Factors /\ pc' # "call"
  <2>1. CASE EnterMultiply
    BY <2>1, Zenon DEF EnterMultiply, Factors
  <2>2. CASE NaNFactor \/ InfinityTimesZero \/ InfiniteFactor
    BY <2>2 DEF NaNFactor, InfinityTimesZero, InfiniteFactor, Product, Multiplying, Factors
  <2>3. CASE CutIntoChunks \/ StartUnits
    BY <2>3 DEF CutIntoChunks, StartUnits, FiniteFactors, Multiplying, Factors, inner
  <2>4. CASE MultiplyChunks \/ AddUnit
    BY <2>4, Zenon DEF MultiplyChunks, AddUnit, Factors, vars
  <2>5. CASE CutIntoUnits \/ AllUnitsAdded
    BY <2>5 DEF CutIntoUnits, AllUnitsAdded, Factors, inner
  <2>6. CASE BuildProduct
    BY <2>6 DEF BuildProduct, Product, Factors
  <2>7. CASE FuseInvalid \/ Fuse
    <3>1. /\ pc = "fuse" /\ set' = set /\ given' = given /\ pc' \in {"report", "add"}
          /\ call' = call \/ call' = Addend
      BY <2>7 DEF FuseInvalid, Fuse
    <3>2. call \in MulCalls
      BY DEF MulInv, CallKnown
    <3>3. call'.routine = call.routine
      <4>1. CASE call' = call
        BY <4>1
      <4>2. CASE call' = Addend
        BY <3>2, <4>2 DEF Addend, MulCalls
      <4> QED
        BY <3>1, <4>1, <4>2
    <3> QED
      BY <3>1, <3>3 DEF Factors
  <2>8. CASE AddStep
    <3>1. CASE NaNOperand \/ Infinities
      BY <3>1 DEF NaNOperand, Infinities, Deliver, Factors
    <3>2. CASE LhsZero \/ RhsZero
      BY <3>2 DEF LhsZero, RhsZero, BothFinite, Copy, Factors
    <3>3. CASE BothZero \/ PadToZero
      BY <3>3, Zenon DEF BothZero, PadToZero, Factors
    <3>4. CASE FastPath
      BY <3>4, Zenon DEF FastPath, BothNonZero, BothFinite, Deliver, Factors
    <3>5. CASE BigSuffices \/ AddAligned
      BY <3>5, Zenon DEF BigSuffices, AddAligned, BothNonZero, BothFinite, Factors
    <3>6. CASE Finish
      <4>1. pc \in {"finish", "finishSum"} /\ pc # "call"
        BY <3>6, Zenon DEF Finish
      <4> QED
        BY <3>6, <4>1, Zenon DEF Finish, Factors
    <3> QED
      BY <2>8, <3>1, <3>2, <3>3, <3>4, <3>5, <3>6 DEF AddStep
  <2>9. CASE ReportProduct
    BY <2>9 DEF ReportProduct, Report, Factors
  <2> QED
    BY <2>1, <2>2, <2>3, <2>4, <2>5, <2>6, <2>7, <2>8, <2>9 DEF MulNext
<1>2. Factors' = Factors
  BY <1>1, Zenon DEF Factors
<1>3. Fused' = Fused
  BY <1>1, Zenon DEF Fused
<1>4. FirstLonger' = FirstLonger
  BY <1>2, Zenon DEF FirstLonger
<1>5. LongCoef' = LongCoef /\ ShortCoef' = ShortCoef
  BY <1>2, <1>4, Zenon DEF LongCoef, ShortCoef
<1>6. Multiplied' = Multiplied
  BY <1>1, <1>2, <1>3, Zenon DEF Multiplied, Refused, Checked, CheckMath
<1> QED
  BY <1>1, <1>5, <1>6

\* the parts of the multiplier only grow, until the product is there
LEMMA RowsGrow ==
    ASSUME MulInv, MulInv', MulNext, Multiplied
    PROVE  \/ /\ pc \in Multiplies /\ pc' \in Multiplies
              /\ DigitsUsed <= DigitsUsed' \/ pc' = "build"
           \/ /\ pc \notin Multiplies \ {"build"} /\ pc' \notin Multiplies
              /\ acc' = acc
<1>1. pc \in Multiplies => DigitsUsed \in Nat
  BY RowSumIs DEF RowSumRight, InMultiply
<1>2. pc' \in Multiplies => DigitsUsed' \in Nat
  <2>1. InMultiply' => RowSumRight'
    BY RowSumIs, PTL
  <2> QED
    BY <2>1 DEF RowSumRight, InMultiply
<1>3. Factors = IF pc = "call" THEN [left |-> left, right |-> right, far |-> rhs] ELSE given
  BY DEF Factors
<1>4. pc = "multiply" => given = [left |-> left, right |-> right, far |-> rhs]
  BY DEF MulInv, FactorsKept
<1>5. /\ ~IsSpecial(Factors.left) /\ ~IsSpecial(Factors.right)
      /\ Fused => Refused(Factors.left, Factors.right, Factors.far) = {}
  BY DEF Multiplied
<1>6. CASE EnterMultiply
  <2>1. pc = "call" /\ (Fused => Refused(left, right, rhs) = {})
    BY <1>3, <1>5, <1>6 DEF EnterMultiply
  <2>2. pc' = "multiply"
    BY <1>6, <2>1 DEF EnterMultiply
  <2>3. DigitsUsed = 0
    BY <2>1 DEF DigitsUsed
  <2> QED
    BY <1>2, <2>1, <2>2, <2>3 DEF Multiplies
<1>7. CASE NaNFactor \/ InfinityTimesZero \/ InfiniteFactor
  <2>1. pc = "multiply" /\ (IsSpecial(left) \/ IsSpecial(right))
    BY <1>7 DEF NaNFactor, InfinityTimesZero, InfiniteFactor, Multiplying, IsNaN, IsSpecial
  <2>2. Factors.left = left /\ Factors.right = right
    BY <1>3, <1>4, <2>1
  <2> QED
    BY <1>5, <2>1, <2>2
<1>8. CASE CutIntoChunks \/ StartUnits
  <2>1. pc = "multiply" /\ pc' \in {"chunks", "units"}
    BY <1>8 DEF CutIntoChunks, StartUnits, FiniteFactors, Multiplying
  <2>2. DigitsUsed = 0
    BY <2>1 DEF DigitsUsed
  <2> QED
    BY <1>2, <2>1, <2>2 DEF Multiplies
<1>9. CASE MultiplyChunks
  <2>1. pc = "chunks" /\ pc' = "chunks" /\ ChunksNext
    BY <1>9 DEF MultiplyChunks, vars
  <2>2. ChunksInv
    BY <2>1 DEF MulInv, InChunks
  <2>3. rip \in Nat /\ Used \in Nat
    <3>1. Shape
      BY <2>2, ShapeHolds
    <3> QED
      BY <3>1 DEF Shape
  <2>4. ChunksInv'
    BY <2>1 DEF MulInv, InChunks
  <2>5. Used' \in Nat
    <3>1. Shape'
      BY <2>4, ShapeHolds, PTL
    <3> QED
      BY <3>1 DEF Shape
  <2>6. Used <= Used'
    <3>1. CASE AddRow
      <4>1. /\ stage = "add"
            /\ \/ stage' = stage /\ rip' = rip + 1
               \/ stage' = "resolve" /\ rip' = rip
        BY <3>1 DEF AddRow
      <4> QED
        BY <2>3, <4>1 DEF Used
    <3>2. CASE Fits \/ CarryOnePlace \/ CarryTwoPlaces
      <4>1. stage' = stage /\ rip' = rip
        BY <3>2, Zenon DEF Fits, CarryOnePlace, CarryTwoPlaces
      <4>2. Used' = Used
        BY <4>1, Zenon DEF Used
      <4> QED
        BY <2>3, <4>2
    <3>3. CASE Resolved
      BY <2>3, <3>3 DEF Resolved, Used
    <3> QED
      BY <2>1, <3>1, <3>2, <3>3 DEF ChunksNext
  <2>7. DigitsUsed = FASTDIGS * Used /\ DigitsUsed' = FASTDIGS * Used'
    BY <2>1 DEF DigitsUsed
  <2>8. FASTDIGS * Used <= FASTDIGS * Used'
    <3>1. PICK f \in Nat, i \in Nat, j \in Nat : f = FASTDIGS /\ i = Used /\ j = Used'
      BY <2>3, <2>5, ChunksAssumption
    <3>2. i <= j
      BY <2>6, <3>1
    <3>3. f * i <= f * j
      BY <3>2
    <3> QED
      BY <3>1, <3>3
  <2> QED
    BY <2>1, <2>7, <2>8 DEF Multiplies
<1>10. CASE CutIntoUnits \/ AllUnitsAdded
  BY <1>10 DEF CutIntoUnits, AllUnitsAdded, Multiplies
<1>11. CASE AddUnit
  <2>1. pc = "units" /\ pc' = "units" /\ shift' = shift + 1
    BY <1>11 DEF AddUnit, vars
  <2>2. shift \in Nat
    BY <2>1 DEF MulInv, InUnits
  <2>3. DigitsUsed = DPUN * shift /\ DigitsUsed' = DPUN * (shift + 1)
    BY <2>1 DEF DigitsUsed
  <2>4. DPUN * shift <= DPUN * (shift + 1)
    BY <2>2, UnitBase
  <2> QED
    BY <2>1, <2>3, <2>4 DEF Multiplies
<1>12. CASE BuildProduct
  <2>1. pc = "build" /\ pc' \in {"fuse", "report"} /\ UNCHANGED unitVars
    BY <1>12 DEF BuildProduct, Product
  <2> QED
    BY <2>1 DEF Multiplies, unitVars
<1>13. CASE FuseInvalid \/ Fuse
  <2>1. pc = "fuse" /\ pc' \in {"report", "add"} /\ UNCHANGED unitVars
    BY <1>13 DEF FuseInvalid, Fuse
  <2> QED
    BY <2>1 DEF Multiplies, unitVars
<1>14. CASE AddStep
  <2>1. UNCHANGED unitVars
    BY <1>14, Zenon DEF AddStep
  <2>2. /\ pc \in {"add", "pad", "finish", "finishSum"}
        /\ pc' \in {"pad", "finish", "finishSum", "report"}
    BY <1>14, AddingPhases
  <2> QED
    BY <2>1, <2>2 DEF Multiplies, unitVars
<1>15. CASE ReportProduct
  <2>1. pc = "report" /\ pc' = "done" /\ UNCHANGED unitVars
    BY <1>15 DEF ReportProduct, Report
  <2> QED
    BY <2>1 DEF Multiplies, unitVars
<1> QED
  BY <1>6, <1>7, <1>8, <1>9, <1>10, <1>11, <1>12, <1>13, <1>14, <1>15 DEF MulNext

\* the long multiplication a state stands for
LongPart == IF Multiplied THEN LongCoef ELSE 0
Todo == IF Multiplied THEN ShortCoef - (ShortCoef % UsedUp) ELSE 0

RowTaken ==
    /\ Todo' \in Nat /\ Todo' < Todo
    /\ RowSum' = RowSum + LongPart * (Todo - Todo')
    /\ LongPart' = LongPart

LEMMA RowsStep ==
    ASSUME MulInv, MulInv', MulNext
    PROVE  RowTaken \/ (LongPart' = LongPart /\ Todo' = Todo /\ RowSum' = RowSum)
<1>1. /\ LongCoef' = LongCoef /\ ShortCoef' = ShortCoef /\ Multiplied' = Multiplied
      /\ pc' # "call"
  BY FactorsStand
<1>2. LongPart' = LongPart
  BY <1>1, Zenon DEF LongPart
<1>3. CASE ~Multiplied
  BY <1>1, <1>2, <1>3 DEF Todo, RowSum
<1>4. CASE Multiplied /\ pc \in Multiplies /\ pc' \in Multiplies
                      /\ (DigitsUsed <= DigitsUsed' \/ pc' = "build")
  <2>1. RowSumRight
    BY <1>4, RowSumIs DEF InMultiply
  <2>2. RowSumRight'
    <3>1. InMultiply' => RowSumRight'
      BY RowSumIs, PTL
    <3> QED
      BY <1>4, <3>1 DEF InMultiply
  <2>3. PICK x \in Nat, y \in Nat, i \in Nat, j \in Nat :
            x = LongCoef /\ y = ShortCoef /\ i = DigitsUsed /\ j = DigitsUsed'
    BY <2>1, <2>2 DEF RowSumRight
  <2>4. PICK u, v : u = y % powers[i] /\ v = y % powers[j]
    OBVIOUS
  <2>5. ShortCoef % UsedUp = u /\ RowSum = x * u
    BY <1>4, <2>1, <2>3, <2>4, Zenon DEF RowSumRight
  <2>6. ShortCoef' % UsedUp' = v /\ RowSum' = x * v
    BY <1>1, <1>4, <2>2, <2>3, <2>4, Zenon DEF RowSumRight
  <2>7. u \in Nat /\ v \in Nat /\ u <= v /\ v <= y
    <3>1. u \in Nat /\ v \in Nat /\ u <= y /\ v <= y
      BY <2>4, PartsGrow
    <3>2. CASE i <= j
      BY <2>4, <3>1, <3>2, PartsGrow
    <3>3. CASE pc' = "build"
      <4>1. v = y
        BY <1>1, <2>2, <2>3, <2>6, <3>3 DEF RowSumRight
      <4> QED
        BY <3>1, <4>1
    <3> QED
      BY <1>4, <2>3, <3>2, <3>3
  <2>8. Todo = y - u /\ Todo' = y - v /\ LongPart = x
    BY <1>1, <1>4, <2>3, <2>5, <2>6, Zenon DEF Todo, LongPart
  <2>9. /\ y - v \in Nat
        /\ u = v \/ y - v < y - u
        /\ x * v = x * u + x * ((y - u) - (y - v))
    BY <2>7, PartTaken
  <2>10. CASE u = v
    BY <1>2, <2>5, <2>6, <2>8, <2>10
  <2>11. CASE y - v < y - u
    BY <1>2, <2>5, <2>6, <2>8, <2>9, <2>11, Zenon DEF RowTaken
  <2> QED
    BY <2>9, <2>10, <2>11
<1>5. CASE Multiplied /\ pc \notin Multiplies \ {"build"} /\ pc' \notin Multiplies /\ acc' = acc
  <2>1. UsedUp' = UsedUp /\ RowSum' = RowSum
    <3>1. /\ pc \notin {"call", "multiply"} /\ pc # "chunks" /\ pc # "units"
          /\ pc' \notin {"call", "multiply"} /\ pc' # "chunks" /\ pc' # "units"
      BY <1>5 DEF Multiplies
    <3>2. UsedUp = powers[Digits(ShortCoef)]
      BY <3>1 DEF UsedUp
    <3>3. UsedUp' = powers[Digits(ShortCoef')]
      BY <3>1 DEF UsedUp
    <3>4. RowSum = Value(acc) /\ RowSum' = Value(acc')
      BY <1>1, <1>5, <3>1, Zenon DEF RowSum
    <3> QED
      BY <1>1, <1>5, <3>2, <3>3, <3>4, Zenon
  <2>2. Todo' = Todo
    BY <1>1, <2>1, Zenon DEF Todo
  <2> QED
    BY <1>2, <2>1, <2>2
<1> QED
  BY <1>3, <1>4, <1>5, RowsGrow

LEMMA RowsStand ==
    ASSUME UNCHANGED mulVars
    PROVE  LongPart' = LongPart /\ Todo' = Todo /\ RowSum' = RowSum
<1>1. UNCHANGED vars /\ UNCHANGED chunkVars /\ UNCHANGED unitVars
  BY DEF mulVars
<1>2. /\ mem' = mem /\ call' = call /\ set' = set /\ given' = given
      /\ pc' = pc /\ acc' = acc /\ shift' = shift
      /\ zacc' = zacc /\ stage' = stage /\ rip' = rip
  BY <1>1 DEF vars, unitVars, chunkVars
<1>3. left' = left /\ right' = right /\ rhs' = rhs /\ Fused' = Fused
  BY <1>2, FactorsStay
<1>4. Factors' = Factors
  BY <1>2, <1>3, Zenon DEF Factors
<1>5. Multiplied' = Multiplied
  BY <1>2, <1>3, <1>4, Zenon DEF Multiplied, Refused, Checked, CheckMath
<1>6. LongCoef' = LongCoef /\ ShortCoef' = ShortCoef
  BY <1>4, Zenon DEF LongCoef, ShortCoef, FirstLonger
<1>7. UsedUp' = UsedUp
  BY <1>2, <1>6, Zenon DEF UsedUp
<1> QED
  BY <1>2, <1>5, <1>6, <1>7, Zenon DEF LongPart, Todo, RowSum

LEMMA RowsInit ==
    ASSUME MulInit
    PROVE  LongPart \in Nat /\ Todo \in Nat /\ RowSum = 0
<1>1. MulInv /\ pc = "call"
  BY MulInitInv DEF MulInit
<1>2. RowSumRight
  BY <1>1, RowSumIs DEF Multiplies, InMultiply
<1>3. RowSum = 0 /\ DigitsUsed = 0
  BY <1>1 DEF RowSum, DigitsUsed
<1>4. PICK y \in Nat : y = ShortCoef
  BY <1>2 DEF RowSumRight
<1>5. y % powers[0] \in Nat /\ y % powers[0] <= y
  BY PartsGrow
<1>6. y - (y % powers[0]) \in Nat
  BY <1>5
<1>7. Todo \in Nat
  <2>1. UsedUp = powers[0]
    BY <1>2, <1>3 DEF RowSumRight
  <2> QED
    BY <1>4, <1>6, <2>1 DEF Todo
<1> QED
  BY <1>2, <1>3, <1>7 DEF LongPart, RowSumRight

\* Unit by Unit or in chunks, whenever carries are resolved, each row adds just
\* its multiple of the multiplicand, with operands of any length
\* (decMultiplyOp).
THEOREM RowsMultiply == MulSpec => MultipliesInRows
<1>1. MulInit => LongMultiplication!Init
  BY RowsInit DEF LongMultiplication!Init, LongPart, Todo, RowSum
<1>2. MulInv /\ MulInv' /\ [MulNext]_mulVars
          => [LongMultiplication!AddPart]_(LongMultiplication!vars)
  <2> SUFFICES ASSUME MulInv, MulInv', [MulNext]_mulVars
               PROVE  [LongMultiplication!AddPart]_(LongMultiplication!vars)
    OBVIOUS
  <2>1. RowTaken \/ (LongPart' = LongPart /\ Todo' = Todo /\ RowSum' = RowSum)
    BY RowsStep, RowsStand
  <2>2. CASE RowTaken
    <3>1. LongMultiplication!AddPart
      BY <2>2, Zenon DEF RowTaken, LongMultiplication!AddPart, LongPart, Todo, RowSum
    <3> QED
      BY <3>1
  <2>3. CASE LongPart' = LongPart /\ Todo' = Todo /\ RowSum' = RowSum
    <3>1. UNCHANGED LongMultiplication!vars
      BY <2>3, Zenon DEF LongMultiplication!vars, LongPart, Todo, RowSum
    <3> QED
      BY <3>1
  <2> QED
    BY <2>1, <2>2, <2>3
<1> QED
  BY <1>1, <1>2, MulInvariant, PTL DEF MulSpec, MultipliesInRows, LongMultiplication!Spec

=============================================================================
