------------------------------ MODULE DecUnits ------------------------------
(***************************************************************************)
(* The Unit arrays below the numbers of decNumber.c: DECDPUN decimal       *)
(* digits in each Unit, the least significant Unit first.  Routines shift, *)
(* reverse, add and compare arrays in place; a caller's array may be       *)
(* longer than the number in it, and what lies above is not cleared.       *)
(***************************************************************************)
EXTENDS DecRound, Sequences

MSUDigits(digits) == digits - (D2U(digits) - 1) * DPUN

ToUnits(c, n) == [k \in 1..n |-> (c \div powers[DPUN * (k - 1)]) % Base]

\* the integer that items, the least significant one first, are written for
Number(base, items) ==
    LET top[k \in 0..Len(items)] ==
            IF k = 0 THEN 0 ELSE base * top[k - 1] + items[Len(items) + 1 - k]
    IN  top[Len(items)]

\* the integer in an array; decGetDigits measures it
Value(units) == Number(Base, units)

UnitsOf(n) == ToUnits(n.coef, D2U(Digits(n.coef)))

\* a Unit of the array, 0 beyond its end
UnitAt(units, k) == IF k \in DOMAIN units THEN units[k] ELSE 0

(***************************************************************************)
(* Shifting by whole digits: each Unit takes the upper part of one source  *)
(* Unit and the lower part of its neighbour.                               *)
(***************************************************************************)

\* the digits of Unit k above the cut, with those of Unit k + 1 below it
Joined(units, k, cut) ==
    UnitAt(units, k) \div powers[cut]
        + (UnitAt(units, k + 1) % powers[cut]) * powers[DPUN - cut]

ShiftToMost(units, digits, shift) ==
    LET used == SubSeq(units, 1, D2U(digits))
        cut  == DPUN - MSUDigits(shift)
    IN  IF shift = 0 THEN used
        ELSE [k \in 1..D2U(digits + shift) |->
                 Joined(used, k - D2U(shift), cut)]

\* n Units are in use; those the result does not need keep their content
ShiftToLeast(units, n, shift) ==
    LET used  == SubSeq(units, 1, n)
        cut   == MSUDigits(shift)
        whole == D2U(shift - cut)
    IN  IF shift = 0 THEN units
        ELSE IF shift = n * DPUN THEN [units EXCEPT ![1] = 0]
        ELSE [k \in DOMAIN units |->
                 IF k > D2U(n * DPUN - shift) THEN units[k]
                 ELSE IF cut = DPUN THEN used[k + D2U(shift)]
                 ELSE Joined(used, k + whole, cut)]

ReversePart(units, lo, hi) ==
    [k \in DOMAIN units |-> IF k \in lo..hi THEN units[lo + hi - k] ELSE units[k]]

(***************************************************************************)
(* decUnitAddSub: c = a + b * m, with b shifted up by whole Units and m in *)
(* -(Base-1)..(Base-1).  The carry is divided by multiplying with a        *)
(* reciprocal, made positive first; the quotient so estimated may be one   *)
(* too small when DECDPUN is 3 or 4.  In place, a and c are one array and  *)
(* its low Units are not copied.                                           *)
(***************************************************************************)

\* QUOT10 (DECDPUN <= 2), divide-by-multiply, or a division if DECDPUN > 4
Estimate(u) ==
    CASE DPUN = 1 -> ((u \div 2) * 26215) \div 131072
      [] DPUN = 2 -> ((u \div 4) * 5243) \div 131072
      [] DPUN = 3 -> ((u \div 8) * 16777) \div 2097152
      [] DPUN = 4 -> ((u \div 2048) * 53687) \div 262144
      [] OTHER -> u \div Base

Corrected(u, est) == IF u - est * Base < Base THEN est ELSE est + 1

\* a column's sum as its Unit and the carry to the next
Split(sum) ==
    LET pos  == IF sum < 0 THEN sum + Base * Base ELSE sum
        quot == Corrected(pos, Estimate(pos))
    IN  IF sum \in 0..(Base - 1) THEN <<sum, 0>>
        ELSE <<pos - quot * Base, IF sum < 0 THEN quot - Base ELSE quot>>

\* the sum of each column with its carry, up to the longer of a and shifted b
Columns(a, b, bshift, m) ==
    LET high == IF Len(a) > Len(b) + bshift THEN Len(a) ELSE Len(b) + bshift
        column[k \in 0..high] ==
            IF k = 0 THEN <<0, 0>>
            ELSE Split(column[k - 1][2] + UnitAt(a, k) + UnitAt(b, k - bshift) * m)
    IN  [units |-> [k \in 1..high |-> column[k][1]], carry |-> column[high][2]]

\* add stays 1 as long as the Units are 0
Complement(units) ==
    LET add[k \in 0..Len(units)] ==
            IF k = 0 THEN 1
            ELSE IF Base - 1 + add[k - 1] - units[k] < Base THEN 0 ELSE 1
        unit(k) == Base - 1 + add[k - 1] - units[k]
    IN  [units |-> [k \in 1..Len(units) |-> IF unit(k) < Base THEN unit(k) ELSE 0],
         add |-> add[Len(units)]]

Complemented(comp, carry) ==
    LET top == comp.add - carry - 1
    IN  [units |-> IF top # 0 THEN Append(comp.units, top) ELSE comp.units,
         neg |-> TRUE]

\* the carry left over is a Unit more, or tells that the sum is negative
Settle(sum) ==
    IF sum.carry = 0 THEN [units |-> sum.units, neg |-> FALSE]
    ELSE IF sum.carry > 0
         THEN [units |-> Append(sum.units, sum.carry), neg |-> FALSE]
    ELSE Complemented(Complement(sum.units), sum.carry)

\* the units written, and whether they stand for a negative number
UnitAddSub(a, b, bshift, m) == Settle(Columns(a, b, bshift, m))

(***************************************************************************)
(* decUnitCompare: a against b * 10^exp.  Arrays whose lengths differ      *)
(* enough need no subtraction.                                             *)
(***************************************************************************)
Sign(i) == IF i > 0 THEN 1 ELSE IF i < 0 THEN -1 ELSE 0

SignOfUnits(diff) ==
    IF diff.neg THEN -1
    ELSE IF \A k \in DOMAIN diff.units : diff.units[k] = 0 THEN 0 ELSE 1

UnitCompare(a, b, exp) ==
    IF exp = 0 /\ Len(a) # Len(b) THEN Sign(Len(a) - Len(b))
    ELSE IF exp = 0 THEN Sign(Value(a) - Value(b))
    ELSE IF Len(a) > Len(b) + D2U(exp) THEN 1
    ELSE IF Len(a) + 1 < Len(b) + D2U(exp) THEN -1
    ELSE SignOfUnits(UnitAddSub(a, b, exp \div DPUN, -powers[exp % DPUN]))

=============================================================================
