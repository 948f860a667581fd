-------------------------- MODULE DecDivideCorrect --------------------------
(***************************************************************************)
(* What decDivideOp must deliver, and that its long division stays in its  *)
(* arrays and ends.                                                        *)
(***************************************************************************)
EXTENDS DecDivide, DecReference

\* numbers and contexts of any size
ASSUME FamiliesAssumption ==
    \A f \in Families :
        /\ f.ops \subseteq Ops
        /\ \A s \in f.contexts : IsContext(s)
        /\ f.lhs \subseteq Numbers /\ f.rhs \subseteq Numbers

Done == pc = "done"
BothFiniteNonZero == ~IsSpecial(lhs) /\ ~IsSpecial(rhs)
                         /\ lhs.coef # 0 /\ rhs.coef # 0

(***************************************************************************)
(* The exact quotient as a coefficient and an exponent: if it ends within  *)
(* Shift digits, with the exponent nearest to the ideal one; if not, cut   *)
(* there, with a digit 1 for all that follows.  That is two digits more    *)
(* than the precision, so that it cannot be taken for a tie.               *)
(***************************************************************************)
Shift == set.digits + 2 + Max({0, Digits(rhs.coef) - Digits(lhs.coef)})

Ends == (lhs.coef * powers[Shift]) % rhs.coef = 0
Quotient == (lhs.coef * powers[Shift]) \div rhs.coef

Surplus == Max({z \in 0..Shift : Quotient % powers[z] = 0})

ExactCoef == IF Ends THEN Quotient \div powers[Surplus] ELSE 10 * Quotient + 1
ExactExp == lhs.exp - rhs.exp - Shift + (IF Ends THEN Surplus ELSE -1)

\* the integers an integer division and a remainder are about
Low == Min({lhs.exp, rhs.exp})
Dividend == lhs.coef * powers[lhs.exp - Low]
Divisor == rhs.coef * powers[rhs.exp - Low]

Whole == Dividend \div Divisor
Left == Dividend % Divisor
UpToNear == 2 * Left > Divisor \/ (2 * Left = Divisor /\ Whole % 2 = 1)

TooLong(n) == n >= powers[set.digits]

\* Every variable keeps its type: the Unit being built is below the base of
\* the arithmetic, so that it fits its array element.
TypeOK ==
    /\ op \in Ops
    /\ pc \in {"start", "divide", "accumulate", "complete", "finish", "report",
              "done"}
    /\ bits \in BOOLEAN
    /\ var1 \in Nat /\ stale \in BOOLEAN /\ acc \in Nat /\ accunits \in Nat
    /\ var2ulen \in Nat /\ var1initpad \in Nat /\ exponent \in Int
    /\ thisunit \in 0..(Base - 1)
    /\ res.kind \in Kinds /\ res.coef \in Nat
    /\ residue \in -1..9 /\ status \subseteq Flags

\* The long division stays inside its arrays: the divisor is never moved below
\* the least Unit, var1 always has the second Unit the guess reads, and the
\* quotient never has more Units than acc.  A var1 that was set to 0 still has
\* its old Units under msu1, and is taken for the divisor once more when it is as
\* long again (decNumber.c:4533): that happens to no quotient but an integer
\* that has too many digits already, so the wrong Unit is never delivered.
StaysInArrays ==
    /\ TypeOK
    /\ pc = "divide" =>
           /\ var2ulen >= var2units
           /\ Units(var1) <= var1units
           /\ Covers => Units(var1) >= 2
           /\ stale => var1 = 0
           /\ stale /\ var2ulen = 1
                  => op = "DIVIDEINT" /\ Digits(acc) + DPUN + exponent > reqdigits
    /\ accunits <= D2U(reqdigits + DPUN)

\* Nothing of the dividend is lost on the way: before each step the dividend
\* is the quotient so far times the divisor plus what is left in var1, at the
\* present position, and what is left is below one Unit's worth of the divisor.
NothingLost ==
    pc = "divide" =>
        LET pad == IF Dividing THEN (var1units - Units(lhs.coef)) * DPUN
                   ELSE var1initpad
            quotient == acc * Base + thisunit
        IN  /\ IF quotient = 0 THEN var1 = lhs.coef * powers[pad]
               ELSE quotient * rhs.coef * Padding + var1 = lhs.coef * powers[pad]
            /\ Units(var1) > var2ulen => (var1 \div Base) \div Padding < rhs.coef

\* A quotient is the exact one, rounded once, with the exponent nearest to the
\* ideal one if it is exact; its flags say what was lost.
QuotientRounded ==
    Done /\ Dividing /\ BothFiniteNonZero
        => /\ res = Delivered(sign, ExactCoef, ExactExp, set)
           /\ status = FlagsFor(sign, ExactCoef, ExactExp, set)

\* An integer quotient is the exact one cut to an integer with exponent 0, which
\* overflows in a context for smaller numbers than its precision; a
\* remainder is the dividend less the whole (or nearest) multiple of the
\* divisor, with the sign this has, or for a zero the dividend's; both are
\* impossible exactly if the integer has more digits than the precision.
IntegerQuotient ==
    IF TooLong(Whole)
    THEN status = {"Division_impossible"} /\ res.kind = "nan"
    ELSE /\ res = Delivered(sign, Whole, 0, set)
         /\ status = FlagsFor(sign, Whole, 0, set)

RemainderExact ==
    LET up == op = "REMNEAR" /\ UpToNear
        rem == IF up THEN Divisor - Left ELSE Left
        neg == IF up THEN ~lhs.neg ELSE lhs.neg
    IN  IF TooLong(IF up THEN Whole + 1 ELSE Whole)
        THEN status = {"Division_impossible"} /\ res.kind = "nan"
        ELSE /\ res = Delivered(neg, rem, Low, set)
             /\ status = FlagsFor(neg, rem, Low, set)

WholeAndRest ==
    /\ Done /\ op = "DIVIDEINT" /\ BothFiniteNonZero => IntegerQuotient
    /\ Done /\ IsRemainder /\ BothFiniteNonZero => RemainderExact

\* The result is a NaN exactly if an operand is, or the operation is not
\* defined for its zeros and infinities, or was impossible; dividing by zero
\* gives an infinity, and only that raises Division_by_zero.
Undefined ==
    \/ lhs.kind = "inf" /\ (rhs.kind = "inf" \/ IsRemainder)
    \/ IsZero(rhs) /\ ~IsSpecial(lhs) /\ (IsZero(lhs) \/ IsRemainder)

ExceptionsSignalled ==
    Done => /\ res.kind = "nan" <=> \/ IsNaN(lhs) \/ IsNaN(rhs) \/ Undefined
                                    \/ "Division_impossible" \in status
            /\ res.kind # "snan"
            /\ "Division_by_zero" \in status
                   <=> IsZero(rhs) /\ ~IsSpecial(lhs) /\ ~Undefined
            /\ "Division_by_zero" \in status => res = Special("inf", sign)

\* Every division ends.
Ended == <>Done

=============================================================================
