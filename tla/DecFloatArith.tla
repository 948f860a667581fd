--------------------------- MODULE DecFloatArith ----------------------------
(***************************************************************************)
(* The arithmetic of decBasic.c: one operator per routine, taking data and *)
(* the context and returning the result and the context as it is left.     *)
(***************************************************************************)
EXTENDS DecFloat

CONSTANT
    DIVDIGITS    \* digits in a unit of a quotient (9, base a billion)

ASSUME UnitAssumption == DIVDIGITS \in 1..(DECPMAX + 1)

IsInf(n) == n.kind = "inf"
Infinity(neg) == Float("inf", neg, 0, 0)
SignedZero(neg) == Float("finite", neg, 0, 0)
AnyNaN(l, r) == IsNaN(l) \/ IsNaN(r)
Positive(n) == [n EXCEPT !.neg = FALSE]
Negative(n) == [n EXCEPT !.neg = ~@]
Value(num) == IF num.neg THEN -num.coef ELSE num.coef

(***************************************************************************)
(* Addition.  hi is the operand with the larger exponent.  Exact zero from *)
(* operands of different signs is negative only when rounding to -Infinity.*)
(***************************************************************************)
ZeroSign(set) == set.round = "FLOOR"

Total(hi, lo, set) ==
    LET sum == Value(hi) * powers[hi.exp - lo.exp] + Value(lo)
    IN  Bcd(IF sum = 0 /\ hi.neg # lo.neg THEN ZeroSign(set)
            ELSE sum < 0 \/ (sum = 0 /\ hi.neg),
            IF sum < 0 THEN -sum ELSE sum, lo.exp)

\* mutant: whatever is that far below is left out
StickyForgotten(hi, lo) == Bcd(lo.neg, 0, hi.exp - DECPMAX - 1)

\* more than DECPMAX places below hi: only whether it is zero matters
Sticky(hi, lo) ==
    Bcd(lo.neg, IF lo.coef = 0 THEN 0 ELSE 1, hi.exp - DECPMAX - 1)

Within(hi, lo) ==
    IF hi.exp - lo.exp > 2 * DECPMAX THEN Sticky(hi, lo) ELSE lo

MSD(n) == n.coef \div powers[DECPMAX - 1]

AddFinite(l, r, set) ==
    LET hi == IF l.exp >= r.exp THEN l ELSE r
        lo == IF l.exp >= r.exp THEN r ELSE l
    IN  IF l.exp = r.exp /\ l.neg = r.neg /\ MSD(l) + MSD(r) <= 8
        THEN Return(Float("finite", l.neg, l.coef + r.coef, l.exp), set)
        ELSE IF hi.coef = 0
        THEN Return([decCanonical(lo) EXCEPT
                        !.neg = IF lo.coef = 0 /\ l.neg # r.neg
                                THEN ZeroSign(set) ELSE @], set)
        ELSE decFinalize(Total(BcdOf(hi), Within(hi, BcdOf(lo)), set), set)

decFloatAdd(l, r, set) ==
    IF AnyNaN(l, r) THEN decNaNs(l, r, set)
    ELSE IF IsInf(l) /\ IsInf(r) /\ l.neg # r.neg THEN decInvalid(set)
    ELSE IF IsInf(l) THEN Return(decInfinity(l), set)
    ELSE IF IsInf(r) THEN Return(decInfinity(r), set)
    ELSE AddFinite(l, r, set)

\* a NaN keeps its sign
decFloatSubtract(l, r, set) ==
    decFloatAdd(l, IF IsNaN(r) THEN r ELSE Negative(r), set)

(***************************************************************************)
(* Multiplication, alone and fused with an addition.                       *)
(***************************************************************************)
decFiniteMultiply(l, r) == Bcd(l.neg # r.neg, l.coef * r.coef, l.exp + r.exp)

InfinityTimesZero(l, r) == (IsInf(l) /\ IsZero(r)) \/ (IsInf(r) /\ IsZero(l))

decFloatMultiply(l, r, set) ==
    IF AnyNaN(l, r) THEN decNaNs(l, r, set)
    ELSE IF InfinityTimesZero(l, r) THEN decInvalid(set)
    ELSE IF IsInf(l) \/ IsInf(r) THEN Return(Infinity(l.neg # r.neg), set)
    ELSE decFinalize(decFiniteMultiply(l, r), set)

FMASpecial(l, r, f, set) ==
    LET neg == l.neg # r.neg
    IN  IF l.kind = "snan" \/ r.kind = "snan" THEN decNaNs(l, r, set)
        ELSE IF f.kind = "snan" THEN decNaNs(f, f, set)
        ELSE IF AnyNaN(l, r) THEN decNaNs(l, r, set)
        ELSE IF IsNaN(f) THEN decNaNs(f, f, set)
        ELSE IF InfinityTimesZero(l, r) THEN decInvalid(set)
        ELSE IF ~IsInf(f) THEN Return(Infinity(neg), set)
        ELSE IF (IsInf(l) \/ IsInf(r)) /\ neg # f.neg THEN decInvalid(set)
        ELSE Return(decInfinity(f), set)

\* mutant: lo is brought one place too close, which a borrow can reach
ReducedTooClose(hi, lo) ==
    LET hilen == Digits(hi.coef)
        lolen == Digits(lo.coef)
    IN  IF hi.exp # lo.exp /\ hilen + hi.exp - lo.exp - lolen > DECPMAX
        THEN Bcd(lo.neg, lo.coef \div powers[lolen - 1],
                 Min({hi.exp, hi.exp + hilen - DECPMAX}) - 1)
        ELSE lo

\* lo far below the first digit of hi shrinks to its own first digit
Reduced(hi, lo) ==
    LET hilen == Digits(hi.coef)
        lolen == Digits(lo.coef)
    IN  IF hi.exp # lo.exp /\ hilen + hi.exp - lo.exp - lolen > DECPMAX + 2
        THEN Bcd(lo.neg, lo.coef \div powers[lolen - 1],
                 Min({hi.exp, hi.exp + hilen - DECPMAX}) - 3)
        ELSE lo

FMAFinite(mul, fin, set) ==
    LET hi == IF mul.exp >= fin.exp THEN mul ELSE fin
        lo == IF mul.exp >= fin.exp THEN fin ELSE mul
    IN  IF hi.coef = 0
        THEN decFinalize([lo EXCEPT !.neg = IF lo.coef = 0 /\ hi.neg # lo.neg
                                            THEN ZeroSign(set) ELSE @], set)
        ELSE decFinalize(Total(hi, Reduced(hi, lo), set), set)

decFloatFMA(l, r, f, set) ==
    IF IsSpecial(l) \/ IsSpecial(r) \/ IsSpecial(f) THEN FMASpecial(l, r, f, set)
    ELSE FMAFinite(decFiniteMultiply(l, r), BcdOf(f), set)

(***************************************************************************)
(* Division.  Quotient units are collected until the dividend is used up   *)
(* exactly, or more than DECPMAX+1 digits are there; k units came from     *)
(* below the dividend's own.  What is left over makes the last digit odd.  *)
(***************************************************************************)
Extra(a, b) ==
    CHOOSE k \in 0..(2 * DECPMAX) :
        LET Enough(i) == LET n == a * powers[DIVDIGITS * i]
                         IN  n % b = 0 \/ Digits(n \div b) > DECPMAX + 1
        IN  Enough(k) /\ \A i \in 0..(k - 1) : ~Enough(i)

\* mutant: what is left over is forgotten
NoStickyBit(coef, rest) == coef

StickyBit(coef, rest) == IF rest # 0 /\ coef % 2 = 0 THEN coef + 1 ELSE coef

RECURSIVE Trimmed(_)
Trimmed(num) == IF num.coef % 10 # 0 THEN num
                ELSE Trimmed(Bcd(num.neg, num.coef \div 10, num.exp + 1))

Quotient(l, r) ==
    LET k    == Extra(l.coef, r.coef)
        n    == l.coef * powers[DIVDIGITS * k]
        rest == n % r.coef
        quo  == Bcd(l.neg # r.neg, StickyBit(n \div r.coef, rest),
                    l.exp - r.exp - DIVDIGITS * k)
    IN  IF k > 0 /\ rest = 0 THEN Trimmed(quo) ELSE quo

Rem(op) == op \in {"REMAINDER", "REMNEAR"}

\* the integer part, for REMNEAR the nearest integer
IntegerPart(num, op) ==
    LET drop    == -num.exp
        coef    == Cut(num.coef, drop)
        reround == Reround(num.coef, drop)
        bump    == op = "REMNEAR" /\ Bumps(num.neg, coef % 10, reround, "HALF_EVEN")
    IN  IF drop <= 0 THEN Bcd(num.neg, num.coef * powers[num.exp], 0)
        ELSE Bcd(num.neg, IF bump THEN coef + 1 ELSE coef, 0)

RemainderOf(l, r, num, set) ==
    LET quotient == decFinalize(num, set)
        w == decFloatFMA(Negative(quotient.df), r, l, quotient.set)
    IN  IF IsZero(w.df) THEN [w EXCEPT !.df.neg = l.neg] ELSE w

DivideNonzero(l, r, set, op) ==
    LET num == Quotient(l, r)
    IN  IF op = "DIVIDE" THEN decFinalize(num, set)
        ELSE IF Digits(num.coef) + num.exp > DECPMAX
        THEN Return(QNaN, Raised(set, {"Division_impossible"}))
        ELSE IF op = "DIVIDEINT" THEN decFinalize(IntegerPart(num, op), set)
        ELSE RemainderOf(l, r, IntegerPart(num, op), set)

DivideSpecial(l, r, set, op) ==
    IF AnyNaN(l, r) THEN decNaNs(l, r, set)
    ELSE IF IsInf(l) /\ (IsInf(r) \/ Rem(op)) THEN decInvalid(set)
    ELSE IF IsInf(l) THEN Return(Infinity(l.neg # r.neg), set)
    ELSE IF Rem(op) THEN Return(decCanonical(l), set)
    ELSE Return(Float("finite", l.neg # r.neg, 0,
                      IF op = "DIVIDE" THEN DECQTINY ELSE 0), set)

DivideByZero(l, r, set, op) ==
    IF IsZero(l) THEN Return(QNaN, Raised(set, {"Division_undefined"}))
    ELSE IF Rem(op) THEN decInvalid(set)
    ELSE Return(Infinity(l.neg # r.neg), Raised(set, {"Division_by_zero"}))

DivideZero(l, r, set, op) ==
    CASE op = "DIVIDEINT" -> Return(SignedZero(l.neg # r.neg), set)
      [] op = "DIVIDE"    -> decFinalize(Bcd(l.neg # r.neg, 0, l.exp - r.exp), set)
      [] Rem(op)          -> decFinalize(Bcd(l.neg, 0, Min({l.exp, r.exp})), set)

decDivide(l, r, set, op) ==
    IF IsSpecial(l) \/ IsSpecial(r) THEN DivideSpecial(l, r, set, op)
    ELSE IF IsZero(r) THEN DivideByZero(l, r, set, op)
    ELSE IF IsZero(l) THEN DivideZero(l, r, set, op)
    ELSE DivideNonzero(l, r, set, op)

=============================================================================
