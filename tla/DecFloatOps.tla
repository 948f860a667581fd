----------------------------- MODULE DecFloatOps ----------------------------
(***************************************************************************)
(* The other routines of decBasic.c and decCommon.c: orders, exponents,    *)
(* neighbours, digits, conversions.                                        *)
(***************************************************************************)
EXTENDS DecFloatArith, Sequences

CONSTANTS
    IntMax,     \* largest signed binary integer (2^31 - 1)
    WORD,       \* digits compared at a time in a payload (4)
    BUFFER      \* digits of a string taken without shortening it

ASSUME OpsAssumption == IntMax \in Nat /\ WORD \in Nat \ {0} /\ BUFFER > DECPMAX

UIntMax == 2 * IntMax + 1
DECEMAXD == Digits(DECEMAX)
Integer(i) == Float("finite", i < 0, IF i < 0 THEN -i ELSE i, 0)
DFISINT(n) == n.kind = "finite" /\ n.exp = 0
IsNormal(n) == n.kind = "finite" /\ n.coef # 0 /\ n.exp + Digits(n.coef) - 1 >= DECEMIN

(***************************************************************************)
(* Orders.                                                                 *)
(***************************************************************************)
decFloatCompare(l, r, set) ==
    IF AnyNaN(l, r) THEN decNaNs(l, r, set)
    ELSE Return(Integer(decNumCompare(l, r, FALSE)), set)

decFloatCompareSignal(l, r, set) ==
    IF AnyNaN(l, r) THEN decNaNs(l, r, Raised(set, {"Invalid_operation"}))
    ELSE Return(Integer(decNumCompare(l, r, FALSE)), set)

\* payloads as they lie in the buffers: DECPMAX digits, then a foot of bytes
\* that nothing was written to
Buffer(n, foot) == [i \in 1..DECPMAX |-> (n.coef \div powers[DECPMAX - i]) % 10] \o foot

\* a word that differs decides by its first differing byte; but only the inner
\* loop ends there, and the next word is taken from behind that byte
PayloadOrder(bufl, bufr, sigl) ==
    LET scan[i \in 1..(DECPMAX + 2 * WORD), comp \in -1..1] ==
            IF i > DECPMAX THEN comp
            ELSE IF \A j \in i..(i + WORD - 1) : bufl[j] = bufr[j]
            THEN scan[i + WORD, comp]
            ELSE LET at == Min({j \in i..(i + WORD - 1) : bufl[j] # bufr[j]})
                 IN  scan[at + WORD, IF bufl[at] > bufr[at] THEN sigl ELSE -sigl]
    IN  scan[1, 0]

NaNRank(n) == (CASE n.kind = "nan" -> 2 [] n.kind = "snan" -> 1 [] OTHER -> 0)
              * (IF n.neg THEN -1 ELSE 1)

decFloatCompareTotal(l, r, footl, footr) ==
    Integer(IF ~AnyNaN(l, r) THEN decNumCompare(l, r, TRUE)
            ELSE IF NaNRank(l) # NaNRank(r) THEN Sgn(NaNRank(l) - NaNRank(r))
            ELSE PayloadOrder(Buffer(l, footl), Buffer(r, footr),
                              IF l.neg THEN -1 ELSE 1))

decFloatCompareTotalMag(l, r, footl, footr) ==
    decFloatCompareTotal(Positive(l), Positive(r), footl, footr)

\* one quiet NaN gives way to a number
MaxMinNaN(l, r, set) ==
    IF (IsNaN(l) /\ IsNaN(r)) \/ "snan" \in {l.kind, r.kind} THEN decNaNs(l, r, set)
    ELSE Return(decCanonical(IF IsNaN(l) THEN r ELSE l), set)

decFloatMax(l, r, set) ==
    IF AnyNaN(l, r) THEN MaxMinNaN(l, r, set)
    ELSE Return(decCanonical(IF decNumCompare(l, r, TRUE) >= 0 THEN l ELSE r), set)

decFloatMin(l, r, set) ==
    IF AnyNaN(l, r) THEN MaxMinNaN(l, r, set)
    ELSE Return(decCanonical(IF decNumCompare(l, r, TRUE) <= 0 THEN l ELSE r), set)

Magnitudes(l, r) == decNumCompare(Positive(l), Positive(r), FALSE)

decFloatMaxMag(l, r, set) ==
    IF AnyNaN(l, r) \/ Magnitudes(l, r) = 0 THEN decFloatMax(l, r, set)
    ELSE Return(decCanonical(IF Magnitudes(l, r) > 0 THEN l ELSE r), set)

decFloatMinMag(l, r, set) ==
    IF AnyNaN(l, r) \/ Magnitudes(l, r) = 0 THEN decFloatMin(l, r, set)
    ELSE Return(decCanonical(IF Magnitudes(l, r) < 0 THEN l ELSE r), set)

SameQuantum(l, r) ==
    \/ IsNaN(l) /\ IsNaN(r)
    \/ IsInf(l) /\ IsInf(r)
    \/ ~IsSpecial(l) /\ ~IsSpecial(r) /\ l.exp = r.exp

(***************************************************************************)
(* Signs and copies; copies are bitwise.                                   *)
(***************************************************************************)
decFloatAbs(n, set) ==
    IF IsNaN(n) THEN decNaNs(n, n, set) ELSE Return(Positive(decCanonical(n)), set)
decFloatPlus(n, set) ==
    IF IsNaN(n) THEN decNaNs(n, n, set)
    ELSE Return([decCanonical(n) EXCEPT !.neg = @ /\ ~IsZero(n)], set)
decFloatMinus(n, set) ==
    IF IsNaN(n) THEN decNaNs(n, n, set)
    ELSE Return([decCanonical(n) EXCEPT !.neg = ~@ /\ ~IsZero(n)], set)
decFloatCopySign(l, r) == [l EXCEPT !.neg = r.neg]

(***************************************************************************)
(* Exponents.                                                              *)
(***************************************************************************)
\* the last digit kept decides a tie; nothing else is flagged but Inexact
QuantizeDown(l, exp, set) ==
    LET drop    == exp - l.exp
        coef    == Cut(l.coef, drop)
        reround == Reround(l.coef, drop)
    IN  Return(Float("finite", l.neg,
                     IF Bumps(l.neg, coef % 10, reround, set.round)
                     THEN coef + 1 ELSE coef, exp),
               IF reround = 0 THEN set ELSE Raised(set, {"Inexact"}))

\* zeros are added if they fit; a zero has room for any number of them
QuantizeUp(l, exp, set) ==
    LET pad == l.exp - exp
    IN  IF l.coef # 0 /\ Digits(l.coef) + pad > DECPMAX THEN decInvalid(set)
        ELSE Return(Float("finite", l.neg,
                          IF l.coef = 0 THEN 0 ELSE l.coef * powers[pad], exp), set)

decFloatQuantize(l, r, set) ==
    IF AnyNaN(l, r) THEN decNaNs(l, r, set)
    ELSE IF IsInf(l) # IsInf(r) THEN decInvalid(set)
    ELSE IF IsInf(l) THEN Return(decInfinity(l), set)
    ELSE IF r.exp = l.exp THEN Return(decCanonical(l), set)
    ELSE IF r.exp > l.exp THEN QuantizeDown(l, r.exp, set)
    ELSE QuantizeUp(l, r.exp, set)

\* unless its last digit is a zero, the operand is copied as it is
decFloatReduce(n, set) ==
    IF IsNaN(n) THEN decNaNs(n, n, set)
    ELSE IF IsInf(n) THEN Return(decInfinity(n), set)
    ELSE IF n.coef = 0 THEN Return(SignedZero(n.neg), set)
    ELSE IF n.coef % 10 # 0 THEN Return(n, set)
    ELSE decFinalize(Trimmed(BcdOf(n)), set)

SCALEBMAX == 2 * (DECEMAX + DECPMAX)

decFloatSetExponent(n, exp, set) == decFinalize(Bcd(n.neg, n.coef, exp), set)

decFloatScaleB(l, r, set) ==
    IF AnyNaN(l, r) THEN decNaNs(l, r, set)
    ELSE IF ~DFISINT(r) \/ r.coef > SCALEBMAX THEN decInvalid(set)
    ELSE IF IsInf(l) THEN Return(decInfinity(l), set)
    ELSE decFloatSetExponent(l, l.exp + Value(r), set)

decFloatLogB(n, set) ==
    IF IsNaN(n) THEN decNaNs(n, n, set)
    ELSE IF IsInf(n) THEN Return(Infinity(FALSE), set)
    ELSE IF IsZero(n) THEN Return(Infinity(TRUE), Raised(set, {"Division_by_zero"}))
    ELSE Return(Integer(n.exp + Digits(n.coef) - 1), set)

\* mutant: the caller's rounding mode is not put back
IntegralKeepsMode(n, set, rmode, exact) ==
    LET w == decFloatQuantize(n, FloatZero, [set EXCEPT !.round = rmode])
    IN  IF IsNaN(n) THEN decNaNs(n, n, set)
        ELSE IF IsInf(n) THEN Return(decInfinity(n), set)
        ELSE IF n.exp >= 0 THEN Return(decCanonical(n), set)
        ELSE IF exact THEN w ELSE Return(w.df, [w.set EXCEPT !.status = set.status])

\* the routine's own rounding mode for a while; not even Inexact, unless exact
decToIntegral(n, set, rmode, exact) ==
    LET w == decFloatQuantize(n, FloatZero, [set EXCEPT !.round = rmode])
    IN  IF IsNaN(n) THEN decNaNs(n, n, set)
        ELSE IF IsInf(n) THEN Return(decInfinity(n), set)
        ELSE IF n.exp >= 0 THEN Return(decCanonical(n), set)
        ELSE Return(w.df, [set EXCEPT !.status = IF exact THEN w.set.status ELSE @])

\* the integer, or 0 and Invalid_operation
decToInt32(n, set, rmode, exact, unsign) ==
    LET w       == decFloatQuantize(n, FloatZero, [set EXCEPT !.round = rmode, !.status = {}])
        result  == IF n.exp = 0 THEN n ELSE w.df
        status  == IF n.exp # 0 /\ exact THEN set.status \cup w.set.status ELSE set.status
        inRange == IF unsign THEN Value(result) \in 0..UIntMax
                   ELSE Value(result) \in (-IntMax - 1)..IntMax
    IN  IF IsSpecial(n)
        THEN [value |-> 0, set |-> Raised(set, {"Invalid_operation"})]
        ELSE IF IsSpecial(result) \/ ~inRange
        THEN [value |-> 0, set |-> [set EXCEPT !.status = status \cup {"Invalid_operation"}]]
        ELSE [value |-> Value(result), set |-> [set EXCEPT !.status = status]]

(***************************************************************************)
(* Neighbours: the sum with a tiny number, rounded in its direction.  The  *)
(* status is that of before, but for a signalling NaN.                     *)
(***************************************************************************)
Tiny(neg) == Float("finite", neg, 1, DECQTINY)

Neighbour(n, neg, set) ==
    LET w == decFloatAdd(n, Tiny(neg), [set EXCEPT !.round = IF neg THEN "FLOOR" ELSE "CEILING"])
    IN  IF IsInf(n) /\ n.neg # neg THEN Return(Nmax(n.neg), set)
        ELSE Return([w.df EXCEPT !.neg = IF IsZero(w.df) THEN ~@ ELSE @],
                    [set EXCEPT !.status = @ \cup (w.set.status \cap {"Invalid_operation"})])

decFloatNextMinus(n, set) == Neighbour(n, TRUE, set)
decFloatNextPlus(n, set) == Neighbour(n, FALSE, set)

\* a tenth of the least number is added, so that status can tell of it
decFloatNextToward(l, r, set) ==
    LET comp == decNumCompare(l, r, FALSE)
        neg  == comp > 0
        tenth == Float("finite", FALSE, 1, -1)
        w == decFloatFMA(Tiny(neg), tenth, l,
                         [set EXCEPT !.round = IF neg THEN "FLOOR" ELSE "CEILING"])
    IN  IF AnyNaN(l, r) THEN decNaNs(l, r, set)
        ELSE IF comp = 0 THEN Return(decFloatCopySign(l, r), set)
        ELSE IF IsInf(l) THEN Return(Nmax(l.neg), set)
        ELSE Return(w.df, IF IsNormal(w.df) THEN set
                          ELSE [w.set EXCEPT !.round = set.round])

(***************************************************************************)
(* Digits.                                                                 *)
(***************************************************************************)
DigitAt(c, i) == (c \div powers[i]) % 10

IsLogical(n) ==
    /\ DFISINT(n) /\ ~n.neg
    /\ \A i \in 0..(DECPMAX - 1) : DigitAt(n.coef, i) \in {0, 1}

Bit(op, a, b) == CASE op = "And" -> a * b
                   [] op = "Or"  -> IF a + b > 0 THEN 1 ELSE 0
                   [] op = "Xor" -> (a + b) % 2

Logical(op, l, r, set) ==
    IF ~IsLogical(l) \/ ~IsLogical(r) THEN decInvalid(set)
    ELSE Return(Float("finite", FALSE,
                      MapThenSumSet(LAMBDA i : powers[i] * Bit(op, DigitAt(l.coef, i),
                                                              DigitAt(r.coef, i)),
                                    0..(DECPMAX - 1)), 0), set)

decFloatAnd(l, r, set) == Logical("And", l, r, set)
decFloatOr(l, r, set)  == Logical("Or", l, r, set)
decFloatXor(l, r, set) == Logical("Xor", l, r, set)
decFloatInvert(n, set) ==
    Logical("Xor", n, Integer((powers[DECPMAX] - 1) \div 9), set)

\* the result is laid out by decFinalize, whose status does not count
Quietly(num, set) == Return(decFinalize(num, set).df, set)

decFloatRotate(l, r, set) ==
    LET count == IF r.neg THEN DECPMAX - r.coef ELSE r.coef
        high  == l.coef \div powers[DECPMAX - count]
        low   == l.coef % powers[DECPMAX - count]
    IN  IF AnyNaN(l, r) THEN decNaNs(l, r, set)
        ELSE IF ~DFISINT(r) \/ r.coef > DECPMAX THEN decInvalid(set)
        ELSE IF IsInf(l) THEN Return(decInfinity(l), set)
        ELSE IF r.coef \in {0, DECPMAX} THEN Return(decCanonical(l), set)
        ELSE Quietly(Bcd(l.neg, low * powers[count] + high, l.exp), set)

decFloatShift(l, r, set) ==
    IF AnyNaN(l, r) THEN decNaNs(l, r, set)
    ELSE IF ~DFISINT(r) \/ r.coef > DECPMAX THEN decInvalid(set)
    ELSE IF IsInf(l) THEN Return(decInfinity(l), set)
    ELSE IF r.coef = 0 THEN Return(decCanonical(l), set)
    ELSE IF r.coef = DECPMAX THEN Return(SignedZero(l.neg), set)
    ELSE Quietly(Bcd(l.neg, IF r.neg THEN l.coef \div powers[r.coef]
                            ELSE (l.coef % powers[DECPMAX - r.coef]) * powers[r.coef],
                     l.exp), set)

(***************************************************************************)
(* Conversions.  A wider number has a longer coefficient and a larger      *)
(* exponent range; a signalling NaN is copied silently.                    *)
(***************************************************************************)
Special3(kind, neg, payload) ==
    Float(kind, neg, IF kind = "inf" THEN 0 ELSE payload % powers[DECPMAX - 1], 0)

decFloatFromWider(wider, set) ==
    IF IsSpecial(wider)
    THEN Return(Special3(wider.kind, wider.neg, wider.coef), set)
    ELSE decFinalize(Bcd(wider.neg, wider.coef, wider.exp), set)

\* the exponent of a text, which may be longer than any of the format's
Written(t) ==
    LET size == IF t.exp >= powers[DECEMAXD] THEN 2 * DECEMAX ELSE t.exp
    IN  (IF t.expneg THEN -size ELSE size) - t.frac

\* a coefficient too long for the buffer is cut behind DECPMAX+1 digits, the
\* last of which takes on what follows (by fours: up to three more are kept)
Shortened(num, written) ==
    LET drop == Digits(num.coef) - (DECPMAX + 1)
        last == (num.coef \div powers[drop]) % 10
        rest == num.coef % powers[drop]
        kept == num.coef \div powers[drop]
    IN  IF written <= BUFFER \/ drop <= 0 THEN num
        ELSE Bcd(num.neg, IF rest = 0 THEN kept ELSE kept - last + DECSTICKYTAB[last + 1],
                 num.exp + drop)

\* t.written digits stand in the text, leading zeros included, t.frac of them
\* behind the point
decFloatFromString(t, set) ==
    CASE t.kind = "number" -> decFinalize(Shortened(Bcd(t.neg, t.coef, Written(t)),
                                                    t.written), set)
      [] t.kind = "inf" -> Return(Infinity(t.neg), set)
      [] t.kind \in {"nan", "snan"} /\ t.coef < powers[DECPMAX - 1]
             -> Return(Special3(t.kind, t.neg, t.coef), set)
      [] OTHER -> Return(QNaN, Raised(set, {"Conversion_syntax"}))

=============================================================================
