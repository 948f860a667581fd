--------------------------- MODULE DecFloatCorrect --------------------------
(***************************************************************************)
(* What the calls of DecFloatCalls must deliver, stated from the exact     *)
(* values of the operands.                                                 *)
(***************************************************************************)
EXTENDS DecFloatCalls, DecReference

Is(routines) == pc = "done" /\ call.routine \in routines
Finites(nums) == \A n \in nums : ~IsSpecial(n)
NumbersOnly == ~IsNaN(l) /\ ~IsNaN(r)

\* the format as a context of decNumber's, in the mode of the call
Format == [digits |-> DECPMAX, emin |-> DECEMIN, emax |-> DECEMAX,
           round |-> given.round, clamp |-> TRUE]

Same(n) == res = Float(n.kind, n.neg, n.coef, n.exp)
Gained(flags) == set.status = given.status \cup flags
Signed(c, neg) == IF neg THEN -c ELSE c

\* the exact value (-1)^neg * n * 10^q, rounded once, and flagged; a value far
\* below the least place does as any other there
IsRounded(neg, n, q) ==
    IF n # 0 /\ q + Digits(n) < DECQTINY - 2
    THEN /\ Same(Delivered(neg, 1, DECQTINY - 2, Format))
         /\ Gained({"Inexact", "Underflow"})
    ELSE /\ Same(Delivered(neg, n, q, Format))
         /\ Gained(FlagsFor(neg, n, q, Format) \ {"Rounded", "Subnormal", "Clamped"})

\* mathematical integers have no bound here; the checker's have
CanAlign(x, y) == x.coef = 0 \/ Digits(x.coef) + x.exp - Min({x.exp, y.exp}) <= 9

IsRoundedSum(x, y) ==
    LET q   == Min({x.exp, y.exp})
        multiple(n) == IF n.coef = 0 THEN 0 ELSE Signed(n.coef * powers[n.exp - q], n.neg)
        sum == multiple(x) + multiple(y)
        neg == IF sum = 0 THEN (x.neg /\ y.neg) \/ (x.neg # y.neg /\ given.round = "FLOOR")
               ELSE sum < 0
    IN  CanAlign(x, y) /\ CanAlign(y, x)
            => IsRounded(neg, IF sum < 0 THEN -sum ELSE sum, q)

\* the quotient to one digit more than rounding needs, and another for the rest
IsRoundedQuotient ==
    LET up    == Max({0, DECPMAX + 1 + Digits(r.coef) - Digits(l.coef)})
        n     == l.coef * powers[up]
        quo   == n \div r.coef
        q     == l.exp - r.exp - up
        \* exact: as near to the difference of the exponents as there are zeros
        zeros == Max({i \in 0..up : quo % powers[i] = 0})
        neg   == l.neg # r.neg
    IN  IF l.coef = 0 THEN IsRounded(neg, 0, l.exp - r.exp)
        ELSE IF n % r.coef # 0 THEN IsRounded(neg, 10 * quo + 1, q - 1)
        ELSE IsRounded(neg, quo \div powers[zeros], q + zeros)

(***************************************************************************)
(* Integer division, on the operands as multiples of the lower unit.       *)
(***************************************************************************)
LowExp == Min({l.exp, r.exp})

\* far apart operands: no quotient fits, or it is zero
TooWide == Digits(l.coef) + l.exp - r.exp - Digits(r.coef) > DECPMAX
A == l.coef * powers[l.exp - LowExp]
B == r.coef * powers[Min({r.exp - LowExp, DECPMAX + 2})]

IsInteger ==
    IF TooWide \/ A \div B >= powers[DECPMAX]
    THEN res = QNaN /\ Gained({"Division_impossible"})
    ELSE /\ Gained({})
         /\ CASE call.routine = "DIVIDEINT" ->
                     res = Float("finite", l.neg # r.neg, A \div B, 0)
              [] call.routine = "REMAINDER" ->
                     res = Float("finite", l.neg, A % B, LowExp)
              [] call.routine = "REMNEAR" ->
                     IF 2 * (A % B) > B \/ (2 * (A % B) = B /\ (A \div B) % 2 = 1)
                     THEN res = Float("finite", ~l.neg, B - (A % B), LowExp)
                     ELSE res = Float("finite", l.neg, A % B, LowExp)

(***************************************************************************)
(* A coefficient at a given exponent.                                      *)
(***************************************************************************)
At(n, e, mode) ==
    LET gap   == Min({e - n.exp, Digits(n.coef) + 2})
        unit  == powers[gap]
        lower == n.coef \div unit
    IN  IF e <= n.exp THEN IF n.coef = 0 THEN 0 ELSE n.coef * powers[Min({n.exp - e, DECPMAX})]
        ELSE IF RoundsAway(mode, n.neg, lower, n.coef % unit, unit)
        THEN lower + 1 ELSE lower

Loses(n, e) == n.coef # 0 /\ e > n.exp
                   /\ (e - n.exp > Digits(n.coef) \/ n.coef % powers[e - n.exp] # 0)
InexactIf(b) == IF b THEN {"Inexact"} ELSE {}

\* Every result is the exact one, rounded once in the caller's mode to the
\* nearest number of the format, folded down or subnormal where it has to be,
\* and Inexact, Underflow and Overflow tell which; an addend far below the
\* other, the third operand of a fused multiplication that its product dwarfs,
\* the rest of a division and the digits of a string beyond the buffer all
\* count.  Integer quotients and remainders are exact, or refused if the
\* quotient has too many digits; a number is quantized or not at all
\* (decFinalize, decFloatAdd, decFloatFMA, decDivide, decFloatQuantize,
\* decFloatFromString, decFloatFromWider, decFloatSetExponent).
RoundedInFormat ==
    /\ Is({"Add"}) /\ Finites({l, r}) => IsRoundedSum(l, r)
    /\ Is({"Subtract"}) /\ Finites({l, r}) => IsRoundedSum(l, [r EXCEPT !.neg = ~@])
    /\ Is({"Multiply"}) /\ Finites({l, r})
           => IsRounded(l.neg # r.neg, l.coef * r.coef, l.exp + r.exp)
    /\ Is({"FMA"}) /\ Finites({l, r, f}) => IsRoundedSum(decFiniteMultiply(l, r), f)
    /\ Is({"DIVIDE"}) /\ Finites({l, r}) /\ ~IsZero(r) => IsRoundedQuotient
    /\ Is({"DIVIDEINT", "REMAINDER", "REMNEAR"}) /\ Finites({l, r})
           /\ ~IsZero(l) /\ ~IsZero(r) => IsInteger
    /\ Is({"Quantize"}) /\ Finites({l, r})
           => LET c == At(l, r.exp, given.round)
              IN  IF c >= powers[DECPMAX]
                  THEN res = QNaN /\ Gained({"Invalid_operation"})
                  ELSE /\ res = Float("finite", l.neg, c, r.exp)
                       /\ Gained(InexactIf(Loses(l, r.exp)))
    /\ Is({"ScaleB"}) /\ Finites({l, r}) /\ res.kind # "nan"
           => IsRounded(l.neg, l.coef, l.exp + Signed(r.coef, r.neg))
    /\ Is({"FromWider"}) /\ ~IsSpecial(l) => IsRounded(l.neg, l.coef, l.exp)
    /\ Is({"FromString"}) /\ l.kind = "number" /\ l.exp < powers[DECEMAXD]
           => IsRounded(l.neg, l.coef, Signed(l.exp, l.expneg) - l.frac)

(***************************************************************************)
(* Orders and neighbours.                                                  *)
(***************************************************************************)

\* a number in full length: what its first digit is worth, and all its digits
Rank(n) ==
    IF IsInf(n) THEN <<DECEMAX + 1, 0>>
    ELSE IF n.coef = 0 THEN <<DECQTINY - 1, 0>>
    ELSE <<n.exp + Digits(n.coef) - 1, n.coef * powers[DECPMAX - Digits(n.coef)]>>

Lower(a, b) == a[1] < b[1] \/ (a[1] = b[1] /\ a[2] < b[2])

Below(x, y) ==
    IF x.neg = y.neg
    THEN IF x.neg THEN Lower(Rank(y), Rank(x)) ELSE Lower(Rank(x), Rank(y))
    ELSE x.neg /\ ~(IsZero(x) /\ IsZero(y))

Equal(x, y) == ~Below(x, y) /\ ~Below(y, x)

\* the total order: NaNs outside, zeros and equal values by sign, then exponent
TotallyBelow(x, y) ==
    IF AnyNaN(x, y)
    THEN \/ NaNRank(x) < NaNRank(y)
         \/ NaNRank(x) = NaNRank(y) /\ Signed(x.coef, x.neg) < Signed(y.coef, y.neg)
    ELSE \/ Below(x, y)
         \/ /\ Equal(x, y)
            /\ \/ x.neg /\ ~y.neg
               \/ x.neg = y.neg /\ Signed(x.exp, x.neg) < Signed(y.exp, y.neg)

Sign(below, above) == Integer(IF below THEN -1 ELSE IF above THEN 1 ELSE 0)

Larger == IF TotallyBelow(l, r) THEN r ELSE l
Smaller == IF TotallyBelow(r, l) THEN r ELSE l

\* the last place of a number in full length
Ulp(n) == Max({DECQTINY, n.exp + Digits(n.coef) - DECPMAX})

\* The next number away from zero is one more in the last place the format can
\* show it with, the next towards it one less, in the last place of that one;
\* beyond the largest is infinity, and beyond the least zero, with its sign.
Farther(n) ==
    LET c == n.coef * powers[n.exp - Ulp(n)] + 1
    IN  IF n.coef = 0 THEN <<DECQTINY, powers[DECPMAX - 1]>>
        ELSE IF n.coef * powers[n.exp - Ulp(n)] = powers[DECPMAX] - 1 /\ Ulp(n) = Etop0
        THEN <<DECEMAX + 1, 0>>
        ELSE <<Ulp(n) + Digits(c) - 1, IF Digits(c) > DECPMAX THEN powers[DECPMAX - 1]
                                   ELSE c * powers[DECPMAX - Digits(c)]>>

IsNext(x, upwards) ==
    IF IsInf(x) THEN res = IF x.neg = upwards THEN Nmax(x.neg) ELSE decInfinity(x)
    ELSE IF IsZero(x) THEN res = Float("finite", ~upwards, 1, DECQTINY)
    ELSE IF x.neg # upwards
    THEN res.neg = x.neg /\ Rank(res) = Farther(x)
    ELSE res.neg = x.neg /\ Farther(res) = Rank(x)

IntegerOf(mode) == Signed(At(l, 0, mode), l.neg)

\* Comparison follows the exact values, however the coefficients overlap, and
\* the total order then sign and exponent, and NaNs by kind and payload; the
\* larger and the smaller of two are chosen by it.  A neighbour is next to its
\* number, through zero, infinity, and the change of length at a power of ten.
\* Rounding to an integer goes by the mode asked for, also into a binary one,
\* in whose range it has to be after rounding (decNumCompare,
\* decFloatCompareTotal, decFloatMax, decFloatNextMinus, decFloatNextToward,
\* decToIntegral, decToInt32).
OrderInFormat ==
    /\ Is({"Compare", "CompareSignal"}) /\ NumbersOnly
           => res = Sign(Below(l, r), Below(r, l))
    /\ Is({"CompareTotal"}) => res = Sign(TotallyBelow(l, r), TotallyBelow(r, l))
    /\ Is({"CompareTotalMag"})
           => res = Sign(TotallyBelow(Positive(l), Positive(r)),
                         TotallyBelow(Positive(r), Positive(l)))
    /\ Is({"Max"}) /\ NumbersOnly => res = decCanonical(Larger)
    /\ Is({"Min"}) /\ NumbersOnly => res = decCanonical(Smaller)
    /\ Is({"MaxMag", "MinMag"}) /\ NumbersOnly
           => LET less == Below(Positive(l), Positive(r))
                  more == Below(Positive(r), Positive(l))
              IN  res = decCanonical(
                      IF call.routine = "MaxMag"
                      THEN IF less THEN r ELSE IF more THEN l ELSE Larger
                      ELSE IF less THEN l ELSE IF more THEN r ELSE Smaller)
    /\ Is({"NextPlus"}) /\ ~IsNaN(l) => IsNext(l, TRUE)
    /\ Is({"NextMinus"}) /\ ~IsNaN(l) => IsNext(l, FALSE)
    /\ Is({"NextToward"}) /\ NumbersOnly /\ ~Equal(l, r) => IsNext(l, Below(l, r))
    /\ Is({"ToIntegralValue", "ToIntegralExact"}) /\ ~IsSpecial(l) /\ l.exp < 0
           => res = Float("finite", l.neg,
                          At(l, 0, IF call.routine = "ToIntegralValue" THEN call.rmode
                                   ELSE given.round), 0)
    /\ Is({"ToInt32", "ToInt32Exact"}) /\ ~IsSpecial(l)
           => IF IntegerOf(call.rmode) \in (-IntMax - 1)..IntMax
              THEN res = Integer(IntegerOf(call.rmode))
              ELSE res = FloatZero /\ "Invalid_operation" \in set.status
    /\ Is({"ToUInt32", "ToUInt32Exact"}) /\ ~IsSpecial(l)
           => IF IntegerOf(call.rmode) \in 0..UIntMax
              THEN res = Integer(IntegerOf(call.rmode))
              ELSE res = FloatZero /\ "Invalid_operation" \in set.status

(***************************************************************************)
(* The context, and the encoding.                                          *)
(***************************************************************************)

\* what routines may raise at all
Errors == {"Invalid_operation"}
MayRaise ==
    CASE call.routine \in {"NextPlus", "NextMinus", "Abs", "Plus", "Minus", "Max",
                           "Min", "MaxMag", "MinMag", "Compare", "CompareSignal",
                           "ToIntegralValue", "ToInt32", "ToUInt32", "Rotate",
                           "Shift", "And", "Or", "Xor", "Invert"} -> Errors
      [] call.routine \in {"Quantize", "ToIntegralExact", "ToInt32Exact",
                           "ToUInt32Exact"} -> Errors \cup {"Inexact"}
      [] call.routine \in {"NextToward", "Add", "Subtract", "Multiply", "FMA", "ScaleB"} ->
             Errors \cup {"Inexact", "Underflow", "Overflow"}
      [] call.routine = "LogB" -> Errors \cup {"Division_by_zero"}
      [] call.routine = "Reduce" -> Errors
      [] call.routine \in {"CompareTotal", "CompareTotalMag", "SameQuantum",
                           "Canonical", "Copy", "CopyAbs", "CopyNegate", "CopySign"} -> {}
      [] call.routine = "DIVIDE" ->
             Errors \cup {"Inexact", "Underflow", "Overflow", "Division_by_zero",
                          "Division_undefined"}
      [] call.routine = "DIVIDEINT" ->
             Errors \cup {"Division_by_zero", "Division_undefined", "Division_impossible"}
      [] call.routine \in {"REMAINDER", "REMNEAR"} ->
             Errors \cup {"Division_undefined", "Division_impossible"}
      [] call.routine = "FromWider" -> {"Inexact", "Underflow", "Overflow"}
      [] call.routine = "FromString" ->
             {"Inexact", "Underflow", "Overflow", "Conversion_syntax"}

\* routines that copy an operand as it is, or may
Copies == \/ call.routine \in {"Copy", "CopyAbs", "CopyNegate", "CopySign"}
          \/ call.routine = "NextToward" /\ ~AnyNaN(l, r) /\ Equal(l, r)
          \/ call.routine = "Reduce" /\ ~IsSpecial(l) /\ l.coef % 10 # 0

TypeOK ==
    /\ pc \in {"call", "done"}
    /\ res.kind \in Kinds /\ res.neg \in BOOLEAN /\ res.canon \in BOOLEAN
    /\ set.round \in Modes /\ set.status \subseteq Flags

\* However a routine sets the mode and clears or replaces the status for its
\* own purposes, the caller finds the mode it had, every flag it had, and no
\* flag the routine has no business to raise, a NaN from numbers only with a
\* reason; and the result is canonical, unless it is a copy, and one the
\* format can encode (decFloatNextMinus, decToIntegral, decToInt32,
\* decFloatShift, decFinalize).
ContextKept ==
    /\ TypeOK
    /\ set.round = given.round
    /\ given.status \subseteq set.status
    /\ pc = "done"
           => /\ set.status \ given.status \subseteq MayRaise
              /\ res.canon \/ Copies
              /\ res.coef \in 0..(powers[DECPMAX] - 1)
              /\ ~IsSpecial(res) => res.exp \in DECQTINY..Etop0
              /\ res.kind = "snan" =>
                     call.routine \in {"Copy", "CopyAbs", "CopyNegate", "CopySign",
                                       "Canonical", "FromWider", "FromString"}

\* Two NaNs of one kind and sign are ordered by their payloads, whichever words
\* of the buffers they differ in (decFloatCompareTotal).
PayloadsOrdered ==
    Is({"CompareTotal"}) /\ IsNaN(l) /\ IsNaN(r)
        => res = Sign(TotallyBelow(l, r), TotallyBelow(r, l))

=============================================================================
