------------------------------ MODULE DecFloat ------------------------------
(***************************************************************************)
(* Numbers of a fixed-size format (decDouble, decQuad) and how a result is *)
(* brought into it: decFinalize of decCommon.c and the shared helpers of   *)
(* decBasic.c.  A datum is the number its bits stand for, and whether its  *)
(* encoding is the canonical one; a bcdnum is a sign, a coefficient of any *)
(* length and an exponent.                                                 *)
(*                                                                         *)
(* Every routine takes the context and returns its result and the context  *)
(* as it leaves it: flags are only ever added to set.status, and a routine *)
(* may change set.round for a while.                                       *)
(***************************************************************************)
EXTENDS DecNum, FiniteSetsExt

CONSTANTS
    DECPMAX,    \* digits of a coefficient
    DECEMAX     \* largest adjusted exponent

ASSUME FormatAssumption ==
    DECPMAX \in Nat \ {0, 1} /\ DECEMAX \in Nat /\ DECEMAX >= DECPMAX

DECEMIN  == 1 - DECEMAX
DECQTINY == DECEMIN - (DECPMAX - 1)
Etop0    == DECEMAX - (DECPMAX - 1)

Float(kind, neg, coef, exp) ==
    [kind |-> kind, neg |-> neg, coef |-> coef, exp |-> exp, canon |-> TRUE]

Bcd(neg, coef, exp) == [neg |-> neg, coef |-> coef, exp |-> exp]

FromBcd(num) == Float("finite", num.neg, num.coef, num.exp)
BcdOf(df) == Bcd(df.neg, df.coef, df.exp)

Return(df, set) == [df |-> df, set |-> set]
Raised(set, flags) == [set EXCEPT !.status = @ \cup flags]

FloatZero == Float("finite", FALSE, 0, 0)
QNaN == Float("nan", FALSE, 0, 0)
Nmax(neg) == Float("finite", neg, powers[DECPMAX] - 1, Etop0)

(***************************************************************************)
(* decCanonical, decInfinity, decInvalid, decNaNs.                         *)
(***************************************************************************)
decCanonical(df) == [df EXCEPT !.canon = TRUE]
decInfinity(df)  == Float("inf", df.neg, 0, 0)
decInvalid(set)  == Return(QNaN, Raised(set, {"Invalid_operation"}))

\* the first signalling NaN, else the first NaN, made canonical and quiet
decNaNs(l, r, set) ==
    LET n == NaNSource(l, r)
    IN  Return([decCanonical(n) EXCEPT !.kind = "nan"],
             IF n.kind = "snan" THEN Raised(set, {"Invalid_operation"}) ELSE set)

(***************************************************************************)
(* Rounding: drop digits are cut off; the first of them, made sticky by    *)
(* those below, decides.  The coefficient may be cut off whole, or even    *)
(* further to the left.                                                    *)
(***************************************************************************)
DECSTICKYTAB == <<1, 1, 2, 3, 4, 6, 6, 7, 8, 9>>

\* mutant: the digits below the first one cut off are not looked at
ReroundNotSticky(coef, drop) ==
    IF drop > Digits(coef) THEN 0 ELSE (coef \div powers[drop - 1]) % 10

Reround(coef, drop) ==
    LET digit == IF drop > Digits(coef) THEN 0
                 ELSE (coef \div powers[drop - 1]) % 10
        below == IF drop > Digits(coef) THEN coef ELSE coef % powers[drop - 1]
    IN  IF below # 0 THEN DECSTICKYTAB[digit + 1] ELSE digit

Bumps(neg, lsd, reround, round) ==
    CASE round = "HALF_EVEN" -> reround > 5 \/ (reround = 5 /\ lsd % 2 = 1)
      [] round = "DOWN"      -> FALSE
      [] round = "HALF_DOWN" -> reround > 5
      [] round = "HALF_UP"   -> reround >= 5
      [] round = "UP"        -> reround > 0
      [] round = "CEILING"   -> reround > 0 /\ ~neg
      [] round = "FLOOR"     -> reround > 0 /\ neg
      [] round = "05UP"      -> reround > 0 /\ lsd % 5 = 0

Cut(coef, drop) == IF drop > Digits(coef) THEN 0 ELSE coef \div powers[drop]

\* all nines become 1000...: one place up if they were DECPMAX, else the
\* number was subnormal and is a digit longer
Bumped(coef, exp) ==
    IF coef + 1 = powers[DECPMAX] THEN Bcd(FALSE, powers[DECPMAX - 1], exp + 1)
    ELSE Bcd(FALSE, coef + 1, exp)

RoundOff(num, drop, set) ==
    LET reround == Reround(num.coef, drop)
        coef    == Cut(num.coef, drop)
        exp     == num.exp + drop
        tiny    == exp + Digits(coef) - 1 < DECEMIN
    IN  [num |-> IF Bumps(num.neg, coef % 10, reround, set.round)
                 THEN [Bumped(coef, exp) EXCEPT !.neg = num.neg]
                 ELSE Bcd(num.neg, coef, exp),
         set |-> IF reround = 0 THEN set
                 ELSE Raised(set, {"Inexact"} \cup (IF tiny THEN {"Underflow"} ELSE {}))]

(***************************************************************************)
(* The high end: a zero is clamped; too large a number becomes infinite or *)
(* the largest finite one; an exponent too large for the format is folded  *)
(* down.                                                                   *)
(***************************************************************************)
NeedMax(neg, round) ==
    \/ round \in {"DOWN", "05UP"}
    \/ round = "CEILING" /\ neg
    \/ round = "FLOOR" /\ ~neg

HighEnd(num, set) ==
    IF num.exp <= Etop0 THEN Return(FromBcd(num), set)
    ELSE IF num.coef = 0 THEN Return(FromBcd([num EXCEPT !.exp = Etop0]), set)
    ELSE IF num.exp + Digits(num.coef) - 1 > DECEMAX
    THEN Return(IF NeedMax(num.neg, set.round) THEN Nmax(num.neg)
              ELSE Float("inf", num.neg, 0, 0),
              Raised(set, {"Overflow", "Inexact"}))
    ELSE Return(FromBcd(Bcd(num.neg, num.coef * powers[num.exp - Etop0], Etop0)), set)

decFinalize(num, set) ==
    LET drop    == Max({Digits(num.coef) - DECPMAX, DECQTINY - num.exp})
        rounded == RoundOff(num, drop, set)
    IN  IF drop > 0 THEN HighEnd(rounded.num, rounded.set)
        ELSE HighEnd(num, set)

(***************************************************************************)
(* decNumCompare: -1, 0 or 1, for numbers; tot asks for the total order,   *)
(* in which numbers equal in value are ordered by exponent.                *)
(***************************************************************************)
Sgn(i) == IF i > 0 THEN 1 ELSE IF i < 0 THEN -1 ELSE 0

\* mutant: coefficients that overlap in one digit are taken for disjoint
OverlapLost(l, r) == IF l.exp - r.exp \in (1 - DECPMAX)..(DECPMAX - 1)
                        /\ l.exp - r.exp \notin {1 - DECPMAX, DECPMAX - 1}
                     THEN LET e == Min({l.exp, r.exp})
                          IN  Sgn(l.coef * powers[l.exp - e] - r.coef * powers[r.exp - e])
                     ELSE Sgn(l.exp - r.exp)

\* the coefficients aligned, if they overlap by even one digit
CompareAligned(l, r) ==
    IF l.exp - r.exp \in (1 - DECPMAX)..(DECPMAX - 1)
    THEN LET e == Min({l.exp, r.exp})
         IN  Sgn(l.coef * powers[l.exp - e] - r.coef * powers[r.exp - e])
    ELSE Sgn(l.exp - r.exp)

Infinite(n) == IF n.kind = "inf" THEN 1 ELSE 0

decNumCompare(l, r, tot) ==
    LET sigl    == IF l.neg THEN -1 ELSE 1
        byExp   == IF tot THEN sigl * Sgn(l.exp - r.exp) ELSE 0
        aligned == CompareAligned(l, r)
    IN  IF l.neg # r.neg
        THEN IF IsZero(l) /\ IsZero(r) /\ ~tot THEN 0 ELSE sigl
        ELSE IF l.kind = "inf" \/ r.kind = "inf"
        THEN sigl * (Infinite(l) - Infinite(r))
        ELSE IF IsZero(l) /\ IsZero(r) THEN byExp
        ELSE IF IsZero(l) THEN -sigl
        ELSE IF IsZero(r) THEN sigl
        ELSE IF aligned # 0 THEN sigl * aligned
        ELSE byExp

=============================================================================
