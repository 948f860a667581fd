---------------------------- MODULE DecOpsCorrect ---------------------------
(***************************************************************************)
(* What the calls of DecOps must deliver, each stated from the exact value *)
(* of the operands or from their rows of digits.                           *)
(***************************************************************************)
EXTENDS DecOps

CONSTANT Thirds    \* numbers to try the order's transitivity with

(***************************************************************************)
(* What is assumed of the calls.                                           *)
(***************************************************************************)
\* as decCheckNumber wants it: no special value has an exponent, and an
\* infinity no coefficient
Valid(n) ==
    /\ n \in Numbers
    /\ IsSpecial(n) => n.exp = 0
    /\ n.kind = "inf" => n.coef = 0

\* DEC_MAX_DIGITS, DEC_MIN_EMIN and DEC_MAX_EMAX
InLimits(c) == /\ c.digits <= 999999999
               /\ -999999999 <= c.emin /\ c.emax <= 999999999

ASSUME FamiliesAssumption ==
    \A f \in Families :
        /\ \A n \in f.lhs \cup f.rhs : Valid(n)
        /\ \A c \in f.contexts : IsContext(c) /\ InLimits(c)
        /\ f.texts \subseteq Seq(STRING)
        /\ f.earlier \cup f.traps \cup f.masks \subseteq SUBSET (Flags \ {"sNaN"})

ASSUME ThirdsAssumption == \A n \in Thirds : Valid(n)

Reported == pc \in {"reported", "done"}
Is(routines) == Reported /\ call.routine \in routines

\* the signed value as a multiple of 10^e
Multiple(n, e) == Negated(n.coef * powers[n.exp - e], n.neg)

Numbers2 == ~IsNaN(l) /\ ~IsNaN(r)

\* order by value, the infinities at the ends
Below(x, y) ==
    \/ x.kind = "inf" /\ x.neg /\ ~(y.kind = "inf" /\ y.neg)
    \/ y.kind = "inf" /\ ~y.neg /\ ~(x.kind = "inf" /\ ~x.neg)
    \/ /\ ~IsSpecial(x) /\ ~IsSpecial(y)
       /\ LET e == Min({x.exp, y.exp}) IN Multiple(x, e) < Multiple(y, e)

SameValue(x, y) == ~Below(x, y) /\ ~Below(y, x)

(***************************************************************************)
(* Orders.                                                                 *)
(***************************************************************************)

\* the order of the routine, which of two it prefers, and that one rounded
Ordered(x, y) ==
    IF call.routine \in {"Max", "Min"} THEN <<x, y>>
    ELSE IF Below(CopyAbs(x), CopyAbs(y)) \/ Below(CopyAbs(y), CopyAbs(x))
         THEN <<CopyAbs(x), CopyAbs(y)>> ELSE <<x, y>>

RightIsLarger ==
    LET o == Ordered(l, r)
    IN  Below(o[1], o[2]) \/ (~Below(o[2], o[1]) /\ Total(o[1], o[2]) < 0)

Picked ==
    IF IsNaN(l) THEN r ELSE IF IsNaN(r) THEN l
    ELSE IF RightIsLarger <=> call.routine \in {"Max", "MaxMag"} THEN r ELSE l

Into(n) == IF IsSpecial(n) THEN n
           ELSE Delivered(n.neg, n.coef, n.exp, set)

\* Comparison by value is the sign of the exact difference, however far apart
\* the exponents are and whichever exit of decUnitCompare is taken; the total
\* order agrees with it, is antisymmetric and transitive, and calls only
\* identical operands equal.  The larger and the smaller of two numbers is one
\* of them, rounded into the context, with nothing of the other beyond it in
\* the order asked for; equal values are told apart by the total order, and one
\* quiet NaN gives way (decCompareOp, decCompare, decUnitCompare).
OrderIsSound ==
    /\ Is({"Compare"}) /\ Numbers2
           => res = FromSignum(IF Below(l, r) THEN -1 ELSE IF Below(r, l) THEN 1 ELSE 0)
    /\ Is({"CompareSignal"})
           => /\ IsNaN(res) <=> ~Numbers2
              /\ IsNaN(res) => "Invalid_operation" \in status
    /\ Is({"CompareTotal"})
           => /\ IsZero(res) <=> l = r
              /\ Total(r, l) = -Total(l, r)
              /\ Numbers2 /\ Below(l, r) => res.neg
              /\ Numbers2 /\ SameValue(l, r) /\ l.neg = r.neg /\ l.exp < r.exp
                     => res.neg # l.neg
              /\ \A t \in Thirds :
                     Total(l, r) <= 0 /\ Total(r, t) <= 0 => Total(l, t) <= 0
    /\ Is({"Max", "Min", "MaxMag", "MinMag"})
           => IF "snan" \in {l.kind, r.kind} \/ (IsNaN(l) /\ IsNaN(r))
              THEN IsNaN(res)
              ELSE res = Into(Picked)

(***************************************************************************)
(* Exponents.                                                              *)
(***************************************************************************)

\* rounded to a multiple of 10^e, without regard to the precision
RoundedAt(n, e) ==
    LET unit  == powers[e - n.exp]
        lower == n.coef \div unit
    IN  IF e <= n.exp THEN n.coef * powers[n.exp - e]
        ELSE IF e - n.exp > Digits(n.coef) + 1
             THEN IF RoundsAway(set.round, n.neg, 0, 1, 100) /\ n.coef # 0
                  THEN 1 ELSE 0
        ELSE IF RoundsAway(set.round, n.neg, lower, n.coef % unit, unit)
             THEN lower + 1 ELSE lower

\* the integer that a number is
IsInteger(n) == n.exp >= 0 \/ n.coef % powers[-n.exp] = 0

IntegerOf(n) == Negated(IF n.exp >= 0 THEN n.coef * powers[n.exp]
                        ELSE n.coef \div powers[-n.exp], n.neg)

\* the requested exponent, and the precision that applies
ReqExp == CASE call.routine = "Quantize" -> r.exp
            [] call.routine = "Rescale" -> IntegerOf(r)
            [] OTHER -> 0
ReqDigits == IF call.routine \in {"Quantize", "Rescale"} THEN set.digits
             ELSE Digits(l.coef)

RefusesRequest ==
    LET c == RoundedAt(l, ReqExp)
    IN  \/ call.routine = "Rescale" /\ ~IsInteger(r)
        \/ ReqExp < set.emin - (ReqDigits - 1) \/ ReqExp > set.emax
        \/ Digits(c) > ReqDigits
        \/ c # 0 /\ ReqExp + Digits(c) - 1 > set.emax

\* all nines carried beyond emax while being cut: decApplyRound has already
\* made this an infinity, before the check that would call it invalid
\* (decNumber.c:5953)
CarriedAway ==
    /\ ReqExp \in (l.exp + 1)..set.emax
    /\ Digits(l.coef) + l.exp > set.emax
    /\ RoundedAt(l, ReqExp) = powers[Digits(l.coef) + l.exp - ReqExp]

RequestMade ==
    /\ ~IsSpecial(l) /\ ~IsSpecial(r)
    /\ \/ Is({"Quantize", "Rescale"})
       \/ /\ Is({"ToIntegralExact", "ToIntegralValue"})
          /\ given \cap NaNFlags = {} /\ l.exp < 0

\* the operand rounded once at the requested exponent
Requested == Finite(l.neg, RoundedAt(l, ReqExp), ReqExp)

\* a context that clamps holds no exponent above Etop: decFinalize folds the
\* answer down, and its exponent is not the requested one, as the comments at
\* decNumber.c:2279-2280, 2368-2369 and 5826-5827 guarantee it to be
FoldsAnswer == set.clamp /\ ReqExp > Etop([set EXCEPT !.digits = ReqDigits])

\* Quantize and rescale give the operand rounded once at the requested
\* exponent, exactly if that fits the context, and are invalid if it does not;
\* and ToIntegral gives the integer so rounded if no NaN flag was left in the
\* status it copies.  Two kinds of calls do not: of those that carry all nines
\* beyond emax nothing is said, and of those whose answer is folded only that
\* it has the value asked for, at another exponent.  Scaling by a power of ten
\* rounds once as the arithmetic does; a reduced number keeps its value and has
\* no trailing zero that the context's clamp does not force on it
\* (decQuantizeOp, decFinalize, decNumberScaleB, decNumberReduce, decTrim).
QuantizedOnce ==
    /\ RequestMade /\ ~CarriedAway
               => IF RefusesRequest
                  THEN IsNaN(res) /\ "Invalid_operation" \in status
                  ELSE /\ IF FoldsAnswer
                          THEN /\ ~IsSpecial(res) /\ SameValue(res, Requested)
                               /\ res.neg = l.neg
                          ELSE res = Requested
                       /\ "Inexact" \in status \cup given <=>
                              \/ "Inexact" \in given
                              \/ /\ call.routine # "ToIntegralValue"
                                 /\ ReqExp > l.exp /\ l.coef # 0
                                 /\ \/ ReqExp - l.exp > Digits(l.coef)
                                    \/ l.coef % powers[ReqExp - l.exp] # 0
    /\ Is({"ScaleB"}) /\ ~IsSpecial(l) /\ ~IsNaN(res) /\ Digits(l.coef) <= set.digits
           => /\ res = Delivered(l.neg, l.coef, l.exp + GetInt(r).value, set)
              /\ status = FlagsFor(l.neg, l.coef, l.exp + GetInt(r).value, set)
    /\ Is({"Reduce"}) /\ ~IsSpecial(l)
           => LET d == Into(l)
              IN  /\ IsSpecial(d) => res = d
                  /\ ~IsSpecial(d)
                         => /\ SameValue(d, res) /\ d.neg = res.neg
                            /\ res.coef # 0 /\ res.coef % 10 = 0
                                   => set.clamp /\ res.exp >= Etop(set)
    /\ Is({"Trim"}) /\ ~IsSpecial(l)
           => /\ SameValue(l, res)
              /\ res.exp < 0 /\ res.coef # 0 => res.coef % 10 # 0

(***************************************************************************)
(* Neighbours.                                                             *)
(***************************************************************************)
Representable ==
    { Finite(s, c, e) : s \in BOOLEAN, c \in 0..(powers[set.digits] - 1),
                        e \in Etiny(set)..Etop(set) }

\* Nothing the context can hold lies between a number and its successor or
\* predecessor, which differ from it in the direction asked for; stepping off
\* the largest number gives infinity and off infinity the largest number.  It
\* needs an infinitesimal below Etiny, which 10^(DEC_MIN_EMIN - 1) is not for
\* every context, and no digit of the operand below it (decNumberNextPlus,
\* NextMinus, and NextToward through decAddOp).
Upwards == \/ call.routine = "NextPlus"
           \/ call.routine = "NextToward" /\ Below(l, r)

Moves == \/ call.routine \in {"NextPlus", "NextMinus"}
         \/ call.routine = "NextToward" /\ (Below(l, r) \/ Below(r, l))

InfinitesimalServes ==
    TinyExp < Etiny(set) /\ (~IsSpecial(l) => TinyExp <= l.exp)

Between(n, x, y) == Below(x, n) /\ Below(n, y)

NextIsNeighbour ==
    Is({"NextPlus", "NextMinus", "NextToward"}) /\ Numbers2 /\ Moves /\ InfinitesimalServes
        => IF l.kind = "inf" /\ l.neg # Upwards THEN res = l
           ELSE /\ IF Upwards THEN Below(l, res) ELSE Below(res, l)
                /\ \A n \in Representable :
                       IF Upwards THEN ~Between(n, l, res) ELSE ~Between(n, res, l)

(***************************************************************************)
(* Digits, strings, status.                                                *)
(***************************************************************************)

\* A rotation moves every digit of a coefficient that fits, seen as wide as the
\* precision, by the count, whichever Units it starts, passes and ends in; a
\* shift does so and fills with zeros (decNumberRotate, decNumberShift,
\* decShiftToMost, decShiftToLeast, decReverse).
DigitsMoved ==
    Is({"Rotate", "Shift"}) /\ Numbers2 /\ ~IsSpecial(l) /\ ~IsNaN(res)
            /\ Digits(l.coef) <= set.digits
        => LET by == GetInt(r).value
               p  == set.digits
               source(i) == IF call.routine = "Rotate" THEN (i - by + p) % p
                            ELSE i - by
               digit(i) == IF i \in 0..(p - 1) THEN DigitAt(l.coef, i) ELSE 0
           IN  res = [l EXCEPT !.coef = FromDigits(
                          [i \in 1..p |-> digit(source(i - 1))])]

\* strings with the exact value they spell
Spelled == { <<<<"1", "2", ".", "5", "E", "+", "1">>, Finite(FALSE, 125, 0)>>,
             <<<<"-", ".", "0", "5">>, Finite(TRUE, 5, -2)>>,
             <<<<"0", "0", "1", "0", ".">>, Finite(FALSE, 10, 0)>>,
             <<<<"+", "9", ".", "9", "6", "e", "1">>, Finite(FALSE, 996, -1)>> }

\* What is written reads back: a number laid out in scientific or engineering
\* notation has the same value to a context that can hold it, and is the same
\* number but for zeros the engineering notation adds, NaNs with their payload;
\* other strings give the value they spell rounded once, or a NaN with
\* Conversion_syntax; and an integer in range survives the way through a
\* binary one, which no other number does (decToString, decNumberFromString,
\* decNumberToInt32).
Held(n) == IF IsSpecial(n) THEN Digits(n.coef) <= set.digits - 1
           ELSE n.exp \in Etiny(set)..set.emax /\ n = Into(n)

ReadsBack ==
    /\ Is({"ToString", "ToEngString"}) /\ Held(l)
           => /\ res.kind = l.kind /\ res.neg = l.neg /\ SameValue(res, l)
              /\ call.routine = "ToString" \/ IsSpecial(l) => res = l
              /\ status \subseteq {"Subnormal", "Rounded"}
    /\ Is({"FromString"})
           => /\ \A s \in Spelled : s[1] = text => res = Into(s[2])
              /\ "Conversion_syntax" \in status => IsNaN(res)
    /\ Is({"ToInt32"})
           => LET fits == ~IsSpecial(l) /\ l.exp = 0
                             /\ Negated(l.coef, l.neg)
                                    \in (-(10 * IntHi + 8))..(10 * IntHi + 7)
              IN  /\ "Invalid_operation" \in status <=> ~fits
                  /\ fits => SameValue(res, l)

\* A NaN that no operand brings is told, unless decNumberToIntegralValue made
\* it of a flag in the caller's status that it then does not pass on.
Untold == call.routine = "ToIntegralValue"
              /\ given \cap (NaNFlags \ {"Invalid_operation"}) # {}

\* what a trap was raised for last: the call, or the name of a single flag
LastRaised == IF pc = "done" /\ saved.by = "name" /\ Cardinality(saved.status) < 2
              THEN saved.status ELSE status \ {"sNaN"}

\* A trap is raised for what this call found and no other reason, after its
\* result and status are complete; flags the caller saved come back as they
\* were, unless they were several and kept as a name, which is refused; and of
\* the others none is lost (decStatus, decContextSetStatus,
\* decContextSaveStatus, decContextRestoreStatus, decContextStatusToString,
\* decContextSetStatusFromString).
FlagsGather ==
    /\ Reported
           => /\ ctx.raised # {} <=> LastRaised \cap ctx.traps # {}
              /\ IsNaN(res) /\ Numbers2 /\ call.routine # "FromString" /\ ~Untold
                     => status \cap NaNFlags # {}
    /\ pc = "done" => /\ ctx.status \cap saved.mask =
                             IF saved.by = "bits" \/ Cardinality(saved.status) < 2
                             THEN saved.status ELSE {}
                      /\ given \ saved.mask \subseteq ctx.status
                      /\ (status \ {"sNaN"}) \ saved.mask \subseteq ctx.status

\* no flag stays in a context that is none
TypeOK ==
    /\ pc \in {"save", "call", "read", "report", "reported", "done"}
    /\ res.kind \in Kinds /\ res.neg \in BOOLEAN
    /\ res.coef \in Nat /\ res.exp \in Int
    /\ status \subseteq Flags /\ ctx.status \subseteq Flags \ {"sNaN"}

\* Whatever operands of at most the precision a routine is given, its result
\* is no longer than the precision, which is all the caller has allocated, and
\* a number the context can hold if it was rounded; a subnormal one is flagged.
Rounding == {"Max", "Min", "MaxMag", "MinMag", "Quantize", "Rescale", "Reduce",
             "NextPlus", "NextMinus", "LogB", "FromString"}

FitsContext ==
    /\ TypeOK
    /\ Reported /\ (Digits(l.coef) <= set.digits \/ call.routine \in Rounding)
           => Digits(res.coef) <= set.digits
    /\ Is(Rounding) /\ ~IsSpecial(res) /\ call.routine # "LogB"
           => /\ res = Into(res)
              /\ IsSubnormal(res, set) /\ call.routine \notin {"NextPlus", "NextMinus"}
                     => "Subnormal" \in status

(***************************************************************************)
(* What a comment in the code says and a used context does not keep.       *)
(***************************************************************************)

\* Rounding a finite number to an integral value cannot fail
\* (decNumberToIntegralExact's comments at decNumber.c:3168-3169 and 3193).
IntegralCannotFail ==
    Is({"ToIntegralExact", "ToIntegralValue"}) /\ ~IsSpecial(l) => ~IsNaN(res)

=============================================================================
