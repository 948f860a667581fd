---------------------------- MODULE DecReference ----------------------------
(***************************************************************************)
(* What the arithmetic of decNumber promises, stated without its residues: *)
(* the result of an operation is the exact result, rounded once, in the    *)
(* context's mode, to the nearest place the context can hold, and the      *)
(* flags say what was lost.                                                *)
(***************************************************************************)
EXTENDS DecNum, FiniteSetsExt

\* the exact value (-1)^neg * n * 10^q, with n > 0, lies between two
\* neighbours n \div 10^k and the next; rest is what lies above the lower
RoundsAway(mode, neg, lower, rest, unit) ==
    CASE mode = "UP"        -> rest > 0
      [] mode = "DOWN"      -> FALSE
      [] mode = "CEILING"   -> rest > 0 /\ ~neg
      [] mode = "FLOOR"     -> rest > 0 /\ neg
      [] mode = "HALF_UP"   -> 2 * rest >= unit
      [] mode = "HALF_DOWN" -> 2 * rest > unit
      [] mode = "HALF_EVEN" -> \/ 2 * rest > unit
                               \/ 2 * rest = unit /\ lower % 2 = 1
      [] mode = "05UP"      -> rest > 0 /\ lower % 10 \in {0, 5}

\* the lowest place that holds n * 10^q in the context
Place(n, q, set) == Max({q, q + Digits(n) - set.digits, Etiny(set)})

Nearest(neg, n, q, set) ==
    LET e     == Place(n, q, set)
        unit  == powers[e - q]
        lower == n \div unit
        c     == IF RoundsAway(set.round, neg, lower, n % unit, unit)
                 THEN lower + 1 ELSE lower
    IN  IF c = powers[set.digits]
        THEN Finite(neg, powers[set.digits - 1], e + 1)
        ELSE Finite(neg, c, e)

TooLarge(r, set) == r.coef # 0 /\ r.exp + Digits(r.coef) - 1 > set.emax

\* IEEE 754 section 7.4: infinity, or the largest finite number if the mode
\* rounds towards it
Overflowed(neg, set) ==
    IF RoundsAway(set.round, neg, powers[set.digits] - 1, 1, 1)
       \/ set.round \in {"HALF_UP", "HALF_DOWN", "HALF_EVEN"}
    THEN Special("inf", neg)
    ELSE Finite(neg, powers[set.digits] - 1, Etop(set))

Folded(r, set) ==
    IF set.clamp /\ r.kind = "finite" /\ r.exp > Etop(set)
    THEN Finite(r.neg, r.coef * powers[r.exp - Etop(set)], Etop(set))
    ELSE r

\* a zero keeps its exponent as far as the context can hold it
FitZero(neg, q, set) ==
    LET top == IF set.clamp THEN Etop(set) ELSE set.emax
    IN  Finite(neg, 0, Max({Etiny(set), Min({q, top})}))

InRange(r, set) ==
    IF TooLarge(r, set) THEN Overflowed(r.neg, set) ELSE Folded(r, set)

Delivered(neg, n, q, set) ==
    IF n = 0 THEN FitZero(neg, q, set) ELSE InRange(Nearest(neg, n, q, set), set)

(***************************************************************************)
(* The flags, each for its own reason.                                     *)
(***************************************************************************)
IsTiny(n, q, set) == n # 0 /\ q + Digits(n) - 1 < set.emin

\* r is the value rounded without limits, d what is delivered for it
FlagsTelling(r, d, n, q, set) ==
    LET overflow == n # 0 /\ TooLarge(r, set)
        inexact  == n # 0 /\ (overflow \/ n % powers[Place(n, q, set) - q] # 0)
        tiny     == IsTiny(n, q, set)
        raised   == [Inexact   |-> inexact,
                     Rounded   |-> n # 0 /\ (overflow \/ Place(n, q, set) > q),
                     Subnormal |-> tiny,
                     Underflow |-> tiny /\ inexact,
                     Overflow  |-> overflow,
                     Clamped   |-> \/ n = 0 /\ d.exp # q
                                   \/ n # 0 /\ d.coef = 0 /\ d.kind = "finite"
                                   \/ d.kind = "finite" /\ d.exp < r.exp
                                      /\ ~overflow /\ n # 0]
    IN  {f \in DOMAIN raised : raised[f]}

FlagsFor(neg, n, q, set) ==
    FlagsTelling(Nearest(neg, n, q, set), Delivered(neg, n, q, set), n, q, set)

=============================================================================
