--------------------------- MODULE MCDecMultiply ----------------------------
(***************************************************************************)
(* Instance of DecMultiply for TLC: one digit to a Unit and to a chunk, an *)
(* accumulator of items below 200, so that carries of two places occur and *)
(* waiting for one row more would overflow, as it would in 64 bits.        *)
(***************************************************************************)
EXTENDS DecMulCorrect

Call(routine, r, right_, far) ==
    [routine |-> routine, res |-> r, left |-> "a", right |-> right_,
     lhs |-> "acc", rhs |-> far]

Contexts(digits, emax, modes, clamps) ==
    [digits : {digits}, emin : {-emax}, emax : {emax}, round : modes,
     clamp : clamps]

Numerals(signs, coefs, exps) ==
    [kind : {"finite"}, neg : signs, coef : coefs, exp : exps]

Zero == Finite(FALSE, 0, 0)

\* lengths on both sides of the limit for chunks; zeros and nines in all places
Lengths ==
    [calls |-> {Call("Multiply", "c", "b", "far")},
     contexts |-> Contexts(3, 20, {"HALF_EVEN"}, {FALSE}),
     lhs |-> Numerals(BOOLEAN, {0, 7, 10, 99, 109, 900, 999, 9009, 9989, 9999}, {0}),
     rhs |-> Numerals({FALSE}, {0, 5, 80, 99, 101, 999, 1009, 9090, 9999}, {-1}),
     far |-> {Zero}, earlier |-> {{}}]

\* products around and far outside the context; the least exponents wrap
Ranges ==
    [calls |-> {Call("Multiply", "a", "a", "far"), Call("Multiply", "b", "b", "far")},
     contexts |-> Contexts(2, 20, Modes, BOOLEAN),
     lhs |-> Numerals(BOOLEAN, {0, 5, 95, 9999}, {-23, -11, 9}),
     rhs |-> Numerals({FALSE}, {1, 10, 100, 1001}, {-23, -10, 9}),
     far |-> {Zero}, earlier |-> {{"Inexact"}}]

Specials ==
    { Special("inf", s) : s \in BOOLEAN } \cup { Zero, Finite(TRUE, 3, 0) }
    \cup { [Special(k, FALSE) EXCEPT !.coef = c] : k \in {"nan", "snan"}, c \in {0, 7} }

\* a third number that rounds the product, cancels it, or is beyond it; both
\* 99 * 106 + 9.9 and 9.9 * 1 + 10494 are RoundedByResidue, rounded otherwise than
\* their exact sums
Fusions ==
    [calls |-> {Call("FMA", "c", "b", "far")},
     contexts |-> Contexts(2, 4, Modes, {FALSE}),
     lhs |-> Numerals({FALSE}, {0, 5, 99, 105}, {-1, 0}),
     rhs |-> Numerals(BOOLEAN, {1, 10, 106}, {0}),
     far |-> Numerals({FALSE}, {0, 5, 50, 99, 500, 10494}, {-1, 0, 2}),
     earlier |-> {{}}]

\* special values, and the result in the place of any operand
FusedSpecials ==
    [calls |-> {Call("FMA", r, b, f) : r \in {"a", "far"}, b \in {"a", "b"},
                                       f \in {"a", "far"}},
     contexts |-> Contexts(2, 4, {"FLOOR"}, {FALSE}),
     lhs |-> Specials, rhs |-> Specials, far |-> Specials, earlier |-> {{}}]

\* around the bounds for mathematical functions
Restricted ==
    [calls |-> {Call("FMA", "c", "b", "far")},
     contexts |-> Contexts(2, 5, {"UP"}, {FALSE}) \cup Contexts(2, 6, {"UP"}, {FALSE}),
     lhs |-> {Special("inf", FALSE)} \cup Numerals({FALSE}, {0, 1, 100}, {-11, -9, 2, 4, 5}),
     rhs |-> {Finite(FALSE, 2, 0)}, far |-> {Special("nan", FALSE)},
     earlier |-> {{}}]

AllFamilies == {Lengths, Ranges, Fusions, FusedSpecials, Restricted}

=============================================================================
