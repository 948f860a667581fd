------------------------------ MODULE MCDecAdd ------------------------------
(***************************************************************************)
(* Instances of DecAdd for TLC: a precision of 1 or 2, a small exponent    *)
(* range, and the coefficients at which rounding decisions change.         *)
(***************************************************************************)
EXTENDS DecAddCorrect

Call(routine, r, l, rr) == [routine |-> routine, res |-> r, lhs |-> l, rhs |-> rr]

\* the result has a place of its own
PlainCalls == {Call("Add", "c", "a", "b"), Call("Subtract", "c", "a", "b")}

\* every way the result may share a place with an operand, and every routine
AliasCalls ==
    { Call(r, c, "a", b) : r \in {"Add", "Subtract"},
                           c \in {"a", "b", "c"}, b \in {"a", "b"} }
    \cup { Call(r, c, "dzero", "a") : r \in {"Plus", "Minus", "Abs"},
                                      c \in {"a", "c"} }

Contexts(digits, emax, modes, clamps) ==
    [digits : {digits}, emin : {-1}, emax : {emax}, round : modes,
     clamp : clamps]

Numerals(signs, coefs, exps) ==
    [kind : {"finite"}, neg : signs, coef : coefs, exp : exps]

\* below Etiny, between Etiny and Emin, normal, and folded down or too large
WideExps == {-4, -2, -1, 0, 2}

SpecialInputs ==
    { Special("inf", s) : s \in BOOLEAN }
    \cup [kind : {"nan", "snan"}, neg : BOOLEAN, coef : {0, 7, 123}, exp : {0}]

\* every mode, at every place where a rounding decision changes
Rounding ==
    LET coefs == {0, 1, 5, 9, 10, 49, 50, 51, 99, 100, 995}
    IN  [calls |-> PlainCalls,
         contexts |-> Contexts(2, 2, Modes, BOOLEAN),
         lhs |-> Numerals(BOOLEAN, coefs, WideExps),
         rhs |-> Numerals({FALSE}, coefs, WideExps),
         earlier |-> {{}}]

\* results in the place of an operand, special values, used contexts
Sharing ==
    LET inputs == SpecialInputs \cup Numerals(BOOLEAN, {0, 1, 5, 99, 100}, {-3, 0})
    IN  [calls |-> AliasCalls,
         contexts |-> Contexts(2, 2, {"HALF_EVEN", "FLOOR", "UP"}, {FALSE}),
         lhs |-> inputs, rhs |-> inputs,
         earlier |-> {{}, {"Inexact"}}]

AllFamilies == {Rounding, Sharing}

=============================================================================
