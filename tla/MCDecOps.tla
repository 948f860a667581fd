------------------------------ MODULE MCDecOps ------------------------------
(***************************************************************************)
(* Instances of DecOps for TLC: families of calls, each with the operands  *)
(* at which its decisions change.                                          *)
(***************************************************************************)
EXTENDS DecOpsCorrect

Infinitesimal == -5    \* below every Etiny here

Contexts(digits, modes, clamps) ==
    [digits : digits, emin : {-1}, emax : {2}, round : modes, clamp : clamps]

Numerals(signs, coefs, exps) ==
    [kind : {"finite"}, neg : signs, coef : coefs, exp : exps]

Infinities == {Special("inf", s) : s \in BOOLEAN}
NaNs2 == [kind : {"nan", "snan"}, neg : BOOLEAN, coef : {0, 7}, exp : {0}]

Zero == Finite(FALSE, 0, 0)
Counts(ints) == {FromInt(i) : i \in ints}

Family(routines, contexts, lhs, rhs) ==
    [routines |-> routines, contexts |-> contexts, lhs |-> lhs, rhs |-> rhs,
     texts |-> {<<>>}, earlier |-> {{}}, traps |-> {{}}, masks |-> {{}}]

\* coefficients of one, two and three Units, padded by none to three
Orders ==
    Family({"Compare", "CompareSignal", "CompareTotal", "CompareTotalMag"},
           Contexts({2}, {"HALF_UP"}, {FALSE}),
           Infinities \cup NaNs2
               \cup Numerals(BOOLEAN, {0, 1, 10, 100, 999, 12345}, {-3, -1, 0, 2}),
           Infinities \cup NaNs2
               \cup Numerals(BOOLEAN, {0, 1, 100, 9, 12346}, {-2, 0, 1}))

Extremes ==
    Family({"Max", "Min", "MaxMag", "MinMag", "SameQuantum", "CopySign",
            "CopyAbs", "CopyNegate"},
           Contexts({2}, {"HALF_EVEN"}, {TRUE}),
           Infinities \cup NaNs2 \cup Numerals(BOOLEAN, {0, 1, 10, 50}, {-2, -1, 0}),
           Infinities \cup NaNs2 \cup Numerals(BOOLEAN, {0, 1, 5, 105}, {-2, -1, 1}))

Requests ==
    Family({"Quantize", "Rescale"}, Contexts({2}, Modes, BOOLEAN),
           Infinities \cup Numerals(BOOLEAN, {0, 1, 5, 94, 95, 99, 995}, {-4, -2, -1, 0, 1}),
           Infinities \cup Numerals({FALSE}, {1}, {-3, -2, -1, 0, 1, 2, 3})
               \cup Numerals({TRUE}, {1, 20, 25}, {-1, 0}))

Integrals ==
    [Family({"ToIntegralExact", "ToIntegralValue", "Reduce", "Trim", "LogB"},
            Contexts({2}, Modes, BOOLEAN),
            Infinities \cup NaNs2
                \cup Numerals(BOOLEAN, {0, 5, 10, 15, 25, 99, 100, 995}, {-4, -2, -1, 0, 1, 2}),
            {Zero})
     EXCEPT !.earlier = {{}, {"Inexact"}}]

Scales ==
    Family({"ScaleB"}, Contexts({2}, Modes, BOOLEAN),
           Infinities \cup Numerals(BOOLEAN, {0, 5, 15, 99}, {-2, 0}),
           Counts(-9..9) \cup Infinities \cup {Finite(FALSE, 1, 9), Finite(FALSE, 1, -1)})

Neighbours ==
    Family({"NextPlus", "NextMinus", "NextToward"},
           Contexts({2}, {"HALF_UP"}, {FALSE}),
           Infinities \cup NaNs2
               \cup Numerals(BOOLEAN, {0, 1, 9, 10, 50, 99, 995}, {-4, -2, -1, 0, 1}),
           Infinities \cup NaNs2 \cup Numerals(BOOLEAN, {0, 9}, {-1}))

\* precisions that fill their last Unit and that do not; operands that fit
Moved(p) ==
    Family({"Rotate", "Shift"}, Contexts({p}, {"HALF_UP"}, {FALSE}),
           Infinities \cup NaNs2
               \cup {n \in Numerals({FALSE}, {0, 7, 40, 102, 123, 9000, 1234}, {0})
                              \cup Numerals({TRUE}, {98765}, {-2}) :
                         Digits(n.coef) <= p},
           Counts(-6..6) \cup Infinities \cup NaNs2 \cup {Finite(FALSE, 10, -1)})

Rows ==
    Family({"And", "Or", "Xor", "Invert", "BCD"}, Contexts({2, 3}, {"HALF_UP"}, {FALSE}),
           Infinities \cup Numerals(BOOLEAN, {0, 1, 10, 11, 101, 1010, 2, 110}, {0, 1}),
           Numerals({FALSE}, {0, 1, 11, 100, 20}, {0}))

Written ==
    Family({"ToString", "ToEngString"}, Contexts({2}, {"HALF_UP"}, BOOLEAN)
               \cup [digits : {2}, emin : {-12}, emax : {12}, round : {"UP"}, clamp : {FALSE}],
           Infinities \cup NaNs2 \cup Numerals(BOOLEAN, {0, 1, 10, 57}, -13..12), {Zero})

Binaries ==
    Family({"ToInt32", "ToUInt32"}, Contexts({2}, {"HALF_UP"}, {FALSE}),
           Infinities \cup NaNs2
               \cup Numerals(BOOLEAN, {0, 9, 126, 127, 128, 129, 130, 255, 256, 1000}, {0, 1}),
           {Zero})

Parts(a, b) == {x \o y : x \in a, y \in b}

\* every mantissa with every tail
Read ==
    [Family({"FromString"}, Contexts({2}, {"HALF_EVEN", "UP"}, BOOLEAN), {Zero}, {Zero})
     EXCEPT !.texts =
         { s[1] : s \in Spelled } \cup
         Parts({<<>>, <<"-">>, <<"+">>},
               Parts({<<>>, <<".">>, <<"0">>, <<"9", "5", "5">>, <<"1", ".", "5">>,
                      <<".", "0", "7">>, <<"i", "N", "f">>, <<"s", "n", "a", "N">>,
                      <<"N", "a", "N", "0", "4">>, <<"N", "a", "N", "4", "2">>,
                      <<"I", "n", "f", "i", "n", "i", "t", "y">>},
                     {<<>>, <<".">>, <<"E">>, <<"e", "+">>, <<"E", "-", "0", "2">>,
                      <<"E", "1", "x">>, <<"-">>,
                      <<"E">> \o Repeat("9", 10), <<"E", "-">> \o Repeat("8", 12),
                      <<"E", "0">> \o Repeat("1", 10)}))]

\* a caller that saves and clears, traps, and what was there before
Protected ==
    [Family({"Quantize", "LogB", "ToIntegralExact", "ToIntegralValue", "Compare",
             "ToInt32", "NextToward", "ScaleB"},
            Contexts({2}, {"HALF_UP"}, {FALSE}),
            NaNs2 \cup Numerals({FALSE}, {0, 15, 995}, {-2, 1}),
            {Zero, Finite(FALSE, 7, 2), Special("snan", FALSE)})
     EXCEPT !.earlier = SUBSET {"Inexact", "Invalid_operation"}
                            \cup {{"Division_undefined"}},
            !.traps = {{}, {"Invalid_operation"}, {"Division_by_zero"},
                       {"Inexact", "Division_by_zero"}},
            !.masks = {{"Invalid_operation"}, NaNFlags \cup {"Inexact"}}]

AllFamilies == {Orders, Extremes, Requests, Integrals, Scales, Neighbours,
                Moved(3), Moved(4), Moved(5), Rows, Written, Binaries, Read, Protected}

OrderThirds == Infinities \cup NaNs2 \cup Numerals(BOOLEAN, {0, 1, 100}, {-2, 0})

\* the status still holds the flag of an earlier operation
UsedContext ==
    {[Family({"ToIntegralExact", "ToIntegralValue"},
             Contexts({2}, {"HALF_UP"}, {FALSE}),
             Numerals(BOOLEAN, 0..24, {-1, 0}), {Zero})
      EXCEPT !.earlier = {{}, {"Inexact"}, {"Invalid_operation"}}]}

=============================================================================
