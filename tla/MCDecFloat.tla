----------------------------- MODULE MCDecFloat -----------------------------
(***************************************************************************)
(* Instances of DecFloatCalls for TLC: families of calls, each with the    *)
(* operands at which its decisions change.                                 *)
(***************************************************************************)
EXTENDS DecFloatCorrect

Numerals(signs, coefs, exps) ==
    {Float("finite", s, c, e) : s \in signs, c \in coefs, e \in exps}

Infinities == {Infinity(s) : s \in BOOLEAN}
NaNs2 == {Float(k, s, c, 0) : k \in {"nan", "snan"}, s \in BOOLEAN, c \in {0, 7}}
Specials == Infinities \cup NaNs2
Loosely(nums) == {[n EXCEPT !.canon = FALSE] : n \in nums}

Counts(ints) == {Integer(i) : i \in ints}
Positives == {FALSE}

Family(routines, lhs, rhs) ==
    [routines |-> routines, lhs |-> lhs, rhs |-> rhs, fhs |-> {FloatZero},
     rounds |-> {"HALF_EVEN"}, rmodes |-> {"DOWN"}, earlier |-> {{}}]

InModes(fam) == [fam EXCEPT !.rounds = Modes]

\* aligned, overlapping, touching and far apart, with and without carry
Sums ==
    InModes(Family({"Add", "Subtract"},
        Numerals(BOOLEAN, {0, 1, 10, 95, 100, 145, 214}, {-6, -3, 0, 1}),
        Numerals(BOOLEAN, {0, 1, 5, 9, 50, 100, 500, 899, 999}, {-6, -5, -3, 0})))

Tops ==
    InModes(Family({"Add", "Subtract"},
        Numerals(Positives, {1, 100, 900, 995, 999}, {3}),
        Numerals(BOOLEAN, {0, 1, 5, 50, 99, 500, 999}, {-1, 0, 1, 2, 3})))

Products ==
    InModes(Family({"Multiply"},
        Numerals(BOOLEAN, {0, 1, 5, 25, 99, 105, 500, 999}, {-6, -4, -1, 0, 2, 3}),
        Numerals(Positives, {0, 1, 2, 9, 50, 145, 999}, {-5, -3, 0, 1, 3})))

Fused ==
    [InModes(Family({"FMA"}, Numerals(Positives, {0, 1, 5, 50, 99}, {-6, -2, 0, 2}),
                    Numerals(BOOLEAN, {1, 2, 10, 99}, {-3, 0, 1})))
     EXCEPT !.fhs = Numerals(Positives, {0, 1, 9, 100, 500, 999}, {-6, -3, 0, 3})]

Quotients ==
    InModes(Family({"DIVIDE"},
        Numerals(BOOLEAN, {0, 1, 2, 5, 25, 99, 100, 144, 999}, {-6, -2, 0, 3}),
        Numerals(Positives, {1, 2, 3, 7, 8, 30, 64, 99, 101, 512, 998, 999}, {-6, -1, 0, 3})))

Integers2 ==
    Family({"DIVIDEINT", "REMAINDER", "REMNEAR"},
        Numerals(BOOLEAN, {0, 1, 3, 5, 15, 25, 100, 144, 995, 999}, -6..3),
        Numerals(BOOLEAN, {1, 2, 3, 10, 37, 99, 100, 999}, {-6, -3, -1, 0, 1, 3}))

Extremes ==
    LET nums == Infinities \cup Numerals(BOOLEAN, {0, 1, 10, 100, 99, 999}, {-6, -4, -2, 0, 3})
    IN  Family({"Compare", "CompareTotal", "CompareTotalMag", "Max", "Min", "MaxMag",
                "MinMag"},
               nums \cup Loosely(Numerals(BOOLEAN, {10}, {0})), nums)

Orders ==
    Family({"Compare", "CompareTotal", "Max"},
           Numerals(BOOLEAN, {1, 9, 12, 101, 120}, -3..1),
           Numerals(BOOLEAN, {0, 1, 11, 120, 121, 999}, -3..1))

\* every routine on infinities, NaNs, zeros and copies of loose encoding
Odd ==
    [Family({"Add", "Subtract", "Multiply", "FMA", "DIVIDE", "DIVIDEINT", "REMAINDER",
             "REMNEAR", "Compare", "CompareSignal", "CompareTotal", "CompareTotalMag",
             "Max", "Min", "MaxMag", "MinMag", "SameQuantum", "Abs", "Plus", "Minus",
             "Canonical", "Copy", "CopyAbs", "CopyNegate", "CopySign", "Quantize",
             "Reduce", "ScaleB", "LogB", "ToIntegralValue", "ToIntegralExact", "ToInt32",
             "ToInt32Exact", "ToUInt32", "ToUInt32Exact", "NextPlus", "NextMinus",
             "NextToward", "And", "Or", "Xor", "Invert", "Rotate", "Shift"},
            Specials \cup Loosely(NaNs2 \cup Numerals(BOOLEAN, {0, 11, 995}, {-2, 0})),
            Specials \cup Numerals(BOOLEAN, {0, 2, 101}, {-1, 0}))
     EXCEPT !.rounds = {"FLOOR"}, !.earlier = {{}, {"Inexact"}},
            !.fhs = {FloatZero, Infinity(TRUE), Float("nan", TRUE, 7, 0),
                     Float("snan", FALSE, 0, 0)}]

Requests ==
    InModes(Family({"Quantize"},
        Numerals(BOOLEAN, {0, 1, 5, 15, 95, 100, 949, 950, 995, 999}, {-6, -3, 0, 2}),
        Numerals(Positives, {0, 1}, -6..3)))

Scales ==
    InModes(Family({"ScaleB"}, Numerals(BOOLEAN, {0, 5, 15, 995, 999}, {-6, -2, 0, 3}),
                   Counts({-17, -16, -9, -3, -1, 0, 1, 2, 4, 7, 16, 17})))

Neighbours ==
    [Family({"NextPlus", "NextMinus", "NextToward", "LogB", "Reduce"},
            Infinities \cup Numerals(BOOLEAN, {0, 1, 9, 10, 99, 100, 101, 500, 999}, -6..3),
            Infinities \cup Numerals(BOOLEAN, {0, 99}, {-1}))
     EXCEPT !.rounds = {"HALF_EVEN", "UP"}, !.earlier = {{}, {"Inexact"}}]

\* IntMax is small, so that its neighbours are numbers of the format
Integrals ==
    [Family({"ToIntegralValue", "ToIntegralExact", "ToInt32", "ToInt32Exact",
             "ToUInt32", "ToUInt32Exact"},
            Numerals(BOOLEAN, {0, 1, 5, 15, 25, 45, 99, 127, 128, 129, 255, 256, 999},
                     {-6, -4, -2, -1, 0, 1, 3})
                \cup Numerals(BOOLEAN, {1}, {2}), {FloatZero})
     EXCEPT !.rounds = {"UP", "HALF_EVEN", "DOWN"}, !.rmodes = Modes,
            !.earlier = {{}, {"Inexact"}}]

Rows ==
    Family({"And", "Or", "Xor", "Invert", "Rotate", "Shift"},
           Numerals(BOOLEAN, {0, 1, 10, 11, 101, 110, 123}, {0, 1, -6}),
           Counts(-4..4) \cup Numerals(Positives, {0, 1, 11, 110}, {0}))

Wide ==
    InModes(Family({"FromWider"},
        Specials \cup {Float("snan", TRUE, 98765, 0)}
            \cup Numerals(BOOLEAN, {0, 1, 5, 999, 1005, 12345, 99949, 99950, 99951},
                          {-20, -12, -9, -7, -3, 0, 2, 5, 20}),
        {FloatZero}))

\* coefficients that fit the buffer, that are longer, and long ones of zeros
Text(kind, neg, coef, frac, exp, expneg, written) ==
    [kind |-> kind, neg |-> neg, coef |-> coef, frac |-> frac, exp |-> exp,
     expneg |-> expneg, written |-> written]

Texts ==
    {Text("number", s, c, frac, e, en, Max({Digits(c), w})) :
        s \in BOOLEAN, c \in {0, 7, 995, 9995, 12500, 125000, 125001, 9995001},
        frac \in {0, 1, 4, 6}, e \in {0, 1, 5, 9, 10}, en \in BOOLEAN, w \in {1, 8}}
    \cup {Text(k, s, c, 0, 0, FALSE, 1) :
        k \in {"inf", "nan", "snan", "bad"}, s \in BOOLEAN, c \in {0, 12, 100}}

Strings == InModes(Family({"FromString"}, Texts, {FloatZero}))

AllFamilies == {Sums, Tops, Products, Fused, Quotients, Integers2, Extremes, Orders, Odd,
                Requests, Scales, Neighbours, Integrals, Rows, Wide, Strings}

\* calculations of two and three calls
Calculations ==
    [Add |-> {"NextMinus"}, NextPlus |-> {"Subtract"}, ToIntegralValue |-> {"Subtract"},
     NextToward |-> {"Quantize"}]

NoFollowUps == [Add |-> {}]

\* payloads over two words
Payloads ==
    {Family({"CompareTotal"},
            {Float("nan", s, c, 0) : s \in BOOLEAN, c \in {0, 1, 12, 100, 110, 111, 211}},
            {Float("nan", s, c, 0) : s \in BOOLEAN, c \in {0, 2, 12, 101, 120, 201, 211}})}

=============================================================================
