----------------------------- MODULE MCDecDivide ----------------------------
(***************************************************************************)
(* Instances of DecDivide for TLC with two digits in a Unit.               *)
(***************************************************************************)
EXTENDS DecDivideCorrect

Contexts(digits, modes) ==
    [digits : {digits}, emin : {-3}, emax : {3}, round : modes, clamp : {FALSE}]

Numerals(signs, coefs, exps) ==
    [kind : {"finite"}, neg : signs, coef : coefs, exp : exps]

\* every quotient of numbers of one or two digits
Quotients ==
    [ops |-> {"DIVIDE"}, contexts |-> Contexts(2, {"HALF_EVEN"}),
     lhs |-> Numerals({FALSE}, 1..99, {0}),
     rhs |-> Numerals({TRUE}, 1..99, {0})]

\* divisors of three Units, where the guess is from a part of them
LongDivisors ==
    [ops |-> {"DIVIDE"}, contexts |-> Contexts(1, {"UP", "HALF_DOWN"}),
     lhs |-> Numerals({FALSE}, (1..20) \cup {10002, 10050, 20002}, {0}),
     rhs |-> Numerals({FALSE}, {10000, 10001, 10099, 12345, 19999, 20001, 99999},
                      {-4})]

\* integer quotients and remainders, with every relation of the exponents
Integers2 ==
    LET coefs == {1, 2, 3, 5, 7, 9, 10, 11, 15, 20, 33, 50, 66, 90, 98, 99}
    IN  [ops |-> {"DIVIDEINT", "REMAINDER", "REMNEAR"},
         contexts |-> Contexts(2, {"HALF_EVEN"}),
         lhs |-> Numerals(BOOLEAN, coefs \cup {100, 101, 995}, {-1, 0, 1, 2}),
         rhs |-> Numerals({FALSE}, coefs, {-1, 0, 1})]

\* special values and zeros, and results at the edge of the exponent range
Edges ==
    LET inputs == { Special("inf", s) : s \in BOOLEAN }
                  \cup [kind : {"nan", "snan"}, neg : {TRUE}, coef : {0, 123},
                        exp : {0}]
                  \cup Numerals(BOOLEAN, {0, 1, 7, 95}, {-2, 0, 3})
    IN  [ops |-> Ops, contexts |-> Contexts(2, {"HALF_EVEN", "FLOOR"}),
         lhs |-> inputs, rhs |-> inputs]

\* an integer quotient with too many digits, in which var1 is set to 0 while
\* msu1 stays behind
TooLongIntegers ==
    [ops |-> {"DIVIDEINT", "REMAINDER"}, contexts |-> Contexts(5, {"HALF_EVEN"}),
     lhs |-> Numerals({FALSE}, {10020}, 1..4),
     rhs |-> Numerals({FALSE}, {20}, {0})]

Divisions == {Quotients, LongDivisors, Integers2, Edges, TooLongIntegers}

=============================================================================
