------------------------------ MODULE DecText -------------------------------
(***************************************************************************)
(* Numbers as strings and as binary integers (decNumber.c).  A string is a *)
(* sequence of one-character strings.                                      *)
(***************************************************************************)
EXTENDS DecDigits

CONSTANTS
    IntHi,      \* INT_MAX without its last digit, which is 7
    UIntHi,     \* UINT_MAX without its last digit, which is 5
    IntDigits   \* digits of both (10)

DigitChars == <<"0", "1", "2", "3", "4", "5", "6", "7", "8", "9">>

IsDigit(ch) == \E d \in 0..9 : DigitChars[d + 1] = ch

DigitOf(ch) == CHOOSE d \in 0..9 : DigitChars[d + 1] = ch

\* the number a row of digit characters stands for
NumberOf(chars) ==
    FromDigits([i \in 1..Len(chars) |-> DigitOf(Reversed(chars)[i])])

Numeral(c) ==
    [i \in 1..Digits(c) |-> DigitChars[DigitAt(c, Digits(c) - i) + 1]]

Repeat(ch, n) == [i \in 1..n |-> ch]

(***************************************************************************)
(* decToString: plain if the exponent is not positive and the number not   *)
(* too small, else with an exponent, which engineering notation makes a    *)
(* multiple of three by moving the point; pre digits come before it.       *)
(***************************************************************************)
Laid(ds, pre) ==
    IF pre <= 0 THEN <<"0", ".">> \o Repeat("0", -pre) \o ds
    ELSE IF pre < Len(ds)
         THEN SubSeq(ds, 1, pre) \o <<".">> \o SubSeq(ds, pre + 1, Len(ds))
    ELSE ds \o Repeat("0", pre - Len(ds))

EPart(e) == IF e = 0 THEN <<>>
            ELSE <<"E", IF e < 0 THEN "-" ELSE "+">>
                     \o Numeral(IF e < 0 THEN -e ELSE e)

Adjust3(e) == e % 3

FiniteText(n, eng) ==
    LET ds    == Numeral(n.coef)
        plain == n.exp <= 0 /\ Len(ds) + n.exp >= -5
        e     == n.exp + Len(ds) - 1
        adj   == IF eng THEN Adjust3(e) ELSE 0
    IN  IF n.exp = 0 THEN ds
        ELSE IF plain THEN Laid(ds, Len(ds) + n.exp)
        ELSE IF IsZero(n) /\ adj # 0 THEN Laid(ds, adj - 2) \o EPart(e - adj + 3)
        ELSE Laid(ds, 1 + adj) \o EPart(e - adj)

ToText(n, eng) ==
    (IF n.neg THEN <<"-">> ELSE <<>>)
    \o CASE n.kind = "inf" -> <<"I", "n", "f", "i", "n", "i", "t", "y">>
         [] IsNaN(n) -> (IF n.kind = "snan" THEN <<"s">> ELSE <<>>)
                        \o <<"N", "a", "N">>
                        \o (IF n.coef = 0 THEN <<>> ELSE Numeral(n.coef))
         [] OTHER -> FiniteText(n, eng)

(***************************************************************************)
(* decNumberFromString: a sign, digits with at most one point, then an     *)
(* exponent; or, if there was no digit and no point, a special value.      *)
(***************************************************************************)
From(t, p) == SubSeq(t, p, Len(t))

Start(t) == IF t # <<>> /\ t[1] \in {"-", "+"} THEN 2 ELSE 1

\* where the digits and the first point end
Stop(t) ==
    Min({p \in Start(t)..(Len(t) + 1) :
            \/ p > Len(t)
            \/ ~IsDigit(t[p])
               /\ ~(t[p] = "." /\ \A q \in Start(t)..(p - 1) : t[q] # ".")})

Mantissa(t) == SubSeq(t, Start(t), Stop(t) - 1)
HasDot(t) == \E i \in DOMAIN Mantissa(t) : Mantissa(t)[i] = "."
Dot(t) == CHOOSE i \in DOMAIN Mantissa(t) : Mantissa(t)[i] = "."

\* digits behind the point
Fraction(t) == IF HasDot(t) THEN Len(Mantissa(t)) - Dot(t) ELSE 0

AllDigits(t) ==
    IF HasDot(t)
    THEN SubSeq(Mantissa(t), 1, Dot(t) - 1)
         \o SubSeq(Mantissa(t), Dot(t) + 1, Len(Mantissa(t)))
    ELSE Mantissa(t)

Syntax == Failed(Finite(FALSE, 0, 0), {"Conversion_syntax"})

\* caseless, letter by letter
Spells(t, upper, lower) ==
    /\ Len(t) = Len(upper)
    /\ \A i \in DOMAIN t : t[i] \in {upper[i], lower[i]}

IsInfinityText(t) ==
    \/ Spells(t, <<"I", "N", "F">>, <<"i", "n", "f">>)
    \/ Spells(t, <<"I", "N", "F", "I", "N", "I", "T", "Y">>,
                 <<"i", "n", "f", "i", "n", "i", "t", "y">>)

\* a coefficient that fits needs no cut, but may be out of range
Settled(n, set) ==
    LET d == Digits(n.coef)
    IN  IF d > set.digits THEN Fitted(n, set)
        ELSE IF n.exp - 1 < set.emin - d \/ n.exp - 1 > set.emax - set.digits
             THEN Finalize(Plain(n), set)
        ELSE Plain(n)

\* a diagnostic, of which a clamped context takes one digit less
SpecialValue(rest, neg, set) ==
    LET signal == rest[1] \in {"s", "S"}
        name   == From(rest, IF signal THEN 2 ELSE 1)
        chars  == From(name, 4)
        first  == Min({i \in 1..(Len(chars) + 1) :
                          i > Len(chars) \/ chars[i] # "0"})
        kept   == From(chars, first)
        room   == IF set.clamp THEN set.digits - 1 ELSE set.digits
    IN  IF IsInfinityText(rest) THEN Plain(Special("inf", neg))
        ELSE IF ~Spells(SubSeq(name, 1, Min({3, Len(name)})),
                        <<"N", "A", "N">>, <<"n", "a", "n">>)
                \/ (\E i \in DOMAIN kept : ~IsDigit(kept[i]))
                \/ Len(kept) > room
        THEN Syntax
        ELSE LET nan == Special(IF signal THEN "snan" ELSE "nan", neg)
             IN  IF kept = <<>> THEN Plain(nan)
                 ELSE Settled([nan EXCEPT !.coef = NumberOf(kept)], set)

\* a number too long for ten digits surely overflows: 2 * DECNUMMAXE
ExponentOf(tail) ==
    LET signed == tail # <<>> /\ tail[1] \in {"-", "+"}
        digits == IF signed THEN From(tail, 2) ELSE tail
        first  == Min({i \in 1..(Len(digits) + 1) :
                          i >= Len(digits) \/ digits[i] # "0"})
        kept   == From(digits, first)
        wraps  == Len(kept) > 10 \/ (Len(kept) = 10 /\ DigitOf(kept[1]) > 1)
        size   == IF wraps THEN 1999999998 ELSE NumberOf(kept)
    IN  IF kept = <<>> \/ (\E i \in DOMAIN kept : ~IsDigit(kept[i]))
        THEN NotAnInt
        ELSE [ok |-> TRUE, value |-> Negated(size, signed /\ tail[1] = "-")]

\* mutant: the exponent is not lowered by the digits behind the point
AssembledUnscaled(t, exponent, set) ==
    Settled(Finite(t[1] = "-", NumberOf(AllDigits(t)), exponent), set)

Assembled(t, exponent, set) ==
    Settled(Finite(t[1] = "-", NumberOf(AllDigits(t)), exponent - Fraction(t)),
            set)

FromText(t, set) ==
    LET rest == From(t, Stop(t))
        e    == ExponentOf(From(rest, 2))
    IN  IF AllDigits(t) = <<>>
        THEN IF rest = <<>> \/ HasDot(t) THEN Syntax
             ELSE SpecialValue(rest, Start(t) = 2 /\ t[1] = "-", set)
        ELSE IF rest = <<>> THEN Assembled(t, 0, set)
        ELSE IF rest[1] \notin {"e", "E"} \/ ~e.ok THEN Syntax
        ELSE Assembled(t, e.value, set)

(***************************************************************************)
(* Binary integers.  The most negative one is let through by itself.       *)
(***************************************************************************)
FromInt(i) == Finite(i < 0, IF i < 0 THEN -i ELSE i, 0)

NotBinary == [value |-> 0, status |-> {"Invalid_operation"}]
Binary(i) == [value |-> i, status |-> {}]

ToInt(n) ==
    LET hi == n.coef \div 10
        lo == n.coef % 10
    IN  IF IsSpecial(n) \/ Digits(n.coef) > IntDigits \/ n.exp # 0
        THEN NotBinary
        ELSE IF hi > IntHi \/ (hi = IntHi /\ lo > 7)
             THEN IF n.neg /\ hi = IntHi /\ lo = 8
                  THEN Binary(-(10 * IntHi + 8)) ELSE NotBinary
        ELSE Binary(Negated(n.coef, n.neg))

ToUInt(n) ==
    LET hi == n.coef \div 10
    IN  IF IsSpecial(n) \/ Digits(n.coef) > IntDigits \/ n.exp # 0
           \/ (n.neg /\ ~IsZero(n))
           \/ hi > UIntHi \/ (hi = UIntHi /\ n.coef % 10 > 5)
        THEN NotBinary
        ELSE Binary(n.coef)

=============================================================================
