------------------------------- MODULE DecNum -------------------------------
(***************************************************************************)
(* Decimal numbers and the context of an operation (decNumber.h,           *)
(* decContext.h).  A decNumber is a sign, a coefficient, an exponent and   *)
(* special bits; its array of Units is abstracted to the integer it holds, *)
(* and digits to the length of that integer, which is what decGetDigits    *)
(* keeps it at.                                                            *)
(***************************************************************************)
EXTENDS Integers

\* powers[n] is 10**n.  The table of the code, DECPOWERS, ends at 9: a longer
\* shift also moves whole Units.
powers[n \in Nat] == IF n = 0 THEN 1 ELSE 10 * powers[n - 1]

Modes == {"UP", "DOWN", "CEILING", "FLOOR", "HALF_UP", "HALF_DOWN",
          "HALF_EVEN", "05UP"}

\* DEC_NaNs: the flags that make the result a NaN
NaNFlags == {"Invalid_operation", "Division_impossible", "Division_undefined",
             "Conversion_syntax", "Insufficient_storage", "Invalid_context"}

Flags == NaNFlags \cup {"Inexact", "Rounded", "Subnormal", "Underflow",
                        "Overflow", "Clamped", "Division_by_zero", "sNaN"}

Kinds == {"finite", "inf", "nan", "snan"}

Numbers == [kind : Kinds, neg : BOOLEAN, coef : Nat, exp : Int]

Finite(neg, coef, exp) ==
    [kind |-> "finite", neg |-> neg, coef |-> coef, exp |-> exp]

\* decNumberZero, then the special bit and the sign
Special(kind, neg) == [kind |-> kind, neg |-> neg, coef |-> 0, exp |-> 0]

IsNaN(n) == n.kind \in {"nan", "snan"}
IsSpecial(n) == n.kind # "finite"
IsZero(n) == n.kind = "finite" /\ n.coef = 0

\* decGetDigits: leading zeros are not counted, but a zero has one digit
Digits(c) ==
    IF c = 0 THEN 1
    ELSE CHOOSE d \in 1..(9 + c \div powers[9]) : c \div powers[d - 1] \in 1..9

(***************************************************************************)
(* decNaNs: the result is the first signalling NaN made quiet, else the    *)
(* first NaN, with its sign and as much of its payload as fits.            *)
(***************************************************************************)
NaNSource(l, r) ==
    IF l.kind = "snan" THEN l
    ELSE IF r.kind = "snan" THEN r
    ELSE IF l.kind = "nan" THEN l ELSE r

QuietNaN(l, r, set) ==
    LET n == NaNSource(l, r)
    IN  [kind |-> "nan", neg |-> n.neg, coef |-> n.coef % powers[set.digits], exp |-> 0]

NaNStatus(l, r) ==
    IF NaNSource(l, r).kind = "snan" THEN {"Invalid_operation", "sNaN"} ELSE {}

(***************************************************************************)
(* decStatus: an invalid operation makes the result a NaN, unless decNaNs  *)
(* has, which DEC_sNaN tells.                                              *)
(***************************************************************************)
AfterStatus(n, status) ==
    IF status \cap NaNFlags # {} /\ "sNaN" \notin status
    THEN Special("nan", FALSE) ELSE n

(***************************************************************************)
(* A decContext: precision, exponent range, rounding mode, IEEE clamping.  *)
(***************************************************************************)
\* what decContext.h allows; decContextDefault asks for clamping only with the
\* IEEE formats, in which a coefficient of all nines has no negative exponent
\* when it is as large as can be
IsContext(set) ==
    /\ set \in [digits : Nat \ {0}, emin : Int, emax : Int, round : Modes,
                clamp : BOOLEAN]
    /\ set.emin <= 0 /\ 0 <= set.emax
    /\ set.clamp => set.digits <= set.emax + 1

Etiny(set) == set.emin - (set.digits - 1)
Etop(set)  == set.emax - (set.digits - 1)

=============================================================================
