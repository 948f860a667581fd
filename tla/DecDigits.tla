----------------------------- MODULE DecDigits ------------------------------
(***************************************************************************)
(* Operations on the digits of a coefficient (decNumber.c): the logical    *)
(* ones, whose operands are rows of 0 and 1, shift and rotate, done on the *)
(* Unit array, and the conversions to and from one digit per byte.         *)
(***************************************************************************)
EXTENDS DecQuantum

DigitAt(c, i) == (c \div powers[i]) % 10

\* digits from the least significant one
FromDigits(ds) == Number(10, ds)

Reversed(s) == [i \in 1..Len(s) |-> s[Len(s) + 1 - i]]

(***************************************************************************)
(* decNumberAnd, Or, Xor and Invert look at the low set.digits digits.     *)
(***************************************************************************)
IsRow(n) == n.kind = "finite" /\ ~n.neg /\ n.exp = 0

Bits(n, set) == [i \in 1..set.digits |-> DigitAt(n.coef, i - 1)]

AllBits(ds) == \A i \in DOMAIN ds : ds[i] <= 1

Bit(op, a, b) == CASE op = "And" -> a * b
                   [] op = "Or"  -> IF a + b > 0 THEN 1 ELSE 0
                   [] op = "Xor" -> (a + b) % 2

Logical(op, l, r, set) ==
    LET a == Bits(l, set)
        b == Bits(r, set)
    IN  IF ~IsRow(l) \/ ~IsRow(r) THEN Invalid(l, Plain(l))
        ELSE IF ~AllBits(a) \/ ~AllBits(b) THEN Invalid(l, Plain(l))
        ELSE Plain(Finite(FALSE,
                 FromDigits([i \in DOMAIN a |-> Bit(op, a[i], b[i])]), 0))

Invert(n, set) ==
    LET a == Bits(n, set)
    IN  IF ~IsRow(n) \/ ~AllBits(a) THEN Invalid(n, Plain(n))
        ELSE Plain(Finite(FALSE, FromDigits([i \in DOMAIN a |-> 1 - a[i]]), 0))

(***************************************************************************)
(* decNumberRotate turns the coefficient, seen as set.digits digits, to    *)
(* the right within its Units: a shift by part of a Unit, a shift of the   *)
(* lower Units alone, so that the new first digit sits right, and whole    *)
(* Units by three reversals.                                               *)
(***************************************************************************)

\* the digits shifted out are put above the first digit; they may have to be
\* split between the top Unit and the one below
PartialTurn(units, shift, msudigits) ==
    LET top   == Len(units)
        save  == units[1] % powers[shift]
        down  == ShiftToLeast(units, top, shift)
        over  == shift - msudigits
    IN  IF shift = 0 THEN units
        ELSE IF over > 0
             THEN [down EXCEPT ![top] = save \div powers[over],
                               ![top - 1] = @ + (save % powers[over]) * powers[DPUN - over]]
             ELSE [down EXCEPT ![top] = @ + save * powers[-over]]

AlignTurn(units, whole, msudigits) ==
    LET shift == DPUN - msudigits
        save  == units[1] % powers[shift]
    IN  IF shift = 0 THEN units
        ELSE [ShiftToLeast(units, whole, shift)
                 EXCEPT ![Len(units)] = @ + save * powers[msudigits]]

\* mutant: the right part is not reversed on its own
WholeTurnTwoReversals(units, whole) ==
    ReversePart(ReversePart(units, whole + 1, Len(units)), 1, Len(units))

WholeTurn(units, whole) ==
    LET left  == ReversePart(units, whole + 1, Len(units))
        right == ReversePart(left, 1, whole)
    IN  ReversePart(right, 1, Len(units))

RotateRight(c, digits, right) ==
    LET units == ToUnits(c, D2U(digits))
        msud  == MSUDigits(digits)
        whole == right \div DPUN
        part  == PartialTurn(units, right % DPUN, msud)
    IN  IF whole = 0 THEN Value(part)
        ELSE Value(WholeTurn(AlignTurn(part, whole, msud), whole))

\* the right operand of rotate and shift
CountOf(r, set) ==
    LET n == GetInt(r)
    IN  IF r.kind = "inf" \/ r.exp # 0 \/ ~n.ok
           \/ n.value \notin (-set.digits)..set.digits THEN NotAnInt ELSE n

Rotate(l, r, set) ==
    LET n    == CountOf(r, set)
        left == IF n.value < 0 THEN set.digits + n.value ELSE n.value
    IN  IF IsNaN(l) \/ IsNaN(r) THEN NaNs(l, r, set)
        ELSE IF ~n.ok THEN Invalid(l, Plain(l))
        ELSE IF left \in {0, set.digits} \/ l.kind = "inf" THEN Plain(l)
        ELSE Plain([l EXCEPT !.coef = RotateRight(@, set.digits,
                                                  set.digits - left)])

(***************************************************************************)
(* decNumberShift: to the left the digits that would not fit are cut off   *)
(* first (decDecap); to the right they fall off.                           *)
(***************************************************************************)
Decap(n, drop) ==
    IF drop >= Digits(n.coef) THEN [n EXCEPT !.coef = 0]
    ELSE [n EXCEPT !.coef = @ % powers[Digits(n.coef) - drop]]

ShiftLeft(n, by, set) ==
    LET excess == Digits(n.coef) + by - set.digits
        cut    == IF excess > 0 THEN Decap(n, excess) ELSE n
    IN  IF by = set.digits THEN [n EXCEPT !.coef = 0]
        ELSE IF IsZero(cut) THEN cut
        ELSE [cut EXCEPT !.coef = Value(ShiftToMost(UnitsOf(cut),
                                                    Digits(cut.coef), by))]

\* what remains has fewer digits, counted, not measured
ShiftRight(n, by) ==
    LET used == D2U(Digits(n.coef))
        left == Digits(n.coef) - by
    IN  IF left <= 0 THEN [n EXCEPT !.coef = 0]
        ELSE [n EXCEPT !.coef = Value(SubSeq(
                 ShiftToLeast(UnitsOf(n), used, by), 1, D2U(left)))]

Shift(l, r, set) ==
    LET n == CountOf(r, set)
    IN  IF IsNaN(l) \/ IsNaN(r) THEN NaNs(l, r, set)
        ELSE IF ~n.ok THEN Invalid(l, Plain(l))
        ELSE IF n.value = 0 \/ l.kind = "inf" THEN Plain(l)
        ELSE IF n.value > 0 THEN Plain(ShiftLeft(l, n.value, set))
        ELSE Plain(ShiftRight(l, -n.value))

(***************************************************************************)
(* decNumberGetBCD and SetBCD.  The latter counts the Units to fill from   *)
(* the digits the number had before: with more Units than that the low     *)
(* bytes are never read, with fewer it reads bytes behind the array.       *)
(***************************************************************************)
GetBCD(n) == [i \in 1..Digits(n.coef) |-> DigitAt(n.coef, Digits(n.coef) - i)]

SetBCDFits(n, bcd) == D2U(Digits(n.coef)) = D2U(Len(bcd))

SetBCD(n, bcd) == [n EXCEPT !.coef = FromDigits(Reversed(bcd))]

=============================================================================
