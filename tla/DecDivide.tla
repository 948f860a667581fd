------------------------------ MODULE DecDivide -----------------------------
(***************************************************************************)
(* decDivideOp (decNumber.c): divide, divideInteger, remainder and         *)
(* remainderNear by one long division, Unit by Unit, in which the          *)
(* multiplier of each subtraction is guessed from the top two Units.       *)
(*                                                                         *)
(* The arrays var1 (what is left of the dividend, aligned with the most    *)
(* significant Unit) and acc (the quotient) are abstracted to the integers *)
(* they hold; how many Units they have room for is kept, and so are the    *)
(* position var2ulen at which the divisor is virtually padded, and whether *)
(* msu1 has been left behind on a Unit that var1 no longer has.  The       *)
(* result is written last, so it may share its place with an operand.      *)
(***************************************************************************)
EXTENDS DecRound

CONSTANT Families    \* the calls made: sets of operations, contexts, operands

Ops == {"DIVIDE", "DIVIDEINT", "REMAINDER", "REMNEAR"}

Units(n) == D2U(Digits(n))
Unit(n, i) == (n \div powers[DPUN * i]) % Base    \* the i-th, from the least

VARIABLES
    op, lhs, rhs, set,    \* the call
    pc,                   \* what comes next
    bits,                 \* sign of the result
    var1,                 \* what is left to divide
    stale,                \* var1 was set to 0, but msu1 is where it was
    var2ulen,             \* length of the padded divisor, in Units
    var1initpad,          \* digits of padding below the dividend
    thisunit,             \* the Unit of the quotient being built
    acc, accunits,        \* the Units accumulated so far
    exponent,             \* working exponent
    res, residue, status  \* the result

call == <<op, lhs, rhs, set>>
division == <<bits, var1, stale, var2ulen, var1initpad, thisunit, acc, accunits,
              exponent>>
vars == <<call, pc, division, res, residue, status>>

Dividing == op = "DIVIDE"
IsRemainder == op \in {"REMAINDER", "REMNEAR"}
reqdigits == set.digits
var2units == Units(rhs.coef)

Init ==
    /\ \E f \in Families :
           /\ op \in f.ops /\ set \in f.contexts
           /\ lhs \in f.lhs /\ rhs \in f.rhs
    /\ pc = "start"
    /\ bits = FALSE /\ var1 = 0 /\ stale = FALSE /\ var2ulen = 0 /\ var1initpad = 0
    /\ thisunit = 0 /\ acc = 0 /\ accunits = 0 /\ exponent = 0
    /\ res = Finite(FALSE, 0, 0) /\ residue = 0 /\ status = {}

sign == lhs.neg # rhs.neg

Deliver(n, flags) ==
    /\ res' = n
    /\ status' = flags
    /\ pc' = "report"
    /\ UNCHANGED <<call, division, residue>>

\* the result is written, and decFinish or decFinalize is called for it
ToFinish(w) ==
    /\ res' = w.dn
    /\ residue' = w.residue
    /\ status' = w.status
    /\ pc' = "finish"
    /\ UNCHANGED <<call, division>>

\* decCopyFit: the result is the dividend itself
CopyLhs == ToFinish(SetCoeff(Work(lhs, 0, {}), set))

(***************************************************************************)
(* Special values and zeros.                                               *)
(***************************************************************************)
NaNOperand ==
    /\ pc = "start" /\ (IsNaN(lhs) \/ IsNaN(rhs))
    /\ Deliver(QuietNaN(lhs, rhs, set), NaNStatus(lhs, rhs))

InfiniteDividend ==
    /\ pc = "start" /\ lhs.kind = "inf" /\ ~IsNaN(rhs)
    /\ IF rhs.kind = "inf" \/ IsRemainder
       THEN Deliver(res, {"Invalid_operation"})
       ELSE Deliver(Special("inf", sign), {})

InfiniteDivisor ==
    /\ pc = "start" /\ ~IsSpecial(lhs) /\ rhs.kind = "inf"
    /\ \/ IsRemainder /\ CopyLhs
       \/ op = "DIVIDEINT" /\ ToFinish(Work(Finite(sign, 0, 0), 0, {}))
       \/ Dividing /\ ToFinish(Work(Finite(sign, 0, Etiny(set)), 0,
                                           {"Clamped"}))

BothFinite == pc = "start" /\ ~IsSpecial(lhs) /\ ~IsSpecial(rhs)

\* a mistake: zero by zero is taken for a division by zero
ZeroDivisorAlways ==
    /\ BothFinite /\ IsZero(rhs)
    /\ IF IsRemainder
       THEN Deliver(Finite(FALSE, 0, 0), {"Invalid_operation"})
       ELSE Deliver(Special("inf", sign), {"Division_by_zero"})

ZeroDivisor ==
    /\ BothFinite /\ IsZero(rhs)
    /\ IF IsZero(lhs) THEN Deliver(Finite(FALSE, 0, 0), {"Division_undefined"})
       ELSE IF IsRemainder
       THEN Deliver(Finite(FALSE, 0, 0), {"Invalid_operation"})
       ELSE Deliver(Special("inf", sign), {"Division_by_zero"})

ZeroDividend ==
    /\ BothFinite /\ IsZero(lhs) /\ ~IsZero(rhs)
    /\ \/ /\ Dividing
          /\ ToFinish(Work(Finite(sign, 0, lhs.exp - rhs.exp), 0, {}))
       \/ op = "DIVIDEINT" /\ Deliver(Finite(sign, 0, 0), {})
       \/ /\ IsRemainder
          /\ Deliver([lhs EXCEPT !.exp = IF rhs.exp < @ THEN rhs.exp ELSE @], {})

BothNonZero == BothFinite /\ ~IsZero(lhs) /\ ~IsZero(rhs)

adjusted == (lhs.exp + Digits(lhs.coef)) - (rhs.exp + Digits(rhs.coef))

\* a quotient known to be less than one (or one half) needs no division
LhsIsRemainder ==
    /\ IsRemainder /\ adjusted < 0 /\ lhs.exp <= rhs.exp
    /\ op = "REMAINDER" \/ adjusted < -1

QuotientBelowOne ==
    /\ BothNonZero
    /\ \/ op = "DIVIDEINT" /\ adjusted < 0 /\ Deliver(Finite(sign, 0, 0), {})
       \/ LhsIsRemainder /\ CopyLhs

(***************************************************************************)
(* Setting up.  The dividend is aligned with the top of var1.  An integer  *)
(* division is shifted down so that the units of the quotient end on a     *)
(* Unit boundary; a division skips a first Unit that would be zero.        *)
(***************************************************************************)

\* a mistake: room for one leading zero Unit less
var1unitsTight ==
    LET slide == Digits(rhs.coef) + reqdigits - 1
        maxdigits == IF Digits(lhs.coef) > slide THEN Digits(lhs.coef) ELSE slide
    IN  D2U(maxdigits) + (IF Dividing THEN 0 ELSE 1)

var1units ==
    LET slide == Digits(rhs.coef) + reqdigits - 1
        maxdigits == IF Digits(lhs.coef) > slide THEN Digits(lhs.coef) ELSE slide
    IN  D2U(maxdigits) + 2 + (IF Dividing THEN 0 ELSE 1)

\* the digits in the most significant Unit, which is where both start
TopUnit(n) == Unit(n, Units(n) - 1)

StartExponent == adjusted - (Digits(TopUnit(lhs.coef)) - 1)
                          + (Digits(TopUnit(rhs.coef)) - 1)

ToUnitBoundary(e) == IF e < 0 THEN -e ELSE DPUN - (e % DPUN)

SetUp ==
    LET pad  == (var1units - Units(lhs.coef)) * DPUN
        cut  == ToUnitBoundary(StartExponent)
        skip == TopUnit(lhs.coef) < TopUnit(rhs.coef)
    IN  /\ BothNonZero
        /\ ~(op = "DIVIDEINT" /\ adjusted < 0) /\ ~LhsIsRemainder
        /\ bits' = sign
        /\ IF Dividing
           THEN /\ var1' = lhs.coef * powers[pad]
                /\ var2ulen' = IF skip THEN var1units - 1 ELSE var1units
                /\ exponent' = IF skip THEN StartExponent - DPUN ELSE StartExponent
                /\ UNCHANGED var1initpad
           ELSE /\ var1' = IF cut <= pad THEN lhs.coef * powers[pad - cut]
                           ELSE lhs.coef \div powers[cut - pad]
                /\ var2ulen' = var1units
                /\ exponent' = StartExponent + cut
                /\ var1initpad' = pad - cut
        /\ thisunit' = 0
        /\ pc' = "divide"
        /\ UNCHANGED <<call, stale, acc, accunits, res, residue, status>>

(***************************************************************************)
(* The inner loop: subtract a guessed multiple of the divisor until what   *)
(* is left is smaller.  The guess divides the top two Units by the top of  *)
(* the divisor plus one unless that is exact, so it is never too large.    *)
(***************************************************************************)
\* the virtual padding of the divisor, and how var1 compares with it
Padding == powers[DPUN * (var2ulen - var2units)]

LongEnough == Units(var1) >= var2ulen
IsAligned == LongEnough /\ var1 \div Padding = rhs.coef /\ var1 % Padding = 0
Covers == LongEnough /\ var1 \div Padding >= rhs.coef /\ ~IsAligned

msu2plus == TopUnit(rhs.coef) + (IF var2units > 1 THEN 1 ELSE 0)

msu2pair ==
    TopUnit(rhs.coef) * Base
    + (IF var2units > 1 THEN Unit(rhs.coef, var2units - 2) ELSE 0)
    + (IF var2units > 2 THEN 1 ELSE 0)

\* with a single Unit the code would read the one below the array
TopTwo(n) == IF Units(n) = 1 THEN n * Base ELSE n \div powers[DPUN * (Units(n) - 2)]

\* a mistake: a guess that is rounded down to nothing is kept
GuessMayBeZero ==
    TopTwo(var1) \div (IF Units(var1) = var2ulen THEN msu2pair ELSE msu2plus)

Guess ==
    LET divisor == IF Units(var1) = var2ulen THEN msu2pair ELSE msu2plus
        mult == TopTwo(var1) \div divisor
    IN  IF mult = 0 THEN 1 ELSE mult

Subtract ==
    /\ pc = "divide" /\ Covers
    /\ var1' = var1 - Guess * rhs.coef * Padding
    /\ thisunit' = thisunit + Guess
    /\ UNCHANGED <<call, pc, bits, stale, var2ulen, var1initpad, acc, accunits,
                   exponent, res, residue, status>>

\* a mistake: what was equal to the divisor is left in var1
UnitCompleteKeepsVar1 ==
    /\ pc = "divide" /\ ~Covers
    /\ thisunit' = thisunit + (IF IsAligned THEN 1 ELSE 0)
    /\ pc' = "accumulate"
    /\ UNCHANGED <<call, bits, var1, stale, var2ulen, var1initpad, acc, accunits,
                   exponent, res, residue, status>>

\* Equal to the divisor: only the length of var1 and its least Unit are reset,
\* and msu1 is not.  As long as the divisor once more, var1 is compared from
\* there, with its old Units, and taken to be equal again.
TakenForEqual == IsAligned \/ (stale /\ var2ulen = 1)

UnitComplete ==
    /\ pc = "divide" /\ ~Covers
    /\ IF TakenForEqual
       THEN /\ thisunit' = thisunit + 1 /\ var1' = 0
            /\ stale' = (stale \/ var2ulen > 1)
       ELSE UNCHANGED <<thisunit, var1, stale>>
    /\ pc' = "accumulate"
    /\ UNCHANGED <<call, bits, var2ulen, var1initpad, acc, accunits, exponent,
                   res, residue, status>>

(***************************************************************************)
(* The outer loop: keep the Unit, unless it is a leading zero, and go on   *)
(* with the next one until there are digits enough, or nothing is left, or *)
(* the units of an integer quotient are done.                              *)
(***************************************************************************)
accdigits == Digits(acc)

maxexponent == lhs.exp - rhs.exp

\* a leading zero is not kept, and does not count as digits
Accumulated ==
    IF accunits = 0 /\ thisunit = 0
    THEN [acc |-> 0, units |-> 0, digits |-> 0]
    ELSE LET a == acc * Base + thisunit
         IN  [acc |-> a, units |-> accunits + 1, digits |-> Digits(a)]

\* a mistake: no digit is kept for rounding
EnoughAtPrecision(digits) ==
    \/ digits >= reqdigits
    \/ var1 = 0 /\ IsRemainder
    \/ var1 = 0 /\ Dividing /\ exponent <= maxexponent
    \/ exponent = 0 /\ ~Dividing

Enough(digits) ==
    \/ digits > reqdigits
    \/ var1 = 0 /\ IsRemainder
    \/ var1 = 0 /\ Dividing /\ exponent <= maxexponent
    \/ exponent = 0 /\ ~Dividing

Accumulate ==
    /\ pc = "accumulate"
    /\ acc' = Accumulated.acc
    /\ accunits' = Accumulated.units
    /\ IF Enough(Accumulated.digits)
       THEN /\ pc' = "complete"
            /\ UNCHANGED <<var2ulen, exponent>>
       ELSE /\ pc' = "divide"
            /\ var2ulen' = var2ulen - 1
            /\ exponent' = exponent - DPUN
    /\ thisunit' = 0
    /\ UNCHANGED <<call, bits, var1, stale, var1initpad, res, residue, status>>

(***************************************************************************)
(* The division is complete.  A quotient that is exact loses the trailing  *)
(* zeros of its last Unit, as long as its exponent is below the ideal one. *)
(***************************************************************************)
Drop ==
    LET lsu == acc % Base
        room == maxexponent - exponent
    IN  IF lsu = 0 THEN 0
        ELSE CHOOSE d \in 0..DPUN :
                 /\ d = 0 \/ (d <= room /\ lsu % powers[d] = 0)
                 /\ d >= room \/ lsu % powers[d + 1] # 0

CompleteDivide ==
    LET drop == IF var1 = 0 THEN Drop ELSE 0
        w == SetCoeff(Work(Finite(bits, acc \div powers[drop], exponent + drop),
                           IF var1 = 0 THEN 0 ELSE 1, {}), set)
    IN  /\ pc = "complete" /\ Dividing
        /\ ToFinish(w)

Impossible == accdigits + exponent > reqdigits

CompleteInteger ==
    /\ pc = "complete" /\ op = "DIVIDEINT"
    /\ IF Impossible THEN Deliver(res, {"Division_impossible"})
       ELSE ToFinish(SetCoeff(Work(Finite(bits, acc, exponent), 0, {}),
                                     set))

(***************************************************************************)
(* Remainders: what is left in var1, without the padding, has the lower    *)
(* exponent of the operands and the sign of the dividend.  The near one is *)
(* made negative if it is more than half the divisor, or half and the      *)
(* quotient odd, as if the quotient had been rounded up; which is          *)
(* impossible if that would need another digit.                            *)
(***************************************************************************)
lowexp == IF rhs.exp < lhs.exp THEN rhs.exp ELSE lhs.exp

postshift ==
    LET var2pad == var1initpad + exponent - lhs.exp + rhs.exp
    IN  IF var1initpad < var2pad THEN var1initpad ELSE var2pad

remainder == var1 \div powers[postshift]
divisor == rhs.coef * powers[rhs.exp - lowexp]

RoundsQuotientUp ==
    \/ 2 * remainder > divisor
    \/ 2 * remainder = divisor /\ acc % 2 = 1

\* a mistake: a full quotient is rounded up to one with another digit
AllNinesIgnored == FALSE

AllNines == accdigits = reqdigits /\ acc = powers[reqdigits] - 1

DeliverRemainder(neg, coef) ==
    ToFinish(SetCoeff(Work(Finite(neg, coef, lowexp), 0, {}), set))

CompleteRemainder ==
    /\ pc = "complete" /\ IsRemainder
    /\ IF Impossible THEN Deliver(res, {"Division_impossible"})
       ELSE IF var1 = 0
       THEN ToFinish(Work(Finite(lhs.neg, 0, lowexp), 0, {}))
       ELSE IF op = "REMAINDER" \/ ~RoundsQuotientUp
       THEN DeliverRemainder(lhs.neg, remainder)
       ELSE IF AllNines THEN Deliver(res, {"Division_impossible"})
       ELSE DeliverRemainder(~lhs.neg, divisor - remainder)

Finish ==
    /\ pc = "finish"
    /\ LET w == Finalize(Work(res, residue, status), set)
       IN  res' = w.dn /\ residue' = w.residue /\ status' = w.status
    /\ pc' = "report"
    /\ UNCHANGED <<call, division>>

(***************************************************************************)
(* decStatus, called by the routines around decDivideOp.                   *)
(***************************************************************************)
Report ==
    /\ pc = "report"
    /\ res' = AfterStatus(res, status)
    /\ status' = status \ {"sNaN"}
    /\ pc' = "done"
    /\ UNCHANGED <<call, division, residue>>

Next ==
    \/ NaNOperand \/ InfiniteDividend \/ InfiniteDivisor
    \/ ZeroDivisor \/ ZeroDividend \/ QuotientBelowOne
    \/ SetUp \/ Subtract \/ UnitComplete \/ Accumulate
    \/ CompleteDivide \/ CompleteInteger \/ CompleteRemainder
    \/ Finish \/ Report

Spec == Init /\ [][Next]_vars /\ WF_vars(Next)

=============================================================================
