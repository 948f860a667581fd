---------------------------- MODULE DecAddCorrect ---------------------------
(***************************************************************************)
(* What a call of decAddOp must deliver, against the reference definition  *)
(* of correctly rounded arithmetic.                                        *)
(***************************************************************************)
EXTENDS DecAdd, DecReference

\* Calls of decAddOp by its own routines, not by others that reuse it, with numbers
\* and contexts of any size; the flags a context holds are those that
\* Report puts there
ASSUME FamiliesAssumption ==
    \A f \in Families :
        /\ f.calls \subseteq [routine : Routines, lhs : Slots,
                              res : Slots \ {"dzero"}, rhs : Slots \ {"dzero"}]
        /\ \A s \in f.contexts : IsContext(s)
        /\ f.lhs \subseteq Numbers /\ f.rhs \subseteq Numbers
        /\ f.earlier \subseteq SUBSET (Flags \ {"sNaN"})

\* the operands as they were given, the right one negated if need be
A == given.lhs
B == [given.rhs EXCEPT !.neg = Xor(@, negate)]

Signed(n, q) == (IF n.neg THEN -1 ELSE 1) * n.coef * powers[n.exp - q]

ExactExp == Min({A.exp, B.exp})
ExactSum == Signed(A, ExactExp) + Signed(B, ExactExp)
Magnitude == IF ExactSum < 0 THEN -ExactSum ELSE ExactSum

Done == pc = "done"
FiniteOperands == ~IsSpecial(A) /\ ~IsSpecial(B)

\* An operand longer than the precision and two more digits, and so much larger
\* than the other that decAddOp takes the other for a residue (decNumber.c:3948),
\* can be cut to half a unit and the residue then count for more than it is: with
\* a precision of 1, 1495 + 9.9 gives 1E+3.  And with a precision of 1 the mode
\* 05UP, and the flags below Nmin, need a digit that is no longer there.  The
\* promises below are for all other calls.
Supported == /\ set.digits > 1
             /\ Digits(A.coef) <= set.digits + 2
             /\ Digits(B.coef) <= set.digits + 2

\* Every variable keeps its type at every step of a call, and a coefficient
\* its length within what the arrays are allocated for.
TypeOK ==
    /\ \A s \in Slots :
           /\ mem[s].kind \in Kinds /\ mem[s].neg \in BOOLEAN
           /\ mem[s].coef \in Nat /\ mem[s].exp \in Int
    /\ \E f \in Families : call \in f.calls /\ set \in f.contexts
    /\ pc \in {"call", "add", "pad", "finish", "finishSum", "report", "done"}
    /\ negate \in BOOLEAN /\ diffsign \in BOOLEAN
    /\ zexp \in Int /\ residue \in -1..9
    /\ status \subseteq Flags /\ ctxStatus \subseteq Flags \ {"sNaN"}

\* Within the lengths Supported names, adding two finite numbers gives the exact
\* sum rounded once in the context's mode, whichever of the exits of decAddOp was
\* taken, whatever residue stands for the digits dropped, and whether or not the
\* result overwrites an operand; a sum that is exactly zero has the lower
\* exponent, clamped to the context, and the sign of the operands if they agree,
\* else it is negative only when rounding to -Infinity (decAddOp, decFinalize;
\* decNumber.c:4123).
CorrectlyRounded ==
    Done /\ FiniteOperands /\ Supported
        => res = IF ExactSum # 0
                 THEN Delivered(ExactSum < 0, Magnitude, ExactExp, set)
                 ELSE FitZero(IF A.neg = B.neg THEN A.neg ELSE set.round = "FLOOR",
                              ExactExp, set)

InfinitiesCancel == A.kind = "inf" /\ B.kind = "inf" /\ A.neg # B.neg

\* The status tells exactly what was lost: Inexact, Rounded, Subnormal,
\* Underflow, Overflow and Clamped are raised when their reason is there and
\* not otherwise, on every path through decAddOp, decSetCoeff and decFinalize.
\* Of special values only a signalling NaN or cancelling infinities raise
\* Invalid_operation, and the result is a NaN, always a quiet one, exactly if
\* an operand is or the infinities cancel (decNaNs, decStatus).
FlagsTellLoss ==
    Done => IF FiniteOperands
            THEN Supported
                    => status = FlagsFor(ExactSum < 0, Magnitude, ExactExp, set)
            ELSE /\ IsNaN(res) <=> IsNaN(A) \/ IsNaN(B) \/ InfinitiesCancel
                 /\ res.kind # "snan"
                 /\ "Invalid_operation" \in status
                        <=> \/ "snan" \in {A.kind, B.kind}
                            \/ ~IsNaN(A) /\ ~IsNaN(B) /\ InfinitiesCancel

\* Whatever the operands, the result is one the context can hold: no more
\* digits than its precision (the caller has allocated no more), an exponent
\* in its range, and the payload of a NaN no longer either.
FitsContext ==
    TypeOK /\ (Done =>
            /\ Digits(res.coef) <= set.digits
            /\ IsSpecial(res) => res.exp = 0
            /\ ~IsSpecial(res) =>
                   /\ Etiny(set) <= res.exp
                   /\ res.exp <= (IF set.clamp THEN Etop(set) ELSE set.emax)
                   /\ res.coef # 0
                          => res.exp + Digits(res.coef) - 1 <= set.emax)

=============================================================================
