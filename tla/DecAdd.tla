------------------------------- MODULE DecAdd -------------------------------
(***************************************************************************)
(* One call of decNumberAdd, Subtract, Plus, Minus or Abs (decNumber.c):   *)
(* decAddOp with its exits for special values and zeros, its fast path,    *)
(* the case where one operand is only a residue, and the aligned sum; then *)
(* decFinalize and decStatus.                                              *)
(*                                                                         *)
(* The caller's numbers live in slots, and the result may be the slot of   *)
(* an operand (X=X+X), so what is written early is read back late.  The    *)
(* steps are the parts of the routine between which decAddOp has written   *)
(* its result and still reads an operand, or calls another routine.        *)
(***************************************************************************)
EXTENDS DecRound

CONSTANT
    Families    \* the calls made: sets of calls (routine and the slots of res,
                \* lhs, rhs), of contexts, of numbers in slots "a" and "b", and
                \* of flags the context gathered before

Slots == {"a", "b", "c", "dzero"}    \* dzero is local to the unary routines
Routines == {"Add", "Subtract", "Plus", "Minus", "Abs"}

VARIABLES
    mem,        \* the numbers, by slot
    call,       \* routine, res, lhs, rhs
    set,        \* the context
    pc,         \* what comes next
    negate,     \* rhs is to be negated
    diffsign,   \* the operands' signs differ
    zexp,       \* exponent of a zero operand, saved before res is written
    residue,    \* rounding accumulator
    status,     \* local status accumulator
    ctxStatus,  \* the context's status, which only ever gathers flags
    given       \* the operands as they were (history)

vars == <<mem, call, set, pc, negate, diffsign, zexp, residue, status,
          ctxStatus, given>>

lhs == mem[call.lhs]
rhs == mem[call.rhs]
res == mem[call.res]
reqdigits == set.digits

Xor(p, q) == p # q

Init ==
    /\ \E f \in Families :
           /\ call \in f.calls
           /\ set \in f.contexts
           /\ \E a \in f.lhs, b \in f.rhs :
                  mem = [s \in Slots |-> CASE s = "a" -> a
                                           [] s = "b" -> b
                                           [] OTHER -> Finite(FALSE, 0, 0)]
           /\ ctxStatus \in f.earlier
    /\ pc = "call"
    /\ negate = FALSE /\ diffsign = FALSE /\ zexp = 0 /\ residue = 0
    /\ status = {} /\ given = <<>>

(***************************************************************************)
(* The routines differ in the left operand and in negate.  The unary ones  *)
(* add to a local zero with the exponent of the operand.                   *)
(***************************************************************************)
Unary == call.routine \in {"Plus", "Minus", "Abs"}

Negates(m) == \/ call.routine \in {"Subtract", "Minus"}
              \/ call.routine = "Abs" /\ m[call.rhs].neg

\* mutant: the sign rhs has after negation is not looked at
SignsDifferUnnegated(l, r, neg) == Xor(l.neg, r.neg)

SignsDiffer(l, r, neg) == Xor(Xor(l.neg, r.neg), neg)

\* mutant: the flags of earlier operations are taken along
StatusOfContext == ctxStatus

FreshStatus == {}

Enter ==
    /\ pc = "call"
    /\ mem' = IF Unary THEN [mem EXCEPT !["dzero"] = Finite(FALSE, 0, rhs.exp)]
              ELSE mem
    /\ negate' = Negates(mem)
    /\ diffsign' = SignsDiffer(mem'[call.lhs], rhs, negate')
    /\ status' = FreshStatus
    /\ given' = [lhs |-> mem'[call.lhs], rhs |-> rhs]
    /\ pc' = "add"
    /\ UNCHANGED <<call, set, zexp, residue, ctxStatus>>

Deliver(n, flags) ==
    /\ mem' = [mem EXCEPT ![call.res] = n]
    /\ status' = status \cup flags
    /\ pc' = "report"
    /\ UNCHANGED <<call, set, negate, diffsign, zexp, residue, ctxStatus, given>>

(***************************************************************************)
(* Special values; infinities whose signs differ are invalid, and          *)
(* decStatus makes the NaN.                                                *)
(***************************************************************************)
NaNOperand ==
    /\ pc = "add" /\ (IsNaN(lhs) \/ IsNaN(rhs))
    /\ Deliver(QuietNaN(lhs, rhs, set), NaNStatus(lhs, rhs))

Infinities ==
    /\ pc = "add"
    /\ ~IsNaN(lhs) /\ ~IsNaN(rhs) /\ (IsSpecial(lhs) \/ IsSpecial(rhs))
    /\ IF lhs.kind = "inf" /\ rhs.kind = "inf" /\ diffsign
       THEN Deliver(res, {"Invalid_operation"})
       ELSE Deliver(Special("inf", IF lhs.kind = "inf" THEN lhs.neg
                                   ELSE Xor(rhs.neg, negate)), {})

BothFinite == pc = "add" /\ ~IsSpecial(lhs) /\ ~IsSpecial(rhs)

(***************************************************************************)
(* A zero operand: the other one is copied into res, shortened if need be, *)
(* and then padded down to the exponent of the zero, as far as it fits.    *)
(***************************************************************************)
CopyFit(n, r) == SetCoeff(Work(n, r, status), set)

Copy(n, flip, exp) ==
    LET w == CopyFit(n, 0)
    IN  /\ mem' = [mem EXCEPT ![call.res] = [w.dn EXCEPT !.neg = Xor(@, flip)]]
        /\ residue' = w.residue
        /\ status' = w.status
        /\ zexp' = exp
        /\ UNCHANGED <<call, set, negate, diffsign, ctxStatus, given>>

\* mutant: the exponent of the zero is saved after res was written
LhsZeroSavesLate ==
    /\ BothFinite /\ IsZero(lhs)
    /\ Copy(rhs, negate, mem'[call.lhs].exp)
    /\ pc' = "pad"

LhsZero ==
    /\ BothFinite /\ IsZero(lhs)
    /\ Copy(rhs, negate, lhs.exp)
    /\ pc' = "pad"

RhsZero ==
    /\ BothFinite /\ IsZero(rhs) /\ ~IsZero(lhs)
    /\ Copy(lhs, FALSE, rhs.exp)
    /\ pc' = "pad"

BothZero ==
    /\ pc = "pad" /\ IsZero(res)
    /\ mem' = [mem EXCEPT ![call.res].exp = IF zexp < @ THEN zexp ELSE @,
                          ![call.res].neg = IF diffsign THEN set.round = "FLOOR"
                                            ELSE @]
    /\ pc' = "finish"
    /\ UNCHANGED <<call, set, negate, diffsign, zexp, residue, status, ctxStatus,
                   given>>

PadToZero ==
    LET room  == set.digits - Digits(res.coef)
        want  == res.exp - zexp
        shift == IF want > room THEN room ELSE want
    IN  /\ pc = "pad" /\ ~IsZero(res)
        /\ mem' = IF want > 0
                  THEN [mem EXCEPT ![call.res].coef = @ * powers[shift],
                                   ![call.res].exp = @ - shift]
                  ELSE mem
        /\ status' = IF want > 0 /\ want > room THEN status \cup {"Rounded"}
                     ELSE status
        /\ pc' = "finish"
        /\ UNCHANGED <<call, set, negate, diffsign, zexp, residue, ctxStatus,
                       given>>

(***************************************************************************)
(* Two finite non-zero numbers.                                            *)
(***************************************************************************)
BothNonZero == BothFinite /\ ~IsZero(lhs) /\ ~IsZero(rhs)

partial == lhs.coef % powers[DPUN]

\* the low Unit alone holds the result, and its length cannot change upwards
FitsInUnit ==
    /\ rhs.exp = lhs.exp
    /\ rhs.exp >= set.emin /\ rhs.exp <= Etop(set)
    /\ Digits(rhs.coef) <= DPUN
    /\ Digits(rhs.coef) <= reqdigits /\ Digits(lhs.coef) <= reqdigits
    /\ IF diffsign THEN partial - rhs.coef > 0
       ELSE /\ partial + rhs.coef <= powers[DPUN] - 1
            /\ \/ Digits(lhs.coef) >= DPUN
               \/ partial + rhs.coef < powers[Digits(lhs.coef)]

FastPath ==
    /\ BothNonZero /\ FitsInUnit
    /\ Deliver([lhs EXCEPT !.coef = IF diffsign THEN @ - rhs.coef
                                    ELSE @ + rhs.coef], {})

\* the operand with the larger exponent is the one to be padded
swapped == rhs.exp < lhs.exp
big     == IF swapped THEN lhs ELSE rhs
small   == IF swapped THEN rhs ELSE lhs
padding == big.exp - small.exp

Outweighed == padding # 0 /\ Digits(big.coef) + padding
                                 > Digits(small.coef) + reqdigits + 1

\* the small operand cannot reach the result, except as a residue
BigSuffices ==
    LET w     == CopyFit(big, IF diffsign THEN -1 ELSE 1)
        shift == reqdigits - Digits(big.coef)
        fit   == IF shift > 0
                 THEN [w.dn EXCEPT !.coef = @ * powers[shift], !.exp = @ - shift]
                 ELSE w.dn
    IN  /\ BothNonZero /\ ~FitsInUnit /\ Outweighed
        /\ mem' = [mem EXCEPT ![call.res] =
                       [fit EXCEPT !.neg = IF swapped THEN @ ELSE Xor(@, negate)]]
        /\ residue' = w.residue
        /\ status' = w.status
        /\ pc' = "finish"
        /\ UNCHANGED <<call, set, negate, diffsign, zexp, ctxStatus, given>>

\* decUnitAddSub adds the padded number or its negative; a borrow out of the
\* top is a sign change
AddAligned ==
    LET sign == IF swapped THEN Xor(rhs.neg, negate) ELSE lhs.neg
        pad  == big.coef * powers[padding]
        sum  == IF diffsign THEN small.coef - pad ELSE small.coef + pad
        w    == SetCoeff(Work(Finite(Xor(sign, sum < 0),
                                     IF sum < 0 THEN -sum ELSE sum,
                                     small.exp), 0, status), set)
    IN  /\ BothNonZero /\ ~FitsInUnit /\ ~Outweighed
        /\ mem' = [mem EXCEPT ![call.res] = w.dn]
        /\ residue' = w.residue
        /\ status' = w.status
        /\ pc' = "finishSum"
        /\ UNCHANGED <<call, set, negate, diffsign, zexp, ctxStatus, given>>

(***************************************************************************)
(* decFinalize, and after the sum the sign of an exact zero.               *)
(***************************************************************************)
Finished == Finalize(Work(res, residue, status), set)

SignExactZero(w) ==
    IF IsZero(w.dn) /\ diffsign /\ "Inexact" \notin w.status
    THEN [w EXCEPT !.dn.neg = (set.round = "FLOOR")]
    ELSE w

Finish ==
    /\ pc \in {"finish", "finishSum"}
    /\ LET w == IF pc = "finishSum" THEN SignExactZero(Finished) ELSE Finished
       IN  /\ mem' = [mem EXCEPT ![call.res] = w.dn]
           /\ status' = w.status
           /\ residue' = w.residue
    /\ pc' = "report"
    /\ UNCHANGED <<call, set, negate, diffsign, zexp, ctxStatus, given>>

(***************************************************************************)
(* decStatus; then the context gathers the flags.                          *)
(***************************************************************************)
Report ==
    /\ pc = "report"
    /\ mem' = [mem EXCEPT ![call.res] = AfterStatus(@, status)]
    /\ status' = status \ {"sNaN"}
    /\ ctxStatus' = ctxStatus \cup status'
    /\ pc' = "done"
    /\ UNCHANGED <<call, set, negate, diffsign, zexp, residue, given>>

Next ==
    \/ Enter
    \/ NaNOperand \/ Infinities
    \/ LhsZero \/ RhsZero \/ BothZero \/ PadToZero
    \/ FastPath \/ BigSuffices \/ AddAligned
    \/ Finish \/ Report

Spec == Init /\ [][Next]_vars

=============================================================================
