----------------------------- MODULE DecCompare -----------------------------
(***************************************************************************)
(* Comparing numbers (decNumber.c): by value, by the total order of        *)
(* IEEE 754, for the larger or the smaller, and the quiet inquiries and    *)
(* copies around them.  Operators return a work record: the result before  *)
(* decStatus and the flags raised.                                         *)
(***************************************************************************)
EXTENDS DecUnits

Plain(n) == Work(n, 0, {})
Failed(n, flags) == Work(n, 0, flags)
FromSignum(i) == Finite(i < 0, IF i = 0 THEN 0 ELSE 1, 0)

\* mutant: the copy is not cut to the precision
FittedUncut(n, set) == Finalize(Plain(n), set)

\* decCopyFit, then decFinalize
Fitted(n, set) == Finalize(SetCoeff(Plain(n), set), set)

WithSign(n, neg) == [n EXCEPT !.neg = neg]
Negated(i, neg) == IF neg THEN -i ELSE i

(***************************************************************************)
(* decCompare: by sign, then infinity, then coefficients aligned by the    *)
(* larger exponent; mag ignores the signs.  The difference of the exponents *)
(* is an Int in the code (decNumber.c:6209) and an integer here: two        *)
(* exponents are 2^31 apart only in contexts of the widest exponent range   *)
(* with a precision above 147 million digits, which are not modelled.       *)
(***************************************************************************)
Signum(n, mag) == IF IsZero(n) THEN 0 ELSE Negated(1, n.neg /\ ~mag)

CompareCoefs(l, r) ==
    IF l.exp > r.exp
    THEN -UnitCompare(UnitsOf(r), UnitsOf(l), l.exp - r.exp)
    ELSE UnitCompare(UnitsOf(l), UnitsOf(r), r.exp - l.exp)

Compare(l, r, mag) ==
    LET sl == Signum(l, mag)
        sr == Signum(r, mag)
    IN  IF sl # sr \/ sl = 0 THEN Sign(sl - sr)
        ELSE IF r.kind = "inf" THEN IF l.kind = "inf" THEN 0 ELSE -sl
        ELSE IF l.kind = "inf" THEN sl
        ELSE sl * CompareCoefs(l, r)

\* by the first criterion, and by the other if that does not decide
Foremost(c, other) == IF c # 0 THEN c ELSE other

(***************************************************************************)
(* decCompareOp.  In the total order NaNs lie above the numbers of their   *)
(* sign, signalling ones below quiet ones, then by payload; numbers equal  *)
(* in value are ordered by exponent.                                       *)
(***************************************************************************)
NaNRank(n) == CASE n.kind = "snan" -> 1 [] n.kind = "nan" -> 2 [] OTHER -> 0

TotalOfNaNs(l, r) ==
    IF NaNRank(l) # NaNRank(r) THEN NaNRank(l) - NaNRank(r)
    ELSE UnitCompare(UnitsOf(l), UnitsOf(r), 0)

Total(l, r) ==
    IF l.neg # r.neg THEN Negated(1, l.neg)
    ELSE IF IsNaN(l) \/ IsNaN(r) THEN Negated(Sign(TotalOfNaNs(l, r)), l.neg)
    ELSE Foremost(Compare(l, r, FALSE), Negated(Sign(l.exp - r.exp), l.neg))

\* mutant: numbers of equal value are not told apart
CompareTotalByValue(l, r) ==
    Plain(FromSignum(IF IsNaN(l) \/ IsNaN(r) THEN Total(l, r)
                     ELSE Compare(l, r, FALSE)))

CompareTotal(l, r) == Plain(FromSignum(Total(l, r)))

\* copies with their signs cleared
CompareTotalMag(l, r) == CompareTotal(WithSign(l, FALSE), WithSign(r, FALSE))

CompareValue(l, r, set) ==
    IF IsNaN(l) \/ IsNaN(r)
    THEN Failed(QuietNaN(l, r, set), NaNStatus(l, r))
    ELSE Plain(FromSignum(Compare(l, r, FALSE)))

\* a quiet NaN is treated as a signalling one
CompareSignal(l, r, set) ==
    Raise(CompareValue(l, r, set),
          IF IsNaN(l) \/ IsNaN(r) THEN {"Invalid_operation", "sNaN"} ELSE {})

\* operands equal in value: the sign decides, then the exponent
Preferred(l, r) ==
    IF l.neg # r.neg THEN Negated(1, l.neg)
    ELSE IF l.neg THEN IF l.exp < r.exp THEN 1 ELSE -1
    ELSE IF l.exp > r.exp THEN 1 ELSE -1

\* mutant: numerically equal operands are taken from the left
LargerFirst(l, r, mag) == IF Compare(l, r, mag) >= 0 THEN 1 ELSE -1

Larger(l, r, mag) == Foremost(Compare(l, r, mag), Preferred(l, r))

\* one quiet NaN is ignored, even when looking for the smaller
MaxOrMin(l, r, set, min, mag) ==
    IF "snan" \in {l.kind, r.kind} \/ (IsNaN(l) /\ IsNaN(r))
    THEN Failed(QuietNaN(l, r, set), NaNStatus(l, r))
    ELSE Fitted(IF IsNaN(l) THEN r ELSE IF IsNaN(r) THEN l
                ELSE IF Negated(Larger(l, r, mag), min) > 0 THEN l ELSE r, set)

(***************************************************************************)
(* Quiet operations: no context is touched.                                *)
(***************************************************************************)
SameQuantum(l, r) ==
    FromSignum(IF \/ IsNaN(l) /\ IsNaN(r)
                  \/ l.kind = "inf" /\ r.kind = "inf"
                  \/ ~IsSpecial(l) /\ ~IsSpecial(r) /\ l.exp = r.exp
               THEN 1 ELSE 0)

Adjusted(n) == n.exp + Digits(n.coef) - 1

IsNormal(n, set) == ~IsSpecial(n) /\ ~IsZero(n) /\ Adjusted(n) >= set.emin
IsSubnormal(n, set) == ~IsSpecial(n) /\ ~IsZero(n) /\ Adjusted(n) < set.emin

CopyAbs(n) == WithSign(n, FALSE)
CopyNegate(n) == WithSign(n, ~n.neg)
CopySign(l, r) == WithSign(l, r.neg)

=============================================================================
