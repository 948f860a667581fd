----------------------------- MODULE DecQuantum -----------------------------
(***************************************************************************)
(* Operations on the exponent (decNumber.c): quantize and rescale, round   *)
(* to integral, reduce and trim, scaleB and logB, and the neighbours of a  *)
(* number.                                                                 *)
(***************************************************************************)
EXTENDS DecCompare, DecReference

CONSTANT TinyExp    \* DEC_MIN_EMIN - 1: the exponent of the infinitesimal

ASSUME TinyExpAssumption == TinyExp \in Int

Invalid(n, w) == Raise([w EXCEPT !.dn = n], {"Invalid_operation"})

\* NaNs are propagated, r standing for the missing operand of a unary routine
NaNs(l, r, set) == Failed(QuietNaN(l, r, set), NaNStatus(l, r))

(***************************************************************************)
(* decGetInt: the value of a number that is an integer of at most ten      *)
(* digits and in range for a rescale; BADINT, BIGODD and BIGEVEN are       *)
(* refused alike by every caller here.                                     *)
(***************************************************************************)
NotAnInt == [ok |-> FALSE, value |-> 0]

GetInt(n) ==
    LET drop  == -n.exp
        size  == IF drop > 0 THEN n.coef \div powers[drop] ELSE n.coef * powers[n.exp]
        limit == IF n.neg THEN 1999999997 ELSE 999999999
    IN  IF IsZero(n) THEN [ok |-> TRUE, value |-> 0]
        ELSE IF drop >= Digits(n.coef) \/ (drop > 0 /\ n.coef % powers[drop] # 0)
                 \/ Digits(n.coef) + n.exp > 10 \/ size > limit
        THEN NotAnInt
        ELSE [ok |-> TRUE, value |-> Negated(size, n.neg)]

(***************************************************************************)
(* decQuantizeOp: the coefficient is cut and rounded, or padded, until the *)
(* exponent is the requested one; what does not fit is invalid.            *)
(***************************************************************************)

\* mutant: the rounding of all nines is not shifted back
NotReadjusted(w, n, reqexp, set) == w

\* rounding 99.9 to 100 left the exponent one too high: shifted back
Readjusted(w, n, reqexp, set) ==
    IF w.dn.exp <= reqexp THEN w
    ELSE IF Digits(w.dn.coef) = set.digits
         THEN Invalid(n, [w EXCEPT !.status = @ \ {"Inexact", "Rounded"}])
         ELSE [w EXCEPT !.dn.coef = 10 * @, !.dn.exp = @ - 1]

Requantized(n, reqexp, set) ==
    LET adjust  == reqexp - n.exp
        workset == [set EXCEPT !.digits = Digits(n.coef) - adjust]
        rounded == ApplyRound(SetCoeff(Plain(n), workset), workset)
    IN  IF IsZero(n) THEN Plain([n EXCEPT !.exp = reqexp])
        ELSE IF Digits(n.coef) - adjust > set.digits THEN Invalid(n, Plain(n))
        ELSE IF adjust > 0
             THEN Readjusted([rounded EXCEPT !.residue = 0], n, reqexp, set)
        ELSE Plain([n EXCEPT !.coef = @ * powers[-adjust], !.exp = reqexp])

InContext(w, n, set) ==
    IF "Invalid_operation" \in w.status THEN w
    ELSE IF w.dn.exp > set.emax - Digits(w.dn.coef) + 1 THEN Invalid(n, w)
    ELSE [Finalize(w, set) EXCEPT !.status = @ \ {"Underflow"}]

QuantizeTo(n, reqexp, set) ==
    IF reqexp < Etiny(set) \/ reqexp > set.emax THEN Invalid(n, Plain(n))
    ELSE InContext(Requantized(n, reqexp, set), n, set)

QuantizeOp(l, r, set, req) ==
    IF IsNaN(l) \/ IsNaN(r) THEN NaNs(l, r, set)
    ELSE IF l.kind # r.kind THEN Invalid(l, Plain(l))
    ELSE IF l.kind = "inf" THEN Plain(l)
    ELSE IF ~req.ok THEN Invalid(l, Plain(l))
    ELSE QuantizeTo(l, req.value, set)

Quantize(l, r, set) == QuantizeOp(l, r, set, [ok |-> TRUE, value |-> r.exp])
Rescale(l, r, set) == QuantizeOp(l, r, set, GetInt(r))

(***************************************************************************)
(* decNumberToIntegralExact quantizes in a copy of the context, made after *)
(* what is already in its status, and reports all of the copy's status.    *)
(* decNumberToIntegralValue lets only Invalid_operation through.           *)
(***************************************************************************)
\* the inner call has reported to the copy
InnerResult(w) == [w EXCEPT !.dn = AfterStatus(@, w.status)]

ToIntegralExact(n, set, earlier) ==
    IF IsNaN(n) THEN NaNs(n, n, set)
    ELSE IF n.kind = "inf" \/ n.exp >= 0 THEN Plain(n)
    ELSE Raise(InnerResult(Quantize(n, Finite(FALSE, 0, 0),
                                 [set EXCEPT !.digits = Digits(n.coef)])),
               earlier)

OnlyInvalid(w) == [w EXCEPT !.status = IF "Invalid_operation" \in @
                                       THEN {"Invalid_operation", "sNaN"} ELSE {}]

ToIntegralValue(n, set, earlier) ==
    OnlyInvalid(InnerResult(ToIntegralExact(n, set, earlier)))

(***************************************************************************)
(* decTrim drops trailing zeros: all of them, or those of the fraction; as *)
(* few as leave the exponent within a clamped context.                     *)
(***************************************************************************)
TrailingZeros(n) ==
    Max({d \in 0..(Digits(n.coef) - 1) : n.coef % powers[d] = 0})

Droppable(n, set, all, noclamp) ==
    LET d    == IF all \/ n.exp > 0 THEN TrailingZeros(n)
                ELSE Min({TrailingZeros(n), -n.exp})
        maxd == Etop(set) - n.exp
    IN  IF noclamp \/ ~set.clamp THEN d ELSE Max({0, Min({d, maxd})})

TrimOp(n, set, all, noclamp) ==
    LET d == Droppable(n, set, all, noclamp)
    IN  IF IsSpecial(n) \/ n.coef % 2 = 1 THEN n
        ELSE IF IsZero(n) THEN [n EXCEPT !.exp = 0]
        ELSE [n EXCEPT !.coef = @ \div powers[d], !.exp = @ + d]

Reduce(n, set) ==
    IF IsNaN(n) THEN NaNs(n, n, set)
    ELSE [Fitted(n, set) EXCEPT !.dn = TrimOp(@, set, TRUE, FALSE)]

\* decNumberTrim has no context: one that does not clamp
Trim(n, set) == Plain(TrimOp(n, [set EXCEPT !.clamp = FALSE], FALSE, TRUE))

(***************************************************************************)
(* decNumberScaleB and decNumberLogB.  The copy is not shortened first.    *)
(***************************************************************************)
\* mutant: the sum of the exponents is taken as it is
ScaleBUnchecked(l, r, set) ==
    IF IsSpecial(l) \/ IsSpecial(r) \/ ~GetInt(r).ok THEN Invalid(l, Plain(l))
    ELSE Plain([l EXCEPT !.exp = @ + GetInt(r).value])

ScaleB(l, r, set) ==
    LET by   == GetInt(r)
        size == IF by.value < 0 THEN -by.value ELSE by.value
    IN  IF IsNaN(l) \/ IsNaN(r) THEN NaNs(l, r, set)
        ELSE IF r.kind = "inf" \/ r.exp # 0 \/ ~by.ok
                 \/ (size + 1) \div 2 > set.digits + set.emax
             THEN Invalid(l, Plain(l))
        ELSE IF l.kind = "inf" THEN Plain(l)
        ELSE Finalize(Plain([l EXCEPT !.exp = @ + by.value]), set)

\* decNumberPlus of the adjusted exponent, its flags already reported
LogB(n, set) ==
    LET ae == Adjusted(n)
        w  == Fitted(Finite(ae < 0, IF ae < 0 THEN -ae ELSE ae, 0), set)
    IN  IF IsNaN(n) THEN NaNs(n, n, set)
        ELSE IF n.kind = "inf" THEN Plain(CopyAbs(n))
        ELSE IF IsZero(n) THEN Failed(Special("inf", TRUE), {"Division_by_zero"})
        ELSE w

(***************************************************************************)
(* The neighbours of a number: decAddOp, of which only the promise is used *)
(* here, adds an infinitesimal and rounds towards it.                      *)
(***************************************************************************)
InfinitesimalOff(n, up, set) ==
    LET mode  == IF up THEN "CEILING" ELSE "FLOOR"
        exact == Negated(n.coef * powers[n.exp - TinyExp], n.neg)
                     + (IF up THEN 1 ELSE -1)
        size  == IF exact < 0 THEN -exact ELSE exact
        ws    == [set EXCEPT !.round = mode]
    IN  IF n.kind = "inf" THEN Plain(n)
        ELSE Work(Delivered(exact < 0, size, TinyExp, ws), 0,
                  FlagsFor(exact < 0, size, TinyExp, ws))

\* mutant: every infinity stays one
StepKeepsInfinity(n, up, set) == InfinitesimalOff(n, up, set)

\* from the infinity on the other side the next number is the largest
Step(n, up, set) ==
    IF n.kind = "inf" /\ n.neg = up THEN Plain(MaxValue(up, set))
    ELSE InfinitesimalOff(n, up, set)

Next1(n, up, set) ==
    IF IsNaN(n) THEN NaNs(n, n, set)
    ELSE [Step(n, up, set) EXCEPT !.status = {}]

NextPlus(n, set) == Next1(n, TRUE, set)
NextMinus(n, set) == Next1(n, FALSE, set)

QuietIfNormal(w, set) ==
    IF IsNormal(w.dn, set) THEN [w EXCEPT !.status = {}] ELSE w

Towards(c, l, r, set) ==
    IF c = 0 THEN Plain(CopySign(l, r)) ELSE QuietIfNormal(Step(l, c < 0, set), set)

NextToward(l, r, set) ==
    IF IsNaN(l) \/ IsNaN(r) THEN NaNs(l, r, set)
    ELSE Towards(Compare(l, r, FALSE), l, r, set)

=============================================================================
