------------------------------ MODULE DecRound ------------------------------
(***************************************************************************)
(* How decNumber.c brings an intermediate result into the context: cutting *)
(* the coefficient (decSetCoeff), rounding (decApplyRound), and the final  *)
(* checks (decFinalize, decSetSubnormal, decSetOverflow), for the extended *)
(* arithmetic (DECSUBSET is 0, so decFinish is decFinalize).               *)
(*                                                                         *)
(* Every operator takes and returns a work record: the number dn, the      *)
(* residue (what is known of the digits cut off: 0 nothing, 1..4 less than *)
(* half a unit, 5 half, 6..9 more, -1 a little below the coefficient) and  *)
(* the status flags raised so far.                                         *)
(***************************************************************************)
EXTENDS DecNum

CONSTANT DPUN    \* DECDPUN: decimal digits per Unit

ASSUME DPUNAssumption == DPUN \in Nat \ {0}

Base == powers[DPUN]                               \* DECDPUNMAX + 1
D2U(digits) == (digits + DPUN - 1) \div DPUN       \* Units for so many digits

Work(dn, residue, status) == [dn |-> dn, residue |-> residue, status |-> status]

Raise(w, flags) == [w EXCEPT !.status = @ \cup flags]

resmap == <<0, 3, 3, 3, 3, 5, 7, 7, 7, 7>>

(***************************************************************************)
(* decSetCoeff cuts the coefficient to set.digits, which decSetSubnormal   *)
(* makes less than one to round at a place left of the number.  The digits *)
(* cut off become the residue: the first of them decides, the others, and  *)
(* a residue from an earlier cut, are only a sticky bit.  A cut on a Unit  *)
(* boundary compares the whole Unit with one half.                         *)
(***************************************************************************)
Sticky(w, low) == IF low # 0 THEN 1 ELSE IF w.residue > 1 THEN 1 ELSE w.residue

ResidueOnBoundary(coef, discard, sticky) ==
    LET unit == (coef \div powers[discard - DPUN]) % powers[DPUN]
        half == powers[DPUN] \div 2
    IN  CASE unit > half  -> 7
          [] unit = half  -> sticky + 5
          [] unit \in 1..(half - 1) -> 3
          [] OTHER -> sticky

ResidueInUnit(coef, discard, sticky) ==
    sticky + resmap[((coef \div powers[discard - 1]) % 10) + 1]

CutResidue(w, discard) ==
    LET coef == w.dn.coef
    IN  IF discard % DPUN = 0
        THEN ResidueOnBoundary(coef, discard,
                               Sticky(w, coef % powers[discard - DPUN]))
        ELSE ResidueInUnit(coef, discard,
                           Sticky(w, coef % powers[discard - 1]))

SetCoeff(w, set) ==
    LET discard == Digits(w.dn.coef) - set.digits
        total   == discard > Digits(w.dn.coef)
        residue == IF total THEN Sticky(w, w.dn.coef) ELSE CutResidue(w, discard)
        coef    == IF total THEN 0 ELSE w.dn.coef \div powers[discard]
    IN  IF discard <= 0
        THEN IF w.residue = 0 THEN w ELSE Raise(w, {"Inexact", "Rounded"})
        ELSE Work([w.dn EXCEPT !.coef = coef, !.exp = @ + discard],
                  residue,
                  w.status \cup {"Rounded"}
                           \cup (IF residue = 0 THEN {} ELSE {"Inexact"}))

(***************************************************************************)
(* decSetOverflow: a zero is clamped, anything else becomes Nmax or        *)
(* infinity by sign and rounding mode.                                     *)
(***************************************************************************)
MaxValue(neg, set) == Finite(neg, powers[set.digits] - 1, Etop(set))

NeedMax(neg, round) ==
    \/ round \in {"DOWN", "05UP"}
    \/ round = "CEILING" /\ neg
    \/ round = "FLOOR" /\ ~neg

SetOverflow(w, set) ==
    LET emax == IF set.clamp THEN Etop(set) ELSE set.emax
        neg  == w.dn.neg
    IN  IF IsZero(w.dn)
        THEN IF w.dn.exp > emax
             THEN Raise([w EXCEPT !.dn.exp = emax], {"Clamped"})
             ELSE w
        ELSE Raise([w EXCEPT !.dn = IF NeedMax(neg, set.round)
                                    THEN MaxValue(neg, set)
                                    ELSE Special("inf", neg)],
                   {"Overflow", "Inexact", "Rounded"})

(***************************************************************************)
(* decApplyRound: whether the pending residue makes the coefficient one    *)
(* larger or one smaller.                                                  *)
(***************************************************************************)
RoundsUp(w, round) ==
    LET r == w.residue
    IN  CASE round = "05UP"      -> r > 0 /\ (w.dn.coef % 5) = 0
          [] round = "DOWN"      -> FALSE
          [] round = "HALF_DOWN" -> r > 5
          [] round = "HALF_EVEN" -> r > 5 \/ (r = 5 /\ w.dn.coef % 2 = 1)
          [] round = "HALF_UP"   -> r >= 5
          [] round = "UP"        -> r > 0
          [] round = "CEILING"   -> r > 0 /\ ~w.dn.neg
          [] round = "FLOOR"     -> r > 0 /\ w.dn.neg

RoundsDown(w, round) ==
    /\ w.residue < 0
    /\ CASE round = "05UP"    -> w.dn.coef % 5 # 1
         [] round = "DOWN"    -> TRUE
         [] round = "CEILING" -> w.dn.neg
         [] round = "FLOOR"   -> ~w.dn.neg
         [] OTHER             -> FALSE

\* mutant: all nines are not carried into the exponent
BumpUpNoCarry(w, set) == [w EXCEPT !.dn.coef = @ + 1]

\* all nines become 1000..., one place up; this may overflow
BumpUp(w, set) ==
    LET digits == Digits(w.dn.coef)
        carried == [w EXCEPT !.dn.coef = powers[digits - 1], !.dn.exp = @ + 1]
    IN  IF w.dn.coef # powers[digits] - 1 THEN [w EXCEPT !.dn.coef = @ + 1]
        ELSE IF carried.dn.exp + digits > set.emax + 1
             THEN SetOverflow(carried, set)
             ELSE carried

\* 1000... becomes all nines, one place down unless that is below Etiny
BumpDown(w, set) ==
    LET digits == Digits(w.dn.coef)
    IN  IF w.dn.coef # powers[digits - 1] THEN [w EXCEPT !.dn.coef = @ - 1]
        ELSE IF w.dn.exp = Etiny(set)
             THEN Raise([w EXCEPT !.dn.coef = powers[digits - 1] - 1],
                        {"Underflow", "Subnormal", "Inexact", "Rounded"})
             ELSE [w EXCEPT !.dn.coef = powers[digits] - 1, !.dn.exp = @ - 1]

ApplyRound(w, set) ==
    IF RoundsUp(w, set.round) THEN BumpUp(w, set)
    ELSE IF RoundsDown(w, set.round) THEN BumpDown(w, set)
    ELSE w

\* mutant: a subnormal result always underflows
UnderflowAlways(w) == Raise(w, {"Underflow"})

(***************************************************************************)
(* decSetSubnormal: a zero is clamped to Etiny, a value below it is cut    *)
(* and rounded there in a context as much shorter as the value is too      *)
(* small, and shifted back if that carried.                                *)
(***************************************************************************)
UnderflowIfInexact(w) ==
    IF "Inexact" \in w.status THEN Raise(w, {"Underflow"}) ELSE w

ShiftedBack(w, etiny) ==
    IF w.dn.exp > etiny THEN [w EXCEPT !.dn.coef = 10 * @, !.dn.exp = @ - 1] ELSE w

ClampedIfZero(w) == IF IsZero(w.dn) THEN Raise(w, {"Clamped"}) ELSE w

SetSubnormal(w, set) ==
    LET etiny   == Etiny(set)
        adjust  == etiny - w.dn.exp
        workset == [set EXCEPT !.digits = Digits(w.dn.coef) - adjust,
                               !.emin = @ - adjust]
        low     == Raise(w, {"Subnormal"})
        rounded == ApplyRound(SetCoeff(low, workset), workset)
    IN  IF IsZero(w.dn)
        THEN IF adjust > 0
             THEN Raise([w EXCEPT !.dn.exp = etiny], {"Clamped"})
             ELSE w
        ELSE IF adjust <= 0 THEN UnderflowIfInexact(low)
        ELSE ClampedIfZero(ShiftedBack(UnderflowIfInexact(rounded), etiny))

(***************************************************************************)
(* decFinalize: subnormals first, as a round may leave Nmin or 0; then the *)
(* pending round; then overflow, and the IEEE clamp (fold-down).           *)
(***************************************************************************)
FoldDown(w, set) ==
    LET shift == w.dn.exp - Etop(set)
    IN  Raise([w EXCEPT !.dn.coef = @ * powers[shift], !.dn.exp = Etop(set)],
              {"Clamped"})

CheckRange(w, set) ==
    IF w.dn.exp <= Etop(set) THEN w
    ELSE IF w.dn.exp > set.emax - Digits(w.dn.coef) + 1 THEN SetOverflow(w, set)
    ELSE IF set.clamp THEN FoldDown(w, set)
    ELSE w

BelowNmin(w, set) ==
    LET tinyexp == set.emin - Digits(w.dn.coef) + 1
    IN  w.dn.exp < tinyexp

JustBelowNmin(w, set) ==
    /\ w.residue < 0
    /\ w.dn.coef = powers[Digits(w.dn.coef) - 1]
    /\ w.dn.exp = set.emin - Digits(w.dn.coef) + 1

\* mutant: the pending round is applied before the check for subnormals
FinalizeRoundsFirst(w, set) ==
    LET rounded == [ApplyRound(w, set) EXCEPT !.residue = 0]
    IN  IF BelowNmin(rounded, set) THEN SetSubnormal(rounded, set)
        ELSE CheckRange(rounded, set)

Finalize(w, set) ==
    IF BelowNmin(w, set) THEN SetSubnormal(w, set)
    ELSE IF JustBelowNmin(w, set) THEN SetSubnormal(ApplyRound(w, set), set)
    ELSE CheckRange(ApplyRound(w, set), set)

=============================================================================
