----------------------------- MODULE DecMultiply ----------------------------
(***************************************************************************)
(* One call of decNumberMultiply or decNumberFMA (decNumber.c).  Both use  *)
(* decMultiplyOp, which multiplies Unit by Unit, or in chunks (DecChunks)  *)
(* if the shorter operand is long enough; FMA hands the unrounded product  *)
(* to decAddOp (DecAdd).                                                   *)
(*                                                                         *)
(* call.left and call.right are the slots of the factors, call.rhs that of *)
(* the number added, and call.lhs the local accumulator of FMA.            *)
(***************************************************************************)
EXTENDS DecAdd, DecUnits, DecChunks

CONSTANTS
    FASTDIGS,       \* digits of a chunk
    DECNUMMAXE,     \* the largest adjusted exponent of any context
    IntRange,       \* 2^31: exponents are computed in 32 bits
    DEC_MAX_MATH    \* bound on context and operands of FMA

VARIABLES
    acc,            \* the product as Units
    shift           \* Units of the multiplier used

unitVars  == <<acc, shift>>
mulVars   == <<vars, chunkVars, unitVars>>

left  == mem[call.left]
right == mem[call.right]
Fused == call.routine = "FMA"

\* FMA multiplies in a context in which nothing is rounded (dcmul)
mset == IF ~Fused THEN set
        ELSE [set EXCEPT !.digits = Digits(left.coef) + Digits(right.coef),
                         !.emax = DECNUMMAXE, !.emin = -DECNUMMAXE]

MulInit ==
    /\ \E f \in Families :
           /\ call \in f.calls
           /\ set \in f.contexts
           /\ \E a \in f.lhs, b \in f.rhs, c \in f.far :
                  mem = [s \in Slots \cup {"acc", "far"} |->
                            CASE s = "a" -> a [] s = "b" -> b [] s = "far" -> c
                              [] OTHER -> Finite(FALSE, 0, 0)]
           /\ ctxStatus \in f.earlier
    /\ pc = "call"
    /\ negate = FALSE /\ diffsign = FALSE /\ zexp = 0 /\ residue = 0
    /\ status = {} /\ given = <<>>
    /\ stage = "add" /\ zlhi = <<>> /\ zrhi = <<>> /\ zacc = <<>>
    /\ rip = 1 /\ lp = 1 /\ lazy = FASTLAZY
    /\ acc = <<0>> /\ shift = 0

(***************************************************************************)
(* Entry.  FMA refuses what its unbounded product could not hold.          *)
(***************************************************************************)
CheckMath(n) ==
    IF set.digits > DEC_MAX_MATH \/ set.emax > DEC_MAX_MATH \/ -set.emin > DEC_MAX_MATH
    THEN {"Invalid_context"}
    ELSE IF /\ ~IsZero(n)
            /\ \/ Digits(n.coef) > DEC_MAX_MATH
               \/ n.exp + Digits(n.coef) > DEC_MAX_MATH + 1
               \/ n.exp + Digits(n.coef) < 2 * (1 - DEC_MAX_MATH)
    THEN {"Invalid_operation"}
    ELSE {}

Checked(n) == IF IsSpecial(n) THEN {} ELSE CheckMath(n)

\* for the first operand that is refused
Refused(l, r, f) ==
    IF Checked(l) # {} THEN Checked(l)
    ELSE IF Checked(r) # {} THEN Checked(r) ELSE Checked(f)

EnterMultiply ==
    /\ pc = "call"
    /\ status' = IF Fused THEN Refused(left, right, rhs) ELSE {}
    /\ pc' = IF status' = {} THEN "multiply" ELSE "report"
    /\ given' = [left |-> left, right |-> right, far |-> rhs]
    /\ UNCHANGED <<mem, call, set, negate, diffsign, zexp, residue, ctxStatus,
                   chunkVars, unitVars>>

(***************************************************************************)
(* decMultiplyOp.                                                          *)
(***************************************************************************)
Multiplying == pc = "multiply"

Product(n, flags) ==
    /\ mem' = [mem EXCEPT ![IF Fused THEN "acc" ELSE call.res] = n]
    /\ status' = flags
    /\ pc' = IF Fused THEN "fuse" ELSE "report"
    /\ UNCHANGED <<call, set, negate, diffsign, zexp, residue, ctxStatus, given,
                   chunkVars, unitVars>>

ProductNeg == Xor(left.neg, right.neg)

NaNFactor ==
    /\ Multiplying /\ (IsNaN(left) \/ IsNaN(right))
    /\ Product(QuietNaN(left, right, mset), NaNStatus(left, right))

InfinityTimesZero ==
    /\ Multiplying /\ {left.kind, right.kind} \subseteq {"inf", "finite"}
    /\ "inf" \in {left.kind, right.kind} /\ (IsZero(left) \/ IsZero(right))
    /\ Product(mem[IF Fused THEN "acc" ELSE call.res], {"Invalid_operation"})

InfiniteFactor ==
    /\ Multiplying /\ {left.kind, right.kind} \subseteq {"inf", "finite"}
    /\ "inf" \in {left.kind, right.kind} /\ ~IsZero(left) /\ ~IsZero(right)
    /\ Product(Special("inf", ProductNeg), {})

FiniteFactors == Multiplying /\ ~IsSpecial(left) /\ ~IsSpecial(right)

\* the shorter operand is the multiplier
longer  == IF Digits(left.coef) < Digits(right.coef) THEN right ELSE left
shorter == IF Digits(left.coef) < Digits(right.coef) THEN left ELSE right

UseChunks == Digits(shorter.coef) > 2 * DPUN

inner == <<mem, call, set, negate, diffsign, zexp, residue, status, ctxStatus,
           given>>

(***************************************************************************)
(* The fast path: cut into chunks, multiply, cut into Units.               *)
(***************************************************************************)
PerChunk == FASTDIGS \div DPUN

Chunked(units) ==
    [k \in 1..((Len(units) + PerChunk - 1) \div PerChunk) |->
        Value(SubSeq(units, (k - 1) * PerChunk + 1,
                     IF k * PerChunk > Len(units) THEN Len(units)
                     ELSE k * PerChunk))]

CutIntoChunks ==
    /\ FiniteFactors /\ UseChunks
    /\ zlhi' = Chunked(UnitsOf(longer)) /\ zrhi' = Chunked(UnitsOf(shorter))
    /\ zacc' = [k \in 1..(Len(zlhi') + Len(zrhi')) |-> 0]
    /\ rip' = 1 /\ lp' = 1 /\ lazy' = FASTLAZY /\ stage' = "add"
    /\ pc' = "chunks"
    /\ UNCHANGED <<inner, unitVars>>

MultiplyChunks == pc = "chunks" /\ ChunksNext /\ UNCHANGED <<vars, unitVars>>

CutIntoUnits ==
    /\ pc = "chunks" /\ stage = "chunked"
    /\ acc' = [k \in 1..(Len(zacc) * PerChunk) |->
                  (zacc[(k - 1) \div PerChunk + 1]
                       \div powers[DPUN * ((k - 1) % PerChunk)]) % Base]
    /\ pc' = "build"
    /\ UNCHANGED <<inner, chunkVars, shift>>

(***************************************************************************)
(* The other: each Unit of the multiplier adds a multiple in place, the    *)
(* low Units of acc being complete already; a zero Unit only makes room.   *)
(***************************************************************************)
StartUnits ==
    /\ FiniteFactors /\ ~UseChunks
    /\ acc' = <<0>> /\ shift' = 0
    /\ pc' = "units"
    /\ UNCHANGED <<inner, chunkVars>>

mer == UnitsOf(shorter)[shift + 1]

AddUnit ==
    /\ pc = "units" /\ shift < Len(UnitsOf(shorter))
    /\ acc' = IF mer = 0 THEN Append(acc, 0)
              ELSE SubSeq(acc, 1, shift)
                   \o UnitAddSub(SubSeq(acc, shift + 1, Len(acc)),
                                 UnitsOf(longer), 0, mer).units
    /\ shift' = shift + 1
    /\ UNCHANGED <<vars, chunkVars>>

AllUnitsAdded ==
    /\ pc = "units" /\ shift = Len(UnitsOf(shorter))
    /\ pc' = "build"
    /\ UNCHANGED <<inner, chunkVars, unitVars>>

(***************************************************************************)
(* Both: the sum of the exponents may wrap, and is then made as low as is  *)
(* sure to underflow; then the product is cut and finished.                *)
(***************************************************************************)
Wrapped(e) == ((e + IntRange) % (2 * IntRange)) - IntRange

\* mutant: a wrapped exponent is used as it is
ProductExponentWraps == Wrapped(left.exp + right.exp)

ProductExponent ==
    LET exponent == Wrapped(left.exp + right.exp)
    IN  IF left.exp < 0 /\ right.exp < 0 /\ exponent > 0 THEN -2 * DECNUMMAXE
        ELSE exponent

BuildProduct ==
    LET exact == Finite(ProductNeg, Value(acc), ProductExponent)
        w     == Finalize(SetCoeff(Work(exact, 0, status), mset), mset)
    IN  pc = "build" /\ Product(w.dn, w.status)

(***************************************************************************)
(* FMA goes on to add; after an invalid multiplication the number to be    *)
(* added is ignored, in case it is another signalling NaN.                 *)
(***************************************************************************)
Addend == IF "sNaN" \in status THEN [call EXCEPT !.rhs = "dzero"] ELSE call

FuseInvalid ==
    /\ pc = "fuse" /\ "Invalid_operation" \in status /\ "sNaN" \notin status
    /\ mem' = [mem EXCEPT ![call.res] = Special("nan", FALSE)]
    /\ pc' = "report"
    /\ UNCHANGED <<call, set, negate, diffsign, zexp, residue, status, ctxStatus,
                   given, chunkVars, unitVars>>

Fuse ==
    /\ pc = "fuse" /\ ("Invalid_operation" \notin status \/ "sNaN" \in status)
    /\ call' = Addend
    /\ diffsign' = Xor(mem["acc"].neg, mem[call'.rhs].neg)
    /\ negate' = FALSE
    /\ pc' = "add"
    /\ UNCHANGED <<mem, set, zexp, residue, status, ctxStatus, given, chunkVars,
                   unitVars>>

AddStep ==
    /\ NaNOperand \/ Infinities \/ LhsZero \/ RhsZero \/ BothZero \/ PadToZero
       \/ FastPath \/ BigSuffices \/ AddAligned \/ Finish
    /\ UNCHANGED <<chunkVars, unitVars>>

ReportProduct == Report /\ UNCHANGED <<chunkVars, unitVars>>

MulNext ==
    \/ EnterMultiply
    \/ NaNFactor \/ InfinityTimesZero \/ InfiniteFactor
    \/ CutIntoChunks \/ MultiplyChunks \/ CutIntoUnits
    \/ StartUnits \/ AddUnit \/ AllUnitsAdded
    \/ BuildProduct \/ FuseInvalid \/ Fuse
    \/ AddStep \/ ReportProduct

MulSpec == MulInit /\ [][MulNext]_mulVars

=============================================================================
