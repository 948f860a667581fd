---------------------------- MODULE DecMulCorrect ---------------------------
(***************************************************************************)
(* What a multiplication or a fused multiply-add must deliver.             *)
(***************************************************************************)
EXTENDS DecMultiply, DecReference

(***************************************************************************)
(* What is assumed of the parameters and of the calls.                     *)
(***************************************************************************)
\* a chunk is made of whole Units, as it is where there are chunks (FASTMUL,
\* which is 0 if DECDPUN > 4)
ASSUME ChunksAssumption ==
    FASTDIGS \in Nat \ {0} /\ FASTDIGS % DPUN = 0 /\ FASTBASE = powers[FASTDIGS]

\* 2^31 is above 2 * 999999999
ASSUME RangeAssumption ==
    IntRange \in Nat /\ DECNUMMAXE \in Nat /\ 2 * DECNUMMAXE <= IntRange

\* an exponent that a context can ask for: no two are too large to be added
Addable(n) == -IntRange < n.exp /\ 2 * n.exp < IntRange

\* The exponent set for a sum that wrapped is below all that ctx can hold
\* (decNumber.c:5120) unless there are nearly DECNUMMAXE digits.
Underflows(l, r, ctx) ==
    ctx.digits - ctx.emin + Digits(l.coef) + Digits(r.coef) <= 2 * DECNUMMAXE

\* calls with numbers and contexts of any other size
ASSUME FamiliesAssumption ==
    \A f \in Families :
        /\ f.calls \subseteq [routine : {"Multiply", "FMA"},
                              left : {"a", "b"}, right : {"a", "b"},
                              lhs : {"acc"}, rhs : {"a", "b", "far"},
                              res : {"a", "b", "c", "far"}]
        /\ f.lhs \subseteq Numbers /\ f.rhs \subseteq Numbers /\ f.far \subseteq Numbers
        /\ f.earlier \subseteq SUBSET (Flags \ {"sNaN"})
        /\ \A n \in f.lhs \cup f.rhs : Addable(n)
        /\ \A ctx \in f.contexts :
               /\ IsContext(ctx)
               /\ \A l, r \in f.lhs \cup f.rhs : Underflows(l, r, ctx)

Done == pc = "done"

(***************************************************************************)
(* The exact result.  A product far below the context counts as one just   *)
(* below it, which rounds alike, to keep the numbers small.                *)
(***************************************************************************)
P == given.left.coef * given.right.coef
PNeg == Xor(given.left.neg, given.right.neg)
PExp == LET q == given.left.exp + given.right.exp
        IN  IF Fused THEN q ELSE Max({q, Etiny(set) - Digits(P) - 1})

Far == IF Fused THEN given.far ELSE Finite(PNeg, 0, PExp)

ExactExp == Min({PExp, Far.exp})

Signed(neg, c, e) == (IF neg THEN -1 ELSE 1) * c * powers[e - ExactExp]

ExactSum == Signed(PNeg, P, PExp) + Signed(Far.neg, Far.coef, Far.exp)
Magnitude == IF ExactSum < 0 THEN -ExactSum ELSE ExactSum

ResultNeg == IF ExactSum # 0 THEN ExactSum < 0
             ELSE IF PNeg = Far.neg THEN PNeg ELSE set.round = "FLOOR"

Operands == IF Fused THEN {given.left, given.right, given.far}
            ELSE {given.left, given.right}

\* An invalid operation: a signalling NaN, infinity times zero even if the
\* third number is a NaN, and infinities that cancel.
InfinityByZero ==
    /\ {given.left.kind, given.right.kind} = {"inf", "finite"}
    /\ IsZero(given.left) \/ IsZero(given.right)

ProductInfinite ==
    "inf" \in {given.left.kind, given.right.kind} /\ ~InfinityByZero

Invalid ==
    \/ \E n \in Operands : n.kind = "snan"
    \/ \A n \in {given.left, given.right} : ~IsNaN(n)
       /\ (InfinityByZero
              \/ (ProductInfinite /\ Far.kind = "inf" /\ Far.neg # PNeg))

\* A fused addition that decNumber.c:1079 says has "only one rounding" and has
\* not.  decAddOp takes the smaller exponent's operand for a residue if it cannot
\* reach the result (decNumber.c:3948, 3999), and that residue counts for more
\* than it is where the other operand, which is the whole product or the addend,
\* is longer than the precision and two digits more: with a precision of 3,
\* 505 * 199 + 9.9 gives 1.00E+5, and 1.01E+5 is the exact sum rounded.  With a
\* precision of 1 the mode 05UP, and the flags below Nmin, need a digit that is no
\* longer there.
RoundedByResidue ==
    /\ Fused /\ P # 0 /\ Far.coef # 0
    /\ LET product == Finite(PNeg, P, PExp)
           upper   == IF Far.exp < PExp THEN product ELSE Far
           lower   == IF Far.exp < PExp THEN Far ELSE product
           apart   == upper.exp - lower.exp
       IN  /\ apart > 0
           /\ Digits(upper.coef) + apart > Digits(lower.coef) + set.digits + 1
           /\ set.digits = 1 \/ Digits(upper.coef) > set.digits + 2

\* The result of a multiplication of finite numbers, and of a multiplication and
\* addition unless RoundedByResidue, is the exact one rounded once, with exactly
\* the flags that tell what was lost, whichever path multiplied, whatever the
\* exponents wrap to, and whichever operand the result overwrites; otherwise it is
\* a NaN exactly if an operand is one or the operation is invalid, which is
\* signalled (decMultiplyOp, decNumberFMA, decAddOp, decFinalize).
RoundedOnce ==
    Done => IF Fused /\ Refused(given.left, given.right, given.far) # {}
            THEN IsNaN(res)
            ELSE IF \A n \in Operands : ~IsSpecial(n)
            THEN RoundedByResidue
                 \/ /\ res = Delivered(ResultNeg, Magnitude, ExactExp, set)
                    /\ status = FlagsFor(ResultNeg, Magnitude, ExactExp, set)
            ELSE /\ IsNaN(res) <=> Invalid \/ \E n \in Operands : IsNaN(n)
                 /\ res.kind # "snan"
                 /\ "Invalid_operation" \in status <=> Invalid

(***************************************************************************)
(* Both ways to multiply implement the long multiplication.                *)
(***************************************************************************)
Factors == IF pc = "call" THEN [left |-> left, right |-> right, far |-> rhs]
           ELSE given

Multiplied ==
    /\ ~IsSpecial(Factors.left) /\ ~IsSpecial(Factors.right)
    /\ Fused => Refused(Factors.left, Factors.right, Factors.far) = {}

FirstLonger == Digits(Factors.left.coef) >= Digits(Factors.right.coef)
LongCoef  == IF FirstLonger THEN Factors.left.coef ELSE Factors.right.coef
ShortCoef == IF FirstLonger THEN Factors.right.coef ELSE Factors.left.coef

\* the part of the multiplier below the chunk or Unit to be used next
UsedUp == CASE pc \in {"call", "multiply"} -> 1
            [] pc = "units"  -> powers[DPUN * shift]
            [] pc = "chunks" -> powers[FASTDIGS * (IF stage = "add" THEN rip - 1
                                                   ELSE rip)]
            [] OTHER -> powers[Digits(ShortCoef)]

LongMultiplication ==
    INSTANCE LongProduct WITH
        multiplicand <- IF Multiplied THEN LongCoef ELSE 0,
        todo <- IF Multiplied THEN ShortCoef - (ShortCoef % UsedUp) ELSE 0,
        sum  <- IF ~Multiplied \/ pc \in {"call", "multiply"} THEN 0
                ELSE IF pc = "chunks" THEN Number(FASTBASE, zacc)
                ELSE Value(acc)

\* However a product is computed - Unit by Unit, or in chunks whose carries
\* wait - each row adds just its multiple of the multiplicand to the value the
\* accumulator stands for, and resolving carries, cutting into chunks and into
\* Units change nothing of it (decMultiplyOp).
MultipliesInRows == LongMultiplication!Spec

=============================================================================
