---------------------------- MODULE DecFloatCalls ---------------------------
(***************************************************************************)
(* A caller's calculation with numbers of a fixed-size format: calls that  *)
(* share one context, which gathers their status, each on operands of its  *)
(* own or on the result of the one before.  The call made is kept as it    *)
(* was made, with the context of that time.                                *)
(***************************************************************************)
EXTENDS DecFloatOps

CONSTANTS
    Families,   \* calls: sets of routines, operands, modes, earlier status
    FollowUps   \* routines that may be called next, after some routines

VARIABLES
    call,       \* routine, l, r, f (operands), rmode (a rounding mode given)
    set,        \* the context: round and status
    given,      \* the context at the time of the call (history)
    res,        \* the result
    pc

vars == <<call, set, given, res, pc>>

l == call.l
r == call.r
f == call.f

Call(fam) ==
    [routine : fam.routines, l : fam.lhs, r : fam.rhs, f : fam.fhs, rmode : fam.rmodes]

Init ==
    /\ \E fam \in Families :
           /\ call \in Call(fam)
           /\ set \in [round : fam.rounds, status : fam.earlier]
    /\ given = set /\ res = FloatZero /\ pc = "call"

Called(routine) == pc = "call" /\ call.routine = routine

Deliver(w) ==
    /\ res' = w.df
    /\ set' = w.set
    /\ pc' = "done"
    /\ UNCHANGED <<call, given>>

Exactly(df) == Return(df, set)

CallAdd      == Called("Add") /\ Deliver(decFloatAdd(l, r, set))
CallSubtract == Called("Subtract") /\ Deliver(decFloatSubtract(l, r, set))
CallMultiply == Called("Multiply") /\ Deliver(decFloatMultiply(l, r, set))
CallFMA      == Called("FMA") /\ Deliver(decFloatFMA(l, r, f, set))
CallDivide   == \E op \in {"DIVIDE", "DIVIDEINT", "REMAINDER", "REMNEAR"} :
                    Called(op) /\ Deliver(decDivide(l, r, set, op))

CallCompare       == Called("Compare") /\ Deliver(decFloatCompare(l, r, set))
CallCompareSignal == Called("CompareSignal") /\ Deliver(decFloatCompareSignal(l, r, set))

\* the feet of the buffers, if there are any, hold whatever was there
Feet == IF AnyNaN(l, r) THEN [1..WORD -> {0, 1}] ELSE {<<>>}
CallCompareTotal ==
    \E footl, footr \in Feet :
        \/ /\ Called("CompareTotal")
           /\ Deliver(Exactly(decFloatCompareTotal(l, r, footl, footr)))
        \/ /\ Called("CompareTotalMag")
           /\ Deliver(Exactly(decFloatCompareTotalMag(l, r, footl, footr)))

CallMax    == Called("Max") /\ Deliver(decFloatMax(l, r, set))
CallMin    == Called("Min") /\ Deliver(decFloatMin(l, r, set))
CallMaxMag == Called("MaxMag") /\ Deliver(decFloatMaxMag(l, r, set))
CallMinMag == Called("MinMag") /\ Deliver(decFloatMinMag(l, r, set))
CallSameQuantum ==
    Called("SameQuantum") /\ Deliver(Exactly(Integer(IF SameQuantum(l, r) THEN 1 ELSE 0)))

CallAbs   == Called("Abs") /\ Deliver(decFloatAbs(l, set))
CallPlus  == Called("Plus") /\ Deliver(decFloatPlus(l, set))
CallMinus == Called("Minus") /\ Deliver(decFloatMinus(l, set))
CallCopy ==
    \/ Called("Canonical") /\ Deliver(Exactly(decCanonical(l)))
    \/ Called("Copy") /\ Deliver(Exactly(l))
    \/ Called("CopyAbs") /\ Deliver(Exactly(Positive(l)))
    \/ Called("CopyNegate") /\ Deliver(Exactly(Negative(l)))
    \/ Called("CopySign") /\ Deliver(Exactly(decFloatCopySign(l, r)))

CallQuantize == Called("Quantize") /\ Deliver(decFloatQuantize(l, r, set))
CallReduce   == Called("Reduce") /\ Deliver(decFloatReduce(l, set))
CallScaleB   == Called("ScaleB") /\ Deliver(decFloatScaleB(l, r, set))
CallLogB     == Called("LogB") /\ Deliver(decFloatLogB(l, set))

CallToIntegralValue ==
    Called("ToIntegralValue") /\ Deliver(decToIntegral(l, set, call.rmode, FALSE))
CallToIntegralExact ==
    Called("ToIntegralExact") /\ Deliver(decToIntegral(l, set, set.round, TRUE))

\* the binary integer is converted back to be looked at
Back(w) == Return(Integer(w.value), w.set)
CallToInt ==
    \/ Called("ToInt32") /\ Deliver(Back(decToInt32(l, set, call.rmode, FALSE, FALSE)))
    \/ Called("ToInt32Exact") /\ Deliver(Back(decToInt32(l, set, call.rmode, TRUE, FALSE)))
    \/ Called("ToUInt32") /\ Deliver(Back(decToInt32(l, set, call.rmode, FALSE, TRUE)))
    \/ Called("ToUInt32Exact") /\ Deliver(Back(decToInt32(l, set, call.rmode, TRUE, TRUE)))

CallNextPlus   == Called("NextPlus") /\ Deliver(decFloatNextPlus(l, set))
CallNextMinus  == Called("NextMinus") /\ Deliver(decFloatNextMinus(l, set))
CallNextToward == Called("NextToward") /\ Deliver(decFloatNextToward(l, r, set))

CallLogical ==
    \/ Called("And") /\ Deliver(decFloatAnd(l, r, set))
    \/ Called("Or") /\ Deliver(decFloatOr(l, r, set))
    \/ Called("Xor") /\ Deliver(decFloatXor(l, r, set))
    \/ Called("Invert") /\ Deliver(decFloatInvert(l, set))
CallRotate == Called("Rotate") /\ Deliver(decFloatRotate(l, r, set))
CallShift  == Called("Shift") /\ Deliver(decFloatShift(l, r, set))

CallFromWider  == Called("FromWider") /\ Deliver(decFloatFromWider(l, set))
CallFromString == Called("FromString") /\ Deliver(decFloatFromString(l, set))

(***************************************************************************)
(* The result goes into a next call, in the context as it was left.        *)
(***************************************************************************)
NextCall ==
    /\ pc = "done" /\ call.routine \in DOMAIN FollowUps
    /\ \E routine \in FollowUps[call.routine] :
           call' = [call EXCEPT !.routine = routine, !.l = res, !.r = call.l,
                                !.f = FloatZero]
    /\ given' = set
    /\ pc' = "call"
    /\ UNCHANGED <<set, res>>

Next ==
    \/ CallAdd \/ CallSubtract \/ CallMultiply \/ CallFMA \/ CallDivide
    \/ CallCompare \/ CallCompareSignal \/ CallCompareTotal
    \/ CallMax \/ CallMin \/ CallMaxMag \/ CallMinMag \/ CallSameQuantum
    \/ CallAbs \/ CallPlus \/ CallMinus \/ CallCopy
    \/ CallQuantize \/ CallReduce \/ CallScaleB \/ CallLogB
    \/ CallToIntegralValue \/ CallToIntegralExact \/ CallToInt
    \/ CallNextPlus \/ CallNextMinus \/ CallNextToward
    \/ CallLogical \/ CallRotate \/ CallShift
    \/ CallFromWider \/ CallFromString
    \/ NextCall

Spec == Init /\ [][Next]_vars

=============================================================================
