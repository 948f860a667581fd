------------------------------- MODULE DecOps -------------------------------
(***************************************************************************)
(* One call of a routine of decNumber.c that needs no arithmetic loop of   *)
(* its own: comparisons, exponent and digit operations, conversions.  The  *)
(* routine computes its result and flags, decStatus makes the NaN and the  *)
(* context gathers the flags, which may raise SIGFPE.  A caller may have   *)
(* saved and cleared part of the status before, and restores it after.     *)
(***************************************************************************)
EXTENDS DecText

(***************************************************************************)
(* The status side of a context (decContext.c): flags only gather, until a *)
(* caller clears or restores some, and one that is trapped raises SIGFPE,  *)
(* from which the handler may or may not return.                           *)
(***************************************************************************)
\* decContextSetStatus; raised holds the flags for which SIGFPE was raised
SetStatus(ctx, flags) ==
    [ctx EXCEPT !.status = @ \cup flags,
                !.raised = IF flags \cap ctx.traps # {} THEN flags ELSE {}]

SetStatusQuiet(ctx, flags) == [ctx EXCEPT !.status = @ \cup flags]

\* decContextZeroStatus is ClearStatus of all flags
ClearStatus(ctx, mask) == [ctx EXCEPT !.status = @ \ mask]

SaveStatus(ctx, mask) == ctx.status \cap mask

RestoreStatus(ctx, saved, mask) ==
    [ctx EXCEPT !.status = (@ \ mask) \cup (mask \cap saved)]

(***************************************************************************)
(* decContextStatusToString names a single flag; SetStatusFromString takes *)
(* such a name, and refuses the name of several flags.                     *)
(***************************************************************************)
ConditionOf(status) ==
    IF status = {} THEN "No status"
    ELSE IF \E f \in status : status = {f} THEN CHOOSE f \in status : TRUE
    ELSE "Multiple status"

Recognized(condition) == condition \in (Flags \ {"sNaN"}) \cup {"No status"}

FlagsOf(condition) == {condition} \ {"No status"}

SetStatusFromString(ctx, condition) ==
    IF Recognized(condition) THEN SetStatus(ctx, FlagsOf(condition)) ELSE ctx

SetStatusFromStringQuiet(ctx, condition) ==
    IF Recognized(condition) THEN SetStatusQuiet(ctx, FlagsOf(condition)) ELSE ctx

(***************************************************************************)
(* A call and its context.                                                 *)
(***************************************************************************)
CONSTANT
    Families    \* the calls made: sets of routines, contexts, operands, texts,
                \* earlier status, traps, and masks of the status to be saved

VARIABLES
    call,       \* routine, l, r
    set,        \* the numeric side of the context
    ctx,        \* its status side
    saved,      \* status the caller saved, under which mask, and how
    pc,         \* what comes next
    text,       \* the string being written or read
    res,        \* the result
    status,     \* local status accumulator
    given       \* status at the time of the call (history)

vars == <<call, set, ctx, saved, pc, text, res, status, given>>

l == call.l
r == call.r

Init ==
    /\ \E f \in Families :
           /\ \E routine \in f.routines, x \in f.lhs, y \in f.rhs :
                  call = [routine |-> routine, l |-> x, r |-> y]
           /\ set \in f.contexts
           /\ text \in f.texts
           /\ \E s \in f.earlier, t \in f.traps :
                  ctx = [status |-> s, traps |-> t, raised |-> {}]
           /\ \E mask \in f.masks : 
              saved = [mask |-> mask, status |-> {}, by |-> "bits"]
    /\ pc = "save" /\ res = Finite(FALSE, 0, 0) /\ status = {} /\ given = {}

(***************************************************************************)
(* The caller's protocol around a call.                                    *)
(***************************************************************************)
SaveAndClear ==
    /\ pc = "save"
    /\ saved' = [saved EXCEPT !.status = SaveStatus(ctx, saved.mask)]
    /\ ctx' = ClearStatus(ctx, saved.mask)
    /\ given' = ctx'.status
    /\ pc' = "call"
    /\ UNCHANGED <<call, set, text, res, status>>

Restore ==
    /\ pc = "reported"
    /\ ctx' = RestoreStatus(ctx, saved.status, saved.mask)
    /\ pc' = "done"
    /\ UNCHANGED <<call, set, saved, text, res, status, given>>

\* what was saved was kept as its name; loudly, a trap is raised again
RestoreByName ==
    /\ pc = "reported" /\ saved.mask # {}
    /\ LET cleared == ClearStatus(ctx, saved.mask)
           name    == ConditionOf(saved.status)
       IN  \/ /\ ctx' = SetStatusFromString(cleared, name)
              /\ saved' = [saved EXCEPT !.by = "name"]
           \/ /\ ctx' = SetStatusFromStringQuiet(cleared, name)
              /\ saved' = [saved EXCEPT !.by = "quiet name"]
    /\ pc' = "done"
    /\ UNCHANGED <<call, set, text, res, status, given>>

(***************************************************************************)
(* The routines.                                                           *)
(***************************************************************************)
Called(routine) == pc = "call" /\ call.routine = routine

Deliver(w) ==
    /\ res' = w.dn
    /\ status' = w.status
    /\ pc' = "report"
    /\ UNCHANGED <<call, set, ctx, saved, text, given>>

CallCompare == Called("Compare") /\ Deliver(CompareValue(l, r, set))
CallCompareSignal == Called("CompareSignal") /\ Deliver(CompareSignal(l, r, set))
CallCompareTotal == Called("CompareTotal") /\ Deliver(CompareTotal(l, r))
CallCompareTotalMag == Called("CompareTotalMag") /\ Deliver(CompareTotalMag(l, r))
CallMax == Called("Max") /\ Deliver(MaxOrMin(l, r, set, FALSE, FALSE))
CallMin == Called("Min") /\ Deliver(MaxOrMin(l, r, set, TRUE, FALSE))
CallMaxMag == Called("MaxMag") /\ Deliver(MaxOrMin(l, r, set, FALSE, TRUE))
CallMinMag == Called("MinMag") /\ Deliver(MaxOrMin(l, r, set, TRUE, TRUE))
CallSameQuantum == Called("SameQuantum") /\ Deliver(Plain(SameQuantum(l, r)))

CallCopyAbs == Called("CopyAbs") /\ Deliver(Plain(CopyAbs(l)))
CallCopyNegate == Called("CopyNegate") /\ Deliver(Plain(CopyNegate(l)))
CallCopySign == Called("CopySign") /\ Deliver(Plain(CopySign(l, r)))

CallQuantize == Called("Quantize") /\ Deliver(Quantize(l, r, set))
CallRescale == Called("Rescale") /\ Deliver(Rescale(l, r, set))
CallReduce == Called("Reduce") /\ Deliver(Reduce(l, set))
CallTrim == Called("Trim") /\ Deliver(Trim(l, set))
CallScaleB == Called("ScaleB") /\ Deliver(ScaleB(l, r, set))
CallLogB == Called("LogB") /\ Deliver(LogB(l, set))
CallToIntegralExact ==
    Called("ToIntegralExact") /\ Deliver(ToIntegralExact(l, set, ctx.status))
CallToIntegralValue ==
    Called("ToIntegralValue") /\ Deliver(ToIntegralValue(l, set, ctx.status))

CallNextPlus == Called("NextPlus") /\ Deliver(NextPlus(l, set))
CallNextMinus == Called("NextMinus") /\ Deliver(NextMinus(l, set))
CallNextToward == Called("NextToward") /\ Deliver(NextToward(l, r, set))

CallLogical == \E op \in {"And", "Or", "Xor"} :
                   Called(op) /\ Deliver(Logical(op, l, r, set))
CallInvert == Called("Invert") /\ Deliver(Invert(l, set))
CallRotate == Called("Rotate") /\ Deliver(Rotate(l, r, set))
CallShift == Called("Shift") /\ Deliver(Shift(l, r, set))

\* the coefficient is read out and set again, in a number of equal length
CallBCD ==
    /\ Called("BCD")
    /\ LET bcd == GetBCD(l) IN SetBCDFits(l, bcd) /\ Deliver(Plain(SetBCD(l, bcd)))

\* the integer is converted back to be compared
CallToInt == Called("ToInt32") /\ Deliver(Failed(FromInt(ToInt(l).value),
                                                 ToInt(l).status))
CallToUInt == Called("ToUInt32") /\ Deliver(Failed(FromInt(ToUInt(l).value),
                                                   ToUInt(l).status))

\* the string just laid out, or one from elsewhere, is read
CallToString ==
    /\ \/ Called("ToString") /\ text' = ToText(l, FALSE)
       \/ Called("ToEngString") /\ text' = ToText(l, TRUE)
    /\ pc' = "read"
    /\ UNCHANGED <<call, set, ctx, saved, res, status, given>>

CallFromString ==
    /\ pc = "read" \/ Called("FromString")
    /\ Deliver(FromText(text, set))

(***************************************************************************)
(* decStatus; the conversions to binary set the context's status only.     *)
(* raise(SIGFPE) comes last: a handler that jumps away leaves a complete   *)
(* result and status.                                                      *)
(***************************************************************************)
\* mutant: the trap is raised for flags of the context, old ones included
ReportAllFlags ==
    /\ pc = "report"
    /\ res' = IF call.routine \in {"ToInt32", "ToUInt32"} THEN res
              ELSE AfterStatus(res, status)
    /\ ctx' = SetStatus(ctx, ctx.status \cup (status \ {"sNaN"}))
    /\ pc' = "reported"
    /\ UNCHANGED <<call, set, saved, text, status, given>>

Report ==
    /\ pc = "report"
    /\ res' = IF call.routine \in {"ToInt32", "ToUInt32"} THEN res
              ELSE AfterStatus(res, status)
    /\ ctx' = SetStatus(ctx, status \ {"sNaN"})
    /\ pc' = "reported"
    /\ UNCHANGED <<call, set, saved, text, status, given>>

Next ==
    \/ SaveAndClear \/ Restore \/ RestoreByName \/ Report
    \/ CallCompare \/ CallCompareSignal \/ CallCompareTotal \/ CallCompareTotalMag
    \/ CallMax \/ CallMin \/ CallMaxMag \/ CallMinMag \/ CallSameQuantum
    \/ CallCopyAbs \/ CallCopyNegate \/ CallCopySign
    \/ CallQuantize \/ CallRescale \/ CallReduce \/ CallTrim \/ CallScaleB
    \/ CallLogB \/ CallToIntegralExact \/ CallToIntegralValue
    \/ CallNextPlus \/ CallNextMinus \/ CallNextToward
    \/ CallLogical \/ CallInvert \/ CallRotate \/ CallShift \/ CallBCD
    \/ CallToInt \/ CallToUInt \/ CallToString \/ CallFromString

Spec == Init /\ [][Next]_vars

=============================================================================
