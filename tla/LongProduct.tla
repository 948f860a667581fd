---------------------------- MODULE LongProduct -----------------------------
(***************************************************************************)
(* What a long multiplication is, whatever the base, the order of the rows *)
(* and the time carries are resolved: parts of the multiplier are taken    *)
(* away, and the multiplicand times each part is added to the sum, until   *)
(* no part is left.                                                        *)
(***************************************************************************)
EXTENDS Integers

VARIABLES
    multiplicand,
    todo,          \* the part of the multiplier not used yet
    sum

vars == <<multiplicand, todo, sum>>

Init == multiplicand \in Nat /\ todo \in Nat /\ sum = 0

AddPart ==
    /\ todo' \in Nat /\ todo' < todo
    /\ sum' = sum + multiplicand * (todo - todo')
    /\ UNCHANGED multiplicand

Spec == Init /\ [][AddPart]_vars

=============================================================================
