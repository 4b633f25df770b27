---------------------------- MODULE BuildContract ----------------------------
(***************************************************************************)
(* What the build manager promises whoever queues build steps: steps are   *)
(* taken one after the other, in the order they were queued; each of them  *)
(* is either finished before the next one or dropped together with all     *)
(* that are still waiting; and the end is announced once, as a success     *)
(* only when no step failed and nothing was dropped.                       *)
(***************************************************************************)
EXTENDS Naturals, Sequences

CONSTANT Steps

VARIABLES
    building,   \* TRUE from the first step on until the end is announced
    pending,    \* the steps to be done, the one being done in front
    failed,     \* a step of the build has failed
    announced   \* the last announcement

vars == <<building, pending, failed, announced>>

Init ==
    /\ building = FALSE
    /\ pending = <<>>
    /\ failed = FALSE
    /\ announced = "none"

(* Steps are queued at the end, before or during a build. *)
Queue ==
    /\ Len(pending') > Len(pending)
    /\ pending' \in Seq(Steps)
    /\ SubSeq(pending', 1, Len(pending)) = pending
    /\ building' = TRUE
    /\ IF building
       THEN UNCHANGED <<failed, announced>>
       ELSE failed' = FALSE /\ announced' = "none"

StepDone ==
    /\ building
    /\ pending # <<>>
    /\ pending' = Tail(pending)
    /\ UNCHANGED <<building, failed, announced>>

StepFails ==
    /\ building
    /\ pending # <<>>
    /\ failed' = TRUE
    /\ UNCHANGED <<building, pending, announced>>

Succeed ==
    /\ building
    /\ pending = <<>>
    /\ ~failed
    /\ building' = FALSE
    /\ announced' = "success"
    /\ UNCHANGED <<pending, failed>>

(* A step failed or the user canceled: all that is left is dropped. *)
Fail ==
    /\ building
    /\ pending' = <<>>
    /\ building' = FALSE
    /\ announced' = "failure"
    /\ UNCHANGED failed

Next == Queue \/ StepFails \/ StepDone \/ Succeed \/ Fail

Spec == Init /\ [][Next]_vars
==============================================================================
