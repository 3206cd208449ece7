------------------------------ MODULE MCFleetRun ------------------------------
(***************************************************************************)
(* Plans for model-checking FleetRun.  Target 1 is the first of the plan.  *)
(***************************************************************************)
EXTENDS FleetRun

CONSTANTS s1, s2

NoRefs == [t \in Targets |-> [s \in Steps |-> {}]]

RunAll == [t \in Targets |-> [s \in Steps |-> "execute"]]

(* Step 1 at subscription scope, on target 1 only; every other target runs *)
(* the later steps and its last one reads the output of step 1 of target 1.*)
TwoPhase ==
  [kind         |-> [t \in Targets |-> IF t = 1 THEN "subscription" ELSE "resource-group"],
   subscription |-> [t \in Targets |-> s1],
   scope        |-> [s \in Steps |-> IF s = 1 THEN "subscription" ELSE "any"],
   disp         |-> [t \in Targets |-> [s \in Steps |->
                       IF (t = 1) = (s = 1) THEN "execute" ELSE "skip"]],
   refs         |-> [NoRefs EXCEPT ![2][NumSteps] = {<<1, 1>>}]]

(* The same with a kubectl step that also runs on target 1.                *)
TwoPhaseShared ==
  [TwoPhase EXCEPT !.disp[1] = [s \in Steps |-> "execute"]]

(* No subscription step: one phase, each target's last step reads its      *)
(* first.                                                                  *)
OnePhase ==
  [kind         |-> [t \in Targets |-> "resource-group"],
   subscription |-> [t \in Targets |-> s1],
   scope        |-> [s \in Steps |-> "any"],
   disp         |-> RunAll,
   refs         |-> [t \in Targets |-> [NoRefs[t] EXCEPT ![NumSteps] = {<<t, 1>>}]]]

(* A failed preparation, and two targets at the level of one subscription. *)
BlockedPlan == [OnePhase EXCEPT !.disp[1] = [s \in Steps |-> "blocked"],
                                !.refs = NoRefs]
DuplicatePlan ==
  [OnePhase EXCEPT !.kind = [t \in Targets |-> "subscription"], !.refs = NoRefs]
SeparatePlan ==
  [DuplicatePlan EXCEPT !.subscription = [t \in Targets |-> IF t = 1 THEN s1 ELSE s2]]

MCPlans == {TwoPhase, TwoPhaseShared, OnePhase, BlockedPlan, DuplicatePlan}

SmallPlans == {TwoPhaseShared, OnePhase, SeparatePlan}
===============================================================================
