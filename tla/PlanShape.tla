------------------------------- MODULE PlanShape -------------------------------
(***************************************************************************)
(* What execute_plan is given: the dispositions of a prepared plan and the *)
(* outputs its operations read.  Preparation shows that build_plan makes   *)
(* only well formed plans; FleetRun assumes it.                            *)
(***************************************************************************)
EXTENDS Outcomes

CONSTANTS
  NumTargets,     \* targets of the plan
  NumSteps,       \* manifest steps; every target has one operation per step
  Subscriptions   \* Azure subscriptions the targets live in

Targets == 1..NumTargets
Steps == 1..NumSteps

(* scope[s] = "subscription" for a step scoped to the subscription,        *)
(* "any" for every other step.  refs[t][s] are the operations whose        *)
(* outputs the inputs of operation s of t read.                            *)
PlanType ==
  [kind         : [Targets -> {"subscription", "resource-group"}],
   subscription : [Targets -> Subscriptions],
   scope        : [Steps -> {"subscription", "any"}],
   disp         : [Targets -> [Steps -> Disposition]],
   refs         : [Targets -> [Steps -> SUBSET (Targets \X Steps)]]]

(* What _prepare_plan_targets makes available to operation s of t: an      *)
(* earlier executable step of the same target (at subscription level only  *)
(* one scoped to it), or of the target at subscription level of its        *)
(* subscription.                                                           *)
MayRead(p, t, s) ==
  {op \in Targets \X Steps :
     /\ op[2] < s
     /\ p.disp[op[1]][op[2]] = "execute"
     /\ \/ /\ op[1] = t
           /\ (p.kind[t] = "subscription") = (p.scope[op[2]] = "subscription")
        \/ /\ p.kind[t] = "resource-group"
           /\ p.kind[op[1]] = "subscription"
           /\ p.subscription[op[1]] = p.subscription[t]
           /\ p.scope[op[2]] = "subscription"}

WellFormed(p) ==
  /\ \A t \in Targets, s \in Steps : p.refs[t][s] \subseteq MayRead(p, t, s)
  /\ \A t \in Targets, s \in Steps :
       p.kind[t] = "resource-group" /\ p.scope[s] = "subscription"
         => p.disp[t][s] # "execute"
===============================================================================
