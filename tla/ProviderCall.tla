----------------------------- MODULE ProviderCall -----------------------------
(***************************************************************************)
(* What FleetRun relies on of one provider call of the executor            *)
(* (AzCliExecutor): the flags that _validate_completion lets a             *)
(* DeploymentResult, KubectlResult or WaitResult carry, and what they say  *)
(* about whether the provider may have acted.  Deployment, WaitCondition   *)
(* and, for each Site, KubectlApply implement it.                          *)
(***************************************************************************)

VARIABLES
  stop,    \* stop_requested.is_set()
  call,    \* "begun"; "launched" once a tool that acts was started, or a
           \* wait began to observe; "returned"
  outcome  \* "none" until the call returned

callVars == <<stop, call, outcome>>

Outcomes == {"succeeded", "failed", "unknown", "cancelled", "raised"}

Init == stop = FALSE /\ call = "begun" /\ outcome = "none"

RequestStop == ~stop /\ stop' = TRUE /\ UNCHANGED <<call, outcome>>

Launch ==
  /\ call = "begun"
  /\ call' = "launched"
  /\ UNCHANGED <<stop, outcome>>

Return(result, from) ==
  /\ call \in from
  /\ call' = "returned"
  /\ outcome' = result
  /\ UNCHANGED stop

(* Success and doubt need a launched tool; a definite failure does not.    *)
ReturnSuccess == Return("succeeded", {"launched"})
ReturnUnknown == Return("unknown", {"launched"})
ReturnFailure == Return("failed", {"begun", "launched"})

(* stopped_before_start: a stop was requested and no tool was launched.    *)
ReturnStoppedBeforeStart == stop /\ Return("cancelled", {"begun"})

RaiseError == Return("raised", {"begun", "launched"})

Next ==
  \/ RequestStop \/ Launch
  \/ ReturnSuccess \/ ReturnUnknown \/ ReturnFailure
  \/ ReturnStoppedBeforeStart \/ RaiseError

Spec == Init /\ [][Next]_callVars
===============================================================================
