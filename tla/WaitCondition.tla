---------------------------- MODULE WaitCondition -----------------------------
(***************************************************************************)
(* One wait step: AzCliExecutor.wait_for_condition with the arm-tag poll   *)
(* of _evaluate_arm_tag, against a resource whose tag others change.       *)
(* Time is counted in poll intervals.                                      *)
(***************************************************************************)
EXTENDS Naturals

CONSTANTS
  Timeout,    \* timeout_minutes, in poll intervals
  MaxErrors   \* WAIT_MAX_CONSECUTIVE_ERRORS

\* What the constants are: ExecutorSteps assumes it.
WaitAssumption == Timeout \in Nat /\ MaxErrors \in Nat \ {0}

VARIABLES
  stop,      \* stop_requested.is_set()
  pc,        \* where wait_for_condition is
  tag,       \* what the tag says of the condition, or "gone" with its resource
  history,   \* what it has said (observed from outside)
  clock,     \* time since start
  errors,    \* consecutive_errors
  blind,     \* polls since the last one that told anything (from outside)
  result     \* status and why

waitVars == <<pc, clock, errors, blind, result>>
vars     == <<stop, tag, history, waitVars>>

(* "other" stands for an absent tag and for every intermediate value;      *)
(* "failing" is a value the failurePattern of the condition matches, other *)
(* than the expected one, which is compared first.                         *)
TagStates == {"other", "expected", "failing", "gone"}

NotReturned == [status |-> "none", why |-> "none"]

Init ==
  /\ stop = FALSE
  /\ pc = "start"
  /\ tag \in TagStates
  /\ history = {tag}
  /\ clock = 0
  /\ errors = 0
  /\ blind = 0
  /\ result = NotReturned

(* The platform, or an operator, changes the tag.                          *)
TagChanges ==
  /\ \E state \in TagStates \ {tag} :
       /\ tag' = state
       /\ history' = history \cup {state}
  /\ UNCHANGED <<stop, waitVars>>

Return(status, why) ==
  /\ pc' = "returned"
  /\ result' = [status |-> status, why |-> why]

StopAtStart ==
  /\ pc = "start"
  /\ stop
  /\ Return("cancelled", "none")
  /\ UNCHANGED <<stop, tag, history, clock, errors, blind>>

StartWaiting ==
  /\ pc = "start"
  /\ ~stop
  /\ pc' = "polling"
  /\ UNCHANGED <<stop, tag, history, clock, errors, blind, result>>

StopObserving ==
  /\ pc = "polling"
  /\ stop
  /\ Return("unknown", "stopped-observing")
  /\ UNCHANGED <<stop, tag, history, clock, errors, blind>>

LaunchShow ==
  /\ pc = "polling"
  /\ ~stop
  /\ pc' = "showing"
  /\ UNCHANGED <<stop, tag, history, clock, errors, blind, result>>

(* What `az resource show` gives: the tag, a permanent error, or an error  *)
(* that is not known to be permanent.                                      *)
ShowAnswers == {tag, "permanent", "error"}

(* Mutants: the wait has no deadline; it ends after its deadline only.     *)
SleepForEver(now) ==
  /\ pc' = "polling"
  /\ clock' = IF now < Timeout THEN now + 1 ELSE Timeout
  /\ UNCHANGED result
(* Fail at the deadline, or sleep, at most until the deadline.             *)
SleepOrTimeOut(now) ==
  IF now >= Timeout
    THEN Return("failed", "timeout") /\ clock' = now
    ELSE /\ pc' = "polling"
         /\ clock' = now + 1
         /\ UNCHANGED result

(* Mutant: errors are counted over the whole wait.                         *)
PendingCountsAll(a, now) ==
  /\ errors' = IF a = "error" THEN errors + 1 ELSE errors
  /\ IF a = "error" /\ errors + 1 >= MaxErrors
       THEN Return("unknown", "observation-lost") /\ clock' = now
       ELSE SleepOrTimeOut(now)

(* Mutant: the breaker gives a verdict.                                    *)
PendingBreakerFails(a, now) ==
  /\ errors' = IF a = "error" THEN errors + 1 ELSE 0
  /\ IF a = "error" /\ errors + 1 >= MaxErrors
       THEN Return("failed", "terminal") /\ clock' = now
       ELSE SleepOrTimeOut(now)

(* A poll that decides nothing: the breaker comes before the deadline.     *)
Pending(a, now) ==
  /\ errors' = IF a = "error" THEN errors + 1 ELSE 0
  /\ IF a = "error" /\ errors + 1 >= MaxErrors
       THEN Return("unknown", "observation-lost") /\ clock' = now
       ELSE SleepOrTimeOut(now)

(* The poll may take up to an interval of its own.                         *)
ShowReturns ==
  /\ pc = "showing"
  /\ \E a \in ShowAnswers, took \in 0..1 :
       /\ blind' = IF a = "error" THEN blind + 1 ELSE 0
       /\ \/ /\ a = "expected"
             /\ Return("succeeded", "none")
             /\ clock' = clock + took
             /\ UNCHANGED errors
          \/ /\ a \in {"failing", "gone", "permanent"}
             /\ Return("failed", "terminal")
             /\ clock' = clock + took
             /\ UNCHANGED errors
          \/ /\ a \in {"other", "error"}
             /\ Pending(a, clock + took)
  /\ UNCHANGED <<stop, tag, history>>

Engine ==
  \/ StopAtStart \/ StartWaiting \/ StopObserving \/ LaunchShow \/ ShowReturns

RequestStop == ~stop /\ stop' = TRUE /\ UNCHANGED <<tag, history, waitVars>>

Next == Engine \/ TagChanges \/ RequestStop

Spec == Init /\ [][Next]_vars

(* Each poll is bounded by the timeout of its tool.  Nothing is assumed of *)
(* the platform.                                                           *)
FairSpec == Spec /\ WF_vars(Engine)

-------------------------------------------------------------------------------
(* Properties.                                                             *)

(* Every variable holds a value of its kind; the clock never passes the    *)
(* deadline by more than one poll.                                         *)
TypeOK ==
  /\ stop \in BOOLEAN
  /\ pc \in {"start", "polling", "showing", "returned"}
  /\ tag \in TagStates
  /\ history \in SUBSET TagStates
  /\ clock \in 0..(Timeout + 1)
  /\ errors \in 0..MaxErrors
  /\ blind \in 0..MaxErrors
  /\ result \in [status : {"none", "succeeded", "failed", "unknown", "cancelled"},
                 why : {"none", "terminal", "timeout", "observation-lost",
                        "stopped-observing"}]

(* The breaker opens exactly when the last MaxErrors polls in a row told   *)
(* nothing: errors spread over a long wait never open it, and no wait goes *)
(* on blind for longer.                                                    *)
BreakerCountsBlindPolls ==
  /\ result.why = "observation-lost" <=> blind >= MaxErrors
  /\ pc \in {"polling", "showing"} => blind < MaxErrors

(* The contract FleetRun relies on; a wait counts as launched once it has  *)
(* begun to observe, also when a stop leaves it no time to.                *)
Call == INSTANCE ProviderCall WITH
  call <- CASE pc = "start" -> "begun"
            [] pc = "returned" -> "returned"
            [] OTHER -> "launched",
  outcome <- result.status

CallSpec == Call!Spec

(* The wait returns whatever happens to the tag.                           *)
WaitReturns == <>(pc = "returned")

(* A wait that fails before its deadline saw its resource fail the         *)
(* condition or was refused for good in its last poll, and one that        *)
(* succeeds saw the tag: errors that may pass never give a verdict.        *)
VerdictWasSeen ==
  /\ result.status = "succeeded" => "expected" \in history /\ blind = 0
  /\ result = [status |-> "failed", why |-> "terminal"] => blind = 0
===============================================================================
