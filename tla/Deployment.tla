------------------------------ MODULE Deployment ------------------------------
(***************************************************************************)
(* One ARM deployment: AzCliExecutor._deploy with _submit_deployment and   *)
(* _poll_deployment, against an Azure Resource Manager that takes, refuses *)
(* or delays the PUT of each `az deployment create --no-wait` and runs the *)
(* deployment in its own time.                                             *)
(*                                                                         *)
(* Time is counted in poll intervals.  Removing the parameters file always *)
(* succeeds here: a failed unlink is only logged by the code.              *)
(***************************************************************************)
EXTENDS Naturals

CONSTANTS
  MaxAttempts,       \* DEFAULT_DEPLOYMENT_SUBMIT_MAX_RETRIES
  NotFoundGrace,     \* DEPLOYMENT_NOTFOUND_GRACE_SECONDS
  ObservationGrace,  \* DEPLOYMENT_OBSERVATION_GRACE_SECONDS
  Deadline           \* DEFAULT_AZ_TIMEOUT_SECONDS

\* What the constants are: ExecutorSteps assumes it.
DeploymentAssumption ==
  /\ MaxAttempts \in Nat \ {0}
  /\ NotFoundGrace \in Nat
  /\ ObservationGrace \in Nat
  /\ Deadline \in Nat

VARIABLES
  stop,       \* stop_requested.is_set()
  pc,         \* where _deploy is
  parameters, \* the deployment has parameters
  file,       \* the parameters file exists
  attempt,    \* attempt of _submit_deployment
  put,        \* the PUT of this attempt: "none", "wire", "taken", "refused"
  strays,     \* PUTs of earlier attempts still on their way
  arm,        \* the deployment at ARM
  history,    \* the states it has been in (observed from outside)
  answer,     \* the last classified answer of the tool
  clock,      \* time since the start of the poll
  lastClean,  \* last_clean_obs
  visible,    \* ever_visible
  result      \* status and, when unknown, the UnconfirmedCompletion

engine == <<pc, parameters, file, attempt, answer, clock, lastClean, visible, result>>
azure  == <<put, strays, arm, history>>
vars   == <<stop, engine, azure>>

NotReturned == [status |-> "none", why |-> "none"]
Result(status, why) == [status |-> status, why |-> why]

Init ==
  /\ stop = FALSE
  /\ pc = "start"
  /\ parameters \in BOOLEAN
  /\ file = FALSE
  /\ attempt = 1
  /\ put = "none"
  /\ strays = 0
  /\ arm = "absent"
  /\ history = {"absent"}
  /\ answer = "none"
  /\ clock = 0
  /\ lastClean = 0
  /\ visible = FALSE
  /\ result = NotReturned

-------------------------------------------------------------------------------
(* Azure.                                                                  *)

Enter(state) == arm' = state /\ history' = history \cup {state}

(* ARM accepts a PUT: a new deployment, or a new run of one that ended.    *)
TakePut ==
  /\ put = "wire"
  /\ arm # "running"
  /\ put' = "taken"
  /\ Enter("running")
  /\ UNCHANGED <<stop, engine, strays>>

(* Validation failed, or a deployment of that name is active.              *)
RefusePut ==
  /\ put = "wire"
  /\ put' = "refused"
  /\ UNCHANGED <<stop, engine, strays, arm, history>>

(* A PUT whose tool already gave up is lost, refused or taken late.        *)
StrayArrives ==
  /\ strays > 0
  /\ strays' = strays - 1
  /\ \/ UNCHANGED <<arm, history>>
     \/ arm # "running" /\ Enter("running")
  /\ UNCHANGED <<stop, engine, put>>

ArmFinishes ==
  /\ arm = "running"
  /\ \E state \in {"succeeded", "failed"} : Enter(state)
  /\ UNCHANGED <<stop, engine, put, strays>>

-------------------------------------------------------------------------------
(* _deploy up to the submission.                                           *)

(* Every return of _deploy goes through the finally that removes the file. *)
Return(status, why) ==
  /\ pc' = "returned"
  /\ result' = Result(status, why)
  /\ file' = FALSE

(* Mutant: a stop that came before anything leaves the effect in doubt.    *)
StopAtStartInDoubt ==
  /\ pc = "start"
  /\ stop
  /\ Return("unknown", "stopped-observing")
  /\ UNCHANGED <<stop, azure, parameters, attempt, answer, clock, lastClean, visible>>

StopAtStart ==
  /\ pc = "start"
  /\ stop
  /\ Return("cancelled", "none")
  /\ UNCHANGED <<stop, azure, parameters, attempt, answer, clock, lastClean, visible>>

(* No Azure CLI, or the parameters file could not be written.              *)
FailToStart ==
  /\ pc = "start"
  /\ ~stop
  /\ Return("failed", "none")
  /\ UNCHANGED <<stop, azure, parameters, attempt, answer, clock, lastClean, visible>>

StageParameters ==
  /\ pc = "start"
  /\ ~stop
  /\ file' = parameters
  /\ pc' = "attempt"
  /\ UNCHANGED <<stop, azure, parameters, attempt, answer, clock, lastClean,
                 visible, result>>

-------------------------------------------------------------------------------
(* _submit_deployment.                                                     *)

(* Mutant: a stop between two attempts counts as never started.            *)
StopBetweenAttempts ==
  /\ pc = "attempt"
  /\ stop
  /\ Return("cancelled", "none")
  /\ UNCHANGED <<stop, azure, parameters, attempt, answer, clock, lastClean, visible>>

StopBeforeAttempt ==
  /\ pc = "attempt"
  /\ stop
  /\ IF attempt = 1 THEN Return("cancelled", "none")
                    ELSE Return("unknown", "stopped-observing")
  /\ UNCHANGED <<stop, azure, parameters, attempt, answer, clock, lastClean, visible>>

LaunchSubmit ==
  /\ pc = "attempt"
  /\ ~stop
  /\ pc' = "submitting"
  /\ put' = "none"
  /\ strays' = IF put = "wire" THEN strays + 1 ELSE strays
  /\ UNCHANGED <<stop, arm, history, parameters, file, attempt, answer, clock,
                 lastClean, visible, result>>

(* The Azure CLI sends its PUT, with the parameters inline.                *)
SendPut ==
  /\ pc = "submitting"
  /\ put = "none"
  /\ put' = "wire"
  /\ UNCHANGED <<stop, engine, strays, arm, history>>

(* What the ended tool may say, given what became of its PUT.  A definite  *)
(* answer excludes that ARM took this PUT; a timeout, a transient error or *)
(* an unclassified one excludes nothing.  The Azure CLI misses a parameter *)
(* before it sends anything, so at the first attempt or never.             *)
SubmitAnswers ==
  (IF put = "taken" THEN {"accepted"} ELSE {})
    \cup (IF put = "none" /\ attempt = 1 THEN {"missing-parameter"} ELSE {})
    \cup (IF put \in {"none", "refused"} THEN {"permanent", "not-found"} ELSE {})
    \cup {"timeout", "transient", "unknown"}

Definite == {"missing-parameter", "permanent", "not-found"}

(* (True, None): the file is removed and polling starts.                   *)
GoPoll ==
  /\ pc' = "polling"
  /\ file' = FALSE
  /\ UNCHANGED <<attempt, result>>

RetryOrPoll ==
  IF attempt < MaxAttempts
    THEN /\ pc' = "attempt"
         /\ attempt' = attempt + 1
         /\ UNCHANGED <<file, result>>
    ELSE GoPoll

HandleSubmit(a) ==
  CASE a = "accepted" -> GoPoll
    [] a \in Definite -> Return("failed", "none") /\ UNCHANGED attempt
    [] stop /\ a \in {"timeout", "transient", "unknown"} ->
         Return("unknown", "stopped-observing") /\ UNCHANGED attempt
    [] ~stop /\ a = "timeout" -> GoPoll
    [] ~stop /\ a = "transient" -> RetryOrPoll
    [] ~stop /\ a = "unknown" ->
         Return("unknown", "submit-unclassified") /\ UNCHANGED attempt

SubmitReturns ==
  /\ pc = "submitting"
  /\ \E a \in SubmitAnswers :
       /\ answer' = a
       /\ HandleSubmit(a)
  /\ UNCHANGED <<stop, azure, parameters, clock, lastClean, visible>>

-------------------------------------------------------------------------------
(* _poll_deployment.                                                       *)

StopPolling ==
  /\ pc = "polling"
  /\ stop
  /\ Return("unknown", "stopped-observing")
  /\ UNCHANGED <<stop, azure, parameters, attempt, answer, clock, lastClean, visible>>

LaunchShow ==
  /\ pc = "polling"
  /\ ~stop
  /\ pc' = "showing"
  /\ UNCHANGED <<stop, azure, parameters, file, attempt, answer, clock, lastClean,
                 visible, result>>

(* `az deployment show` gives the state, a not-found (also for a while     *)
(* after ARM took the deployment), or something that shows no state.       *)
ShowAnswers == (IF arm = "absent" THEN {} ELSE {arm}) \cup {"not-visible", "unreadable"}

Observed(a) == a \in {"running", "succeeded", "failed"}

(* Wait one interval and look again, unless the deadline has passed.       *)
WaitOrGiveUp(now) ==
  IF now >= Deadline
    THEN Return("unknown", "deadline-exceeded") /\ clock' = now
    ELSE /\ pc' = "polling"
         /\ clock' = now + 1
         /\ UNCHANGED <<file, result>>

(* Mutant: a deployment that stays unreadable is taken to have succeeded.  *)
HandleShowOptimistic(a, now) ==
  /\ answer' = a
  /\ visible' = (visible \/ Observed(a))
  /\ lastClean' = IF Observed(a) THEN now ELSE lastClean
  /\ IF a \in {"succeeded", "unreadable"}
       THEN Return("succeeded", "none") /\ clock' = now
       ELSE WaitOrGiveUp(now)

HandleShow(a, now) ==
  /\ answer' = a
  /\ visible' = (visible \/ Observed(a))
  /\ lastClean' = IF Observed(a) THEN now ELSE lastClean
  /\ CASE a = "succeeded" -> Return(a, "none") /\ clock' = now
       [] a = "failed" -> pc' = "explaining" /\ clock' = now /\ UNCHANGED <<file, result>>
       [] a = "running" -> WaitOrGiveUp(now)
       [] a = "not-visible" /\ ~visible ->
            IF now > NotFoundGrace
              THEN Return("unknown", "never-visible") /\ clock' = now
              ELSE WaitOrGiveUp(now)
       [] a = "unreadable" \/ (a = "not-visible" /\ visible) ->
            IF now - lastClean > ObservationGrace
              THEN Return("unknown", "observation-lost") /\ clock' = now
              ELSE WaitOrGiveUp(now)

(* The show itself may take up to an interval.                             *)
ShowReturns ==
  /\ pc = "showing"
  /\ \E a \in ShowAnswers, took \in 0..1 : HandleShow(a, clock + took)
  /\ UNCHANGED <<stop, azure, parameters, attempt>>

(* A document that is JSON but not of the expected shape: the exception    *)
(* leaves _deploy through its finally.                                     *)
ShowRaises ==
  /\ pc = "showing"
  /\ Return("raised", "none")
  /\ UNCHANGED <<stop, azure, parameters, attempt, answer, clock, lastClean, visible>>

(* _format_deployment_failure: the operations of the deployment are listed *)
(* for what failed, by one more tool call.  Its answer, or that it has     *)
(* none, changes the wording and no verdict; a list of another shape       *)
(* raises.                                                                 *)
ExplainFailure ==
  /\ pc = "explaining"
  /\ Return("failed", "none") \/ Return("raised", "none")
  /\ UNCHANGED <<stop, azure, parameters, attempt, answer, clock, lastClean, visible>>

-------------------------------------------------------------------------------

Start == StopAtStart \/ FailToStart \/ StageParameters
Submit == StopBeforeAttempt \/ LaunchSubmit \/ SubmitReturns
Poll == StopPolling \/ LaunchShow \/ ShowReturns \/ ShowRaises \/ ExplainFailure

Engine == Start \/ Submit \/ Poll

Azure == SendPut \/ TakePut \/ RefusePut \/ StrayArrives \/ ArmFinishes

RequestStop == ~stop /\ stop' = TRUE /\ UNCHANGED <<engine, azure>>

(* The call has returned and Azure has nothing left to do.                 *)
Quiet == pc = "returned" /\ UNCHANGED vars

Next == Engine \/ Azure \/ RequestStop \/ Quiet

Spec == Init /\ [][Next]_vars

(* The engine keeps running and each tool call is bounded by its timeout.  *)
(* Nothing is assumed of Azure, nor that anyone requests a stop.           *)
FairSpec == Spec /\ WF_vars(Engine)

-------------------------------------------------------------------------------
(* Properties.                                                             *)

Statuses == {"none", "succeeded", "failed", "unknown", "cancelled", "raised"}
Reasons == {"none", "submit-unclassified", "never-visible", "observation-lost",
            "deadline-exceeded", "stopped-observing"}
ArmStates == {"absent", "running", "succeeded", "failed"}

(* Every variable holds a value of its kind, and no earlier observation    *)
(* lies in the future.                                                     *)
TypeOK ==
  /\ stop \in BOOLEAN
  /\ pc \in {"start", "attempt", "submitting", "polling", "showing", "explaining", "returned"}
  /\ parameters \in BOOLEAN
  /\ file \in BOOLEAN
  /\ attempt \in 1..MaxAttempts
  /\ put \in {"none", "wire", "taken", "refused"}
  /\ strays \in 0..(MaxAttempts - 1)
  /\ arm \in ArmStates
  /\ history \in SUBSET ArmStates
  /\ answer \in {"none", "accepted", "timeout", "transient", "unknown", "not-visible",
                 "unreadable", "running", "succeeded", "failed"} \cup Definite
  /\ clock \in 0..(Deadline + 1)
  /\ lastClean \in 0..clock
  /\ visible \in BOOLEAN
  /\ result \in [status : Statuses, why : Reasons]

(* A success is reported only of a deployment that reached it at ARM.      *)
ReportedSuccessHappened == result.status = "succeeded" => "succeeded" \in history

(* A deployment reported as stopped before it started can never appear at  *)
(* ARM: no PUT was taken and none is on its way.                           *)
CancelledNeverArrives ==
  result.status = "cancelled" => arm = "absent" /\ put = "none" /\ strays = 0

(* The contract FleetRun relies on.                                        *)
Call == INSTANCE ProviderCall WITH
  call <- IF result # NotReturned THEN "returned"
          ELSE IF pc = "start" \/ (pc = "attempt" /\ attempt = 1) THEN "begun"
          ELSE "launched",
  outcome <- result.status

CallSpec == Call!Spec

(* The call returns whatever Azure does, within its own deadline.          *)
DeploymentReturns == <>(pc = "returned")

(* docs/run-output.md: "`unknown` means an operation's final effect or     *)
(* observation could not be confirmed. This includes ambiguous             *)
(* submission".  So a deployment ARM runs, or ran to success, is never     *)
(* reported failed.                                                        *)
FailedIsNotAmbiguous ==
  result.status = "failed" => arm \notin {"running", "succeeded"}
===============================================================================
