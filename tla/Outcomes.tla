------------------------------- MODULE Outcomes -------------------------------
(***************************************************************************)
(* Outcome vocabulary of siteops/results.py: what one prepared operation   *)
(* ended as, and how operation outcomes become the status of a Site, of    *)
(* the run and the process exit code.  Pure operators, no state.           *)
(***************************************************************************)
EXTENDS Naturals

(* A plan disposition.  "skip" stands for both static skip codes           *)
(* (condition-false and scope-mismatch), "blocked" for every blocked code. *)
Disposition == {"execute", "skip", "blocked"}

OperationStatus ==
  {"succeeded", "failed", "skipped", "not-run", "cancelled", "unknown"}

(* "excluded" stands for condition-false and scope-mismatch alike.         *)
ReasonCode ==
  {"none", "excluded", "plan-blocked", "dependency-unavailable",
   "operation-failed", "earlier-operation-failed",
   "earlier-operation-unknown", "cancelled-before-start",
   "run-interrupted", "completion-unknown"}

OperationResult == [status : OperationStatus, reason : ReasonCode]

Outcome(status, reason) == [status |-> status, reason |-> reason]

(* The absence of a result: the operation has not been accounted for yet.  *)
NoResult == [status |-> "none", reason |-> "none"]

Succeeded == Outcome("succeeded", "none")

(* Mutant: the plan disposition is reused as a runtime status.             *)
NonExecutableReusesDisposition(disposition) == Outcome(disposition, "excluded")

(* operation_result_for_plan_disposition, on a disposition that is not     *)
(* "execute".                                                              *)
NonExecutable(disposition) ==
  IF disposition = "skip" THEN Outcome("skipped", "excluded")
                          ELSE Outcome("not-run", "plan-blocked")

(* An operation nobody started, because of `reason`.                       *)
Unreached(disposition, reason) ==
  IF disposition = "execute" THEN Outcome("not-run", reason)
                             ELSE NonExecutable(disposition)

(* An operation still queued when the run was asked to stop.               *)
Cancelled(disposition) ==
  IF disposition = "execute"
    THEN Outcome("cancelled", "cancelled-before-start")
    ELSE NonExecutable(disposition)

-------------------------------------------------------------------------------

StatusesOf(operations) == {operations[s].status : s \in DOMAIN operations}

Unsuccessful(operations) ==
  {s \in DOMAIN operations : operations[s].status \notin {"succeeded", "skipped"}}

(* The reason of the first operation, in step order, that is neither       *)
(* succeeded nor skipped.                                                  *)
SiteReason(operations) ==
  LET bad == Unsuccessful(operations)
  IN  IF bad = {} THEN "none"
      ELSE operations[CHOOSE s \in bad : \A r \in bad : s <= r].reason

(* A Site whose reason is operation-failed is failed whatever its          *)
(* operations say; otherwise the worst operation decides.                  *)
AggregateSite(operations, reason) ==
  LET has(status) == status \in StatusesOf(operations)
  IN  IF reason = "operation-failed" \/ has("failed") THEN "failed"
      ELSE IF has("unknown") THEN "unknown"
      ELSE IF has("cancelled") THEN "cancelled"
      ELSE IF has("not-run") THEN "not-run"
      ELSE IF has("succeeded") THEN "succeeded"
      ELSE "skipped"

Site(operations, reason) ==
  [ops |-> operations, reason |-> reason,
   status |-> AggregateSite(operations, reason)]

(* Mutant: an unknown Site does not worsen the run.                        *)
RunStatusIgnoresUnknown(siteStatuses, interrupted) ==
  LET has(status) == status \in siteStatuses
  IN  IF has("failed") THEN "failed"
      ELSE IF has("cancelled") THEN "cancelled"
      ELSE IF has("not-run") THEN "not-run"
      ELSE "succeeded"

RunStatus(siteStatuses, interrupted) ==
  LET has(status) == status \in siteStatuses
  IN  IF has("failed") THEN "failed"
      ELSE IF has("unknown") THEN "unknown"
      ELSE IF has("cancelled") THEN "cancelled"
      ELSE IF has("not-run") THEN IF interrupted THEN "cancelled" ELSE "not-run"
      ELSE IF siteStatuses = {} /\ interrupted THEN "cancelled"
      ELSE IF has("succeeded") THEN "succeeded"
      ELSE "skipped"

ExitCode(status, interrupted) ==
  IF interrupted THEN 130
  ELSE IF status \in {"succeeded", "skipped"} THEN 0
  ELSE 1
===============================================================================
