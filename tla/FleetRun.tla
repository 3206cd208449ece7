------------------------------- MODULE FleetRun -------------------------------
(***************************************************************************)
(* One execution of a prepared plan: Orchestrator.execute_plan with the    *)
(* thread pool of _run_prepared_targets, the worker of                     *)
(* _execute_prepared_target, the _TargetExecutionState they share and the  *)
(* stop event the terminal sets.                                           *)
(*                                                                         *)
(* Targets and steps are numbered in plan order.  The provider is what     *)
(* Deployment.tla details: here a call is begun, may contact the provider, *)
(* and returns one of the typed results the executor can return, or raises.*)
(***************************************************************************)
EXTENDS PlanShape, FiniteSets

CONSTANTS
  MaxParallel,    \* plan.max_parallel_sites: 0 is unlimited, 1 sequential
  Plans,          \* the prepared plans a run may be given
  RawInterrupts   \* TRUE when the caller has not installed the stop handler

ASSUME FleetAssumption ==
  /\ NumTargets \in Nat \ {0}
  /\ NumSteps \in Nat \ {0}
  /\ MaxParallel \in Nat
  /\ RawInterrupts \in BOOLEAN
  /\ Plans \subseteq PlanType
  /\ \A p \in Plans : WellFormed(p)

VARIABLES
  plan,         \* the prepared plan, fixed for the run
  stop,         \* stop_requested.is_set()
  mpc,          \* where the thread in execute_plan is
  phase,        \* "subscription", "resource-group", "targets" or "none"
  batch,        \* targets of the current _run_prepared_targets call
  future,       \* per target: its Future
  wpc,          \* per target: where the worker in _execute_prepared_target is
  at,           \* per target: the step the worker's loop is at
  records,      \* per target: _TargetExecutionState._records
  active,       \* per target: _TargetExecutionState._active, 0 when None
  abandoned,    \* per target: _TargetExecutionState._abandoned
  finished,     \* per target: _TargetExecutionState._finished, as a Site
  outputs,      \* per target: steps whose outputs hold what later inputs read
  inherited,    \* operation_outputs of execute_plan
  results,      \* results_by_target
  interrupted,  \* interrupted, of the current call and then of the run
  contacted,    \* per target: steps that reached the provider (observed from
                \* outside, the program has no such variable)
  closed        \* executor.close() has removed the scratch directory

planVars   == <<plan>>
mainVars   == <<mpc, phase, batch, inherited, results, interrupted, closed>>
workerVars == <<wpc, at, contacted>>
stateVars  == <<records, active, abandoned, finished, outputs>>
vars == <<planVars, stop, mainVars, future, workerVars, stateVars>>

NoOps  == [s \in Steps |-> NoResult]
NoSite == [ops |-> NoOps, reason |-> "none", status |-> "none"]

Ended == {"refused", "rejected", "returned"}

Init ==
  /\ plan \in Plans
  /\ stop = FALSE
  /\ mpc = "start"
  /\ phase = "none"
  /\ batch = {}
  /\ future = [t \in Targets |-> "absent"]
  /\ wpc = [t \in Targets |-> "idle"]
  /\ at = [t \in Targets |-> 1]
  /\ records = [t \in Targets |-> NoOps]
  /\ active = [t \in Targets |-> 0]
  /\ abandoned = [t \in Targets |-> FALSE]
  /\ finished = [t \in Targets |-> NoSite]
  /\ outputs = [t \in Targets |-> {}]
  /\ inherited = {}
  /\ results = [t \in Targets |-> NoSite]
  /\ interrupted = FALSE
  /\ contacted = [t \in Targets |-> {}]
  /\ closed = FALSE

-------------------------------------------------------------------------------
(* The result a _TargetExecutionState gives for its target.                *)

RecordedOr(t, otherwise) ==
  [s \in Steps |-> IF records[t][s] # NoResult THEN records[t][s]
                                              ELSE otherwise[s]]

AllCancelled(t) == [s \in Steps |-> Cancelled(plan.disp[t][s])]

AllUnreached(t, reason) == [s \in Steps |-> Unreached(plan.disp[t][s], reason)]

(* Mutant: the stop forgets what was observed.                             *)
SnapshotAllCancelled(t) == Site(AllCancelled(t), SiteReason(AllCancelled(t)))

(* snapshot_cancelled: keep what was observed, cancel the rest.            *)
SnapshotCancelled(t) ==
  LET ops == RecordedOr(t, AllCancelled(t)) IN Site(ops, SiteReason(ops))

(* Mutant: the operation whose call was cut short counts as not reached.   *)
ActiveIsUnreached(t, reason) == RecordedOr(t, AllUnreached(t, reason))

(* The operation whose call never returned is unknown; an operation nobody *)
(* reached carries `reason`.  Only an executable operation is ever begun.  *)
ActiveIsUnknown(t, reason) ==
  RecordedOr(t, [s \in Steps |-> IF s = active[t]
                   THEN Outcome("unknown", "completion-unknown")
                   ELSE Unreached(plan.disp[t][s], reason)])

SnapshotInterrupted(t) ==
  IF finished[t] # NoSite THEN finished[t]
  ELSE LET ops == ActiveIsUnknown(t, "run-interrupted")
       IN  Site(ops, SiteReason(ops))

SnapshotFailed(t) ==
  IF finished[t] # NoSite THEN finished[t]
  ELSE Site(ActiveIsUnknown(t, "earlier-operation-failed"), "operation-failed")

CancelledTarget(t) ==
  Site(AllCancelled(t), SiteReason(AllCancelled(t)))

DependencyBlockedTarget(t) ==
  Site(AllUnreached(t, "dependency-unavailable"), "dependency-unavailable")

-------------------------------------------------------------------------------
(* Workers.                                                                *)

Running == {t \in Targets : future[t] = "running"}

WorkerCount ==
  IF MaxParallel = 1 THEN 1
  ELSE IF MaxParallel = 0 \/ Cardinality(batch) < MaxParallel
    THEN Cardinality(batch)
  ELSE MaxParallel

(* A pool thread takes the oldest queued future.                           *)
TakeFuture(t) ==
  /\ future[t] = "queued"
  /\ \A u \in Targets : future[u] = "queued" => t <= u
  /\ Cardinality(Running) < WorkerCount
  /\ future' = [future EXCEPT ![t] = "running"]
  /\ wpc' = [wpc EXCEPT ![t] = "top"]
  /\ UNCHANGED <<planVars, stop, mainVars, at, contacted, stateVars>>

AtOperation(t) == wpc[t] = "top" /\ at[t] \in Steps

(* The stop check at the top of the loop, and the second one after the     *)
(* start of the operation was announced.                                   *)
StopBeforeOperation(t) ==
  /\ \/ AtOperation(t)
     \/ wpc[t] = "announced"
  /\ stop
  /\ finished' = [finished EXCEPT ![t] = SnapshotCancelled(t)]
  /\ abandoned' = [abandoned EXCEPT ![t] = TRUE]
  /\ wpc' = [wpc EXCEPT ![t] = "idle"]
  /\ future' = [future EXCEPT ![t] = "done"]
  /\ UNCHANGED <<planVars, stop, mainVars, at, contacted,
                 records, active, outputs>>

RecordNonExecutable(t) ==
  /\ AtOperation(t)
  /\ ~stop
  /\ plan.disp[t][at[t]] # "execute"
  /\ records' = [records EXCEPT ![t][at[t]] = NonExecutable(plan.disp[t][at[t]])]
  /\ at' = [at EXCEPT ![t] = @ + 1]
  /\ UNCHANGED <<planVars, stop, mainVars, future, wpc, contacted,
                 active, abandoned, finished, outputs>>

AnnounceOperation(t) ==
  /\ AtOperation(t)
  /\ ~stop
  /\ plan.disp[t][at[t]] = "execute"
  /\ wpc' = [wpc EXCEPT ![t] = "announced"]
  /\ UNCHANGED <<planVars, stop, mainVars, future, at, contacted, stateVars>>

(* Mutant: no second look at the stop after the start was announced.       *)
BeginWithoutStopCheck(t) ==
  /\ wpc[t] = "announced"
  /\ active' = [active EXCEPT ![t] = at[t]]
  /\ wpc' = [wpc EXCEPT ![t] = "calling"]
  /\ UNCHANGED <<planVars, stop, mainVars, future, at, contacted,
                 records, abandoned, finished, outputs>>

(* state.begin refuses an abandoned state; no running worker has one       *)
(* (RunningIsNotAbandoned), so only the accepting branch is an action.     *)
BeginOperation(t) ==
  /\ wpc[t] = "announced"
  /\ ~stop
  /\ ~abandoned[t]
  /\ active' = [active EXCEPT ![t] = at[t]]
  /\ wpc' = [wpc EXCEPT ![t] = "calling"]
  /\ UNCHANGED <<planVars, stop, mainVars, future, at, contacted,
                 records, abandoned, finished, outputs>>

(* Mutant: whatever the plan allows to be read is taken to be there.       *)
AvailableByPlan(t) == Targets \X Steps

(* Outputs the worker's `outputs` dictionary holds.                        *)
Available(t) == inherited \cup ({t} \X outputs[t])

Resolved(t) == plan.refs[t][at[t]] \subseteq Available(t)

(* The executor launches the tool: from here the provider may act.  Its    *)
(* own stop check came before, so a stop may have been requested since.    *)
ContactProvider(t) ==
  /\ wpc[t] = "calling"
  /\ Resolved(t)
  /\ contacted' = [contacted EXCEPT ![t] = @ \cup {at[t]}]
  /\ wpc' = [wpc EXCEPT ![t] = "inflight"]
  /\ UNCHANGED <<planVars, stop, mainVars, future, at, stateVars>>

(* Whether a later operation reads outputs of operation s of t: the only   *)
(* thing about outputs the run's control depends on.                       *)
IsRead(t, s) ==
  \E u \in Targets, r \in Steps : <<t, s>> \in plan.refs[u][r]

ReturnSuccess(t) ==
  /\ wpc[t] = "inflight"
  /\ \E complete \in BOOLEAN :
       /\ complete => IsRead(t, at[t])
       /\ outputs' = [outputs EXCEPT ![t] =
                        IF complete THEN @ \cup {at[t]} ELSE @]
  /\ records' = [records EXCEPT ![t][at[t]] = Succeeded]
  /\ active' = [active EXCEPT ![t] = 0]
  /\ at' = [at EXCEPT ![t] = @ + 1]
  /\ wpc' = [wpc EXCEPT ![t] = "top"]
  /\ UNCHANGED <<planVars, stop, mainVars, future, contacted,
                 abandoned, finished>>

(* Mutant: the operations after the one that ended the target are left out.*)
EndTargetHere(t, outcome, rest) ==
  /\ records' = [records EXCEPT ![t][at[t]] = outcome]
  /\ active' = [active EXCEPT ![t] = 0]
  /\ at' = [at EXCEPT ![t] = NumSteps + 1]
  /\ wpc' = [wpc EXCEPT ![t] = "top"]
  /\ UNCHANGED <<planVars, stop, mainVars, future, contacted, abandoned,
                 finished, outputs>>

(* A result that is not a success ends the target: the operation gets      *)
(* `outcome`, every later one what `rest` gives it.                        *)
EndTarget(t, outcome, rest) ==
  /\ records' = [records EXCEPT ![t] =
                   [s \in Steps |-> IF s = at[t] THEN outcome
                                    ELSE IF s > at[t] THEN rest[s]
                                    ELSE @[s]]]
  /\ active' = [active EXCEPT ![t] = 0]
  /\ at' = [at EXCEPT ![t] = NumSteps + 1]
  /\ wpc' = [wpc EXCEPT ![t] = "top"]
  /\ UNCHANGED <<planVars, stop, mainVars, future, contacted,
                 abandoned, finished, outputs>>

(* A definite failure: inputs that do not resolve, a missing tool or an    *)
(* invalid input before the provider is contacted, or what it answered.    *)
ReturnFailure(t) ==
  /\ wpc[t] \in {"calling", "inflight"}
  /\ EndTarget(t, Outcome("failed", "operation-failed"),
               AllUnreached(t, "earlier-operation-failed"))

(* Mutant: the target goes on after an operation whose effect is unknown.  *)
ReturnUnknownAndGoOn(t) ==
  /\ wpc[t] = "inflight"
  /\ records' = [records EXCEPT ![t][at[t]] = Outcome("unknown", "completion-unknown")]
  /\ active' = [active EXCEPT ![t] = 0]
  /\ at' = [at EXCEPT ![t] = @ + 1]
  /\ wpc' = [wpc EXCEPT ![t] = "top"]
  /\ UNCHANGED <<planVars, stop, mainVars, future, contacted,
                 abandoned, finished, outputs>>

(* The executor gave up observing: UnconfirmedCompletion.                  *)
ReturnUnknown(t) ==
  /\ wpc[t] = "inflight"
  /\ EndTarget(t, Outcome("unknown", "completion-unknown"),
               AllUnreached(t, "earlier-operation-unknown"))

(* The executor saw the stop request before it contacted the provider.     *)
ReturnStoppedBeforeStart(t) ==
  /\ wpc[t] = "calling"
  /\ stop
  /\ Resolved(t)
  /\ EndTarget(t, Outcome("cancelled", "cancelled-before-start"),
               AllCancelled(t))

(* An exception the worker does not handle ends its future.                *)
RaiseError(t) ==
  /\ wpc[t] \in {"calling", "inflight"}
  /\ wpc' = [wpc EXCEPT ![t] = "idle"]
  /\ future' = [future EXCEPT ![t] = "raised"]
  /\ UNCHANGED <<planVars, stop, mainVars, at, contacted, stateVars>>

FinishTarget(t) ==
  /\ wpc[t] = "top"
  /\ at[t] = NumSteps + 1
  /\ ~abandoned[t]
  /\ finished' = [finished EXCEPT ![t] = Site(records[t], SiteReason(records[t]))]
  /\ wpc' = [wpc EXCEPT ![t] = "idle"]
  /\ future' = [future EXCEPT ![t] = "done"]
  /\ UNCHANGED <<planVars, stop, mainVars, at, contacted,
                 records, active, abandoned, outputs>>

(* What a provider call in progress may do.                                *)
CallReturns(t) ==
  \/ ReturnSuccess(t)
  \/ ReturnFailure(t)
  \/ ReturnUnknown(t)
  \/ ReturnStoppedBeforeStart(t)
  \/ RaiseError(t)

Worker(t) ==
  \/ TakeFuture(t)
  \/ StopBeforeOperation(t)
  \/ RecordNonExecutable(t)
  \/ AnnounceOperation(t)
  \/ BeginOperation(t)
  \/ ContactProvider(t)
  \/ CallReturns(t)
  \/ FinishTarget(t)

-------------------------------------------------------------------------------
(* The thread in execute_plan.                                             *)

SubscriptionTargets == {t \in Targets : plan.kind[t] = "subscription"}
ResourceGroupTargets == Targets \ SubscriptionTargets

Executable == \A t \in Targets, s \in Steps : plan.disp[t][s] # "blocked"

DuplicateSubscriptionTargets ==
  \E t, u \in SubscriptionTargets :
    t # u /\ plan.subscription[t] = plan.subscription[u]

HasSubscriptionSteps == \E s \in Steps : plan.scope[s] = "subscription"

(* PlanNotExecutableError, raised before anything is acquired.             *)
RefusePlan ==
  /\ mpc = "start"
  /\ ~Executable
  /\ mpc' = "refused"
  /\ UNCHANGED <<planVars, stop, phase, batch, inherited, results, interrupted,
                 closed, future, workerVars, stateVars>>

(* MultipleSubscriptionSitesError, raised before any operation starts.     *)
RejectDuplicates ==
  /\ mpc = "start"
  /\ Executable
  /\ DuplicateSubscriptionTargets
  /\ mpc' = "rejected"
  /\ closed' = TRUE
  /\ UNCHANGED <<planVars, stop, phase, batch, inherited, results, interrupted,
                 future, workerVars, stateVars>>

(* _run_prepared_targets up to its wait loop: one future per target.  An   *)
(* empty batch returns at once, which its first poll does too.             *)
SubmitBatch(ph, ts) ==
  /\ phase' = ph
  /\ batch' = ts
  /\ mpc' = "polling"
  /\ future' = [t \in Targets |-> IF t \in ts THEN "queued" ELSE future[t]]

(* Mutant: every target is submitted at once, whatever the steps' scope.   *)
StartRunInOnePhase ==
  /\ mpc = "start"
  /\ Executable
  /\ ~DuplicateSubscriptionTargets
  /\ SubmitBatch("targets", Targets)
  /\ UNCHANGED <<planVars, stop, inherited, results, interrupted, closed,
                 workerVars, stateVars>>

StartRun ==
  /\ mpc = "start"
  /\ Executable
  /\ ~DuplicateSubscriptionTargets
  /\ IF HasSubscriptionSteps
       THEN SubmitBatch("subscription", SubscriptionTargets)
       ELSE SubmitBatch("targets", Targets)
  /\ UNCHANGED <<planVars, stop, inherited, results, interrupted, closed,
                 workerVars, stateVars>>

Pending == {t \in batch : results[t] = NoSite}

(* The top of the wait loop.                                               *)
PollStop ==
  /\ mpc = "polling"
  /\ \/ /\ Pending = {}
        /\ mpc' = "draining"
        /\ UNCHANGED interrupted
     \/ /\ Pending # {} /\ stop
        /\ mpc' = "draining"
        /\ interrupted' = TRUE
     \/ /\ Pending # {} /\ ~stop
        /\ mpc' = "waiting"
        /\ UNCHANGED interrupted
  /\ UNCHANGED <<planVars, stop, phase, batch, inherited, results, closed,
                 future, workerVars, stateVars>>

(* Mutant: a wait that timed out is taken for a completed future.          *)
CompletedOrLate == Pending

Completed == {t \in Pending : future[t] \in {"done", "raised"}}

(* What future.result() and its handlers make of a completed future.       *)
Harvested(t) == IF future[t] = "raised" THEN SnapshotFailed(t) ELSE finished[t]

(* wait() returned, after at most a second: take every completed future.   *)
(* A raw KeyboardInterrupt raised by future.result() of target k makes its *)
(* result the interrupted snapshot and requests the stop.                  *)
Harvest(interrupts) ==
  /\ mpc = "waiting"
  /\ interrupts \subseteq Completed
  /\ results' = [t \in Targets |->
       IF t \in interrupts THEN SnapshotInterrupted(t)
       ELSE IF t \in Completed THEN Harvested(t)
       ELSE results[t]]
  /\ finished' = [t \in Targets |->
       IF t \in Completed THEN results'[t] ELSE finished[t]]
  /\ abandoned' = [t \in Targets |->
       abandoned[t] \/ (t \in interrupts /\ finished[t] = NoSite)]
  /\ mpc' = "polling"
  /\ interrupted' = (interrupted \/ interrupts # {})
  /\ stop' = (stop \/ interrupts # {})
  /\ UNCHANGED <<planVars, phase, batch, inherited, closed, future, workerVars,
                 records, active, outputs>>

HarvestResults == Harvest({})

HarvestInterrupted ==
  /\ RawInterrupts
  /\ \E t \in Completed : Harvest({t})

(* A raw KeyboardInterrupt raised by wait() itself, or by shutdown().      *)
InterruptWait ==
  /\ RawInterrupts
  /\ mpc \in {"waiting", "draining"}
  /\ stop' = TRUE
  /\ interrupted' = TRUE
  /\ mpc' = "draining"
  /\ UNCHANGED <<planVars, phase, batch, inherited, results, closed, future,
                 workerVars, stateVars>>

(* future.cancel() wins only while no thread has taken the future.         *)
CancelFuture(t) ==
  /\ mpc = "draining"
  /\ interrupted
  /\ future[t] = "queued"
  /\ future' = [future EXCEPT ![t] = "cancelled"]
  /\ UNCHANGED <<planVars, stop, mainVars, workerVars, stateVars>>

(* Mutants: an interrupted pool is shut down without waiting; a future that *)
(* ended in an exception does not count as ended.                          *)
DrainedOrInterrupted ==
  interrupted \/ \A t \in batch : future[t] \in {"done", "raised", "cancelled"}
DrainedOfResults == \A t \in batch : future[t] \in {"done", "cancelled"}

Drained == \A t \in batch : future[t] \in {"done", "raised", "cancelled"}

(* shutdown(wait=True) returned: account for every target of the batch and *)
(* merge the outputs it produced.  A raw KeyboardInterrupt may again come  *)
(* out of future.result().                                                 *)
FinishBatch(interrupts) ==
  /\ mpc = "draining"
  /\ Drained
  /\ interrupts \subseteq {t \in Pending : future[t] # "cancelled"}
  /\ results' = [t \in Targets |->
       IF t \notin Pending THEN results[t]
       ELSE IF future[t] = "cancelled" THEN CancelledTarget(t)
       ELSE IF t \in interrupts THEN SnapshotInterrupted(t)
       ELSE Harvested(t)]
  /\ finished' = [t \in Targets |->
       IF t \in Pending /\ future[t] = "raised" THEN results'[t] ELSE finished[t]]
  /\ abandoned' = [t \in Targets |->
       abandoned[t] \/ (t \in interrupts /\ finished[t] = NoSite)]
  /\ inherited' = inherited \cup
       {op \in SubscriptionTargets \X Steps :
          phase = "subscription" /\ op[2] \in outputs[op[1]]}
  /\ mpc' = IF phase = "subscription" THEN "between" ELSE "closing"
  /\ UNCHANGED <<planVars, stop, phase, batch, interrupted, closed, future,
                 workerVars, records, active, outputs>>

FinishCollected == FinishBatch({})

FinishInterrupted == RawInterrupts /\ \E t \in Pending : FinishBatch({t})

UnsuccessfulSubscriptions ==
  {t \in SubscriptionTargets : results[t].status \notin {"succeeded", "skipped"}}

(* A resource group target reads an output its failed source never gave.   *)
DependencyBlocked(t) ==
  \E u \in UnsuccessfulSubscriptions :
    /\ plan.subscription[u] = plan.subscription[t]
    /\ \E s \in Steps : \E op \in plan.refs[t][s] :
         op[1] = u /\ op \notin inherited

CancelSecondPhase ==
  /\ mpc = "between"
  /\ interrupted
  /\ results' = [t \in Targets |->
       IF t \in ResourceGroupTargets THEN CancelledTarget(t) ELSE results[t]]
  /\ mpc' = "closing"
  /\ UNCHANGED <<planVars, stop, phase, batch, inherited, interrupted, closed,
                 future, workerVars, stateVars>>

StartSecondPhase ==
  /\ mpc = "between"
  /\ ~interrupted
  /\ LET blocked == {t \in ResourceGroupTargets : DependencyBlocked(t)}
     IN  /\ results' = [t \in Targets |->
              IF t \in blocked THEN DependencyBlockedTarget(t) ELSE results[t]]
         /\ SubmitBatch("resource-group", ResourceGroupTargets \ blocked)
  /\ UNCHANGED <<planVars, stop, inherited, interrupted, closed, workerVars,
                 stateVars>>

(* Mutant: only an interruption seen by a wait loop is reported.           *)
ReturnRunAsPolled ==
  /\ mpc = "closing"
  /\ closed' = TRUE
  /\ mpc' = "returned"
  /\ UNCHANGED <<planVars, stop, phase, batch, inherited, results, interrupted,
                 future, workerVars, stateVars>>

(* The end of execute_plan: the RunResult, then executor.close().          *)
ReturnRun ==
  /\ mpc = "closing"
  /\ interrupted' = (interrupted \/ stop)
  /\ closed' = TRUE
  /\ mpc' = "returned"
  /\ UNCHANGED <<planVars, stop, phase, batch, inherited, results, future,
                 workerVars, stateVars>>

Main ==
  \/ RefusePlan \/ RejectDuplicates \/ StartRun
  \/ PollStop \/ HarvestResults \/ HarvestInterrupted \/ InterruptWait
  \/ \E t \in Targets : CancelFuture(t)
  \/ FinishCollected \/ FinishInterrupted
  \/ CancelSecondPhase \/ StartSecondPhase \/ ReturnRun

(* The signal handler, or an embedding program, sets the event.            *)
RequestStop ==
  /\ mpc \notin Ended
  /\ ~stop
  /\ stop' = TRUE
  /\ UNCHANGED <<planVars, mainVars, future, workerVars, stateVars>>

(* The program has exited.                                                 *)
Exited == mpc \in Ended /\ UNCHANGED vars

Next ==
  \/ Main
  \/ \E t \in Targets : Worker(t)
  \/ RequestStop
  \/ Exited

Spec == Init /\ [][Next]_vars

(* Every thread keeps running and every provider call is bounded by a      *)
(* timeout of its own, so each returns; nobody has to request a stop.      *)
Fairness ==
  /\ WF_vars(RefusePlan \/ RejectDuplicates \/ StartRun \/ PollStop
             \/ HarvestResults \/ FinishCollected \/ CancelSecondPhase
             \/ StartSecondPhase \/ ReturnRun)
  /\ \A t \in Targets : WF_vars(CancelFuture(t))
  /\ \A t \in Targets : WF_vars(Worker(t))

FairSpec == Spec /\ Fairness

-------------------------------------------------------------------------------
(* Properties.                                                             *)

ResultOrNone == OperationResult \cup {NoResult}

SiteStatusOrNone == OperationStatus \cup {"none"}

SiteType ==
  [ops : [Steps -> ResultOrNone], reason : ReasonCode, status : SiteStatusOrNone]

(* Every variable holds a value of its kind.                               *)
TypeOK ==
  /\ plan \in Plans
  /\ stop \in BOOLEAN
  /\ mpc \in Ended \cup {"start", "polling", "waiting", "draining", "between",
                         "closing"}
  /\ phase \in {"none", "subscription", "resource-group", "targets"}
  /\ batch \in SUBSET Targets
  /\ future \in [Targets -> {"absent", "queued", "running", "done", "raised",
                             "cancelled"}]
  /\ wpc \in [Targets -> {"idle", "top", "announced", "calling", "inflight"}]
  /\ at \in [Targets -> 1..(NumSteps + 1)]
  /\ records \in [Targets -> [Steps -> ResultOrNone]]
  /\ active \in [Targets -> 0..NumSteps]
  /\ abandoned \in [Targets -> BOOLEAN]
  /\ finished \in [Targets -> SiteType]
  /\ outputs \in [Targets -> SUBSET Steps]
  /\ inherited \in SUBSET (Targets \X Steps)
  /\ results \in [Targets -> SiteType]
  /\ interrupted \in BOOLEAN
  /\ contacted \in [Targets -> SUBSET Steps]
  /\ closed \in BOOLEAN

(* An operation reported skipped, not-run or cancelled never reached the   *)
(* provider, whichever of the five ways a target result is built was used. *)
UnstartedMeansUntouched ==
  \A t \in Targets, s \in Steps :
    results[t].ops[s].status \in {"skipped", "not-run", "cancelled"}
      => s \notin contacted[t]

(* What a worker recorded for an operation is what the run reports for it: *)
(* no snapshot, cancellation or late collection rewrites an observation.   *)
ObservationsRetained ==
  \A t \in Targets, s \in Steps :
    results[t] # NoSite /\ records[t][s] # NoResult
      => results[t].ops[s] = records[t][s]

(* The provider is contacted for an operation only after every earlier     *)
(* operation of its target was observed to succeed or does not apply.      *)
EarlierStepsSucceeded ==
  \A t \in Targets : \A s \in contacted[t] : \A r \in 1..(s - 1) :
    records[t][r].status \in {"succeeded", "skipped"}

(* An operation reaches the provider only with values that an operation    *)
(* observed to succeed produced, in its own target or across the phases.   *)
InputsWereProduced ==
  \A t \in Targets : \A s \in contacted[t] : \A op \in plan.refs[t][s] :
    op[2] \in outputs[op[1]] /\ records[op[1]][op[2]] = Succeeded

(* In a two-phase run no resource group target is released to the pool     *)
(* before every subscription target has its result and no worker left.     *)
SubscriptionPhaseFirst ==
  HasSubscriptionSteps =>
    \A t \in ResourceGroupTargets : future[t] # "absent" =>
      \A u \in SubscriptionTargets :
        results[u] # NoSite /\ future[u] \notin {"absent", "queued", "running"}

(* executor.close() removes the scratch directory only when no worker is   *)
(* left to use it.                                                         *)
ScratchOutlivesCalls == closed => Running = {}

RunExit ==
  LET statuses == {results[t].status : t \in Targets}
  IN  ExitCode(RunStatus(statuses, interrupted), interrupted)

(* When the run returns every operation of the plan has an outcome: no     *)
(* target is lost between the pool, the phases and the stop.  Exit code 0  *)
(* means that every executable operation reached the provider and was      *)
(* observed to succeed.  A requested stop always gives 130, also when only *)
(* the workers saw it and the main loop did not.                           *)
ExitCodeHonest ==
  mpc = "returned" =>
    /\ \A t \in Targets, s \in Steps : results[t].ops[s] # NoResult
    /\ RunExit = 0 =>
         \A t \in Targets, s \in Steps : plan.disp[t][s] = "execute" =>
           s \in contacted[t] /\ results[t].ops[s] = Succeeded
    /\ RunExit = 130 <=> stop

(* A worker that is still running was never snapshotted, so the refusals   *)
(* of begin() and record() lose no observation.                            *)
RunningIsNotAbandoned ==
  \A t \in Running : ~abandoned[t] /\ finished[t] = NoSite

(* Once a stop is requested, a target that has not begun a provider call   *)
(* contacts the provider for no further operation, ever.                   *)
AfterStopNothingNew ==
  \A t \in Targets, s \in Steps :
    [](stop /\ wpc[t] # "calling" /\ s \notin contacted[t]
         => [](s \notin contacted[t]))

(* The run returns: no worker, future or phase waits for ever.             *)
RunReturns == <>(mpc \in Ended)

(* docs/run-output.md: a cancelled operation "was still queued when the    *)
(* run was asked to stop".  A resource group target whose subscription     *)
(* target was itself cancelled by the stop was queued, so it should be     *)
(* cancelled too and not blocked by a dependency.                          *)
QueuedAtStopIsCancelled ==
  \A t \in Targets, u \in SubscriptionTargets :
    plan.subscription[t] = plan.subscription[u] /\ results[u].status = "cancelled"
      => results[t].reason # "dependency-unavailable"
===============================================================================
