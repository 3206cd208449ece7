---------------------------- MODULE FleetRun_proofs ----------------------------
(***************************************************************************)
(* Theorems about FleetRun, for every number of targets and steps, every   *)
(* limit of parallelism and every set of well-formed plans.                *)
(***************************************************************************)
EXTENDS FleetRun, WellFoundedInduction, TLAPS

-------------------------------------------------------------------------------
(* Operators on outcomes.                                                  *)

(* Every non-empty set of steps has a first one.                           *)
LEMMA FirstStep ==
  ASSUME NEW T \in SUBSET Steps, T # {}
  PROVE  \E x \in T : \A y \in T : x <= y
<1> DEFINE R == {ss \in Nat \X Nat : ss[1] < ss[2]}
<1>1. IsWellFoundedOn(R, Nat)
  BY NatLessThanWellFounded DEF OpToRel
<1>2. T \subseteq Nat
  BY FleetAssumption DEF Steps
<1> HIDE DEF R
<1>3. PICK x \in T : \A y \in T : ~ (<<y, x>> \in R)
  BY <1>1, <1>2, WFMin, Zenon
<1>4. ASSUME NEW y \in T
      PROVE  x <= y
  <2>1. x \in Nat /\ y \in Nat
    BY <1>2
  <2>2. ~ (<<y, x>> \in {ss \in Nat \X Nat : ss[1] < ss[2]})
    BY <1>3 DEF R
  <2>3. ~ (y < x)
    BY <2>1, <2>2
  <2> QED
    BY <2>1, <2>3
<1> QED
  BY <1>4

(* What a disposition alone makes of an operation is a typed result.       *)
LEMMA DispositionResults ==
  ASSUME NEW d \in Disposition, NEW reason \in ReasonCode
  PROVE  /\ NonExecutable(d) \in OperationResult
         /\ Unreached(d, reason) \in OperationResult
         /\ Cancelled(d) \in OperationResult
BY DEF Disposition, NonExecutable, Unreached, Cancelled, Outcome, OperationResult,
       OperationStatus, ReasonCode

(* The reason of a Site is a reason code.                                  *)
LEMMA SiteReasonType ==
  ASSUME NEW ops \in [Steps -> ResultOrNone]
  PROVE  SiteReason(ops) \in ReasonCode
<1>1. CASE Unsuccessful(ops) = {}
  BY <1>1 DEF SiteReason, ReasonCode
<1>2. CASE Unsuccessful(ops) # {}
  <2>1. Unsuccessful(ops) \in SUBSET Steps
    BY DEF Unsuccessful
  <2>2. \E x \in Unsuccessful(ops) : \A y \in Unsuccessful(ops) : x <= y
    BY <1>2, <2>1, FirstStep
  <2> DEFINE first == CHOOSE x \in Unsuccessful(ops) : \A y \in Unsuccessful(ops) : x <= y
  <2>3. first \in Steps
    BY <2>1, <2>2
  <2>4. SiteReason(ops) = ops[first].reason
    BY <1>2 DEF SiteReason
  <2>5. \A r \in ResultOrNone : r.reason \in ReasonCode
    BY DEF ResultOrNone, OperationResult, NoResult, ReasonCode
  <2> HIDE DEF first
  <2> QED
    BY <2>3, <2>4, <2>5
<1> QED
  BY <1>1, <1>2

(* A Site built from typed results is a typed Site, keeps its operations   *)
(* and differs from the absence of one.                                    *)
LEMMA SiteIsTyped ==
  ASSUME NEW ops \in [Steps -> ResultOrNone], NEW reason \in ReasonCode
  PROVE  /\ Site(ops, reason) \in SiteType
         /\ Site(ops, reason).ops = ops
         /\ Site(ops, reason) # NoSite
<1>1. AggregateSite(ops, reason) \in OperationStatus
  BY DEF AggregateSite, OperationStatus
<1>2. AggregateSite(ops, reason) # "none"
  BY DEF AggregateSite
<1> QED
  BY <1>1, <1>2 DEF Site, SiteType, SiteStatusOrNone, NoSite

LEMMA NoSiteType == NoSite \in SiteType
BY DEF NoSite, NoOps, SiteType, ResultOrNone, ReasonCode, SiteStatusOrNone

-------------------------------------------------------------------------------
(* Type correctness.                                                       *)

(* Every disposition of a plan of the run is a disposition.                *)
LEMMA PlanDisposition ==
  ASSUME TypeOK, NEW t \in Targets, NEW s \in Steps
  PROVE  plan.disp[t][s] \in Disposition
BY FleetAssumption DEF TypeOK, PlanType

(* Results that a whole target gets at once.                               *)
LEMMA WholeTargetTypes ==
  ASSUME TypeOK, NEW t \in Targets, NEW reason \in ReasonCode
  PROVE  /\ AllCancelled(t) \in [Steps -> OperationResult]
         /\ AllUnreached(t, reason) \in [Steps -> OperationResult]
BY PlanDisposition, DispositionResults DEF AllCancelled, AllUnreached

(* Filling the gaps of the records with results gives results.             *)
LEMMA RecordedOrType ==
  ASSUME TypeOK, NEW t \in Targets, NEW f \in [Steps -> OperationResult]
  PROVE  RecordedOr(t, f) \in [Steps -> OperationResult]
<1>1. records[t] \in [Steps -> ResultOrNone]
  BY DEF TypeOK
<1> QED
  BY <1>1 DEF RecordedOr, ResultOrNone

LEMMA ActiveIsUnknownType ==
  ASSUME TypeOK, NEW t \in Targets, NEW reason \in ReasonCode
  PROVE  ActiveIsUnknown(t, reason) \in [Steps -> OperationResult]
<1>1. [s \in Steps |-> IF s = active[t] THEN Outcome("unknown", "completion-unknown")
                       ELSE Unreached(plan.disp[t][s], reason)]
        \in [Steps -> OperationResult]
  BY PlanDisposition, DispositionResults
     DEF Outcome, OperationResult, OperationStatus, ReasonCode
<1> QED
  BY <1>1, RecordedOrType DEF ActiveIsUnknown

(* Every way a target gets its Site gives a Site, and never the absence    *)
(* of one unless the target's future is not done.                          *)
LEMMA SnapshotTypes ==
  ASSUME TypeOK, NEW t \in Targets
  PROVE  /\ SnapshotCancelled(t) \in SiteType \ {NoSite}
         /\ SnapshotInterrupted(t) \in SiteType \ {NoSite}
         /\ SnapshotFailed(t) \in SiteType \ {NoSite}
         /\ CancelledTarget(t) \in SiteType \ {NoSite}
         /\ DependencyBlockedTarget(t) \in SiteType \ {NoSite}
         /\ Harvested(t) \in SiteType
<1>1. [Steps -> OperationResult] \subseteq [Steps -> ResultOrNone]
  BY DEF ResultOrNone
<1>2. finished[t] \in SiteType
  BY DEF TypeOK
<1>3. /\ "run-interrupted" \in ReasonCode
      /\ "earlier-operation-failed" \in ReasonCode
      /\ "operation-failed" \in ReasonCode
      /\ "dependency-unavailable" \in ReasonCode
  BY DEF ReasonCode
<1>4. SnapshotCancelled(t) \in SiteType \ {NoSite}
  BY <1>1, <1>3, WholeTargetTypes, RecordedOrType, SiteReasonType, SiteIsTyped
     DEF SnapshotCancelled
<1>5. SnapshotInterrupted(t) \in SiteType \ {NoSite}
  BY <1>1, <1>2, <1>3, ActiveIsUnknownType, SiteReasonType, SiteIsTyped
     DEF SnapshotInterrupted
<1>6. SnapshotFailed(t) \in SiteType \ {NoSite}
  BY <1>1, <1>2, <1>3, ActiveIsUnknownType, SiteIsTyped DEF SnapshotFailed
<1>7. CancelledTarget(t) \in SiteType \ {NoSite}
  BY <1>1, <1>3, WholeTargetTypes, SiteReasonType, SiteIsTyped DEF CancelledTarget
<1>8. DependencyBlockedTarget(t) \in SiteType \ {NoSite}
  BY <1>1, <1>3, WholeTargetTypes, SiteIsTyped DEF DependencyBlockedTarget
<1>9. Harvested(t) \in SiteType
  BY <1>2, <1>6 DEF Harvested
<1> QED
  BY <1>4, <1>5, <1>6, <1>7, <1>8, <1>9

LEMMA EndTargetType ==
  ASSUME TypeOK, NEW t \in Targets, NEW outcome \in OperationResult,
         NEW rest \in [Steps -> OperationResult], EndTarget(t, outcome, rest)
  PROVE  TypeOK'
BY FleetAssumption
   DEF TypeOK, EndTarget, Steps, ResultOrNone, planVars, mainVars

LEMMA SubmitBatchType ==
  ASSUME TypeOK, NEW ts \in SUBSET Targets,
         NEW ph \in {"subscription", "resource-group", "targets"},
         SubmitBatch(ph, ts)
  PROVE  /\ phase' \in {"none", "subscription", "resource-group", "targets"}
         /\ batch' \in SUBSET Targets
         /\ mpc' = "polling"
         /\ future' \in [Targets -> {"absent", "queued", "running", "done",
                                    "raised", "cancelled"}]
BY DEF TypeOK, SubmitBatch

LEMMA HarvestType ==
  ASSUME TypeOK, NEW ts \in SUBSET Targets, Harvest(ts)
  PROVE  TypeOK'
<1>1. results' \in [Targets -> SiteType]
  BY SnapshotTypes DEF Harvest, TypeOK
<1>2. finished' \in [Targets -> SiteType]
  BY <1>1 DEF Harvest, TypeOK
<1>3. stop' \in BOOLEAN /\ interrupted' \in BOOLEAN
  BY DEF Harvest, TypeOK
<1>4. abandoned' \in [Targets -> BOOLEAN]
  BY DEF Harvest, TypeOK
<1> QED
  BY <1>1, <1>2, <1>3, <1>4 DEF Harvest, TypeOK, planVars, workerVars

(* A worker that has announced an operation stays at an executable step    *)
(* until that operation ends: without it `active` could leave its type.    *)
AtWork ==
  \A t \in Targets : wpc[t] \in {"announced", "calling", "inflight"} =>
    at[t] \in Steps /\ plan.disp[t][at[t]] = "execute"

LEMMA AtWorkStep == TypeOK /\ AtWork /\ [Next]_vars => AtWork'
<1> SUFFICES ASSUME TypeOK, AtWork, [Next]_vars
             PROVE  AtWork'
  OBVIOUS
<1> USE DEF planVars, mainVars, workerVars, stateVars
<1>1. CASE plan' = plan /\ wpc' = wpc /\ at' = at
  BY <1>1 DEF AtWork
<1>2. ASSUME NEW t \in Targets, Worker(t)
      PROVE  AtWork'
  <2>1. CASE TakeFuture(t) \/ StopBeforeOperation(t) \/ RaiseError(t) \/ FinishTarget(t)
    BY <2>1 DEF AtWork, TypeOK, TakeFuture, StopBeforeOperation, RaiseError, FinishTarget
  <2>2. CASE RecordNonExecutable(t) \/ ReturnSuccess(t)
    BY <2>2 DEF AtWork, TypeOK, RecordNonExecutable, AtOperation, ReturnSuccess
  <2>3. CASE AnnounceOperation(t) \/ BeginOperation(t) \/ ContactProvider(t)
    BY <2>3 DEF AtWork, TypeOK, AnnounceOperation, AtOperation, BeginOperation,
                ContactProvider
  <2>4. CASE ReturnFailure(t) \/ ReturnUnknown(t) \/ ReturnStoppedBeforeStart(t)
    BY <2>4 DEF AtWork, TypeOK, EndTarget, ReturnFailure, ReturnUnknown,
                ReturnStoppedBeforeStart
  <2> QED
    BY <1>2, <2>1, <2>2, <2>3, <2>4 DEF Worker, CallReturns
<1>3. CASE Main \/ RequestStop \/ Exited \/ UNCHANGED vars
  BY <1>3, <1>1
     DEF Main, RefusePlan, RejectDuplicates, StartRun, PollStop, HarvestResults,
         HarvestInterrupted, Harvest, InterruptWait, CancelFuture, FinishCollected,
         FinishInterrupted, FinishBatch, CancelSecondPhase, StartSecondPhase, ReturnRun,
         RequestStop, Exited, vars
<1> QED
  BY <1>2, <1>3 DEF Next

(* Every variable of FleetRun keeps its type, in every state of every run: *)
(* no snapshot, harvest or cancellation builds an ill-formed result.       *)
THEOREM TypeCorrect == Spec => [](TypeOK /\ AtWork)
<1>1. Init => TypeOK /\ AtWork
  <2> SUFFICES ASSUME Init
               PROVE  TypeOK /\ AtWork
    OBVIOUS
  <2>1. /\ 1 \in 1..(NumSteps + 1)
        /\ 0 \in 0..NumSteps
    BY FleetAssumption
  <2>2. NoOps \in [Steps -> ResultOrNone]
    BY DEF NoOps, ResultOrNone
  <2>3. AtWork
    BY DEF Init, AtWork
  <2> QED
    BY <2>1, <2>2, <2>3, NoSiteType DEF Init, TypeOK, Ended
<1>2. TypeOK /\ AtWork /\ [Next]_vars => TypeOK'
  <2> SUFFICES ASSUME TypeOK, AtWork, [Next]_vars
               PROVE  TypeOK'
    OBVIOUS
  <2> USE DEF planVars, mainVars, workerVars, stateVars
  <2>1. ASSUME NEW t \in Targets, TakeFuture(t)
        PROVE  TypeOK'
    BY <2>1 DEF TypeOK, TakeFuture
  <2>2. ASSUME NEW t \in Targets, StopBeforeOperation(t)
        PROVE  TypeOK'
    BY <2>2, SnapshotTypes DEF TypeOK, StopBeforeOperation
  <2>3. ASSUME NEW t \in Targets, RecordNonExecutable(t)
        PROVE  TypeOK'
    <3>1. NonExecutable(plan.disp[t][at[t]]) \in ResultOrNone
      BY <2>3, PlanDisposition, DispositionResults
         DEF RecordNonExecutable, AtOperation, ResultOrNone, ReasonCode
    <3> QED
      BY <2>3, <3>1, FleetAssumption
         DEF TypeOK, RecordNonExecutable, AtOperation, Steps
  <2>4. ASSUME NEW t \in Targets, AnnounceOperation(t)
        PROVE  TypeOK'
    BY <2>4 DEF TypeOK, AnnounceOperation
  <2>5. ASSUME NEW t \in Targets, BeginOperation(t)
        PROVE  TypeOK'
    BY <2>5, FleetAssumption DEF TypeOK, AtWork, BeginOperation, Steps
  <2>6. ASSUME NEW t \in Targets, ContactProvider(t)
        PROVE  TypeOK'
    BY <2>6 DEF TypeOK, AtWork, ContactProvider
  <2>7. ASSUME NEW t \in Targets, ReturnSuccess(t)
        PROVE  TypeOK'
    <3>1. Succeeded \in ResultOrNone
      BY DEF Succeeded, Outcome, ResultOrNone, OperationResult, OperationStatus,
             ReasonCode
    <3>2. at[t] \in Steps /\ at[t] + 1 \in 1..(NumSteps + 1)
      BY <2>7, FleetAssumption DEF AtWork, ReturnSuccess, Steps
    <3>3. outputs' \in [Targets -> SUBSET Steps]
      BY <2>7, <3>2 DEF TypeOK, ReturnSuccess
    <3>4. records' \in [Targets -> [Steps -> ResultOrNone]]
      BY <2>7, <3>1, <3>2 DEF TypeOK, ReturnSuccess
    <3>5. at' \in [Targets -> 1..(NumSteps + 1)] /\ active' \in [Targets -> 0..NumSteps]
      BY <2>7, <3>2, FleetAssumption DEF TypeOK, ReturnSuccess
    <3> QED
      BY <2>7, <3>3, <3>4, <3>5 DEF TypeOK, ReturnSuccess
  <2>8. ASSUME NEW t \in Targets, ReturnFailure(t)
        PROVE  TypeOK'
    BY <2>8, EndTargetType, WholeTargetTypes
       DEF ReturnFailure, Outcome, OperationResult, OperationStatus, ReasonCode
  <2>9. ASSUME NEW t \in Targets, ReturnUnknown(t)
        PROVE  TypeOK'
    BY <2>9, EndTargetType, WholeTargetTypes
       DEF ReturnUnknown, Outcome, OperationResult, OperationStatus, ReasonCode
  <2>10. ASSUME NEW t \in Targets, ReturnStoppedBeforeStart(t)
         PROVE  TypeOK'
    BY <2>10, EndTargetType, WholeTargetTypes
       DEF ReturnStoppedBeforeStart, Outcome, OperationResult, OperationStatus,
           ReasonCode
  <2>11. ASSUME NEW t \in Targets, RaiseError(t)
         PROVE  TypeOK'
    BY <2>11 DEF TypeOK, RaiseError
  <2>12. ASSUME NEW t \in Targets, FinishTarget(t)
         PROVE  TypeOK'
    BY <2>12, SiteReasonType, SiteIsTyped DEF TypeOK, FinishTarget
  <2>13. CASE RefusePlan \/ RejectDuplicates \/ PollStop \/ InterruptWait
    BY <2>13 DEF TypeOK, RefusePlan, RejectDuplicates, PollStop, InterruptWait, Ended
  <2>14. CASE StartRun
    BY <2>14, SubmitBatchType DEF TypeOK, StartRun, SubscriptionTargets
  <2>15. CASE HarvestResults \/ HarvestInterrupted
    BY <2>15, HarvestType DEF HarvestResults, HarvestInterrupted, Completed, Pending,
                              TypeOK
  <2>16. ASSUME NEW t \in Targets, CancelFuture(t)
         PROVE  TypeOK'
    BY <2>16 DEF TypeOK, CancelFuture
  <2>17. ASSUME NEW ts \in SUBSET Targets, FinishBatch(ts)
         PROVE  TypeOK'
    <3>1. results' \in [Targets -> SiteType]
      BY <2>17, SnapshotTypes DEF FinishBatch, TypeOK
    <3>2. finished' \in [Targets -> SiteType]
      BY <2>17, <3>1 DEF FinishBatch, TypeOK
    <3>3. inherited' \in SUBSET (Targets \X Steps)
      BY <2>17 DEF FinishBatch, TypeOK, SubscriptionTargets
    <3>4. abandoned' \in [Targets -> BOOLEAN]
      BY <2>17 DEF FinishBatch, TypeOK
    <3> QED
      BY <2>17, <3>1, <3>2, <3>3, <3>4 DEF FinishBatch, TypeOK, Ended
  <2>18. CASE CancelSecondPhase
    BY <2>18, SnapshotTypes DEF CancelSecondPhase, TypeOK
  <2>19. CASE StartSecondPhase
    BY <2>19, SnapshotTypes, SubmitBatchType
       DEF StartSecondPhase, TypeOK, ResourceGroupTargets
  <2>20. CASE ReturnRun \/ RequestStop
    BY <2>20 DEF ReturnRun, RequestStop, TypeOK, Ended
  <2>21. CASE Exited \/ UNCHANGED vars
    BY <2>21 DEF Exited, vars, TypeOK
  <2> QED
    BY <2>1, <2>2, <2>3, <2>4, <2>5, <2>6, <2>7, <2>8, <2>9, <2>10, <2>11, <2>12,
       <2>13, <2>14, <2>15, <2>16, <2>17, <2>18, <2>19, <2>20, <2>21
       DEF Next, Main, Worker, CallReturns, FinishCollected, FinishInterrupted, Pending,
           TypeOK
<1> QED
  BY <1>1, <1>2, AtWorkStep, PTL DEF Spec

-------------------------------------------------------------------------------
(* The pool and the phases.                                                *)

HasEnded(t) == future[t] \in {"done", "raised", "cancelled"}

(* A future is live only while the wait loop or the shutdown of its batch  *)
(* is under way, and only a running future has a worker.                   *)
Pool ==
  /\ \A t \in Targets : future[t] \in {"queued", "running"} =>
       t \in batch /\ mpc \in {"polling", "waiting", "draining"}
  /\ \A t \in Targets : wpc[t] # "idle" => future[t] = "running"
  /\ \A t \in Targets : future[t] = "done" => finished[t] # NoSite
  /\ \A t \in batch : future[t] # "absent"
  /\ closed => mpc \in Ended

(* Which targets the phases have submitted, and what the first one leaves. *)
Phases ==
  /\ phase = "none" <=> mpc \in {"start", "refused", "rejected"}
  /\ phase = "none" => \A t \in Targets : future[t] = "absent"
  /\ phase = "targets" => ~HasSubscriptionSteps
  /\ phase = "subscription" =>
       /\ batch = SubscriptionTargets
       /\ \A t \in ResourceGroupTargets : future[t] = "absent"
  /\ mpc = "between" => phase = "subscription"
  /\ phase = "resource-group" \/ mpc = "between" =>
       \A u \in SubscriptionTargets : results[u] # NoSite /\ HasEnded(u)

(* A target nobody is done with was neither snapshotted nor finished.      *)
Unsnapshotted ==
  \A t \in Targets : future[t] \in {"absent", "queued", "running"} =>
    ~abandoned[t] /\ finished[t] = NoSite

PoolInv == TypeOK /\ Pool /\ Phases /\ Unsnapshotted

(* What a step of a worker does to the pool: it takes a queued future or   *)
(* works for a running one, and a future it ends has its Site.             *)
LEMMA WorkerStep ==
  ASSUME TypeOK, Pool, NEW t \in Targets, Worker(t)
  PROVE  /\ UNCHANGED <<plan, mainVars>>
         /\ \A u \in Targets \ {t} :
              /\ future'[u] = future[u] /\ wpc'[u] = wpc[u]
              /\ finished'[u] = finished[u] /\ abandoned'[u] = abandoned[u]
         /\ future[t] \in {"queued", "running"}
         /\ future'[t] \in {"running", "done", "raised"}
         /\ wpc'[t] # "idle" => future'[t] = "running"
         /\ future'[t] = "running" =>
              finished'[t] = finished[t] /\ abandoned'[t] = abandoned[t]
         /\ future'[t] = "done" => finished'[t] # NoSite
<1> USE DEF planVars, workerVars, stateVars
<1>1. wpc[t] # "idle" => future[t] = "running"
  BY DEF Pool
<1>2. CASE TakeFuture(t)
  BY <1>2 DEF TypeOK, TakeFuture
<1>3. CASE StopBeforeOperation(t)
  BY <1>1, <1>3, SnapshotTypes DEF TypeOK, StopBeforeOperation, AtOperation
<1>4. CASE RecordNonExecutable(t) \/ AnnounceOperation(t)
  BY <1>1, <1>4 DEF TypeOK, RecordNonExecutable, AnnounceOperation, AtOperation
<1>5. CASE BeginOperation(t) \/ ContactProvider(t) \/ ReturnSuccess(t)
  BY <1>1, <1>5 DEF TypeOK, BeginOperation, ContactProvider, ReturnSuccess
<1>6. CASE ReturnFailure(t) \/ ReturnUnknown(t) \/ ReturnStoppedBeforeStart(t)
  BY <1>1, <1>6
     DEF TypeOK, EndTarget, ReturnFailure, ReturnUnknown, ReturnStoppedBeforeStart
<1>7. CASE RaiseError(t)
  BY <1>1, <1>7 DEF TypeOK, RaiseError
<1>8. CASE FinishTarget(t)
  <2>1. Site(records[t], SiteReason(records[t])) # NoSite
    BY SiteReasonType, SiteIsTyped DEF TypeOK
  <2> QED
    BY <1>1, <1>8, <2>1 DEF TypeOK, FinishTarget
<1> QED
  BY <1>2, <1>3, <1>4, <1>5, <1>6, <1>7, <1>8 DEF Worker, CallReturns

LEMMA PoolInit == Init => Pool /\ Phases /\ Unsnapshotted
BY DEF Init, Pool, Phases, Unsnapshotted

(* Only the collection of a batch gives results, and none is taken back.   *)
LEMMA ResultsKept ==
  ASSUME TypeOK, [Next]_vars, NEW t \in Targets, results[t] # NoSite
  PROVE  results'[t] # NoSite
<1>1. CASE UNCHANGED results
  BY <1>1
<1>2. CASE HarvestResults \/ HarvestInterrupted
  BY <1>2, SnapshotTypes
     DEF HarvestResults, HarvestInterrupted, Harvest, Completed, Pending
<1>3. CASE FinishCollected \/ FinishInterrupted
  BY <1>3 DEF FinishCollected, FinishInterrupted, FinishBatch, Pending
<1>4. CASE CancelSecondPhase \/ StartSecondPhase
  BY <1>4, SnapshotTypes DEF CancelSecondPhase, StartSecondPhase
<1>5. ASSUME NEW u \in Targets, Worker(u)
      PROVE  UNCHANGED results
  BY <1>5 DEF Worker, CallReturns, TakeFuture, StopBeforeOperation, RecordNonExecutable,
     AnnounceOperation, BeginOperation, ContactProvider, ReturnSuccess, ReturnFailure,
     ReturnUnknown, ReturnStoppedBeforeStart, EndTarget, RaiseError, FinishTarget, mainVars
<1>6. CASE RefusePlan \/ RejectDuplicates \/ StartRun \/ PollStop \/ InterruptWait
           \/ (\E u \in Targets : CancelFuture(u)) \/ ReturnRun \/ RequestStop
           \/ Exited \/ UNCHANGED vars
  BY <1>1, <1>6 DEF RefusePlan, RejectDuplicates, StartRun, PollStop, InterruptWait,
     CancelFuture, ReturnRun, RequestStop, Exited, vars, mainVars
<1> QED
  BY <1>1, <1>2, <1>3, <1>4, <1>5, <1>6 DEF Next, Main

LEMMA PoolStep == PoolInv /\ [Next]_vars => Pool' /\ Phases' /\ Unsnapshotted'
<1> SUFFICES ASSUME TypeOK, Pool, Phases, Unsnapshotted, [Next]_vars
             PROVE  Pool' /\ Phases' /\ Unsnapshotted'
  BY DEF PoolInv
<1> USE DEF planVars, mainVars, workerVars, stateVars
<1>1. ASSUME NEW t \in Targets, Worker(t)
      PROVE  Pool' /\ Phases' /\ Unsnapshotted'
  <2>1. UNCHANGED <<plan, mpc, phase, batch, results, closed>>
    BY <1>1, WorkerStep
  <2>2. ASSUME NEW u \in Targets
        PROVE  /\ future'[u] \in {"queued", "running"} => future[u] \in {"queued", "running"}
               /\ future'[u] = "absent" <=> future[u] = "absent"
               /\ HasEnded(u) => HasEnded(u)'
               /\ wpc'[u] # "idle" => future'[u] = "running"
               /\ future'[u] = "done" => finished'[u] # NoSite
    <3>1. CASE u = t
      BY <1>1, <3>1, WorkerStep DEF HasEnded
    <3>2. CASE u # t
      <4>1. /\ future'[u] = future[u] /\ wpc'[u] = wpc[u]
            /\ finished'[u] = finished[u]
        BY <1>1, <3>2, WorkerStep
      <4> QED
        BY <4>1 DEF HasEnded, Pool
    <3> QED
      BY <3>1, <3>2
  <2>3. Pool'
    <3>1. batch \subseteq Targets
      BY DEF TypeOK
    <3> QED
      BY <2>1, <2>2, <3>1 DEF Pool, Ended
  <2>4. Phases'
    BY <2>1, <2>2 DEF Phases, ResourceGroupTargets, SubscriptionTargets,
                      HasSubscriptionSteps
  <2>5. Unsnapshotted'
    BY <1>1, WorkerStep DEF Unsnapshotted
  <2> QED
    BY <2>3, <2>4, <2>5
<1>2. CASE RefusePlan \/ RejectDuplicates
  BY <1>2 DEF RefusePlan, RejectDuplicates, Pool, Phases, Unsnapshotted, Ended, HasEnded,
              SubscriptionTargets, ResourceGroupTargets
<1>3. CASE StartRun
  <2>1. \A t \in Targets : future[t] = "absent"
    BY <1>3 DEF StartRun, Phases
  <2>2. CASE HasSubscriptionSteps
    <3>1. SubmitBatch("subscription", SubscriptionTargets)
      BY <1>3, <2>2 DEF StartRun
    <3> QED
      BY <1>3, <2>1, <2>2, <3>1
         DEF StartRun, SubmitBatch, Pool, Phases, Unsnapshotted, TypeOK, Ended, HasEnded,
             HasSubscriptionSteps, SubscriptionTargets, ResourceGroupTargets
  <2>3. CASE ~HasSubscriptionSteps
    <3>1. SubmitBatch("targets", Targets)
      BY <1>3, <2>3 DEF StartRun
    <3> QED
      BY <1>3, <2>1, <2>3, <3>1
         DEF StartRun, SubmitBatch, Pool, Phases, Unsnapshotted, TypeOK, Ended, HasEnded,
             HasSubscriptionSteps, SubscriptionTargets, ResourceGroupTargets
  <2> QED
    BY <2>2, <2>3
<1>4. CASE PollStop \/ InterruptWait \/ RequestStop \/ Exited \/ UNCHANGED vars
  BY <1>4
     DEF PollStop, InterruptWait, RequestStop, Exited, vars, Pool, Phases, Unsnapshotted,
         Ended, HasEnded, HasSubscriptionSteps, SubscriptionTargets, ResourceGroupTargets
<1>5. ASSUME NEW ts \in SUBSET Completed, Harvest(ts)
      PROVE  Pool' /\ Phases' /\ Unsnapshotted'
  <2>1. Completed \subseteq Targets /\ \A t \in Completed : future[t] \in {"done", "raised"}
    BY DEF Completed, Pending, TypeOK
  <2>2. \A t \in Targets : future[t] = "done" => finished'[t] # NoSite
    BY <1>5, <2>1, SnapshotTypes DEF Harvest, Harvested, Pool, TypeOK
  <2>3. Unsnapshotted'
    BY <1>5, <2>1 DEF Harvest, Unsnapshotted, TypeOK
  <2>4. Pool'
    BY <1>5, <2>2 DEF Harvest, Pool, Ended
  <2>5. Phases'
    BY <1>5, ResultsKept
       DEF Harvest, Phases, HasEnded, HasSubscriptionSteps, SubscriptionTargets,
           ResourceGroupTargets
  <2> QED
    BY <2>3, <2>4, <2>5
<1>6. ASSUME NEW t \in Targets, CancelFuture(t)
      PROVE  Pool' /\ Phases' /\ Unsnapshotted'
  BY <1>6
     DEF CancelFuture, TypeOK, Pool, Phases, Unsnapshotted, HasEnded, HasSubscriptionSteps,
         SubscriptionTargets, ResourceGroupTargets
<1>7. ASSUME NEW ts \in SUBSET Pending, FinishBatch(ts),
             FinishCollected \/ FinishInterrupted
      PROVE  Pool' /\ Phases' /\ Unsnapshotted'
  <2>1. \A t \in batch : HasEnded(t)
    BY <1>7 DEF FinishBatch, Drained, HasEnded
  <2>2. \A t \in Targets : future[t] \notin {"queued", "running"}
    BY <2>1 DEF Pool, HasEnded
  <2>3. \A t \in batch : results'[t] # NoSite
    <3> SUFFICES ASSUME NEW t \in batch
                 PROVE  results'[t] # NoSite
      OBVIOUS
    <3>1. t \in Targets
      BY DEF TypeOK
    <3>2. future[t] # "cancelled" => Harvested(t) # NoSite
      BY <2>1, <3>1, SnapshotTypes DEF HasEnded, Harvested, Pool
    <3> QED
      BY <1>7, <3>1, <3>2, SnapshotTypes DEF FinishBatch, Pending
  <2>4. \A t \in Targets :
          future[t] \in {"done", "absent"} => finished'[t] = finished[t]
    BY <1>7 DEF FinishBatch
  <2>5. Pool'
    BY <1>7, <2>2, <2>4 DEF FinishBatch, Pool, Ended
  <2>6. Unsnapshotted'
    BY <1>7, <2>1, <2>2, <2>4 DEF FinishBatch, Unsnapshotted, Pending, HasEnded, TypeOK
  <2>7. Phases'
    <3>1. phase = "subscription" => batch = SubscriptionTargets
      BY DEF Phases
    <3>2. \A u \in Targets : results[u] # NoSite => results'[u] # NoSite
      BY ResultsKept
    <3> QED
      BY <1>7, <2>1, <2>3, <3>1, <3>2
         DEF FinishBatch, Phases, HasEnded, HasSubscriptionSteps, SubscriptionTargets,
             ResourceGroupTargets
  <2> QED
    BY <2>5, <2>6, <2>7
<1>8. CASE CancelSecondPhase
  <2>1. \A u \in Targets : results[u] # NoSite => results'[u] # NoSite
    BY ResultsKept
  <2> QED
    BY <1>8, <2>1
       DEF CancelSecondPhase, Pool, Phases, Unsnapshotted, Ended, HasEnded,
           HasSubscriptionSteps, SubscriptionTargets, ResourceGroupTargets
<1>9. CASE StartSecondPhase
  <2>1. PICK ts \in SUBSET ResourceGroupTargets : SubmitBatch("resource-group", ts)
    BY <1>9 DEF StartSecondPhase
  <2>2. \A t \in ResourceGroupTargets : future[t] = "absent"
    BY <1>9 DEF StartSecondPhase, Phases
  <2>3. \A u \in Targets : results[u] # NoSite => results'[u] # NoSite
    BY ResultsKept
  <2>4. Pool'
    BY <1>9, <2>1 DEF StartSecondPhase, SubmitBatch, Pool, TypeOK, Ended,
                      ResourceGroupTargets
  <2>5. Unsnapshotted'
    BY <1>9, <2>1, <2>2 DEF StartSecondPhase, SubmitBatch, Unsnapshotted, TypeOK
  <2>6. Phases'
    BY <1>9, <2>1, <2>3
       DEF StartSecondPhase, SubmitBatch, Phases, HasEnded, HasSubscriptionSteps,
           SubscriptionTargets, ResourceGroupTargets
  <2> QED
    BY <2>4, <2>5, <2>6
<1>10. CASE ReturnRun
  BY <1>10
     DEF ReturnRun, Pool, Phases, Unsnapshotted, Ended, HasEnded, HasSubscriptionSteps,
         SubscriptionTargets, ResourceGroupTargets
<1> QED
  BY <1>1, <1>2, <1>3, <1>4, <1>5, <1>6, <1>7, <1>8, <1>9, <1>10
     DEF Next, Main, HarvestResults, HarvestInterrupted, FinishCollected, FinishInterrupted

THEOREM PoolCorrect == Spec => []PoolInv
<1>1. TypeOK /\ Pool /\ Phases /\ Unsnapshotted /\ [Next]_vars
        => Pool' /\ Phases' /\ Unsnapshotted'
  BY PoolStep DEF PoolInv
<1> QED
  BY <1>1, PoolInit, TypeCorrect, PTL DEF Spec, PoolInv

(* executor.close() removes the scratch directory only when no worker is   *)
(* left to use it, whatever was interrupted.                               *)
THEOREM ScratchIsSafe == Spec => []ScratchOutlivesCalls
<1>1. PoolInv => ScratchOutlivesCalls
  BY DEF PoolInv, Pool, ScratchOutlivesCalls, Running, Ended
<1> QED
  BY <1>1, PoolCorrect, PTL

(* No target is snapshotted while its worker runs, so that the refusals of *)
(* _TargetExecutionState.begin and record lose no observation.             *)
THEOREM RunningIsIntact == Spec => []RunningIsNotAbandoned
<1>1. PoolInv => RunningIsNotAbandoned
  BY DEF PoolInv, Unsnapshotted, RunningIsNotAbandoned, Running
<1> QED
  BY <1>1, PoolCorrect, PTL

(* No resource group target enters the pool before every subscription      *)
(* target has its result and its worker is gone.                           *)
THEOREM PhasesAreOrdered == Spec => []SubscriptionPhaseFirst
<1>1. PoolInv => SubscriptionPhaseFirst
  <2> SUFFICES ASSUME PoolInv, HasSubscriptionSteps,
                      NEW t \in ResourceGroupTargets, future[t] # "absent",
                      NEW u \in SubscriptionTargets
               PROVE  results[u] # NoSite /\ future[u] \notin {"absent", "queued", "running"}
    BY DEF SubscriptionPhaseFirst
  <2>1. phase = "resource-group"
    BY DEF PoolInv, TypeOK, Phases, ResourceGroupTargets
  <2> QED
    BY <2>1 DEF PoolInv, Phases, HasEnded
<1> QED
  BY <1>1, PoolCorrect, PTL

-------------------------------------------------------------------------------
(* The work on a target.                                                   *)

(* Statuses of an operation that never reached the provider.               *)
Unstarted == {"skipped", "not-run", "cancelled"}

(* How far the worker of t got: at the step `at`, the earlier ones having  *)
(* succeeded or not applying, and the provider contacted for no later one. *)
WorkOf(t) ==
  /\ future[t] \in {"absent", "queued", "cancelled"} =>
       contacted[t] = {} /\ records[t] = NoOps /\ at[t] = 1 /\ active[t] = 0
  /\ wpc[t] \in {"top", "announced"} => active[t] = 0
  /\ wpc[t] \in {"calling", "inflight"} => active[t] = at[t]
  /\ wpc[t] # "idle" /\ at[t] \in Steps => \A r \in Steps :
       IF r < at[t] THEN records[t][r].status \in {"succeeded", "skipped"}
                    ELSE records[t][r] = NoResult
  /\ \A s \in contacted[t] :
       /\ s <= at[t]
       /\ wpc[t] \in {"top", "announced", "calling"} => s < at[t]
       /\ IF records[t][s] = NoResult THEN s = active[t]
                                      ELSE records[t][s].status \notin Unstarted
       /\ \A r \in 1..(s - 1) : records[t][r].status \in {"succeeded", "skipped"}

Work ==
  /\ \A t \in Targets : WorkOf(t)
  /\ phase # "none" => Executable

WorkInv == PoolInv /\ AtWork /\ Work

LEMMA WorkInit == Init => Work
<1> SUFFICES ASSUME Init
             PROVE  Work
  OBVIOUS
<1>1. ASSUME NEW t \in Targets
      PROVE  WorkOf(t)
  BY <1>1 DEF Init, WorkOf
<1> QED
  BY <1>1 DEF Init, Work

(* A step that leaves the worker of t and what it recorded alone.          *)
LEMMA WorkOfFrame ==
  ASSUME TypeOK, NEW t \in Targets, WorkOf(t),
         future'[t] = future[t] \/ (future[t] = "absent" /\ future'[t] = "queued")
                                \/ (future[t] = "queued" /\ future'[t] = "cancelled"),
         wpc'[t] = wpc[t], at'[t] = at[t], records'[t] = records[t],
         active'[t] = active[t], contacted'[t] = contacted[t]
  PROVE  WorkOf(t)'
BY DEF WorkOf

(* The targets a worker's step is not about.                               *)
LEMMA OtherTargets ==
  ASSUME TypeOK, NEW t \in Targets, Worker(t), NEW u \in Targets \ {t}
  PROVE  /\ future'[u] = future[u] /\ wpc'[u] = wpc[u] /\ at'[u] = at[u]
         /\ records'[u] = records[u] /\ active'[u] = active[u]
         /\ contacted'[u] = contacted[u]
<1> USE DEF TypeOK, stateVars
<1>1. CASE TakeFuture(t) \/ StopBeforeOperation(t) \/ RecordNonExecutable(t)
  BY <1>1 DEF TakeFuture, StopBeforeOperation, RecordNonExecutable
<1>2. CASE AnnounceOperation(t) \/ BeginOperation(t) \/ ContactProvider(t)
  BY <1>2 DEF AnnounceOperation, BeginOperation, ContactProvider
<1>3. CASE ReturnSuccess(t) \/ RaiseError(t) \/ FinishTarget(t)
  BY <1>3 DEF ReturnSuccess, RaiseError, FinishTarget
<1>4. CASE ReturnFailure(t) \/ ReturnUnknown(t) \/ ReturnStoppedBeforeStart(t)
  BY <1>4 DEF ReturnFailure, ReturnUnknown, ReturnStoppedBeforeStart, EndTarget
<1> QED
  BY <1>1, <1>2, <1>3, <1>4 DEF Worker, CallReturns

(* The end of a target at an operation that reached the provider or did    *)
(* not: `outcome` says so, and `rest` leaves the later ones unstarted.     *)
LEMMA EndTargetWork ==
  ASSUME TypeOK, Pool, AtWork, NEW t \in Targets, WorkOf(t),
         NEW outcome \in OperationResult, NEW rest \in [Steps -> OperationResult],
         wpc[t] \in {"calling", "inflight"},
         wpc[t] = "inflight" => outcome.status \notin Unstarted,
         EndTarget(t, outcome, rest)
  PROVE  WorkOf(t)'
<1>1. at[t] \in Steps /\ at[t] \in Nat /\ NumSteps \in Nat
  BY FleetAssumption DEF AtWork, Steps
<1>2. future'[t] = "running" /\ wpc'[t] = "top" /\ active'[t] = 0
      /\ at'[t] = NumSteps + 1 /\ contacted'[t] = contacted[t]
  BY DEF EndTarget, TypeOK, Pool, workerVars, mainVars
<1>3. \A s \in Steps : records'[t][s] = IF s = at[t] THEN outcome
                                        ELSE IF s > at[t] THEN rest[s]
                                        ELSE records[t][s]
  BY DEF EndTarget, TypeOK
<1>4. contacted[t] \subseteq Steps
  BY DEF TypeOK
<1>5. ASSUME NEW s \in contacted[t]
      PROVE  /\ s < NumSteps + 1
             /\ records'[t][s] # NoResult /\ records'[t][s].status \notin Unstarted
             /\ \A r \in 1..(s - 1) : records'[t][r].status \in {"succeeded", "skipped"}
  <2>1. s \in Steps /\ s \in Nat /\ s <= NumSteps /\ s <= at[t]
    BY <1>1, <1>4 DEF WorkOf, Steps
  <2>2. \A r \in 1..(s - 1) : r \in Steps /\ r < at[t] /\ r # at[t] /\ ~(r > at[t])
    BY <1>1, <2>1 DEF Steps
  <2>3. \A r \in 1..(s - 1) : records'[t][r].status \in {"succeeded", "skipped"}
    BY <1>3, <2>2 DEF WorkOf
  <2>4. CASE s = at[t]
    <3>1. wpc[t] = "inflight"
      BY <1>1, <2>4 DEF WorkOf
    <3>2. records'[t][s] = outcome
      BY <1>3, <2>1, <2>4
    <3>3. outcome # NoResult
      BY DEF OperationResult, OperationStatus, NoResult
    <3> QED
      BY <2>1, <2>3, <3>1, <3>2, <3>3, <1>1
  <2>5. CASE s # at[t]
    <3>1. s < at[t]
      BY <1>1, <2>1, <2>5
    <3>2. records'[t][s] = records[t][s]
      BY <1>1, <1>3, <2>1, <3>1
    <3>3. records[t][s].status \in {"succeeded", "skipped"}
      BY <1>1, <2>1, <3>1 DEF WorkOf
    <3>4. records[t][s] # NoResult
      BY <3>3 DEF NoResult
    <3>5. records[t][s].status \notin Unstarted
      BY <1>5, <3>4 DEF WorkOf
    <3> QED
      BY <1>1, <2>1, <2>3, <3>2, <3>4, <3>5
  <2> QED
    BY <2>4, <2>5
<1>6. at'[t] \notin Steps
  BY <1>1, <1>2 DEF Steps
<1>7. ASSUME NEW s \in contacted'[t]
      PROVE  /\ s <= at'[t] /\ s < at'[t]
             /\ records'[t][s] # NoResult /\ records'[t][s].status \notin Unstarted
             /\ \A r \in 1..(s - 1) : records'[t][r].status \in {"succeeded", "skipped"}
  <2>1. s \in Nat /\ s < NumSteps + 1
    BY <1>2, <1>4, <1>5, <1>7 DEF Steps
  <2> QED
    BY <1>1, <1>2, <1>5, <2>1
<1>8. future'[t] \notin {"absent", "queued", "cancelled"}
  BY <1>2
<1> QED
  BY <1>2, <1>6, <1>7, <1>8 DEF WorkOf

LEMMA WorkerKeepsWork ==
  ASSUME TypeOK, Pool, AtWork, Work, phase # "none", NEW t \in Targets, Worker(t)
  PROVE  WorkOf(t)'
<1> USE DEF planVars, mainVars, workerVars, stateVars
<1>1. WorkOf(t) /\ Executable
  BY DEF Work
<1>2. /\ wpc[t] # "idle" => future[t] = "running"
      /\ NumSteps \in Nat /\ at[t] \in Nat
      /\ \A s \in contacted[t] : s \in Steps /\ s \in Nat
      /\ \A s \in Steps : s \in Nat
  BY FleetAssumption DEF Pool, TypeOK, Steps
<1>3. CASE TakeFuture(t)
  <2>1. /\ future[t] = "queued" /\ future'[t] = "running" /\ wpc'[t] = "top"
        /\ at'[t] = 1 /\ records'[t] = NoOps /\ contacted'[t] = {} /\ active'[t] = 0
    BY <1>1, <1>3 DEF TypeOK, TakeFuture, WorkOf
  <2>2. \A r \in Steps : ~(r < 1) /\ records'[t][r] = NoResult
    BY <1>2, <2>1 DEF NoOps, Steps
  <2> QED
    BY <2>1, <2>2 DEF WorkOf
<1>4. CASE StopBeforeOperation(t)
  <2>1. /\ future'[t] = "done" /\ wpc'[t] = "idle"
        /\ UNCHANGED <<at, records, contacted, active>>
    BY <1>4 DEF TypeOK, StopBeforeOperation
  <2> QED
    BY <1>1, <2>1 DEF WorkOf
<1>5. CASE RecordNonExecutable(t)
  <2> DEFINE a == at[t]
             n == NonExecutable(plan.disp[t][a])
  <2>1. a \in Steps /\ wpc[t] = "top" /\ plan.disp[t][a] # "execute"
    BY <1>5 DEF RecordNonExecutable, AtOperation
  <2>2. plan.disp[t][a] = "skip"
    BY <1>1, <2>1, PlanDisposition DEF Executable, Disposition
  <2>3. n.status = "skipped" /\ n # NoResult
    BY <2>2 DEF NonExecutable, Outcome, NoResult
  <2>4. /\ wpc'[t] = "top" /\ future'[t] = "running" /\ active'[t] = 0
        /\ at'[t] = a + 1 /\ contacted'[t] = contacted[t]
    BY <1>1, <1>2, <1>5, <2>1 DEF RecordNonExecutable, TypeOK, WorkOf
  <2>5. \A r \in Steps : records'[t][r] = IF r = a THEN n ELSE records[t][r]
    BY <1>5, <2>1 DEF RecordNonExecutable, TypeOK
  <2>6. \A r \in Steps : IF r < a THEN records[t][r].status \in {"succeeded", "skipped"}
                                  ELSE records[t][r] = NoResult
    BY <1>1, <2>1 DEF WorkOf
  <2>7. \A r \in Steps : IF r < a + 1 THEN records'[t][r].status \in {"succeeded", "skipped"}
                                      ELSE records'[t][r] = NoResult
    BY <1>2, <2>3, <2>5, <2>6
  <2>8. ASSUME NEW s \in contacted[t]
        PROVE  /\ s < a /\ s < a + 1 /\ s <= a + 1
               /\ records'[t][s] = records[t][s] /\ records[t][s] # NoResult
               /\ records[t][s].status \notin Unstarted
               /\ \A r \in 1..(s - 1) : records'[t][r].status \in {"succeeded", "skipped"}
    <3>1. s < a /\ s \in Steps
      BY <1>1, <1>2, <2>1, <2>8 DEF WorkOf
    <3>2. records'[t][s] = records[t][s] /\ records[t][s] # NoResult
      BY <1>2, <2>5, <2>6, <3>1 DEF NoResult
    <3>3. \A r \in 1..(s - 1) : r \in Steps /\ r < a + 1
      BY <1>2, <3>1 DEF Steps
    <3>4. records[t][s].status \notin Unstarted
      BY <1>1, <3>2, <2>8 DEF WorkOf
    <3> QED
      BY <1>2, <2>7, <3>1, <3>2, <3>3, <3>4
  <2> HIDE DEF a, n
  <2> QED
    BY <2>4, <2>7, <2>8 DEF WorkOf
<1>6. CASE AnnounceOperation(t) \/ BeginOperation(t)
  <2>1. /\ future'[t] = "running" /\ UNCHANGED <<at, records, contacted>>
        /\ wpc[t] \in {"top", "announced"} /\ wpc'[t] \in {"announced", "calling"}
        /\ wpc'[t] = "calling" => active'[t] = at[t]
        /\ wpc'[t] = "announced" => active'[t] = active[t]
    BY <1>2, <1>6 DEF AnnounceOperation, AtOperation, BeginOperation, TypeOK
  <2>2. \A s \in contacted[t] : records[t][s] # NoResult
    <3>1. active[t] = 0 /\ \A s \in Steps : s # 0
      BY <1>1, <2>1 DEF WorkOf, Steps
    <3> QED
      BY <1>1, <1>2, <3>1 DEF WorkOf
  <2> QED
    BY <1>1, <2>1, <2>2 DEF WorkOf
<1>7. CASE ContactProvider(t)
  <2>1. /\ wpc[t] = "calling" /\ wpc'[t] = "inflight" /\ future'[t] = "running"
        /\ contacted'[t] = contacted[t] \cup {at[t]}
        /\ UNCHANGED <<at, records, active>> /\ at[t] \in Steps /\ active[t] = at[t]
    BY <1>1, <1>2, <1>7 DEF ContactProvider, TypeOK, AtWork, WorkOf
  <2>2. records[t][at[t]] = NoResult
    BY <1>1, <1>2, <2>1 DEF WorkOf
  <2>3. \A r \in 1..(at[t] - 1) : records[t][r].status \in {"succeeded", "skipped"}
    <3>1. \A r \in 1..(at[t] - 1) : r \in Steps /\ r < at[t]
      BY <1>2, <2>1 DEF Steps
    <3> QED
      BY <1>1, <2>1, <3>1 DEF WorkOf
  <2>4. at[t] <= at[t]
    BY <1>2
  <2> QED
    BY <1>1, <2>1, <2>2, <2>3, <2>4 DEF WorkOf
<1>8. CASE ReturnSuccess(t)
  <2> DEFINE a == at[t]
  <2>1. a \in Steps /\ wpc[t] = "inflight" /\ active[t] = a
    BY <1>1, <1>8 DEF ReturnSuccess, AtWork, WorkOf
  <2>2. Succeeded.status = "succeeded" /\ Succeeded # NoResult
        /\ Succeeded.status \notin Unstarted
    BY DEF Succeeded, Outcome, NoResult, Unstarted
  <2>3. /\ wpc'[t] = "top" /\ future'[t] = "running" /\ active'[t] = 0
        /\ at'[t] = a + 1 /\ contacted'[t] = contacted[t]
    BY <1>2, <1>8, <2>1 DEF ReturnSuccess, TypeOK
  <2>4. \A r \in Steps : records'[t][r] = IF r = a THEN Succeeded ELSE records[t][r]
    BY <1>8, <2>1 DEF ReturnSuccess, TypeOK
  <2>5. \A r \in Steps : IF r < a THEN records[t][r].status \in {"succeeded", "skipped"}
                                  ELSE records[t][r] = NoResult
    BY <1>1, <2>1 DEF WorkOf
  <2>6. \A r \in Steps : IF r < a + 1 THEN records'[t][r].status \in {"succeeded", "skipped"}
                                      ELSE records'[t][r] = NoResult
    BY <1>2, <2>2, <2>4, <2>5
  <2>7. ASSUME NEW s \in contacted[t]
        PROVE  /\ s < a + 1 /\ s <= a + 1
               /\ records'[t][s] # NoResult /\ records'[t][s].status \notin Unstarted
               /\ \A r \in 1..(s - 1) : records'[t][r].status \in {"succeeded", "skipped"}
    <3>1. s <= a /\ s \in Steps /\ s < a + 1 /\ s <= a + 1
      BY <1>1, <1>2, <2>1, <2>7 DEF WorkOf
    <3>2. \A r \in 1..(s - 1) : r \in Steps /\ r < a + 1
      BY <1>2, <3>1 DEF Steps
    <3>3. CASE s = a
      BY <2>2, <2>4, <2>6, <3>1, <3>2, <3>3
    <3>4. CASE s # a
      <4>1. records'[t][s] = records[t][s]
        BY <2>4, <3>1, <3>4
      <4>2. records[t][s] # NoResult
        BY <1>1, <2>1, <2>7, <3>4 DEF WorkOf
      <4>3. records[t][s].status \notin Unstarted
        BY <1>1, <2>7, <4>2 DEF WorkOf
      <4> QED
        BY <2>6, <3>1, <3>2, <4>1, <4>2, <4>3
    <3> QED
      BY <3>3, <3>4
  <2> HIDE DEF a
  <2> QED
    BY <2>3, <2>6, <2>7 DEF WorkOf
<1>9. CASE ReturnFailure(t)
  BY <1>1, <1>9, EndTargetWork, WholeTargetTypes
     DEF ReturnFailure, Outcome, OperationResult, OperationStatus, ReasonCode, Unstarted
<1>10. CASE ReturnUnknown(t)
  BY <1>1, <1>10, EndTargetWork, WholeTargetTypes
     DEF ReturnUnknown, Outcome, OperationResult, OperationStatus, ReasonCode, Unstarted
<1>11. CASE ReturnStoppedBeforeStart(t)
  BY <1>1, <1>11, EndTargetWork, WholeTargetTypes
     DEF ReturnStoppedBeforeStart, Outcome, OperationResult, OperationStatus, ReasonCode,
         Unstarted
<1>12. CASE RaiseError(t) \/ FinishTarget(t)
  <2>1. /\ future'[t] \in {"raised", "done"} /\ wpc'[t] = "idle"
        /\ UNCHANGED <<at, records, contacted, active>>
    BY <1>12 DEF TypeOK, RaiseError, FinishTarget
  <2> QED
    BY <1>1, <2>1 DEF WorkOf
<1> QED
  BY <1>3, <1>4, <1>5, <1>6, <1>7, <1>8, <1>9, <1>10, <1>11, <1>12 DEF Worker, CallReturns

(* The main thread submits a future nobody had and cancels a queued one,   *)
(* and touches no worker; nothing executes before a plan that is           *)
(* executable was accepted.                                                *)
LEMMA MainKeepsWork ==
  ASSUME PoolInv, Work, Main \/ RequestStop \/ Exited \/ UNCHANGED vars
  PROVE  Work'
<1> USE DEF planVars, mainVars, workerVars, stateVars
<1>1. UNCHANGED <<plan, wpc, at, contacted, records, active>>
  BY DEF Main, RefusePlan, RejectDuplicates, StartRun, PollStop, HarvestResults,
         HarvestInterrupted, Harvest, InterruptWait, CancelFuture, FinishCollected,
         FinishInterrupted, FinishBatch, CancelSecondPhase, StartSecondPhase, ReturnRun,
         RequestStop, Exited, vars
<1>2. ASSUME NEW t \in Targets
      PROVE  \/ future'[t] = future[t]
             \/ future[t] = "absent" /\ future'[t] = "queued"
             \/ future[t] = "queued" /\ future'[t] = "cancelled"
  <2>1. CASE UNCHANGED future
    BY <2>1
  <2>2. CASE StartRun
    <3>1. future[t] = "absent"
      BY <2>2 DEF StartRun, PoolInv, Phases
    <3> QED
      BY <2>2, <3>1 DEF StartRun, SubmitBatch
  <2>3. CASE StartSecondPhase
    <3>1. t \in ResourceGroupTargets => future[t] = "absent"
      BY <2>3 DEF StartSecondPhase, PoolInv, Phases
    <3> QED
      BY <2>3, <3>1 DEF StartSecondPhase, SubmitBatch
  <2>4. ASSUME NEW u \in Targets, CancelFuture(u)
        PROVE  \/ future'[t] = future[t]
               \/ future[t] = "queued" /\ future'[t] = "cancelled"
    BY <2>4 DEF CancelFuture, PoolInv, TypeOK
  <2> QED
    BY <2>1, <2>2, <2>3, <2>4
       DEF Main, RefusePlan, RejectDuplicates, PollStop, HarvestResults,
           HarvestInterrupted, Harvest, InterruptWait, FinishCollected, FinishInterrupted,
           FinishBatch, CancelSecondPhase, ReturnRun, RequestStop, Exited, vars
<1>3. \A t \in Targets : WorkOf(t)'
  BY <1>1, <1>2, WorkOfFrame DEF Work, PoolInv
<1>4. phase' # "none" => Executable
  BY DEF Work, Main, RefusePlan, RejectDuplicates, StartRun, PollStop, HarvestResults,
         HarvestInterrupted, Harvest, InterruptWait, CancelFuture, FinishCollected,
         FinishInterrupted, FinishBatch, CancelSecondPhase, StartSecondPhase, SubmitBatch,
         ReturnRun, RequestStop, Exited,
         vars, PoolInv, Phases
<1> QED
  BY <1>1, <1>3, <1>4 DEF Work, Executable

LEMMA WorkStep == WorkInv /\ [Next]_vars => Work'
<1> SUFFICES ASSUME PoolInv, AtWork, Work, [Next]_vars
             PROVE  Work'
  BY DEF WorkInv
<1>1. ASSUME NEW t \in Targets, Worker(t)
      PROVE  Work'
  <2>1. UNCHANGED <<plan, phase>> /\ phase # "none"
    BY <1>1, WorkerStep DEF PoolInv, Phases, mainVars
  <2>2. WorkOf(t)'
    BY <1>1, <2>1, WorkerKeepsWork DEF PoolInv
  <2>3. ASSUME NEW u \in Targets \ {t}
        PROVE  WorkOf(u)'
    BY <1>1, OtherTargets, WorkOfFrame DEF PoolInv, Work
  <2> QED
    BY <2>1, <2>2, <2>3 DEF Work, Executable
<1> QED
  BY <1>1, MainKeepsWork DEF Next

THEOREM WorkCorrect == Spec => []WorkInv
<1>1. TypeOK /\ AtWork /\ PoolInv /\ Work /\ [Next]_vars => Work'
  BY WorkStep DEF WorkInv
<1> QED
  BY <1>1, WorkInit, TypeCorrect, PoolCorrect, PTL DEF Spec, WorkInv

(* The provider is contacted for an operation only after every earlier     *)
(* operation of its target succeeded or does not apply.                    *)
THEOREM StepsAreOrdered == Spec => []EarlierStepsSucceeded
<1>1. WorkInv => EarlierStepsSucceeded
  BY DEF WorkInv, Work, WorkOf, EarlierStepsSucceeded
<1> QED
  BY <1>1, WorkCorrect, PTL

-------------------------------------------------------------------------------
(* What the run reports.                                                   *)

(* A Site of t agrees with what its worker recorded, and calls nothing     *)
(* that reached the provider unstarted.                                    *)
Accounts(t, site) ==
  \A s \in Steps :
    /\ records[t][s] # NoResult => site.ops[s] = records[t][s]
    /\ site.ops[s].status \in Unstarted => s \notin contacted[t]

Sites ==
  /\ \A t \in Targets :
       /\ finished[t] # NoSite => Accounts(t, finished[t])
       /\ results[t] # NoSite =>
            Accounts(t, results[t]) /\ future[t] \notin {"queued", "running"}
  /\ mpc = "start" => \A t \in Targets : results[t] = NoSite
  /\ phase = "subscription" /\ mpc \in {"polling", "waiting", "draining", "between"} =>
       \A t \in ResourceGroupTargets : results[t] = NoSite

SiteInv == WorkInv /\ Sites

LEMMA SitesInit == Init => Sites
BY DEF Init, Sites

(* The Site of a target whose unrecorded operations got `f` accounts for   *)
(* it when f calls no operation unstarted that may be at the provider.     *)
LEMMA RecordedOrAccounts ==
  ASSUME WorkInv, NEW t \in Targets, NEW f \in [Steps -> OperationResult],
         \A s \in Steps : s \in contacted[t] /\ s = active[t] => f[s].status \notin Unstarted,
         NEW reason \in ReasonCode
  PROVE  Accounts(t, Site(RecordedOr(t, f), reason))
<1>1. WorkOf(t) /\ TypeOK
  BY DEF WorkInv, Work, PoolInv
<1>2. Site(RecordedOr(t, f), reason).ops = RecordedOr(t, f)
  BY <1>1, RecordedOrType, SiteIsTyped DEF ResultOrNone
<1>3. ASSUME NEW s \in Steps
      PROVE  RecordedOr(t, f)[s] = IF records[t][s] # NoResult THEN records[t][s] ELSE f[s]
  BY DEF RecordedOr
<1>4. ASSUME NEW s \in Steps, s \in contacted[t]
      PROVE  RecordedOr(t, f)[s].status \notin Unstarted
  BY <1>1, <1>3, <1>4 DEF WorkOf
<1> QED
  BY <1>2, <1>3, <1>4 DEF Accounts

(* Every snapshot of a target accounts for it.                             *)
LEMMA SnapshotsAccount ==
  ASSUME WorkInv, Sites, NEW t \in Targets
  PROVE  /\ active[t] = 0 => Accounts(t, SnapshotCancelled(t))
         /\ Accounts(t, SnapshotInterrupted(t))
         /\ Accounts(t, SnapshotFailed(t))
         /\ future[t] = "done" => Accounts(t, finished[t])
<1>1. TypeOK /\ Pool
  BY DEF WorkInv, PoolInv
<1>2. \A s \in Steps : s # 0
  BY DEF Steps
<1>3. active[t] = 0 => Accounts(t, SnapshotCancelled(t))
  <2>1. AllCancelled(t) \in [Steps -> OperationResult]
    BY <1>1, WholeTargetTypes DEF ReasonCode
  <2>2. SiteReason(RecordedOr(t, AllCancelled(t))) \in ReasonCode
    BY <1>1, <2>1, RecordedOrType, SiteReasonType DEF ResultOrNone
  <2> QED
    BY <1>2, <2>1, <2>2, RecordedOrAccounts DEF SnapshotCancelled
<1>4. ASSUME NEW reason \in ReasonCode, NEW whole \in ReasonCode
      PROVE  Accounts(t, Site(ActiveIsUnknown(t, reason), whole))
  <2> DEFINE f == [s \in Steps |-> IF s = active[t]
                     THEN Outcome("unknown", "completion-unknown")
                     ELSE Unreached(plan.disp[t][s], reason)]
  <2>1. f \in [Steps -> OperationResult]
    BY <1>1, PlanDisposition, DispositionResults
       DEF Outcome, OperationResult, OperationStatus, ReasonCode
  <2>2. \A s \in Steps : s = active[t] => f[s].status \notin Unstarted
    BY DEF Outcome, Unstarted
  <2>3. ActiveIsUnknown(t, reason) = RecordedOr(t, f)
    BY DEF ActiveIsUnknown
  <2> HIDE DEF f
  <2> QED
    BY <2>1, <2>2, <2>3, RecordedOrAccounts
<1>5. \A reason \in ReasonCode : SiteReason(ActiveIsUnknown(t, reason)) \in ReasonCode
  BY <1>1, ActiveIsUnknownType, SiteReasonType DEF ResultOrNone
<1>6. /\ "run-interrupted" \in ReasonCode
      /\ "earlier-operation-failed" \in ReasonCode
      /\ "operation-failed" \in ReasonCode
  BY DEF ReasonCode
<1>7. Accounts(t, SnapshotInterrupted(t)) /\ Accounts(t, SnapshotFailed(t))
  BY <1>4, <1>5, <1>6 DEF Sites, SnapshotInterrupted, SnapshotFailed
<1>8. future[t] = "done" => Accounts(t, finished[t])
  BY <1>1 DEF Sites, Pool
<1> QED
  BY <1>3, <1>7, <1>8

(* A worker ends its future with a Site that accounts for its target.      *)
LEMMA WorkerAccounts ==
  ASSUME WorkInv, Sites, NEW t \in Targets, Worker(t), finished'[t] # NoSite
  PROVE  Accounts(t, finished[t])'
<1> USE DEF planVars, mainVars, workerVars, stateVars
<1>1. TypeOK /\ Pool /\ WorkOf(t)
  BY DEF WorkInv, PoolInv, Work
<1>2. future[t] \in {"queued", "running"} /\ finished[t] = NoSite
  BY <1>1, WorkerStep DEF WorkInv, PoolInv, Unsnapshotted
<1>3. CASE StopBeforeOperation(t)
  <2>1. active[t] = 0
    BY <1>1, <1>3 DEF StopBeforeOperation, AtOperation, WorkOf
  <2>2. finished'[t] = SnapshotCancelled(t) /\ UNCHANGED <<records, contacted>>
    BY <1>1, <1>3 DEF StopBeforeOperation, TypeOK
  <2>3. Accounts(t, SnapshotCancelled(t))
    BY <2>1, SnapshotsAccount
  <2> QED
    BY <2>2, <2>3 DEF Accounts
<1>4. CASE FinishTarget(t)
  <2>1. finished'[t].ops = records[t] /\ UNCHANGED <<records, contacted>>
    BY <1>1, <1>4, SiteReasonType, SiteIsTyped DEF FinishTarget, TypeOK
  <2>2. \A s \in Steps : records[t][s].status \in Unstarted => s \notin contacted[t]
    <3>1. NoResult.status \notin Unstarted
      BY DEF NoResult, Unstarted
    <3> QED
      BY <1>1, <3>1 DEF WorkOf
  <2> QED
    BY <2>1, <2>2 DEF Accounts
<1>5. CASE ~ StopBeforeOperation(t) /\ ~ FinishTarget(t)
  <2>1. finished' = finished
    BY <1>5 DEF Worker, CallReturns, TakeFuture, RecordNonExecutable, AnnounceOperation,
       BeginOperation, ContactProvider, ReturnSuccess, ReturnFailure, ReturnUnknown,
       ReturnStoppedBeforeStart, EndTarget, RaiseError
  <2> QED
    BY <1>2, <2>1
<1> QED
  BY <1>3, <1>4, <1>5

LEMMA WorkerKeepsSites ==
  ASSUME WorkInv, Sites, NEW t \in Targets, Worker(t)
  PROVE  Sites'
<1>1. TypeOK /\ Pool /\ Unsnapshotted
  BY DEF WorkInv, PoolInv
<1>2. UNCHANGED <<plan, mpc, phase, results>>
  BY <1>1, WorkerStep DEF mainVars
<1>3. ASSUME NEW u \in Targets
      PROVE  /\ finished'[u] # NoSite => Accounts(u, finished[u])'
             /\ results'[u] # NoSite =>
                  Accounts(u, results[u])' /\ future'[u] \notin {"queued", "running"}
  <2>1. CASE u = t
    <3>1. results'[t] = NoSite
      BY <1>1, <1>2, WorkerStep DEF Sites
    <3> QED
      BY <2>1, <3>1, WorkerAccounts
  <2>2. CASE u # t
    <3>1. /\ finished'[u] = finished[u] /\ records'[u] = records[u]
          /\ contacted'[u] = contacted[u] /\ future'[u] = future[u]
      BY <1>1, <2>2, WorkerStep, OtherTargets
    <3> QED
      BY <1>2, <3>1 DEF Sites, Accounts
  <2> QED
    BY <2>1, <2>2
<1> QED
  BY <1>2, <1>3 DEF Sites, ResourceGroupTargets, SubscriptionTargets

(* A whole target may be cancelled or blocked when no worker took it.      *)
LEMMA UntouchedAccounts ==
  ASSUME WorkInv, NEW t \in Targets, future[t] \in {"absent", "cancelled"}
  PROVE  Accounts(t, CancelledTarget(t)) /\ Accounts(t, DependencyBlockedTarget(t))
<1>1. contacted[t] = {} /\ records[t] = NoOps
  BY DEF WorkInv, Work, WorkOf
<1> QED
  BY <1>1 DEF Accounts, NoOps

LEMMA MainKeepsSites ==
  ASSUME WorkInv, Sites, Main \/ RequestStop \/ Exited \/ UNCHANGED vars
  PROVE  Sites'
<1> USE DEF planVars, mainVars, workerVars, stateVars
<1>1. UNCHANGED <<plan, records, contacted>>
  BY DEF Main, RefusePlan, RejectDuplicates, StartRun, PollStop, HarvestResults,
         HarvestInterrupted, Harvest, InterruptWait, CancelFuture, FinishCollected,
         FinishInterrupted, FinishBatch, CancelSecondPhase, StartSecondPhase, ReturnRun,
         RequestStop, Exited, vars
<1>2. \A t \in Targets, site \in SiteType : Accounts(t, site) => Accounts(t, site)'
  BY <1>1 DEF Accounts
<1>3. TypeOK /\ Pool /\ Phases /\ Unsnapshotted
  BY DEF WorkInv, PoolInv
<1>4. \A t \in Targets : finished[t] \in SiteType /\ results[t] \in SiteType
  BY <1>3 DEF TypeOK
<1> USE DEF ResourceGroupTargets, SubscriptionTargets
<1>5. CASE RefusePlan \/ RejectDuplicates \/ PollStop \/ InterruptWait \/ ReturnRun
           \/ RequestStop \/ Exited \/ UNCHANGED vars
  <2>1. UNCHANGED <<results, finished, future, phase>> /\ (mpc' = "start" => mpc = "start")
        /\ (mpc' \in {"polling", "waiting", "draining", "between"}
              => mpc \in {"polling", "waiting", "draining", "between"})
    BY <1>5 DEF RefusePlan, RejectDuplicates, PollStop, InterruptWait, ReturnRun,
                RequestStop, Exited, vars
  <2> QED
    BY <1>1, <1>2, <1>4, <2>1 DEF Sites
<1>6. CASE StartRun
  <2>1. UNCHANGED <<results, finished>> /\ mpc' = "polling"
        /\ \A t \in Targets : results[t] = NoSite
    BY <1>6 DEF StartRun, SubmitBatch, Sites
  <2> QED
    BY <1>2, <1>4, <2>1 DEF Sites
<1>7. ASSUME NEW ts \in SUBSET Completed, Harvest(ts)
      PROVE  Sites'
  <2>1. UNCHANGED <<phase, future>> /\ mpc' = "polling" /\ mpc = "waiting"
    BY <1>7 DEF Harvest
  <2>2. Completed \subseteq Targets
        /\ \A t \in Completed : future[t] \in {"done", "raised"} /\ t \in batch
    BY <1>3 DEF Completed, Pending, TypeOK
  <2>3. ASSUME NEW t \in Targets, t \in Completed
        PROVE  Accounts(t, results'[t]) /\ results'[t] \in SiteType
               /\ finished'[t] = results'[t]
    BY <1>3, <1>7, <2>2, <2>3, SnapshotsAccount, SnapshotTypes DEF Harvest, Harvested
  <2>4. ASSUME NEW t \in Targets, t \notin Completed
        PROVE  results'[t] = results[t] /\ finished'[t] = finished[t]
    BY <1>7, <2>4 DEF Harvest
  <2>5. phase = "subscription" => \A t \in ResourceGroupTargets : t \notin Completed
    BY <2>2 , <1>3 DEF Phases
  <2> QED
    BY <1>1, <1>2, <1>4, <2>1, <2>2, <2>3, <2>4, <2>5 DEF Sites
<1>8. ASSUME NEW u \in Targets, CancelFuture(u)
      PROVE  Sites'
  <2>1. UNCHANGED <<results, finished, phase, mpc>>
        /\ \A t \in Targets : future'[t] \in {"queued", "running"} => future'[t] = future[t]
    BY <1>3, <1>8 DEF CancelFuture, TypeOK
  <2> QED
    BY <1>1, <1>2, <1>4, <2>1 DEF Sites
<1>9. ASSUME NEW ts \in SUBSET Pending, FinishBatch(ts)
      PROVE  Sites'
  <2>1. UNCHANGED <<phase, future>> /\ mpc' \in {"between", "closing"} /\ mpc = "draining"
    BY <1>9 DEF FinishBatch
  <2>2. ASSUME NEW t \in Targets, t \in Pending
        PROVE  Accounts(t, results'[t]) /\ results'[t] \in SiteType
               /\ future[t] \notin {"queued", "running"} /\ t \in batch
    <3>1. t \in batch /\ future[t] \in {"done", "raised", "cancelled"}
      BY <1>9, <2>2 DEF FinishBatch, Drained, Pending
    <3> QED
      BY <1>3, <1>9, <2>2, <3>1, SnapshotsAccount, SnapshotTypes, UntouchedAccounts
         DEF FinishBatch, Harvested
  <2>3. ASSUME NEW t \in Targets, t \notin Pending
        PROVE  results'[t] = results[t]
    BY <1>9, <2>3 DEF FinishBatch
  <2>4. ASSUME NEW t \in Targets
        PROVE  \/ finished'[t] = finished[t]
               \/ t \in Pending /\ finished'[t] = results'[t]
    BY <1>9 DEF FinishBatch
  <2>5. phase = "subscription" => \A t \in ResourceGroupTargets : t \notin Pending
    BY <1>3 DEF Phases, Pending
  <2> QED
    BY <1>1, <1>2, <1>4, <2>1, <2>2, <2>3, <2>4, <2>5 DEF Sites
<1>10. CASE CancelSecondPhase \/ StartSecondPhase
  <2>1. mpc = "between" /\ phase = "subscription" /\ mpc' \in {"closing", "polling"}
        /\ (mpc' = "polling" => phase' = "resource-group")
        /\ UNCHANGED finished
    BY <1>3, <1>10 DEF CancelSecondPhase, StartSecondPhase, SubmitBatch, Phases
  <2>2. ASSUME NEW t \in Targets, t \in ResourceGroupTargets
        PROVE  /\ results[t] = NoSite /\ future[t] = "absent"
               /\ results'[t] # NoSite =>
                    /\ Accounts(t, results'[t]) /\ results'[t] \in SiteType
                    /\ future'[t] = "absent"
    <3>1. results[t] = NoSite /\ future[t] = "absent"
      BY <1>3, <2>1, <2>2 DEF Sites, Phases
    <3>2. /\ Accounts(t, CancelledTarget(t)) /\ Accounts(t, DependencyBlockedTarget(t))
          /\ CancelledTarget(t) \in SiteType /\ DependencyBlockedTarget(t) \in SiteType
      BY <1>3, <3>1, UntouchedAccounts, SnapshotTypes
    <3>3. CASE CancelSecondPhase
      BY <3>1, <3>2, <3>3, <2>2 DEF CancelSecondPhase
    <3>4. CASE StartSecondPhase
      BY <3>1, <3>2, <3>4, <2>2 DEF StartSecondPhase, SubmitBatch
    <3> QED
      BY <1>10, <3>1, <3>3, <3>4
  <2>3. ASSUME NEW t \in Targets, t \notin ResourceGroupTargets
        PROVE  results'[t] = results[t] /\ future'[t] = future[t]
    BY <1>10, <2>3 DEF CancelSecondPhase, StartSecondPhase, SubmitBatch, DependencyBlocked
  <2> QED
    BY <1>1, <1>2, <1>4, <2>1, <2>2, <2>3 DEF Sites
<1> QED
  BY <1>5, <1>6, <1>7, <1>8, <1>9, <1>10
     DEF Main, HarvestResults, HarvestInterrupted, FinishCollected, FinishInterrupted

THEOREM SitesCorrect == Spec => []SiteInv
<1>1. WorkInv /\ Sites /\ [Next]_vars => Sites'
  BY WorkerKeepsSites, MainKeepsSites DEF Next
<1> QED
  BY <1>1, SitesInit, WorkCorrect, PTL DEF Spec, SiteInv

(* What a worker recorded is what the run reports, through every snapshot, *)
(* cancellation and late collection.                                       *)
THEOREM RecordsAreReported == Spec => []ObservationsRetained
<1>1. SiteInv => ObservationsRetained
  BY DEF SiteInv, Sites, Accounts, ObservationsRetained
<1> QED
  BY <1>1, SitesCorrect, PTL

(* An operation reported skipped, not-run or cancelled never reached the   *)
(* provider.                                                               *)
THEOREM UnstartedIsUntouched == Spec => []UnstartedMeansUntouched
<1>1. NoSite.ops = NoOps /\ \A s \in Steps : NoOps[s].status \notin Unstarted
  BY DEF NoSite, NoOps, NoResult, Unstarted
<1>2. SiteInv => UnstartedMeansUntouched
  BY <1>1 DEF SiteInv, Sites, Accounts, UnstartedMeansUntouched, Unstarted
<1> QED
  BY <1>2, SitesCorrect, PTL

-------------------------------------------------------------------------------
(* What a run tells of itself when it returns: that nothing reached the    *)
(* provider without its inputs, and that the exit code is honest.          *)

(* Inputs.                                                                 *)

(* Outputs are those of operations recorded as succeeded, and what the     *)
(* second phase inherits is what the first one holds.                      *)
Produced ==
  /\ \A t \in Targets : \A s \in outputs[t] : records[t][s] = Succeeded
  /\ \A op \in inherited : op[2] \in outputs[op[1]]

InputInv == Produced /\ InputsWereProduced

(* Everything recorded stays recorded, and everything held stays held.     *)
LEMMA WorkerKeepsInputs ==
  ASSUME WorkInv, InputInv, NEW t \in Targets, Worker(t)
  PROVE  InputInv'
<1> USE DEF planVars, mainVars, workerVars, stateVars
<1>1. TypeOK /\ AtWork /\ WorkOf(t) /\ (wpc[t] # "idle" => future[t] = "running")
  BY DEF WorkInv, PoolInv, Pool, Work
<1>2. UNCHANGED <<plan, inherited>>
  BY <1>1, WorkerStep DEF WorkInv, PoolInv
<1>3. NoResult # Succeeded
  BY DEF NoResult, Succeeded, Outcome
<1>4. ASSUME NEW u \in Targets, NEW s \in outputs[u]
      PROVE  s \in outputs'[u] /\ records'[u][s] = Succeeded
  <2>1. s \in Steps /\ records[u][s] = Succeeded
    BY <1>1, <1>4 DEF InputInv, Produced, TypeOK
  <2>2. CASE u # t
    <3>1. records'[u] = records[u]
      BY <1>1, <2>2, OtherTargets
    <3>2. outputs'[u] = outputs[u]
      BY <1>1, <2>2 DEF Worker, CallReturns, TakeFuture, StopBeforeOperation,
         RecordNonExecutable, AnnounceOperation, BeginOperation, ContactProvider,
         ReturnSuccess, ReturnFailure, ReturnUnknown, ReturnStoppedBeforeStart, EndTarget,
         RaiseError, FinishTarget, TypeOK
    <3> QED
      BY <1>4, <2>1, <3>1, <3>2
  <2>3. CASE u = t /\ UNCHANGED <<records, outputs>>
    BY <1>4, <2>1, <2>3
  <2>4. CASE u = t /\ RecordNonExecutable(t)
    <3>1. s # at[t]
      BY <1>1, <1>3, <2>1, <2>4, FleetAssumption
         DEF RecordNonExecutable, AtOperation, WorkOf, Steps
    <3> QED
      BY <1>1, <1>4, <2>1, <2>4, <3>1 DEF RecordNonExecutable, TypeOK
  <2>5. CASE u = t /\ ReturnSuccess(t)
    BY <1>1, <1>4, <2>1, <2>5 DEF ReturnSuccess, TypeOK
  <2>6. CASE u = t /\ (ReturnFailure(t) \/ ReturnUnknown(t) \/ ReturnStoppedBeforeStart(t))
    <3>1. wpc[t] \in {"calling", "inflight"} /\ at[t] \in Steps
      BY <1>1, <2>6 DEF AtWork, ReturnFailure, ReturnUnknown, ReturnStoppedBeforeStart
    <3>2. s < at[t]
      BY <1>1, <1>3, <2>1, <2>6, <3>1 DEF WorkOf
    <3>3. s # at[t] /\ ~(s > at[t])
      BY <2>1, <3>1, <3>2, FleetAssumption DEF Steps
    <3> QED
      BY <1>1, <1>4, <2>1, <2>6, <3>3
         DEF ReturnFailure, ReturnUnknown, ReturnStoppedBeforeStart, EndTarget, TypeOK
  <2> QED
    BY <1>1, <2>2, <2>3, <2>4, <2>5, <2>6
       DEF Worker, CallReturns, TakeFuture, StopBeforeOperation, AnnounceOperation,
           BeginOperation, ContactProvider, RaiseError, FinishTarget
<1>5. ASSUME NEW u \in Targets, NEW s \in outputs'[u], s \notin outputs[u]
      PROVE  records'[u][s] = Succeeded
  <2>1. u = t /\ ReturnSuccess(t) /\ s = at[t]
    BY <1>1, <1>5 DEF Worker, CallReturns, TakeFuture, StopBeforeOperation,
         RecordNonExecutable, AnnounceOperation, BeginOperation, ContactProvider,
         ReturnSuccess, ReturnFailure, ReturnUnknown, ReturnStoppedBeforeStart, EndTarget,
         RaiseError, FinishTarget, TypeOK
  <2>2. at[t] \in Steps
    BY <1>1, <2>1 DEF AtWork, ReturnSuccess
  <2> QED
    BY <1>1, <2>1, <2>2 DEF ReturnSuccess, TypeOK
<1>6. Produced'
  <2>1. \A op \in inherited : op[1] \in Targets
    BY <1>1 DEF TypeOK
  <2> QED
    BY <1>2, <1>4, <1>5, <2>1 DEF InputInv, Produced
<1>7. ASSUME NEW u \in Targets, NEW s \in Steps, NEW r \in plan.refs[u][s]
      PROVE  r[1] \in Targets
  BY <1>1, FleetAssumption DEF TypeOK, PlanType
<1>8. ASSUME NEW u \in Targets, NEW s \in contacted'[u], NEW op \in plan.refs[u][s]
      PROVE  op[2] \in outputs[op[1]] /\ op[1] \in Targets
  <2>1. CASE s \in contacted[u]
    BY <1>1, <1>7, <1>8, <2>1 DEF InputInv, InputsWereProduced, TypeOK
  <2>2. CASE s \notin contacted[u]
    <3>1. u = t /\ ContactProvider(t) /\ s = at[t]
      BY <1>1, <1>8, <2>2 DEF Worker, CallReturns, TakeFuture, StopBeforeOperation,
         RecordNonExecutable, AnnounceOperation, BeginOperation, ContactProvider,
         ReturnSuccess, ReturnFailure, ReturnUnknown, ReturnStoppedBeforeStart, EndTarget,
         RaiseError, FinishTarget, TypeOK
    <3>2. at[t] \in Steps
      BY <1>1, <3>1 DEF AtWork, ContactProvider
    <3>3. op \in inherited \/ op \in {t} \X outputs[t]
      BY <1>8, <3>1 DEF ContactProvider, Resolved, Available
    <3>4. op \in {t} \X outputs[t] => op[1] = t /\ op[2] \in outputs[t]
      OBVIOUS
    <3> QED
      BY <1>7, <1>8, <3>1, <3>2, <3>3, <3>4 DEF InputInv, Produced
  <2> QED
    BY <2>1, <2>2
<1>9. InputsWereProduced'
  BY <1>2, <1>4, <1>8 DEF InputsWereProduced
<1> QED
  BY <1>6, <1>9 DEF InputInv

LEMMA MainKeepsInputs ==
  ASSUME WorkInv, InputInv, Main \/ RequestStop \/ Exited \/ UNCHANGED vars
  PROVE  InputInv'
<1> USE DEF planVars, mainVars, workerVars, stateVars
<1>1. UNCHANGED <<plan, records, contacted, outputs>>
  BY DEF Main, RefusePlan, RejectDuplicates, StartRun, PollStop, HarvestResults,
         HarvestInterrupted, Harvest, InterruptWait, CancelFuture, FinishCollected,
         FinishInterrupted, FinishBatch, CancelSecondPhase, StartSecondPhase, ReturnRun,
         RequestStop, Exited, vars
<1>2. \A op \in inherited' : op[2] \in outputs[op[1]]
  BY DEF InputInv, Produced, Main, RefusePlan, RejectDuplicates, StartRun, PollStop,
         HarvestResults, HarvestInterrupted, Harvest, InterruptWait, CancelFuture,
         FinishCollected, FinishInterrupted, FinishBatch, CancelSecondPhase,
         StartSecondPhase, ReturnRun, RequestStop, Exited, vars
<1> QED
  BY <1>1, <1>2 DEF InputInv, Produced, InputsWereProduced

(* No operation reaches the provider but with values that operations       *)
(* observed to succeed produced, in its own target or across the phases.   *)
THEOREM InputsAreProduced == Spec => []InputsWereProduced
<1>1. Init => InputInv
  BY DEF Init, InputInv, Produced, InputsWereProduced
<1>2. WorkInv /\ InputInv /\ [Next]_vars => InputInv'
  BY WorkerKeepsInputs, MainKeepsInputs DEF Next
<1>3. InputInv => InputsWereProduced
  BY DEF InputInv
<1> QED
  BY <1>1, <1>2, <1>3, WorkCorrect, PTL DEF Spec

-------------------------------------------------------------------------------
(* The exit code.                                                          *)

(* What is said of the operation s of t is earned: it succeeded only at    *)
(* the provider, and is skipped only if the plan excludes it.              *)
Earned(t, s, result) ==
  /\ result.status = "succeeded" => result = Succeeded /\ s \in contacted[t]
  /\ result.status = "skipped" => plan.disp[t][s] # "execute"

(* A Site that accounts for every operation and whose status is that of    *)
(* its operations.                                                         *)
Whole(t, site) ==
  /\ \A s \in Steps : site.ops[s] \in OperationResult /\ Earned(t, s, site.ops[s])
  /\ site.status = AggregateSite(site.ops, site.reason)

Reported ==
  /\ \A t \in Targets, s \in Steps : Earned(t, s, records[t][s])
  /\ \A t \in Targets : wpc[t] = "top" /\ at[t] \notin Steps =>
       \A s \in Steps : records[t][s] # NoResult
  /\ \A t \in Targets : wpc[t] = "inflight" => at[t] \in contacted[t]
  /\ \A t \in Targets : finished[t] # NoSite => Whole(t, finished[t])
  /\ \A t \in Targets : results[t] # NoSite => Whole(t, results[t])

(* Who is still to be accounted for is in the batch, and nobody is once    *)
(* the phases are over.                                                    *)
Covered ==
  /\ phase \in {"targets", "resource-group"} =>
       \A t \in Targets \ batch : results[t] # NoSite
  /\ mpc \in {"closing", "returned"} => \A t \in Targets : results[t] # NoSite

(* The run was interrupted only by a stop, and reports it.                 *)
StopIsSeen ==
  /\ interrupted => stop
  /\ mpc = "returned" => interrupted = stop

ReportInv == Reported /\ Covered /\ StopIsSeen

LEMMA ReportInit == Init => ReportInv
BY DEF Init, ReportInv, Reported, Covered, StopIsSeen, Earned, NoOps, NoResult, Succeeded,
       Outcome

(* An operation that nobody started, or nobody saw the end of, is no       *)
(* success, and is skipped only if the plan excludes it.                   *)
LEMMA UnstartedIsEarned ==
  ASSUME TypeOK, NEW t \in Targets, NEW s \in Steps, NEW reason \in ReasonCode
  PROVE  /\ Earned(t, s, Unreached(plan.disp[t][s], reason))
         /\ Earned(t, s, Cancelled(plan.disp[t][s]))
         /\ plan.disp[t][s] # "execute" => Earned(t, s, NonExecutable(plan.disp[t][s]))
         /\ Earned(t, s, NoResult)
BY PlanDisposition
   DEF Disposition, Earned, Unreached, Cancelled, NonExecutable, Outcome, NoResult

LEMMA SiteIsWhole ==
  ASSUME NEW t \in Targets, NEW ops \in [Steps -> OperationResult],
         \A s \in Steps : Earned(t, s, ops[s]), NEW reason \in ReasonCode
  PROVE  Whole(t, Site(ops, reason))
BY DEF Whole, Site

(* The records of a target, completed, are earned.                         *)
LEMMA CompletedIsEarned ==
  ASSUME TypeOK, Reported, NEW t \in Targets, NEW f \in [Steps -> OperationResult],
         \A s \in Steps : Earned(t, s, f[s])
  PROVE  /\ RecordedOr(t, f) \in [Steps -> OperationResult]
         /\ \A s \in Steps : Earned(t, s, RecordedOr(t, f)[s])
<1>1. RecordedOr(t, f) \in [Steps -> OperationResult]
  BY RecordedOrType
<1>2. ASSUME NEW s \in Steps
      PROVE  Earned(t, s, RecordedOr(t, f)[s])
  <2>1. RecordedOr(t, f)[s] = IF records[t][s] # NoResult THEN records[t][s] ELSE f[s]
    BY DEF RecordedOr
  <2> QED
    BY <2>1 DEF Reported
<1> QED
  BY <1>1, <1>2

(* However a target gets its Site, the Site is whole.                      *)
LEMMA SnapshotsAreWhole ==
  ASSUME TypeOK, Reported, NEW t \in Targets
  PROVE  /\ Whole(t, SnapshotCancelled(t))
         /\ Whole(t, SnapshotInterrupted(t))
         /\ Whole(t, SnapshotFailed(t))
         /\ Whole(t, CancelledTarget(t))
         /\ Whole(t, DependencyBlockedTarget(t))
<1>1. /\ "run-interrupted" \in ReasonCode
      /\ "earlier-operation-failed" \in ReasonCode
      /\ "operation-failed" \in ReasonCode
      /\ "dependency-unavailable" \in ReasonCode
  BY DEF ReasonCode
<1>2. \A ops \in [Steps -> OperationResult] : SiteReason(ops) \in ReasonCode
  BY SiteReasonType DEF ResultOrNone
<1>3. /\ AllCancelled(t) \in [Steps -> OperationResult]
      /\ \A s \in Steps : Earned(t, s, AllCancelled(t)[s])
  BY <1>1, WholeTargetTypes, UnstartedIsEarned DEF AllCancelled
<1>4. ASSUME NEW reason \in ReasonCode
      PROVE  /\ AllUnreached(t, reason) \in [Steps -> OperationResult]
             /\ \A s \in Steps : Earned(t, s, AllUnreached(t, reason)[s])
  BY WholeTargetTypes, UnstartedIsEarned DEF AllUnreached
<1>5. ASSUME NEW reason \in ReasonCode
      PROVE  /\ ActiveIsUnknown(t, reason) \in [Steps -> OperationResult]
             /\ \A s \in Steps : Earned(t, s, ActiveIsUnknown(t, reason)[s])
  <2> DEFINE f == [s \in Steps |-> IF s = active[t]
                     THEN Outcome("unknown", "completion-unknown")
                     ELSE Unreached(plan.disp[t][s], reason)]
  <2>1. f \in [Steps -> OperationResult]
    BY PlanDisposition, DispositionResults
       DEF Outcome, OperationResult, OperationStatus, ReasonCode
  <2>2. \A s \in Steps : Earned(t, s, Outcome("unknown", "completion-unknown"))
    BY DEF Earned, Outcome
  <2>3. \A s \in Steps : Earned(t, s, f[s])
    BY <2>2, UnstartedIsEarned
  <2>4. ActiveIsUnknown(t, reason) = RecordedOr(t, f)
    BY DEF ActiveIsUnknown
  <2> HIDE DEF f
  <2> QED
    BY <2>1, <2>3, <2>4, CompletedIsEarned
<1>6. Whole(t, SnapshotCancelled(t))
  BY <1>2, <1>3, CompletedIsEarned, SiteIsWhole DEF SnapshotCancelled
<1>7. Whole(t, SnapshotInterrupted(t)) /\ Whole(t, SnapshotFailed(t))
  BY <1>1, <1>2, <1>5, SiteIsWhole DEF SnapshotInterrupted, SnapshotFailed, Reported
<1>8. Whole(t, CancelledTarget(t)) /\ Whole(t, DependencyBlockedTarget(t))
  BY <1>1, <1>2, <1>3, <1>4, SiteIsWhole DEF CancelledTarget, DependencyBlockedTarget
<1> QED
  BY <1>6, <1>7, <1>8

(* What is earned stays so: the plan is fixed, and what reached the        *)
(* provider did.                                                           *)
LEMMA EarnedStays ==
  ASSUME TypeOK, [Next]_vars
  PROVE  /\ \A t \in Targets, s \in Steps, r \in ResultOrNone :
              Earned(t, s, r) => Earned(t, s, r)'
         /\ \A t \in Targets, site \in SiteType : Whole(t, site) => Whole(t, site)'
<1> USE DEF planVars, mainVars, workerVars, stateVars
<1>1. plan' = plan /\ \A t \in Targets : contacted[t] \subseteq contacted'[t]
  <2>1. ASSUME NEW t \in Targets, Worker(t)
        PROVE  plan' = plan /\ \A u \in Targets : contacted[u] \subseteq contacted'[u]
    BY <2>1 DEF Worker, CallReturns, TakeFuture, StopBeforeOperation,
         RecordNonExecutable, AnnounceOperation, BeginOperation, ContactProvider,
         ReturnSuccess, ReturnFailure, ReturnUnknown, ReturnStoppedBeforeStart, EndTarget,
         RaiseError, FinishTarget, TypeOK
  <2>2. CASE Main \/ RequestStop \/ Exited \/ UNCHANGED vars
    BY <2>2 DEF Main, RefusePlan, RejectDuplicates, StartRun, PollStop, HarvestResults,
         HarvestInterrupted, Harvest, InterruptWait, CancelFuture, FinishCollected,
         FinishInterrupted, FinishBatch, CancelSecondPhase, StartSecondPhase, ReturnRun,
         RequestStop, Exited, vars
  <2> QED
    BY <2>1, <2>2 DEF Next
<1> QED
  BY <1>1 DEF Earned, Whole

(* What a worker adds to its records is earned, and it leaves its loop     *)
(* with every operation recorded.                                          *)
LEMMA WorkerEarns ==
  ASSUME WorkInv, Reported, NEW t \in Targets, Worker(t)
  PROVE  /\ \A s \in Steps : Earned(t, s, records[t][s])'
         /\ wpc'[t] = "top" /\ at'[t] \notin Steps => \A s \in Steps : records'[t][s] # NoResult
         /\ wpc'[t] = "inflight" => at'[t] \in contacted'[t]
         /\ finished'[t] # NoSite => Whole(t, finished[t])'
<1> USE DEF planVars, mainVars, workerVars, stateVars
<1>1. TypeOK /\ AtWork /\ WorkOf(t) /\ (wpc[t] # "idle" => future[t] = "running")
  BY DEF WorkInv, PoolInv, Pool, Work
<1>2. /\ \A s \in Steps, r \in ResultOrNone : Earned(t, s, r) => Earned(t, s, r)'
      /\ \A site \in SiteType : Whole(t, site) => Whole(t, site)'
  BY <1>1, EarnedStays DEF Next
<1>3. /\ records[t] \in [Steps -> ResultOrNone] /\ finished[t] \in SiteType
      /\ \A s \in Steps : Earned(t, s, records[t][s])
      /\ finished[t] # NoSite => Whole(t, finished[t])
  BY <1>1 DEF TypeOK, Reported
<1>4. NumSteps \in Nat /\ at[t] \in 1..(NumSteps + 1)
  BY <1>1, FleetAssumption DEF TypeOK
<1>5. CASE TakeFuture(t)
  BY <1>1, <1>2, <1>3, <1>5, FleetAssumption DEF TakeFuture, TypeOK, WorkOf, Steps
<1>6. CASE StopBeforeOperation(t)
  <2>1. finished'[t] = SnapshotCancelled(t) /\ records'[t] = records[t] /\ wpc'[t] = "idle"
    BY <1>1, <1>6 DEF StopBeforeOperation, TypeOK
  <2>2. SnapshotCancelled(t) \in SiteType /\ Whole(t, SnapshotCancelled(t))
    BY <1>1, SnapshotTypes, SnapshotsAreWhole
  <2> QED
    BY <1>2, <1>3, <2>1, <2>2
<1>7. CASE RecordNonExecutable(t) \/ ReturnSuccess(t)
  <2> DEFINE a == at[t]
             n == IF RecordNonExecutable(t) THEN NonExecutable(plan.disp[t][a]) ELSE Succeeded
  <2>1. a \in Steps /\ wpc[t] \in {"top", "inflight"}
    BY <1>1, <1>7 DEF RecordNonExecutable, AtOperation, ReturnSuccess, AtWork
  <2>2. /\ \A s \in Steps : records'[t][s] = IF s = a THEN n ELSE records[t][s]
        /\ at'[t] = a + 1 /\ wpc'[t] = "top" /\ finished'[t] = finished[t]
    <3>1. CASE RecordNonExecutable(t)
      BY <1>1, <2>1, <3>1 DEF RecordNonExecutable, AtOperation, TypeOK
    <3>2. CASE ~RecordNonExecutable(t)
      BY <1>1, <1>7, <2>1, <3>2 DEF ReturnSuccess, TypeOK
    <3> QED
      BY <3>1, <3>2
  <2>3. n \in OperationResult /\ n # NoResult
    <3>1. Succeeded \in OperationResult
      BY DEF Succeeded, Outcome, OperationResult, OperationStatus, ReasonCode
    <3>2. NonExecutable(plan.disp[t][a]) \in OperationResult
      BY <1>1, <2>1, PlanDisposition, DispositionResults DEF ReasonCode
    <3> QED
      BY <3>1, <3>2 DEF OperationResult, OperationStatus, NoResult
  <2>4. Earned(t, a, n)
    <3>1. CASE RecordNonExecutable(t)
      BY <1>1, <2>1, <3>1, UnstartedIsEarned DEF RecordNonExecutable, ReasonCode
    <3>2. CASE ~RecordNonExecutable(t)
      <4>1. wpc[t] = "inflight"
        BY <1>7, <3>2 DEF ReturnSuccess
      <4> QED
        BY <3>2, <4>1 DEF Earned, Succeeded, Outcome, Reported
    <3> QED
      BY <3>1, <3>2
  <2>5. ASSUME NEW s \in Steps, a + 1 \notin Steps
        PROVE  records'[t][s] # NoResult
    <3>1. s = a \/ s < a
      BY <1>4, <2>1, <2>5 DEF Steps
    <3>2. s < a => records[t][s].status \in {"succeeded", "skipped"}
      BY <1>1, <2>1 DEF WorkOf
    <3>3. NoResult.status \notin {"succeeded", "skipped"}
      BY DEF NoResult
    <3> QED
      BY <2>2, <2>3, <3>1, <3>2, <3>3
  <2> HIDE DEF a, n
  <2> QED
    BY <1>2, <1>3, <2>2, <2>3, <2>4, <2>5 DEF ResultOrNone
<1>8. CASE AnnounceOperation(t) \/ BeginOperation(t)
  BY <1>1, <1>2, <1>3, <1>8 DEF AnnounceOperation, BeginOperation, TypeOK
<1>9. CASE ContactProvider(t)
  BY <1>1, <1>2, <1>3, <1>9 DEF ContactProvider, TypeOK
<1>10. ASSUME NEW outcome \in OperationResult, NEW rest \in [Steps -> OperationResult],
              EndTarget(t, outcome, rest), outcome.status \notin {"succeeded", "skipped"},
              wpc[t] \in {"calling", "inflight"}, \A s \in Steps : Earned(t, s, rest[s])
       PROVE  /\ \A s \in Steps : Earned(t, s, records[t][s])'
              /\ \A s \in Steps : records'[t][s] # NoResult
              /\ wpc'[t] = "top" /\ finished'[t] = finished[t]
  <2>1. \A s \in Steps : Earned(t, s, outcome)
    BY <1>10 DEF Earned
  <2>2. at[t] \in Steps
    BY <1>1, <1>10 DEF AtWork
  <2>3. ASSUME NEW s \in Steps
        PROVE  /\ Earned(t, s, records'[t][s]) /\ records'[t][s] # NoResult
               /\ records'[t][s] \in ResultOrNone
    <3>1. records'[t][s] = IF s = at[t] THEN outcome ELSE IF s > at[t] THEN rest[s]
                           ELSE records[t][s]
      BY <1>1, <1>10 DEF EndTarget, TypeOK
    <3>2. s < at[t] => records[t][s].status \in {"succeeded", "skipped"}
      BY <1>1, <1>10, <2>2 DEF WorkOf
    <3>3. s = at[t] \/ s > at[t] \/ s < at[t]
      BY <1>4, <2>2 DEF Steps
    <3> QED
      BY <1>3, <1>10, <2>1, <3>1, <3>2, <3>3
         DEF ResultOrNone, OperationResult, OperationStatus, NoResult
  <2>4. wpc'[t] = "top" /\ finished'[t] = finished[t]
    BY <1>1, <1>10 DEF EndTarget, TypeOK
  <2> QED
    BY <1>2, <2>3, <2>4
<1>11. /\ \A reason \in ReasonCode, s \in Steps : Earned(t, s, AllUnreached(t, reason)[s])
       /\ \A s \in Steps : Earned(t, s, AllCancelled(t)[s])
       /\ "earlier-operation-failed" \in ReasonCode /\ "earlier-operation-unknown" \in ReasonCode
  BY <1>1, UnstartedIsEarned DEF AllUnreached, AllCancelled, ReasonCode
<1>12. CASE ReturnFailure(t)
  BY <1>1, <1>2, <1>3, <1>10, <1>11, <1>12, WholeTargetTypes
     DEF ReturnFailure, Outcome, OperationResult, OperationStatus, ReasonCode
<1>13. CASE ReturnUnknown(t)
  BY <1>1, <1>2, <1>3, <1>10, <1>11, <1>13, WholeTargetTypes
     DEF ReturnUnknown, Outcome, OperationResult, OperationStatus, ReasonCode
<1>14. CASE ReturnStoppedBeforeStart(t)
  BY <1>1, <1>2, <1>3, <1>10, <1>11, <1>14, WholeTargetTypes
     DEF ReturnStoppedBeforeStart, Outcome, OperationResult, OperationStatus, ReasonCode
<1>15. CASE RaiseError(t)
  BY <1>1, <1>2, <1>3, <1>15 DEF RaiseError, TypeOK
<1>16. CASE FinishTarget(t)
  <2>1. \A s \in Steps : records[t][s] # NoResult
    BY <1>4, <1>16 DEF FinishTarget, Reported, Steps
  <2>2. records[t] \in [Steps -> OperationResult]
    BY <1>3, <2>1 DEF ResultOrNone
  <2>3. SiteReason(records[t]) \in ReasonCode
    BY <1>3, SiteReasonType
  <2>4. Whole(t, Site(records[t], SiteReason(records[t])))
    BY <1>3, <2>2, <2>3, SiteIsWhole
  <2>5. Site(records[t], SiteReason(records[t])) \in SiteType
    BY <1>3, <2>3, SiteIsTyped
  <2>6. /\ finished'[t] = Site(records[t], SiteReason(records[t]))
        /\ records'[t] = records[t] /\ wpc'[t] = "idle"
    BY <1>1, <1>16 DEF FinishTarget, TypeOK
  <2> QED
    BY <1>2, <1>3, <2>4, <2>5, <2>6
<1> QED
  BY <1>5, <1>6, <1>7, <1>8, <1>9, <1>12, <1>13, <1>14, <1>15, <1>16 DEF Worker, CallReturns

(* What a worker's step leaves of another target.                          *)
LEMMA WorkerLeavesOthers ==
  ASSUME WorkInv, Reported, NEW t \in Targets, Worker(t), NEW u \in Targets \ {t}
  PROVE  /\ \A s \in Steps : Earned(u, s, records[u][s])'
         /\ wpc'[u] = "top" /\ at'[u] \notin Steps => \A s \in Steps : records'[u][s] # NoResult
         /\ wpc'[u] = "inflight" => at'[u] \in contacted'[u]
         /\ finished'[u] # NoSite => Whole(u, finished[u])'
<1>1. TypeOK /\ Pool
  BY DEF WorkInv, PoolInv
<1>2. /\ wpc'[u] = wpc[u] /\ at'[u] = at[u] /\ records'[u] = records[u]
      /\ contacted'[u] = contacted[u] /\ finished'[u] = finished[u]
  BY <1>1, OtherTargets, WorkerStep
<1>3. records[u] \in [Steps -> ResultOrNone] /\ finished[u] \in SiteType
  BY <1>1 DEF TypeOK
<1>4. /\ \A s \in Steps, r \in ResultOrNone : Earned(u, s, r) => Earned(u, s, r)'
      /\ \A site \in SiteType : Whole(u, site) => Whole(u, site)'
  BY <1>1, EarnedStays DEF Next
<1> QED
  BY <1>2, <1>3, <1>4 DEF Reported

LEMMA WorkerKeepsReport ==
  ASSUME WorkInv, ReportInv, NEW t \in Targets, Worker(t)
  PROVE  ReportInv'
<1>1. TypeOK /\ Pool
  BY DEF WorkInv, PoolInv
<1>2. UNCHANGED <<plan, mpc, phase, batch, results, interrupted>>
  BY <1>1, WorkerStep DEF mainVars
<1>3. stop' = stop
  BY DEF Worker, CallReturns, TakeFuture, StopBeforeOperation, RecordNonExecutable,
         AnnounceOperation, BeginOperation, ContactProvider, ReturnSuccess, ReturnFailure,
         ReturnUnknown, ReturnStoppedBeforeStart, EndTarget, RaiseError, FinishTarget
<1>4. \A u \in Targets : results'[u] # NoSite => Whole(u, results[u])'
  <2>1. \A u \in Targets : results[u] \in SiteType
    BY <1>1 DEF TypeOK
  <2> QED
    BY <1>1, <1>2, <2>1, EarnedStays DEF Next, ReportInv, Reported
<1>5. Reported'
  BY <1>4, WorkerEarns, WorkerLeavesOthers DEF ReportInv, Reported
<1> QED
  BY <1>2, <1>3, <1>5 DEF ReportInv, Covered, StopIsSeen

(* The main thread collects whole Sites, and completes the missing ones.   *)
LEMMA MainKeepsReported ==
  ASSUME WorkInv, ReportInv, Main \/ RequestStop \/ Exited \/ UNCHANGED vars
  PROVE  Reported'
<1> USE DEF planVars, mainVars, workerVars, stateVars
<1>1. TypeOK /\ Pool /\ Reported
  BY DEF WorkInv, PoolInv, ReportInv
<1>2. UNCHANGED <<plan, records, contacted, wpc, at>>
  BY DEF Main, RefusePlan, RejectDuplicates, StartRun, PollStop, HarvestResults,
         HarvestInterrupted, Harvest, InterruptWait, CancelFuture, FinishCollected,
         FinishInterrupted, FinishBatch, CancelSecondPhase, StartSecondPhase, ReturnRun,
         RequestStop, Exited, vars
<1>3. \A t \in Targets, site \in SiteType : Whole(t, site) => Whole(t, site)'
  BY <1>1, EarnedStays DEF Next
<1>4. \A t \in Targets : finished[t] \in SiteType /\ results[t] \in SiteType
  BY <1>1 DEF TypeOK
<1>5. \A t \in Targets :
        /\ Whole(t, SnapshotInterrupted(t)) /\ SnapshotInterrupted(t) \in SiteType
        /\ Whole(t, CancelledTarget(t)) /\ CancelledTarget(t) \in SiteType
        /\ Whole(t, DependencyBlockedTarget(t)) /\ DependencyBlockedTarget(t) \in SiteType
  BY <1>1, SnapshotsAreWhole, SnapshotTypes
<1>6. ASSUME NEW t \in Targets, future[t] \in {"done", "raised"}
      PROVE  Whole(t, Harvested(t)) /\ Harvested(t) \in SiteType
  BY <1>1, <1>6, SnapshotsAreWhole, SnapshotTypes DEF Harvested, Reported, Pool
<1> DEFINE Collected(t) ==
             /\ results'[t] # NoSite => Whole(t, results'[t]) /\ results'[t] \in SiteType
             /\ finished'[t] # NoSite => Whole(t, finished'[t]) /\ finished'[t] \in SiteType
<1>7. ASSUME NEW t \in Targets
      PROVE  Collected(t)
  <2>1. CASE UNCHANGED <<results, finished>>
    BY <1>1, <1>4, <2>1 DEF Reported
  <2>2. ASSUME NEW ts \in SUBSET Completed, Harvest(ts)
        PROVE  Collected(t)
    <3>1. t \in Completed => future[t] \in {"done", "raised"}
      BY DEF Completed
    <3> QED
      BY <1>1, <1>4, <1>5, <1>6, <2>2, <3>1 DEF Harvest, Reported
  <2>3. ASSUME NEW ts \in SUBSET Pending, FinishBatch(ts)
        PROVE  Collected(t)
    <3>1. t \in Pending => future[t] \in {"done", "raised", "cancelled"}
      BY <2>3 DEF FinishBatch, Drained, Pending
    <3> QED
      BY <1>1, <1>4, <1>5, <1>6, <2>3, <3>1 DEF FinishBatch, Reported
  <2>4. CASE CancelSecondPhase \/ StartSecondPhase
    BY <1>1, <1>4, <1>5, <2>4 DEF CancelSecondPhase, StartSecondPhase, Reported
  <2> QED
    BY <2>1, <2>2, <2>3, <2>4
       DEF Main, RefusePlan, RejectDuplicates, StartRun, PollStop, HarvestResults,
           HarvestInterrupted, InterruptWait, CancelFuture, FinishCollected,
           FinishInterrupted, ReturnRun, RequestStop, Exited, vars
<1>8. \A t \in Targets, s \in Steps : Earned(t, s, records[t][s])'
  BY <1>1, <1>2 DEF Reported, Earned
<1> QED
  BY <1>1, <1>2, <1>3, <1>7, <1>8 DEF Reported

LEMMA MainKeepsCovered ==
  ASSUME WorkInv, ReportInv, Main \/ RequestStop \/ Exited \/ UNCHANGED vars
  PROVE  Covered'
<1> USE DEF planVars, mainVars, workerVars, stateVars
<1>1. TypeOK /\ Pool /\ Phases /\ Covered
  BY DEF WorkInv, PoolInv, ReportInv
<1>2. \A t \in Targets : results[t] # NoSite => results'[t] # NoSite
  BY <1>1, ResultsKept DEF Next
<1>3. CASE StartRun
  BY <1>1, <1>3 DEF StartRun, SubmitBatch, Covered
<1>4. ASSUME NEW ts \in SUBSET Pending, FinishBatch(ts)
      PROVE  Covered'
  <2>1. \A t \in batch : results'[t] # NoSite
    <3> SUFFICES ASSUME NEW t \in batch, results[t] = NoSite
                 PROVE  results'[t] # NoSite
      BY <1>1, <1>2 DEF TypeOK
    <3>1. t \in Targets /\ t \in Pending /\ future[t] \in {"done", "raised", "cancelled"}
      BY <1>1, <1>4 DEF FinishBatch, Drained, Pending, TypeOK
    <3>2. future[t] # "cancelled" => Harvested(t) # NoSite
      BY <1>1, <3>1, SnapshotTypes DEF Harvested, Pool
    <3> QED
      BY <1>1, <1>4, <3>1, <3>2, SnapshotTypes DEF FinishBatch
  <2>2. /\ UNCHANGED <<phase, batch>> /\ mpc = "draining"
        /\ mpc' = IF phase = "subscription" THEN "between" ELSE "closing"
    BY <1>4 DEF FinishBatch
  <2>3. mpc' = "closing" => phase \in {"targets", "resource-group"}
    BY <1>1, <2>2 DEF TypeOK, Phases, Ended
  <2> QED
    BY <1>1, <1>2, <2>1, <2>2, <2>3 DEF Covered
<1>5. CASE CancelSecondPhase
  <2>1. mpc' = "closing" /\ UNCHANGED <<phase, batch>> /\ phase = "subscription"
    BY <1>1, <1>5 DEF CancelSecondPhase, Phases
  <2>2. \A t \in Targets : results'[t] # NoSite
    BY <1>1, <1>2, <1>5, SnapshotTypes
       DEF CancelSecondPhase, Phases, ResourceGroupTargets
  <2> QED
    BY <2>1, <2>2 DEF Covered
<1>6. CASE StartSecondPhase
  <2>1. mpc' = "polling" /\ phase' = "resource-group"
        /\ \A t \in ResourceGroupTargets : t \in batch' \/ results'[t] # NoSite
    BY <1>1, <1>6, SnapshotTypes
       DEF StartSecondPhase, SubmitBatch, ResourceGroupTargets
  <2>2. \A t \in SubscriptionTargets : results'[t] # NoSite
    BY <1>1, <1>2, <1>6 DEF StartSecondPhase, Phases, SubscriptionTargets
  <2> QED
    BY <2>1, <2>2 DEF Covered, ResourceGroupTargets
<1>7. CASE ReturnRun
  BY <1>1, <1>7 DEF ReturnRun, Covered
<1>8. ASSUME NEW ts, Harvest(ts)
      PROVE  Covered'
  BY <1>1, <1>2, <1>8 DEF Harvest, Covered
<1>9. CASE RefusePlan \/ RejectDuplicates \/ PollStop \/ InterruptWait \/ RequestStop
           \/ Exited \/ UNCHANGED vars \/ \E t \in Targets : CancelFuture(t)
  BY <1>1, <1>9 DEF RefusePlan, RejectDuplicates, PollStop, InterruptWait, RequestStop,
     Exited, vars, CancelFuture, Covered
<1> QED
  BY <1>3, <1>4, <1>5, <1>6, <1>7, <1>8, <1>9
     DEF Main, HarvestResults, HarvestInterrupted, FinishCollected, FinishInterrupted

LEMMA MainSeesStop ==
  ASSUME WorkInv, ReportInv, Main \/ RequestStop \/ Exited \/ UNCHANGED vars
  PROVE  StopIsSeen'
<1> USE DEF planVars, mainVars, workerVars, stateVars
<1>1. TypeOK /\ StopIsSeen
  BY DEF WorkInv, PoolInv, ReportInv
<1> QED
  BY <1>1 DEF TypeOK, StopIsSeen, Ended, Main, RefusePlan, RejectDuplicates, StartRun,
     SubmitBatch, PollStop, HarvestResults, HarvestInterrupted, Harvest, InterruptWait,
     CancelFuture, FinishCollected, FinishInterrupted, FinishBatch, CancelSecondPhase,
     StartSecondPhase, ReturnRun, RequestStop, Exited, vars

(* The inductive invariant of the report holds in every reachable state:   *)
(* what the Sites, the contacts with the provider and the stop say of one  *)
(* another.                                                                *)
THEOREM ReportCorrect == Spec => []ReportInv
<1>1. WorkInv /\ ReportInv /\ [Next]_vars => ReportInv'
  BY WorkerKeepsReport, MainKeepsReported, MainKeepsCovered, MainSeesStop
     DEF Next, ReportInv
<1> QED
  BY <1>1, ReportInit, WorkCorrect, PTL DEF Spec

(* A Site without an operation that went wrong succeeded at all of them.   *)
LEMMA GoodSite ==
  ASSUME NEW t \in Targets, NEW site \in SiteType, Whole(t, site),
         site.status \in {"succeeded", "skipped"},
         NEW s \in Steps, plan.disp[t][s] = "execute"
  PROVE  s \in contacted[t] /\ site.ops[s] = Succeeded
<1>1. site.ops[s] \in OperationResult /\ Earned(t, s, site.ops[s])
  BY DEF Whole
<1>2. site.ops[s].status \in StatusesOf(site.ops)
  BY DEF SiteType, StatusesOf
<1>3. StatusesOf(site.ops) \cap {"failed", "unknown", "cancelled", "not-run"} = {}
  BY DEF Whole, AggregateSite
<1>4. site.ops[s].status \in {"succeeded", "skipped"}
  BY <1>1, <1>2, <1>3 DEF OperationResult, OperationStatus
<1> QED
  BY <1>1, <1>4 DEF Earned

(* The exit code is honest: when the run returns every operation has an    *)
(* outcome, 0 means that every executable operation succeeded at the       *)
(* provider, and 130 that a stop was requested, by whoever saw it.         *)
THEOREM ExitCodeIsHonest == Spec => []ExitCodeHonest
<1>1. ASSUME WorkInv, ReportInv, mpc = "returned"
      PROVE  /\ \A t \in Targets, s \in Steps : results[t].ops[s] # NoResult
             /\ RunExit = 0 =>
                  \A t \in Targets, s \in Steps : plan.disp[t][s] = "execute" =>
                    s \in contacted[t] /\ results[t].ops[s] = Succeeded
             /\ RunExit = 130 <=> stop
  <2>1. /\ \A t \in Targets : results[t] \in SiteType /\ Whole(t, results[t])
        /\ interrupted = stop /\ interrupted \in BOOLEAN
    BY <1>1 DEF WorkInv, PoolInv, TypeOK, ReportInv, Reported, Covered, StopIsSeen
  <2> DEFINE statuses == {results[t].status : t \in Targets}
             status == RunStatus(statuses, interrupted)
  <2>2. RunExit = ExitCode(status, interrupted)
    BY DEF RunExit
  <2>3. RunExit = 130 <=> stop
    BY <2>1, <2>2 DEF ExitCode
  <2>4. ASSUME NEW t \in Targets, RunExit = 0
        PROVE  results[t].status \in {"succeeded", "skipped"}
    <3>1. status \in {"succeeded", "skipped"}
      BY <2>2, <2>4 DEF ExitCode
    <3>2. statuses \cap {"failed", "unknown", "cancelled", "not-run"} = {}
      BY <3>1 DEF RunStatus
    <3>3. results[t].status \in statuses
      OBVIOUS
    <3>4. results[t].status # "none"
      BY <2>1 DEF Whole, AggregateSite
    <3> HIDE DEF statuses
    <3> QED
      BY <2>1, <3>2, <3>3, <3>4 DEF SiteType, SiteStatusOrNone, OperationStatus
  <2>5. \A t \in Targets, s \in Steps : results[t].ops[s] # NoResult
    BY <2>1 DEF Whole, OperationResult, OperationStatus, NoResult
  <2> HIDE DEF status
  <2> QED
    BY <2>1, <2>3, <2>4, <2>5, GoodSite
<1>2. WorkInv /\ ReportInv => ExitCodeHonest
  BY <1>1 DEF ExitCodeHonest
<1> QED
  BY <1>2, ReportCorrect, WorkCorrect, PTL

-------------------------------------------------------------------------------
(* After a stop.                                                           *)

(* Stopped short of operation s: a stop is requested, and target t neither *)
(* contacted the provider for s nor is in a call.                          *)
StoppedShort(t, s) == stop /\ wpc[t] # "calling" /\ s \notin contacted[t]

(* Only a worker enters a call, which it does after a look at the stop.    *)
LEMMA StaysShort ==
  ASSUME TypeOK, [Next]_vars, NEW t \in Targets, NEW s \in Steps, StoppedShort(t, s)
  PROVE  StoppedShort(t, s)'
<1> USE DEF StoppedShort, planVars, mainVars, workerVars, stateVars
<1>1. CASE UNCHANGED vars \/ RequestStop \/ Exited
  BY <1>1 DEF vars, RequestStop, Exited
<1>2. CASE Main
  BY <1>2 DEF Main, RefusePlan, RejectDuplicates, StartRun, PollStop, InterruptWait,
     HarvestResults, HarvestInterrupted, Harvest, FinishCollected, FinishInterrupted,
     FinishBatch, CancelFuture, CancelSecondPhase, StartSecondPhase, ReturnRun
<1>3. ASSUME NEW u \in Targets, Worker(u), u # t
      PROVE  StoppedShort(t, s)'
  <2>1. stop' = stop
    BY <1>3 DEF Worker, CallReturns, TakeFuture, StopBeforeOperation, RecordNonExecutable,
       AnnounceOperation, BeginOperation, ContactProvider, ReturnSuccess, ReturnFailure,
       ReturnUnknown, ReturnStoppedBeforeStart, EndTarget, RaiseError, FinishTarget
  <2> QED
    BY <1>3, <2>1, OtherTargets
<1>4. CASE Worker(t)
  <2>1. CASE TakeFuture(t) \/ StopBeforeOperation(t) \/ RecordNonExecutable(t)
    BY <2>1 DEF TakeFuture, StopBeforeOperation, RecordNonExecutable, TypeOK
  <2>2. CASE AnnounceOperation(t) \/ BeginOperation(t) \/ ContactProvider(t)
    BY <2>2 DEF AnnounceOperation, BeginOperation, ContactProvider, TypeOK
  <2>3. CASE CallReturns(t) \/ FinishTarget(t)
    BY <2>3 DEF CallReturns, ReturnSuccess, ReturnFailure, ReturnUnknown,
       ReturnStoppedBeforeStart, EndTarget, RaiseError, FinishTarget, TypeOK
  <2> QED
    BY <1>4, <2>1, <2>2, <2>3 DEF Worker
<1> QED
  BY <1>1, <1>2, <1>3, <1>4 DEF Next

\* Once a stop is requested, a target that is not in a call contacts the provider for no
\* further operation, ever: a worker looks at the stop between its announcement and its call.
THEOREM StopIsFinal == Spec => AfterStopNothingNew
<1>1. ASSUME NEW t \in Targets, NEW s \in Steps
      PROVE  Spec => [](StoppedShort(t, s) => [](s \notin contacted[t]))
  <2>1. TypeOK /\ [Next]_vars /\ StoppedShort(t, s) => StoppedShort(t, s)'
    BY StaysShort
  <2>2. StoppedShort(t, s) => s \notin contacted[t]
    BY DEF StoppedShort
  <2>3. WorkInv => TypeOK
    BY DEF WorkInv, PoolInv
  <2> QED
    BY <2>1, <2>2, <2>3, WorkCorrect, PTL DEF Spec
<1> QED
  BY <1>1 DEF AfterStopNothingNew, StoppedShort
===============================================================================
