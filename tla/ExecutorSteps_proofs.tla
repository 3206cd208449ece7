-------------------------- MODULE ExecutorSteps_proofs --------------------------
(***************************************************************************)
(* Proofs about the three calls of the executor: that what each reports    *)
(* really happened (ReportsAreTrue, VerdictWasSeen), that an Arc proxy     *)
(* only runs on a slot its own Site holds (ProxyWithinSlot), and that each *)
(* call is a ProviderCall, which is all FleetRun relies on (CallSpec).     *)
(* They hold for every number of attempts, slots, Sites and errors, and    *)
(* for every grace and deadline.                                           *)
(***************************************************************************)
EXTENDS ExecutorSteps, FiniteSetTheorems, TLAPS

-------------------------------------------------------------------------------
(* All calls see the one request to stop, and it is not taken back.        *)
LEMMA StopIsForGood ==
  ASSUME [StepNext]_stepVars
  PROVE  UNCHANGED stop \/ (~stop /\ stop' = TRUE)
<1>1. CASE D!Next
  BY <1>1
  DEF D!Next, D!Engine, D!Start, D!Submit, D!Poll, D!Azure, D!RequestStop, D!Quiet,
      D!vars, D!StopAtStart, D!FailToStart, D!StageParameters, D!StopBeforeAttempt,
      D!LaunchSubmit, D!SubmitReturns, D!StopPolling, D!LaunchShow, D!ShowReturns,
      D!ShowRaises, D!ExplainFailure, D!SendPut, D!TakePut, D!RefusePut, D!StrayArrives,
      D!ArmFinishes
<1>2. CASE Next
  BY <1>2
  DEF Next, Site, Attempts, RequestStop, Idle, vars, StopAtStart, FailToStart, Enter,
      StopBeforeAttempt, StartProxy, NoSlotIsFree, ProbeReady, ProbeGivesUp, ProxyExits,
      RetryOnNextSlot, StopInBody, FailWithoutSession, Apply, ApplyReturns, EndProxy,
      ReleaseSlot, Return
<1>3. CASE W!Next
  BY <1>3
  DEF W!Next, W!Engine, W!RequestStop, W!TagChanges, W!StopAtStart, W!StartWaiting,
      W!StopObserving, W!LaunchShow, W!ShowReturns
<1>4. QED
  BY <1>1, <1>2, <1>3 DEF StepNext, Deploying, Applying, Waiting, stepVars

-------------------------------------------------------------------------------
(* The deployment.                                                         *)

DTyped ==
  /\ deployPc \in {"start", "attempt", "submitting", "polling", "showing",
                   "explaining", "returned"}
  /\ submission \in 1..SubmitAttempts
  /\ strays \in Nat
  /\ arm \in armHistory
  /\ armHistory \in SUBSET D!ArmStates
  /\ deployed \in [status : D!Statuses, why : D!Reasons]

(* No tool was started: there is nothing of this deployment at ARM, and    *)
(* nothing on its way.                                                     *)
DUntouched == deployPc = "start" \/ (deployPc = "attempt" /\ submission = 1)

DInv ==
  /\ DTyped
  /\ deployPc # "returned" => deployed = D!NotReturned
  /\ deployPc = "returned" => deployed.status # "none"
  /\ DUntouched \/ deployed.status = "cancelled" => arm = "absent" /\ put = "none" /\ strays = 0
  /\ deployed.status = "succeeded" => "succeeded" \in armHistory

(* The deployment starts with nothing at ARM.                              *)
LEMMA DInvInit == StepInit => DInv
BY StepsAssumption, SMT
DEF StepInit, StepsAssumption, D!DeploymentAssumption, D!Init, DInv, DTyped, DUntouched,
    D!NotReturned, D!Statuses, D!Reasons, D!ArmStates

(* What ARM does needs a PUT, which no untouched deployment sent.          *)
LEMMA DInvAzure ==
  ASSUME DInv, D!Azure
  PROVE  DInv'
<1>1. CASE D!SendPut
  BY <1>1, SMT DEF DInv, DTyped, DUntouched, D!SendPut, D!engine, D!NotReturned
<1>2. CASE D!TakePut
  BY <1>2, SMT DEF DInv, DTyped, DUntouched, D!TakePut, D!engine, D!Enter,
         D!ArmStates
<1>3. CASE D!RefusePut
  BY <1>3, SMT DEF DInv, DTyped, DUntouched, D!RefusePut, D!engine
<1>4. CASE D!StrayArrives
  <2>1. /\ strays \in Nat \ {0} /\ strays' = strays - 1
        /\ UNCHANGED <<stop, deployPc, submission, deployed, put>>
        /\ \/ UNCHANGED <<arm, armHistory>>
           \/ arm' = "running" /\ armHistory' = armHistory \cup {"running"}
    BY <1>4, SMT DEF DInv, DTyped, D!StrayArrives, D!engine, D!Enter
  <2>2. ~DUntouched /\ deployed.status # "cancelled"
    BY <2>1, SMT DEF DInv
  <2>3. strays' \in Nat
    BY <2>1, SMT
  <2>4. arm' \in armHistory' /\ armHistory' \in SUBSET D!ArmStates
    <3>1. CASE UNCHANGED <<arm, armHistory>>
      BY <3>1 DEF DInv, DTyped
    <3>2. CASE arm' = "running" /\ armHistory' = armHistory \cup {"running"}
      BY <3>2 DEF DInv, DTyped, D!ArmStates
    <3>3. QED
      BY <2>1, <3>1, <3>2
  <2>5. DTyped'
    BY <2>1, <2>3, <2>4 DEF DInv, DTyped
  <2>6. QED
    BY <2>1, <2>2, <2>5, SMT DEF DInv, DUntouched, D!NotReturned
<1>5. CASE D!ArmFinishes
  BY <1>5, SMT DEF DInv, DTyped, DUntouched, D!ArmFinishes, D!engine, D!Enter,
         D!ArmStates
<1>6. QED
  BY <1>1, <1>2, <1>3, <1>4, <1>5 DEF D!Azure

(* A call returns cancelled only while it is untouched, and succeeded only *)
(* when ARM showed the success.                                            *)
LEMMA DInvEngine ==
  ASSUME DInv, D!Engine
  PROVE  DInv'
<1> USE DEF DInv, DTyped, DUntouched, D!Return, D!Result, D!azure, D!NotReturned,
            D!Statuses, D!Reasons
<1>1. CASE D!StopAtStart
  BY <1>1, SMT DEF D!StopAtStart
<1>2. CASE D!FailToStart
  BY <1>2, SMT DEF D!FailToStart
<1>3. CASE D!StageParameters
  BY <1>3, SMT DEF D!StageParameters
<1>4. CASE D!StopBeforeAttempt
  BY <1>4, SMT DEF D!StopBeforeAttempt
<1>5. CASE D!LaunchSubmit
  BY <1>5, SMT DEF D!LaunchSubmit
<1>6. CASE D!SubmitReturns
  <2>1. PICK a \in D!SubmitAnswers : answer' = a /\ D!HandleSubmit(a)
    BY <1>6 DEF D!SubmitReturns
  <2>2. /\ deployPc = "submitting"
        /\ UNCHANGED <<put, strays, arm, armHistory>>
    BY <1>6 DEF D!SubmitReturns
  <2>3. CASE D!GoPoll
    BY <2>2, <2>3, SMT DEF D!GoPoll
  <2>4. CASE D!RetryOrPoll
    BY <2>2, <2>4, StepsAssumption, SMT
    DEF D!RetryOrPoll, D!GoPoll, StepsAssumption, D!DeploymentAssumption
  <2>5. CASE /\ UNCHANGED submission
             /\ \/ D!Return("failed", "none")
                \/ D!Return("unknown", "stopped-observing")
                \/ D!Return("unknown", "submit-unclassified")
    BY <2>2, <2>5, SMT
  <2>6. a \in {"accepted", "timeout", "transient", "unknown"} \cup D!Definite
    BY SMT DEF D!SubmitAnswers, D!Definite
  <2>7. QED
    <3>1. CASE a = "accepted"
      BY <2>1, <2>3, <3>1 DEF D!HandleSubmit, D!Definite
    <3>2. CASE a \in D!Definite
      BY <2>1, <2>5, <3>2 DEF D!HandleSubmit, D!Definite
    <3>3. CASE a \in {"timeout", "transient", "unknown"} /\ stop
      BY <2>1, <2>5, <3>3 DEF D!HandleSubmit, D!Definite
    <3>4. CASE a = "timeout" /\ ~stop
      BY <2>1, <2>3, <3>4 DEF D!HandleSubmit, D!Definite
    <3>5. CASE a = "transient" /\ ~stop
      BY <2>1, <2>4, <3>5 DEF D!HandleSubmit, D!Definite
    <3>6. CASE a = "unknown" /\ ~stop
      BY <2>1, <2>5, <3>6 DEF D!HandleSubmit, D!Definite
    <3>7. QED
      BY <2>6, <3>1, <3>2, <3>3, <3>4, <3>5, <3>6
<1>7. CASE D!StopPolling
  BY <1>7, SMT DEF D!StopPolling
<1>8. CASE D!LaunchShow
  BY <1>8, SMT DEF D!LaunchShow
<1>9. CASE D!ShowReturns
  <2>1. PICK a \in D!ShowAnswers, took \in 0..1 : D!HandleShow(a, deployClock + took)
    BY <1>9 DEF D!ShowReturns
  <2>2. /\ deployPc = "showing"
        /\ UNCHANGED <<put, strays, arm, armHistory, submission>>
    BY <1>9 DEF D!ShowReturns
  <2>3. a \in {arm, "not-visible", "unreadable"}
    BY SMT DEF D!ShowAnswers
  <2>4. CASE a = "succeeded"
    BY <2>1, <2>2, <2>3, <2>4, SMT DEF D!HandleShow
  <2>5. CASE /\ deployPc' \in {"polling", "explaining"}
             /\ UNCHANGED deployed
    BY <2>2, <2>5, SMT
  <2>6. CASE \E r \in D!Reasons : D!Return("unknown", r)
    BY <2>2, <2>6, SMT
  <2>7. QED
    <3>1. CASE a = "failed"
      BY <2>1, <2>5, <3>1 DEF D!HandleShow
    <3>2. CASE D!WaitOrGiveUp(deployClock + took)
      BY <2>5, <2>6, <3>2 DEF D!WaitOrGiveUp, D!Reasons
    <3>3. CASE a \in {"not-visible", "unreadable"}
      BY <2>1, <2>6, <3>2, <3>3 DEF D!HandleShow, D!Reasons
    <3>4. CASE a = "running"
      BY <2>1, <3>2, <3>4 DEF D!HandleShow
    <3>5. QED
      BY <2>1, <2>4, <3>1, <3>3, <3>4 DEF D!ShowAnswers, D!ArmStates
<1>10. CASE D!ShowRaises
  BY <1>10, SMT DEF D!ShowRaises
<1>11. CASE D!ExplainFailure
  BY <1>11, SMT DEF D!ExplainFailure
<1>12. QED
  BY <1>1, <1>2, <1>3, <1>4, <1>5, <1>6, <1>7, <1>8, <1>9, <1>10, <1>11
  DEF D!Engine, D!Start, D!Submit, D!Poll

(* The calls of the other kinds leave the deployment alone.                *)
LEMMA DInvKept ==
  ASSUME DInv, UNCHANGED deployVars
  PROVE  DInv'
BY SMT DEF DInv, DTyped, DUntouched, deployVars

(* Every step of the executor keeps the invariant of the deployment.       *)
LEMMA DInvStep ==
  ASSUME DInv, [StepNext]_stepVars
  PROVE  DInv'
<1>1. CASE Deploying(D!Next)
  <2>1. CASE D!RequestStop
    BY <2>1, SMT DEF D!RequestStop, DInv, DTyped, DUntouched, D!engine, D!azure
  <2>2. CASE D!Quiet
    BY <2>2, DInvKept DEF D!Quiet, D!vars, D!engine, D!azure, deployVars
  <2>3. QED
    BY <1>1, <2>1, <2>2, DInvEngine, DInvAzure DEF Deploying, D!Next
<1>2. CASE UNCHANGED deployVars
  BY <1>2, DInvKept
<1>3. QED
  BY <1>1, <1>2 DEF StepNext, Applying, Waiting, stepVars

-------------------------------------------------------------------------------
(* kubectl behind Arc proxies.                                             *)

KTyped ==
  /\ allocated \in SUBSET Slots
  /\ pc \in [Sites -> {"idle", "trying", "probing", "ready", "sessionless", "applying",
                       "closing", "releasing", "returned"}]
  /\ attempt \in [Sites -> 1..MaxAttempts]
  /\ held \in [Sites -> SUBSET Slots]
  /\ proxy \in [Sites -> Slots \cup {NoSlot}]
  /\ launched \in [Sites -> BOOLEAN]
  /\ verdict \in [Sites -> {"none", "succeeded", "failed", "unknown", "cancelled"}]

(* What a Site's call holds at each point of its way.                      *)
SlotsOf(w) ==
  /\ proxy[w] # NoSlot => proxy[w] \in held[w]
  /\ pc[w] \in {"idle", "trying", "releasing", "returned"} => proxy[w] = NoSlot
  /\ pc[w] = "idle" => held[w] = {} /\ attempt[w] = 1
  /\ pc[w] = "trying" => Cardinality(held[w]) = attempt[w] - 1
  /\ pc[w] = "probing" => Cardinality(held[w]) = attempt[w]

(* What it launched and what it will say.                                  *)
SaidBy(w) ==
  /\ pc[w] \in {"closing", "releasing", "returned"} <=> verdict[w] # "none"
  /\ pc[w] = "applying" => launched[w]
  /\ launched[w] <=> pc[w] = "applying" \/ verdict[w] \in {"succeeded", "unknown"}
  /\ verdict[w] = "cancelled" => stop

KInv ==
  /\ KTyped
  /\ SlotsHeldOnce
  /\ \A w \in Sites : SlotsOf(w) /\ SaidBy(w)

(* Nobody holds a slot and nothing was launched.                           *)
LEMMA KInvInit == StepInit => KInv
<1> SUFFICES ASSUME StepInit PROVE KInv
  OBVIOUS
<1>1. KTyped
  BY KubectlAssumption, SMT DEF StepInit, Init, KTyped, KubectlAssumption, Slots, NoSlot
<1>2. SlotsHeldOnce
  BY SMT DEF StepInit, Init, SlotsHeldOnce
<1>3. \A w \in Sites : SlotsOf(w) /\ SaidBy(w)
  BY FS_EmptySet, SMT DEF StepInit, Init, SlotsOf, SaidBy
<1>4. QED
  BY <1>1, <1>2, <1>3 DEF KInv

(* SlotsHeldOnce, slot by slot.                                            *)
LEMMA SlotBySlot ==
  SlotsHeldOnce <=>
    /\ \A slot : slot \in allocated <=> \E w \in Sites : slot \in held[w]
    /\ \A v, w \in Sites : v # w => \A slot : ~(slot \in held[v] /\ slot \in held[w])
BY SMT DEF SlotsHeldOnce

(* A step of the allocator's own takes a free slot for the Site, and the   *)
(* Site holds one slot more.                                               *)
LEMMA TakesFreeSlot ==
  ASSUME KInv, NEW w \in Sites, NEW slot \in Free,
         allocated' = allocated \cup {slot},
         held' = [held EXCEPT ![w] = @ \cup {slot}]
  PROVE  /\ SlotsHeldOnce'
         /\ held' \in [Sites -> SUBSET Slots]
         /\ allocated' \in SUBSET Slots
         /\ \A v \in Sites : v # w => held'[v] = held[v]
         /\ held[w] \subseteq held'[w]
         /\ slot \in held'[w]
         /\ Cardinality(held'[w]) = Cardinality(held[w]) + 1
<1>1. slot \in Slots /\ slot \notin allocated
  BY DEF Free
<1>2. /\ held'[w] = held[w] \cup {slot}
      /\ \A v \in Sites : v # w => held'[v] = held[v]
      /\ held' \in [Sites -> SUBSET Slots]
      /\ allocated' \in SUBSET Slots
  BY <1>1, SMT DEF KInv, KTyped
<1>3. \A v \in Sites : slot \notin held[v]
  BY <1>1, SlotBySlot DEF KInv
<1>4. SlotsHeldOnce'
  <2>1. \A s : s \in allocated' <=> \E v \in Sites : s \in held'[v]
    BY <1>2, SlotBySlot, SMT DEF KInv
  <2>2. ASSUME NEW u \in Sites, NEW v \in Sites, u # v
        PROVE  held'[u] \cap held'[v] = {}
    BY <1>2, <1>3, <2>2, SMT DEF KInv, SlotsHeldOnce
  <2>3. allocated' = UNION {held'[v] : v \in Sites}
    BY <2>1, SMT
  <2>4. QED
    BY <2>2, <2>3 DEF SlotsHeldOnce
<1>5. IsFiniteSet(held[w])
  <2>1. IsFiniteSet(Slots)
    BY KubectlAssumption, FS_Interval, SMT DEF Slots, KubectlAssumption
  <2>2. held[w] \subseteq Slots
    BY DEF KInv, KTyped
  <2>3. QED
    BY <2>1, <2>2, FS_Subset
<1>6. Cardinality(held'[w]) = Cardinality(held[w]) + 1
  BY <1>2, <1>3, <1>5, FS_AddElement
<1>7. QED
  BY <1>2, <1>4, <1>6

(* What only moves a Site along, with what it holds as it was.             *)
LEMMA MovesOnly ==
  ASSUME KInv, NEW w \in Sites, NEW to, Move(w, to), UNCHANGED <<allocated, held, proxy>>,
         to \in {"trying", "probing", "ready", "sessionless", "applying", "closing",
                 "releasing", "returned"},
         to = "trying" => pc[w] = "idle" /\ UNCHANGED attempt,
         to = "probing" => FALSE,
         to \in {"releasing", "returned"} => proxy[w] = NoSlot,
         \A v \in Sites : v # w => attempt'[v] = attempt[v],
         attempt' \in [Sites -> 1..MaxAttempts]
  PROVE  /\ SlotsHeldOnce'
         /\ \A v \in Sites : SlotsOf(v)'
<1>1. SlotsHeldOnce'
  BY DEF KInv, SlotsHeldOnce
<1>2. pc'[w] = to /\ \A v \in Sites : v # w => pc'[v] = pc[v]
  BY SMT DEF KInv, KTyped, Move
<1>3. ASSUME NEW v \in Sites, v # w
      PROVE  SlotsOf(v)'
  BY <1>2, <1>3, SMT DEF KInv, SlotsOf
<1>4. SlotsOf(w)'
  <2>1. UNCHANGED <<held, proxy>> /\ SlotsOf(w)
    BY DEF KInv
  <2>2. to = "trying" => Cardinality(held'[w]) = 0 /\ attempt'[w] = 1
    BY <2>1, FS_EmptySet DEF SlotsOf
  <2>3. to = "trying" => Cardinality(held'[w]) = attempt'[w] - 1
    BY <2>2, SMT
  <2>4. to = "trying" => proxy'[w] = NoSlot
    BY <2>1 DEF SlotsOf
  <2>5. QED
    BY <1>2, <2>1, <2>3, <2>4 DEF SlotsOf
<1>5. QED
  BY <1>1, <1>3, <1>4

(* A Site's own way to a verdict concerns no other Site.                   *)
LEMMA SaysItself ==
  ASSUME KInv, NEW w \in Sites, NEW to, Move(w, to), stop => stop',
         \A v \in Sites : v # w => verdict'[v] = verdict[v] /\ launched'[v] = launched[v],
         to \in {"closing", "releasing", "returned"} <=> verdict'[w] # "none",
         to = "applying" => launched'[w],
         launched'[w] <=> to = "applying" \/ verdict'[w] \in {"succeeded", "unknown"},
         verdict'[w] = "cancelled" => stop'
  PROVE  \A v \in Sites : SaidBy(v)'
<1>1. pc'[w] = to /\ \A v \in Sites : v # w => pc'[v] = pc[v]
  BY SMT DEF KInv, KTyped, Move
<1>2. QED
  BY <1>1, SMT DEF KInv, SaidBy

(* Every step of a Site keeps the invariant of the proxies.                *)
LEMMA KInvSite ==
  ASSUME KInv, NEW w \in Sites, Site(w)
  PROVE  KInv'
<1> USE DEF KInv
<1>0. SlotsOf(w) /\ SaidBy(w)
  OBVIOUS
<1>1. CASE StopAtStart(w) \/ FailToStart(w) \/ Enter(w)
  <2>1. KTyped'
    BY <1>1, SMT DEF KTyped, StopAtStart, FailToStart, Enter, Move
  <2>2. SlotsHeldOnce' /\ \A v \in Sites : SlotsOf(v)'
    BY <1>1, <1>0, <2>1, MovesOnly DEF KTyped, StopAtStart, FailToStart, Enter, SlotsOf
  <2>3. \A v \in Sites : SaidBy(v)'
    <3>1. CASE StopAtStart(w)
      BY <1>0, <3>1, SaysItself, SMT DEF KTyped, StopAtStart, SaidBy
    <3>2. CASE FailToStart(w)
      BY <1>0, <3>2, SaysItself, SMT DEF KTyped, FailToStart, SaidBy
    <3>3. CASE Enter(w)
      BY <1>0, <3>3, SaysItself, SMT DEF KTyped, Enter, SaidBy
    <3>4. QED
      BY <1>1, <3>1, <3>2, <3>3
  <2>4. QED
    BY <2>1, <2>2, <2>3
<1>2. CASE StopBeforeAttempt(w) \/ NoSlotIsFree(w) \/ ProbeGivesUp(w) \/ ProbeReady(w)
  <2>1. KTyped'
    BY <1>2, SMT DEF KTyped, StopBeforeAttempt, NoSlotIsFree, ProbeGivesUp, ProbeReady, GiveUp, Move
  <2>2. PICK to \in {"sessionless", "ready"} : Move(w, to)
    BY <1>2 DEF StopBeforeAttempt, NoSlotIsFree, ProbeGivesUp, ProbeReady, GiveUp
  <2>3. /\ UNCHANGED <<stop, allocated, held, proxy, attempt, launched, verdict>>
        /\ pc[w] \in {"trying", "probing"}
    BY <1>2 DEF StopBeforeAttempt, NoSlotIsFree, ProbeGivesUp, ProbeReady, GiveUp
  <2>4. SlotsHeldOnce' /\ \A v \in Sites : SlotsOf(v)'
    BY <1>0, <2>2, <2>3, MovesOnly, SMT DEF KTyped
  <2>5. \A v \in Sites : SaidBy(v)'
    BY <1>0, <2>2, <2>3, SaysItself, SMT DEF KTyped, SaidBy
  <2>6. QED
    BY <2>1, <2>4, <2>5
<1>3. CASE StartProxy(w)
  <2>1. PICK slot \in Free :
          /\ allocated' = allocated \cup {slot}
          /\ held' = [held EXCEPT ![w] = @ \cup {slot}]
          /\ \/ proxy' = [proxy EXCEPT ![w] = slot] /\ Move(w, "probing")
             \/ Move(w, "sessionless") /\ UNCHANGED proxy
    BY <1>3 DEF StartProxy
  <2>2. pc[w] = "trying" /\ UNCHANGED <<stop, attempt, launched, verdict>>
    BY <1>3 DEF StartProxy
  <2>3. /\ SlotsHeldOnce'
        /\ held' \in [Sites -> SUBSET Slots]
        /\ allocated' \in SUBSET Slots
        /\ \A v \in Sites : v # w => held'[v] = held[v]
        /\ held[w] \subseteq held'[w]
        /\ slot \in held'[w]
        /\ Cardinality(held'[w]) = Cardinality(held[w]) + 1
    BY <2>1, TakesFreeSlot
  <2>4. slot \in Slots
    BY DEF Free
  <2>5. KTyped'
    BY <2>1, <2>2, <2>3, <2>4, SMT DEF KTyped, Move
  <2>6. ASSUME NEW v \in Sites, v # w
        PROVE  SlotsOf(v)'
    BY <2>1, <2>2, <2>3, <2>6, SMT DEF KTyped, SlotsOf, Move
  <2>7. SlotsOf(w)'
    <3>1. Cardinality(held[w]) = attempt[w] - 1 /\ proxy[w] = NoSlot
      BY <1>0, <2>2 DEF SlotsOf
    <3>2. attempt[w] \in Nat /\ attempt'[w] = attempt[w]
      BY <2>2, KubectlAssumption, SMT DEF KTyped, KubectlAssumption
    <3>3. Cardinality(held'[w]) = attempt'[w]
      BY <2>3, <3>1, <3>2, SMT
    <3>4. CASE proxy' = [proxy EXCEPT ![w] = slot] /\ Move(w, "probing")
      BY <2>3, <3>3, <3>4, SMT DEF KTyped, SlotsOf, Move
    <3>5. CASE Move(w, "sessionless") /\ UNCHANGED proxy
      BY <3>1, <3>5, SMT DEF KTyped, SlotsOf, Move
    <3>6. QED
      BY <2>1, <3>4, <3>5
  <2>8. \A v \in Sites : SaidBy(v)'
    BY <1>0, <2>1, <2>2, SaysItself, SMT DEF KTyped, SaidBy
  <2>9. QED
    BY <2>3, <2>5, <2>6, <2>7, <2>8
<1>4. CASE ProxyExits(w) \/ RetryOnNextSlot(w)
  <2>1. /\ pc[w] = "probing"
        /\ proxy' = [proxy EXCEPT ![w] = NoSlot]
        /\ UNCHANGED <<stop, allocated, held, launched, verdict>>
        /\ \/ Move(w, "sessionless") /\ UNCHANGED attempt
           \/ /\ Move(w, "trying")
              /\ attempt[w] < MaxAttempts
              /\ attempt' = [attempt EXCEPT ![w] = @ + 1]
    BY <1>4 DEF ProxyExits, RetryOnNextSlot, GiveUp
  <2>2. KTyped'
    BY <2>1, KubectlAssumption, SMT DEF KTyped, KubectlAssumption, Move
  <2>3. SlotsHeldOnce'
    BY <2>1 DEF SlotsHeldOnce
  <2>4. ASSUME NEW v \in Sites, v # w
        PROVE  SlotsOf(v)'
    BY <2>1, <2>4, SMT DEF KTyped, SlotsOf, Move
  <2>5. SlotsOf(w)'
    <3>1. Cardinality(held[w]) = attempt[w] /\ attempt[w] \in 1..MaxAttempts
      BY <1>0, <2>1 DEF SlotsOf, KTyped
    <3>2. MaxAttempts \in Nat
      BY KubectlAssumption DEF KubectlAssumption
    <3>3. QED
      BY <2>1, <3>1, <3>2, SMT DEF KTyped, SlotsOf, Move
  <2>6. \A v \in Sites : SaidBy(v)'
    BY <1>0, <2>1, SaysItself, SMT DEF KTyped, SaidBy
  <2>7. QED
    BY <2>2, <2>3, <2>4, <2>5, <2>6
<1>5. CASE StopInBody(w) \/ FailWithoutSession(w) \/ ApplyReturns(w) \/ Apply(w)
  <2>1. KTyped'
    <3>1. verdict' \in [Sites -> {"none", "succeeded", "failed", "unknown", "cancelled"}]
      BY <1>5, SMT DEF KTyped, StopInBody, FailWithoutSession, ApplyReturns, Apply
    <3>2. launched' \in [Sites -> BOOLEAN]
      <4>1. launched' = launched \/ launched' = [launched EXCEPT ![w] = TRUE]
        BY <1>5 DEF StopInBody, FailWithoutSession, ApplyReturns, Apply
      <4>2. launched \in [Sites -> BOOLEAN]
        BY DEF KTyped
      <4>3. QED
        BY <4>1, <4>2
    <3>3. QED
      BY <1>5, <3>1, <3>2, SMT
      DEF KTyped, StopInBody, FailWithoutSession, ApplyReturns, Apply, Move
  <2>2. /\ UNCHANGED <<stop, allocated, held, proxy, attempt>>
        /\ Move(w, "closing") \/ Move(w, "applying")
    BY <1>5 DEF StopInBody, FailWithoutSession, ApplyReturns, Apply
  <2>3. SlotsHeldOnce' /\ \A v \in Sites : SlotsOf(v)'
    BY <2>2, MovesOnly, SMT DEF KTyped
  <2>4. \A v \in Sites : SaidBy(v)'
    <3>1. CASE StopInBody(w)
      BY <1>0, <3>1, SaysItself, SMT DEF KTyped, StopInBody, SaidBy
    <3>2. CASE FailWithoutSession(w)
      BY <1>0, <3>2, SaysItself, SMT DEF KTyped, FailWithoutSession, SaidBy
    <3>3. CASE ApplyReturns(w)
      <4>1. PICK said \in {"succeeded", "unknown"} : verdict' = [verdict EXCEPT ![w] = said]
        BY <3>3 DEF ApplyReturns
      <4>2. /\ pc[w] = "applying" /\ launched[w]
            /\ Move(w, "closing") /\ UNCHANGED <<stop, launched>>
        BY <1>0, <3>3 DEF ApplyReturns, SaidBy
      <4>3. verdict'[w] = said /\ \A v \in Sites : v # w => verdict'[v] = verdict[v]
        BY <4>1, SMT DEF KTyped
      <4>4. QED
        BY <4>2, <4>3, SaysItself
    <3>4. CASE Apply(w)
      <4>1. launched'[w] /\ \A v \in Sites : v # w => launched'[v] = launched[v]
        BY <3>4, SMT DEF KTyped, Apply
      <4>2. verdict[w] = "none" /\ Move(w, "applying") /\ UNCHANGED <<stop, verdict>>
        BY <1>0, <3>4 DEF Apply, SaidBy, KTyped
      <4>3. QED
        BY <4>1, <4>2, SaysItself
    <3>5. QED
      BY <1>5, <3>1, <3>2, <3>3, <3>4
  <2>5. QED
    BY <2>1, <2>3, <2>4
<1>6. CASE EndProxy(w)
  <2>1. KTyped'
    BY <1>6, SMT DEF KTyped, EndProxy, Move
  <2>2. SlotsHeldOnce'
    BY <1>6 DEF EndProxy, SlotsHeldOnce
  <2>3. \A v \in Sites : SlotsOf(v)'
    BY <1>6, SMT DEF KTyped, EndProxy, SlotsOf, Move
  <2>4. \A v \in Sites : SaidBy(v)'
    BY <1>0, <1>6, SaysItself, SMT DEF KTyped, EndProxy, SaidBy
  <2>5. QED
    BY <2>1, <2>2, <2>3, <2>4
<1>7. CASE ReleaseSlot(w)
  <2>1. PICK slot \in held[w] :
          /\ allocated' = allocated \ {slot}
          /\ held' = [held EXCEPT ![w] = @ \ {slot}]
    BY <1>7 DEF ReleaseSlot
  <2>2. pc[w] = "releasing" /\ UNCHANGED <<stop, pc, attempt, proxy, launched, verdict>>
    BY <1>7 DEF ReleaseSlot
  <2>3. KTyped'
    BY <2>1, <2>2, SMT DEF KTyped
  <2>4. held'[w] = held[w] \ {slot} /\ \A v \in Sites : v # w => held'[v] = held[v]
    BY <2>1, SMT DEF KTyped
  <2>5. SlotsHeldOnce'
    <3>1. ASSUME NEW u \in Sites, NEW v \in Sites, u # v
          PROVE  held'[u] \cap held'[v] = {}
      BY <2>4, <3>1, SMT DEF SlotsHeldOnce
    <3>2. \A v \in Sites : v # w => slot \notin held[v]
      BY SlotBySlot
    <3>3. \A s : s \in allocated' <=> \E v \in Sites : s \in held'[v]
      BY <2>1, <2>4, <3>2, SlotBySlot, SMT
    <3>4. allocated' = UNION {held'[v] : v \in Sites}
      BY <3>3, SMT
    <3>5. QED
      BY <3>1, <3>4 DEF SlotsHeldOnce
  <2>6. \A v \in Sites : SlotsOf(v)'
    BY <2>2, <2>4, SMT DEF SlotsOf
  <2>7. \A v \in Sites : SaidBy(v)'
    BY <2>2 DEF SaidBy
  <2>8. QED
    BY <2>3, <2>5, <2>6, <2>7
<1>8. CASE Return(w)
  <2>1. KTyped'
    BY <1>8, SMT DEF KTyped, Return, Move
  <2>2. SlotsHeldOnce' /\ \A v \in Sites : SlotsOf(v)'
    BY <1>0, <1>8, MovesOnly, SMT DEF KTyped, Return, SlotsOf
  <2>3. \A v \in Sites : SaidBy(v)'
    BY <1>0, <1>8, SaysItself, SMT DEF KTyped, Return, SaidBy
  <2>4. QED
    BY <2>1, <2>2, <2>3
<1>9. QED
  BY <1>1, <1>2, <1>3, <1>4, <1>5, <1>6, <1>7, <1>8 DEF Site, Attempts

(* Every step of the executor keeps the invariant of the proxies; a stop   *)
(* is for good.                                                            *)
LEMMA KInvStep ==
  ASSUME KInv, [StepNext]_stepVars
  PROVE  KInv'
<1>1. CASE \E w \in Sites : Site(w)
  BY <1>1, KInvSite
<1>2. CASE UNCHANGED kubectlVars /\ (stop => stop')
  BY <1>2, SMT DEF kubectlVars, perSite, KInv, KTyped, SlotsHeldOnce, SlotsOf, SaidBy
<1>3. CASE UNCHANGED kubectlVars
  BY <1>2, <1>3, StopIsForGood
<1>4. QED
  BY <1>1, <1>3
  DEF StepNext, Deploying, Applying, Waiting, Next, RequestStop, Idle, vars, stepVars, kubectlVars

-------------------------------------------------------------------------------
(* The wait.                                                               *)

WTyped ==
  /\ waitPc \in {"start", "polling", "showing", "returned"}
  /\ tag \in tagHistory
  /\ errors \in Nat
  /\ blind \in Nat
  /\ waited \in [status : {"none", "succeeded", "failed", "unknown", "cancelled"},
                 why : {"none", "terminal", "timeout", "observation-lost",
                        "stopped-observing"}]

(* While it goes on, consecutive_errors is the number of polls that told   *)
(* nothing, and short of opening the breaker.                              *)
WInv ==
  /\ WTyped
  /\ waitPc # "returned" => waited = W!NotReturned /\ errors = blind /\ blind < MaxErrors
  /\ waitPc = "returned" => waited.status # "none"
  /\ waited.why = "observation-lost" <=> blind >= MaxErrors
  /\ waited.status = "succeeded" => "expected" \in tagHistory /\ blind = 0
  /\ waited = [status |-> "failed", why |-> "terminal"] => blind = 0

(* A wait starts with no error.                                            *)
LEMMA WInvInit == StepInit => WInv
BY StepsAssumption, SMT
DEF StepInit, StepsAssumption, W!WaitAssumption, W!Init, WInv, WTyped, W!NotReturned

(* Every step of the executor keeps the invariant of the wait.             *)
LEMMA WInvStep ==
  ASSUME WInv, [StepNext]_stepVars
  PROVE  WInv'
<1> USE DEF WInv, WTyped, W!NotReturned, W!Return
<1>0. MaxErrors \in Nat \ {0}
  BY StepsAssumption DEF StepsAssumption, W!WaitAssumption
<1>1. CASE W!StopAtStart \/ W!StartWaiting \/ W!StopObserving \/ W!LaunchShow
  BY <1>0, <1>1, SMT DEF W!StopAtStart, W!StartWaiting, W!StopObserving, W!LaunchShow
<1>2. CASE W!ShowReturns
  <2>1. PICK a \in W!ShowAnswers, took \in 0..1 :
          /\ blind' = IF a = "error" THEN blind + 1 ELSE 0
          /\ \/ /\ a = "expected"
                /\ W!Return("succeeded", "none")
                /\ UNCHANGED errors
             \/ /\ a \in {"failing", "gone", "permanent"}
                /\ W!Return("failed", "terminal")
                /\ UNCHANGED errors
             \/ /\ a \in {"other", "error"}
                /\ W!Pending(a, waitClock + took)
    BY <1>2 DEF W!ShowReturns
  <2>2. /\ waitPc = "showing" /\ UNCHANGED <<tag, tagHistory>>
        /\ errors = blind /\ blind \in Nat /\ blind < MaxErrors /\ waited = W!NotReturned
    BY <1>2 DEF W!ShowReturns
  <2>3. CASE a = "expected" /\ W!Return("succeeded", "none") /\ UNCHANGED errors
    BY <1>0, <2>1, <2>2, <2>3, SMT DEF W!ShowAnswers
  <2>4. CASE /\ a \in {"failing", "gone", "permanent"}
             /\ W!Return("failed", "terminal") /\ UNCHANGED errors
    BY <1>0, <2>1, <2>2, <2>4, SMT
  <2>5. CASE a \in {"other", "error"} /\ W!Pending(a, waitClock + took)
    <3>1. errors' = blind' /\ blind' \in Nat /\ errors' \in Nat
      BY <2>1, <2>2, <2>5, SMT DEF W!Pending
    <3>2. CASE a = "error" /\ errors + 1 >= MaxErrors
      BY <1>0, <2>1, <2>2, <2>5, <3>1, <3>2, SMT DEF W!Pending
    <3>3. CASE ~(a = "error" /\ errors + 1 >= MaxErrors)
      <4>1. blind' < MaxErrors
        BY <1>0, <2>1, <2>2, <3>3, SMT
      <4>2. \/ W!Return("failed", "timeout")
            \/ waitPc' = "polling" /\ UNCHANGED waited
        BY <2>5, <3>3 DEF W!Pending, W!SleepOrTimeOut
      <4>3. QED
        BY <1>0, <2>2, <3>1, <4>1, <4>2, SMT
    <3>4. QED
      BY <3>2, <3>3
  <2>6. QED
    BY <2>1, <2>3, <2>4, <2>5
<1>3. CASE W!TagChanges
  BY <1>0, <1>3, SMT DEF W!TagChanges, W!waitVars
<1>4. CASE UNCHANGED waitVars
  BY <1>4 DEF waitVars
<1>5. QED
  BY <1>1, <1>2, <1>3, <1>4
  DEF StepNext, Deploying, Applying, Waiting, stepVars, W!Next, W!Engine, W!RequestStop,
      W!waitVars, waitVars

-------------------------------------------------------------------------------
(* The theorems.                                                           *)

CallsInv == DInv /\ KInv /\ WInv

(* The inductive invariant of the three calls.                             *)
THEOREM CallsCorrect == StepSpec => []CallsInv
<1>1. StepInit => CallsInv
  BY DInvInit, KInvInit, WInvInit DEF CallsInv
<1>2. CallsInv /\ [StepNext]_stepVars => CallsInv'
  BY DInvStep, KInvStep, WInvStep DEF CallsInv
<1>3. QED
  BY <1>1, <1>2, PTL DEF StepSpec

(* A success is reported only of a deployment that reached it at ARM, and  *)
(* one reported as cancelled before it started can never appear there,     *)
(* however ARM takes, refuses or delays what was sent.                     *)
THEOREM ReportsHappened == StepSpec => []ReportsAreTrue
<1>1. CallsInv => ReportsAreTrue
  BY DEF CallsInv, DInv, ReportsAreTrue, D!ReportedSuccessHappened, D!CancelledNeverArrives
<1>2. QED
  BY <1>1, CallsCorrect, PTL

(* A Site's proxy runs only on a slot the Site alone holds, no slot is     *)
(* lost, and every attempt tries a slot the call did not try before, for   *)
(* any number of Sites, slots and attempts.                                *)
THEOREM ProxiesKeepToSlots == StepSpec => []ProxyWithinSlot
<1>1. CallsInv => ProxyWithinSlot
  BY DEF CallsInv, KInv, SlotsOf, ProxyWithinSlot
<1>2. QED
  BY <1>1, CallsCorrect, PTL

(* A wait ends as its resource was last seen to be, or when exactly so     *)
(* many polls in a row told nothing.                                       *)
THEOREM WaitsSeeTheirVerdict == StepSpec => []VerdictWasSeen
<1>1. CallsInv => VerdictWasSeen
  BY DEF CallsInv, WInv, VerdictWasSeen, W!VerdictWasSeen, W!BreakerCountsBlindPolls,
         W!NotReturned
<1>2. QED
  BY <1>1, CallsCorrect, PTL

-------------------------------------------------------------------------------
(* Each call is a ProviderCall.                                            *)

(* A deployment that goes on is launched once, and for good.               *)
LEMMA DeploymentGoesOn ==
  ASSUME DInv, DInv', deployPc # "returned", deployPc' # "returned", UNCHANGED stop,
         DUntouched' => DUntouched
  PROVE  [D!Call!Next]_(D!Call!callVars)
<1>1. deployed = D!NotReturned /\ deployed' = D!NotReturned
  BY DEF DInv
<1>2. CASE DUntouched' <=> DUntouched
  BY <1>1, <1>2 DEF D!Call!callVars, DUntouched
<1>3. CASE DUntouched /\ ~DUntouched'
  <2>1. D!Call!Launch
    BY <1>1, <1>3 DEF D!Call!Launch, DUntouched
  <2>2. QED
    BY <2>1 DEF D!Call!Next
<1>4. QED
  BY <1>2, <1>3

(* One that returns says what a call in its state may say.                 *)
LEMMA DeploymentReturned ==
  ASSUME DInv, DInv', deployPc # "returned", deployPc' = "returned", UNCHANGED stop,
         \/ deployed'.status \in {"failed", "raised"}
         \/ deployed'.status \in {"succeeded", "unknown"} /\ ~DUntouched
         \/ deployed'.status = "cancelled" /\ DUntouched /\ stop
  PROVE  [D!Call!Next]_(D!Call!callVars)
<1>1. deployed = D!NotReturned /\ deployed' # D!NotReturned
  BY DEF DInv, D!NotReturned
<1>2. \A said : deployed'.status = said => D!Call!Return(said, {"begun", "launched"})
  BY <1>1 DEF D!Call!Return
<1>3. \A said : deployed'.status = said /\ ~DUntouched => D!Call!Return(said, {"launched"})
  BY <1>1 DEF D!Call!Return, DUntouched
<1>4. \A said : deployed'.status = said /\ DUntouched => D!Call!Return(said, {"begun"})
  BY <1>1 DEF D!Call!Return, DUntouched
<1>5. QED
  BY <1>2, <1>3, <1>4
  DEF D!Call!Next, D!Call!ReturnFailure, D!Call!RaiseError, D!Call!ReturnSuccess,
      D!Call!ReturnUnknown, D!Call!ReturnStoppedBeforeStart

(* What of a deployment's step the caller sees is a step of its call.      *)
LEMMA DeploymentCalls ==
  ASSUME DInv, DInv', [StepNext]_stepVars
  PROVE  [D!Call!Next]_(D!Call!callVars)
<1>1. CASE D!Engine
  <2> USE DEF D!Return, D!Result
  <2>1. CASE D!StopAtStart \/ D!FailToStart \/ D!StopBeforeAttempt
    BY <2>1, DeploymentReturned
    DEF D!StopAtStart, D!FailToStart, D!StopBeforeAttempt, DUntouched
  <2>2. CASE D!StageParameters \/ D!LaunchSubmit \/ D!LaunchShow
    BY <2>2, DeploymentGoesOn DEF D!StageParameters, D!LaunchSubmit, D!LaunchShow, DUntouched
  <2>3. CASE D!StopPolling \/ D!ShowRaises \/ D!ExplainFailure
    BY <2>3, DeploymentReturned
    DEF D!StopPolling, D!ShowRaises, D!ExplainFailure, DUntouched
  <2>4. CASE D!SubmitReturns
    <3>1. PICK a \in D!SubmitAnswers : D!HandleSubmit(a)
      BY <2>4 DEF D!SubmitReturns
    <3>2. /\ deployPc = "submitting" /\ UNCHANGED stop
          /\ submission \in 1..SubmitAttempts
      BY <2>4 DEF D!SubmitReturns, DInv, DTyped
    <3>3. \/ D!GoPoll
          \/ D!RetryOrPoll
          \/ \E r \in D!Reasons : D!Return("failed", "none") \/ D!Return("unknown", r)
      <4>1. a \in {"accepted", "timeout", "transient", "unknown"} \cup D!Definite
        BY SMT DEF D!SubmitAnswers, D!Definite
      <4>2. CASE a = "accepted" \/ (a = "timeout" /\ ~stop)
        BY <3>1, <4>2 DEF D!HandleSubmit, D!Definite
      <4>3. CASE a = "transient" /\ ~stop
        BY <3>1, <4>3 DEF D!HandleSubmit, D!Definite
      <4>4. CASE a \in D!Definite
        BY <3>1, <4>4 DEF D!HandleSubmit, D!Definite, D!Reasons
      <4>5. CASE \/ a \in {"timeout", "transient", "unknown"} /\ stop
                 \/ a = "unknown" /\ ~stop
        BY <3>1, <4>5 DEF D!HandleSubmit, D!Definite, D!Reasons
      <4>6. QED
        BY <4>1, <4>2, <4>3, <4>4, <4>5
    <3>4. CASE D!GoPoll
      BY <3>2, <3>4, DeploymentGoesOn DEF D!GoPoll, DUntouched
    <3>5. CASE D!RetryOrPoll
      <4>1. submission' # 1 \/ deployPc' = "polling"
        BY <3>2, <3>5, SMT DEF D!RetryOrPoll, D!GoPoll
      <4>2. deployPc' \in {"attempt", "polling"}
        BY <3>5 DEF D!RetryOrPoll, D!GoPoll
      <4>3. QED
        BY <3>2, <4>1, <4>2, DeploymentGoesOn DEF DUntouched
    <3>6. CASE \E r \in D!Reasons : D!Return("failed", "none") \/ D!Return("unknown", r)
      BY <3>2, <3>6, DeploymentReturned DEF DUntouched
    <3>7. QED
      BY <3>3, <3>4, <3>5, <3>6
  <2>5. CASE D!ShowReturns
    <3>1. PICK a \in D!ShowAnswers, took \in 0..1 : D!HandleShow(a, deployClock + took)
      BY <2>5 DEF D!ShowReturns
    <3>2. deployPc = "showing" /\ UNCHANGED stop
      BY <2>5 DEF D!ShowReturns
    <3>3. \/ deployPc' \in {"polling", "explaining"}
          \/ D!Return("succeeded", "none")
          \/ \E r \in D!Reasons : D!Return("unknown", r)
      <4>1. a \in {"running", "succeeded", "failed", "not-visible", "unreadable"}
        <5>1. arm \in {"absent", "running", "succeeded", "failed"}
          BY DEF DInv, DTyped, D!ArmStates
        <5>2. QED
          BY <5>1 DEF D!ShowAnswers
      <4>2. CASE D!WaitOrGiveUp(deployClock + took)
        BY <4>2 DEF D!WaitOrGiveUp, D!Reasons
      <4>3. CASE a \in {"succeeded", "failed"}
        BY <3>1, <4>3 DEF D!HandleShow
      <4>4. CASE a = "running"
        BY <3>1, <4>2, <4>4 DEF D!HandleShow
      <4>5. CASE a \in {"not-visible", "unreadable"}
        BY <3>1, <4>2, <4>5 DEF D!HandleShow, D!Reasons
      <4>6. QED
        BY <4>1, <4>3, <4>4, <4>5
    <3>4. CASE deployPc' \in {"polling", "explaining"}
      BY <3>2, <3>4, DeploymentGoesOn DEF DUntouched
    <3>5. CASE \/ D!Return("succeeded", "none")
               \/ \E r \in D!Reasons : D!Return("unknown", r)
      BY <3>2, <3>5, DeploymentReturned DEF DUntouched
    <3>6. QED
      BY <3>3, <3>4, <3>5
  <2>6. QED
    BY <1>1, <2>1, <2>2, <2>3, <2>4, <2>5 DEF D!Engine, D!Start, D!Submit, D!Poll
<1>2. CASE D!Azure \/ D!Quiet
  BY <1>2
  DEF D!Azure, D!SendPut, D!TakePut, D!RefusePut, D!StrayArrives, D!ArmFinishes, D!Quiet,
      D!vars, D!engine, D!Call!callVars
<1>3. CASE D!RequestStop
  BY <1>3 DEF D!RequestStop, D!engine, D!Call!Next, D!Call!RequestStop
<1>4. CASE UNCHANGED deployVars
  BY <1>4, StopIsForGood
  DEF deployVars, D!Call!callVars, D!Call!Next, D!Call!RequestStop
<1>5. QED
  BY <1>1, <1>2, <1>3, <1>4 DEF StepNext, Deploying, D!Next, Applying, Waiting, stepVars

(* What the caller of a Site's kubectl step sees of another Site's step is *)
(* nothing, and of its own a step of its call.                             *)
LEMMA SiteCalls ==
  ASSUME KInv, KInv', NEW u \in Sites, Site(u), NEW w \in Sites
  PROVE  Call(w)!Next \/ UNCHANGED Call(w)!callVars
<1>0. /\ UNCHANGED stop
      /\ \A v \in Sites : v # u => /\ pc'[v] = pc[v]
                                   /\ launched'[v] = launched[v]
                                   /\ verdict'[v] = verdict[v]
  <2> USE DEF KInv, KTyped, Move
  <2>1. CASE StopAtStart(u) \/ FailToStart(u) \/ Enter(u) \/ Return(u)
    BY <2>1, SMT DEF StopAtStart, FailToStart, Enter, Return
  <2>2. CASE Attempts(u)
    BY <2>2, SMT
    DEF Attempts, StopBeforeAttempt, StartProxy, NoSlotIsFree, ProbeReady, ProbeGivesUp,
        ProxyExits, RetryOnNextSlot, GiveUp
  <2>3. CASE StopInBody(u) \/ FailWithoutSession(u) \/ Apply(u) \/ ApplyReturns(u)
    BY <2>3, SMT DEF StopInBody, FailWithoutSession, Apply, ApplyReturns
  <2>4. CASE EndProxy(u) \/ ReleaseSlot(u)
    BY <2>4, SMT DEF EndProxy, ReleaseSlot
  <2>5. QED
    BY <2>1, <2>2, <2>3, <2>4 DEF Site
<1>1. CASE w # u
  BY <1>0, <1>1 DEF Call!callVars
<1>2. CASE w = u
  <2>0. SaidBy(w) /\ SaidBy(w)'
    BY DEF KInv
  <2>1. CASE StopAtStart(w) \/ FailToStart(w) \/ Return(w)
    <3>1. pc[w] \in {"idle", "releasing"} /\ pc'[w] = "returned" /\ UNCHANGED <<stop, launched>>
      BY <2>1, SMT DEF StopAtStart, FailToStart, Return, KInv, KTyped, Move
    <3>2. verdict'[w] \in {"succeeded", "failed", "unknown", "cancelled"}
      BY <2>0, <3>1 DEF KInv, KTyped, SaidBy
    <3>3. CASE verdict'[w] \in {"succeeded", "unknown"}
      <4>1. launched[w]
        BY <2>0, <3>1, <3>3 DEF SaidBy
      <4>2. QED
        BY <3>1, <3>3, <4>1
        DEF Call!Next, Call!ReturnSuccess, Call!ReturnUnknown, Call!Return
    <3>4. CASE verdict'[w] = "failed"
      BY <3>1, <3>4 DEF Call!Next, Call!ReturnFailure, Call!Return
    <3>5. CASE verdict'[w] = "cancelled"
      <4>1. stop /\ ~launched[w]
        BY <2>0, <3>1, <3>5 DEF SaidBy
      <4>2. QED
        BY <3>1, <3>5, <4>1 DEF Call!Next, Call!ReturnStoppedBeforeStart, Call!Return
    <3>6. QED
      BY <3>2, <3>3, <3>4, <3>5
  <2>2. CASE Apply(w)
    <3>1. /\ pc[w] = "ready" /\ pc'[w] = "applying" /\ ~launched[w] /\ launched'[w]
          /\ UNCHANGED stop
      BY <2>0, <2>2, SMT DEF Apply, KInv, KTyped, Move, SaidBy
    <3>2. QED
      BY <3>1 DEF Call!Next, Call!Launch
  <2>3. CASE \/ Enter(w) \/ Attempts(w) \/ StopInBody(w) \/ FailWithoutSession(w)
             \/ ApplyReturns(w) \/ EndProxy(w) \/ ReleaseSlot(w)
    <3>1. pc[w] # "returned" /\ pc'[w] # "returned" /\ UNCHANGED launched
      <4> USE DEF KInv, KTyped, Move
      <4>1. CASE Enter(w) \/ StopInBody(w) \/ FailWithoutSession(w) \/ ApplyReturns(w)
        BY <4>1, SMT DEF Enter, StopInBody, FailWithoutSession, ApplyReturns
      <4>2. CASE Attempts(w)
        BY <4>2, SMT
        DEF Attempts, StopBeforeAttempt, StartProxy, NoSlotIsFree, ProbeReady, ProbeGivesUp,
            ProxyExits, RetryOnNextSlot, GiveUp
      <4>3. CASE EndProxy(w) \/ ReleaseSlot(w)
        BY <4>3, SMT DEF EndProxy, ReleaseSlot
      <4>4. QED
        BY <2>3, <4>1, <4>2, <4>3
    <3>2. QED
      BY <1>0, <3>1 DEF Call!callVars
  <2>4. QED
    BY <1>2, <2>1, <2>2, <2>3 DEF Site
<1>3. QED
  BY <1>1, <1>2

(* Every step of the executor is, for each Site, a step of its call.       *)
LEMMA KubectlCalls ==
  ASSUME KInv, KInv', [StepNext]_stepVars
  PROVE  [\A w \in Sites : Call(w)!Next \/ UNCHANGED Call(w)!callVars]_vars
<1>1. CASE \E u \in Sites : Site(u)
  BY <1>1, SiteCalls
<1>2. CASE UNCHANGED kubectlVars
  BY <1>2, StopIsForGood
  DEF kubectlVars, perSite, Call!callVars, Call!Next, Call!RequestStop
<1>3. QED
  BY <1>1, <1>2
  DEF StepNext, Deploying, Applying, Waiting, Next, RequestStop, Idle, vars, stepVars,
      kubectlVars

(* What of a wait's step the caller sees is a step of its call.            *)
LEMMA WaitCalls ==
  ASSUME WInv, WInv', [StepNext]_stepVars
  PROVE  [W!Call!Next]_(W!Call!callVars)
<1> USE DEF W!Return, W!Call!callVars
<1>1. CASE W!StartWaiting
  BY <1>1 DEF W!StartWaiting, W!Call!Next, W!Call!Launch
<1>2. CASE W!LaunchShow
  BY <1>2 DEF W!LaunchShow
<1>3. CASE W!StopAtStart
  BY <1>3
  DEF W!StopAtStart, W!Call!Next, W!Call!ReturnStoppedBeforeStart, W!Call!Return
<1>4. CASE W!StopObserving
  BY <1>4 DEF W!StopObserving, W!Call!Next, W!Call!ReturnUnknown, W!Call!Return
<1>5. CASE W!ShowReturns
  <2>1. /\ waitPc = "showing" /\ UNCHANGED stop
        /\ \/ waitPc' = "polling" /\ UNCHANGED waited
           \/ /\ waitPc' = "returned"
              /\ waited'.status \in {"succeeded", "failed", "unknown"}
    BY <1>5 DEF W!ShowReturns, W!Pending, W!SleepOrTimeOut
  <2>2. QED
    BY <2>1
    DEF W!Call!Next, W!Call!ReturnSuccess, W!Call!ReturnUnknown, W!Call!ReturnFailure,
        W!Call!Return
<1>6. CASE W!TagChanges
  BY <1>6 DEF W!TagChanges, W!waitVars
<1>7. CASE UNCHANGED waitVars
  BY <1>7, StopIsForGood DEF waitVars, W!Call!Next, W!Call!RequestStop
<1>8. QED
  BY <1>1, <1>2, <1>3, <1>4, <1>5, <1>6, <1>7
  DEF StepNext, Deploying, Applying, Waiting, stepVars, W!Next, W!Engine, W!RequestStop,
      W!waitVars, waitVars

(* Each of the three calls implements ProviderCall: what FleetRun assumes  *)
(* of a step's provider call is what the executor's code does, a kubectl   *)
(* step for each Site.                                                     *)
THEOREM CallsAreProviderCalls == StepSpec => CallSpec
<1>1. StepInit => D!Call!Init /\ W!Call!Init
  BY DEF StepInit, D!Init, D!Call!Init, D!NotReturned, W!Init, W!Call!Init, W!NotReturned
<1>2. CallsInv /\ CallsInv' /\ [StepNext]_stepVars =>
        /\ [D!Call!Next]_(D!Call!callVars)
        /\ [\A w \in Sites : Call(w)!Next \/ UNCHANGED Call(w)!callVars]_vars
        /\ [W!Call!Next]_(W!Call!callVars)
  BY DeploymentCalls, KubectlCalls, WaitCalls DEF CallsInv
<1>3. StepSpec => []CallsInv
  BY CallsCorrect
<1>4. QED
  BY <1>1, <1>2, <1>3, PTL
  DEF StepSpec, CallSpec, D!CallSpec, D!Call!Spec, CallSteps, W!CallSpec, W!Call!Spec
===============================================================================
