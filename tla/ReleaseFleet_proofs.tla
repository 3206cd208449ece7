-------------------------- MODULE ReleaseFleet_proofs --------------------------
(***************************************************************************)
(* Proofs about the groups of release acceptance: a receipt is kept before *)
(* anything is written (RetainedBeforeWritten), a cleanup removes only     *)
(* what is its attempt's own (OnlyOwnIsRemoved), and what a cleanup calls  *)
(* complete is gone for good (CompleteMeansGone).  They hold for any       *)
(* scenarios, attempts and slots, and any number of rounds,                *)
(* reconciliations and ticks of the clock.                                 *)
(*                                                                         *)
(* None is inductive.  The proofs first say what one step may do to an     *)
(* attempt, a resource, a group and a deployment, whichever action it is   *)
(* (Moves), and go on from there: most of the invariants follow from the   *)
(* moves, and only what a cleanup knows takes a look at its actions.       *)
(***************************************************************************)
EXTENDS ReleaseFleet, WellFoundedInduction, TLAPS

-------------------------------------------------------------------------------
(* The largest of a bounded set of numbers.                                *)

(* A set of numbers that is not empty has a least one.                     *)
LEMMA NatHasLeast ==
  ASSUME NEW T \in SUBSET Nat, T # {}
  PROVE  \E x \in T : \A y \in T : x <= y
<1>1. PICK x \in T : \A y \in T : ~(<<y, x>> \in OpToRel(<, Nat))
  BY NatLessThanWellFounded, WFMin
<1>2. OpToRel(<, Nat) = {pair \in Nat \X Nat : pair[1] < pair[2]}
  BY DEF OpToRel
<1>3. \A y \in T : <<y, x>> \notin {pair \in Nat \X Nat : pair[1] < pair[2]}
  BY <1>1, <1>2
<1>4. \A y \in T : ~(y < x)
  <2>1. TAKE y \in T
  <2>2. <<y, x>> \in Nat \X Nat /\ <<y, x>>[1] = y /\ <<y, x>>[2] = x
    OBVIOUS
  <2>3. QED
    BY <1>3, <2>2
<1>5. QED
  BY <1>4, SMT

(* One that is bounded has a largest one.                                  *)
LEMMA BoundedHasMax ==
  ASSUME NEW T \in SUBSET Nat, T # {}, NEW n \in Nat, \A x \in T : x <= n
  PROVE  Max(T) \in T /\ \A x \in T : x <= Max(T)
<1> DEFINE U == {u \in Nat : \A x \in T : x <= u}
<1>1. PICK m \in U : \A u \in U : m <= u
  <2>1. n \in U /\ U \in SUBSET Nat
    OBVIOUS
  <2>2. QED
    BY <2>1, NatHasLeast
<1>2. m \in T
  <2>1. SUFFICES ASSUME m \notin T PROVE FALSE
    OBVIOUS
  <2>2. PICK x \in T : TRUE
    OBVIOUS
  <2>3. m \in Nat /\ \A y \in T : y < m
    BY <1>1, <2>1, SMT
  <2>4. m - 1 \in U
    BY <2>2, <2>3, SMT
  <2>5. QED
    BY <1>1, <2>3, <2>4, SMT
<1>3. \E x \in T : \A y \in T : x >= y
  BY <1>1, <1>2, SMT
<1>4. Max(T) \in T /\ \A y \in T : Max(T) >= y
  BY <1>3 DEF Max
<1>5. QED
  BY <1>4, SMT

-------------------------------------------------------------------------------
(* The kinds of values.                                                    *)

JobSteps == {"check", "call", "confirm"}
CleanSteps == {"inspect", "submit", "deleting", "remove first", "remove", "done"}
Verdicts == {"none", "unknown", "absent", "residual", "not-attempted"}
DeploymentStates == {"none", "running", "ended"}
GroupStates == {"none", "ours", "leaving", "other"}

Flags == BOOLEAN

AttemptRecord ==
  [phase: Phases, snapshot: SUBSET Items, durable: Flags, slot: Nat, step: JobSteps,
   host: Flags, said: Nat, reconciled: Nat]
CleanerRecord ==
  [on: Flags, bounded: Flags, pending: [Slots -> CleanSteps], visited: SUBSET Slots,
   result: [Slots -> Verdicts], limit: [Slots -> Nat], requested: SUBSET Items,
   vaults: SUBSET Items, unread: Flags, rounds: Nat, purging: SUBSET Items]
ItemRecord == [state: ItemStates, created: Nat, told: Flags]
DeploymentRecord == [state: DeploymentStates, start: Nat, end: Nat]
ReportRecord == [given: Flags, complete: Flags, settled: Flags]

Typed ==
  /\ scope \in Scenarios
  /\ now \in Nat
  /\ group \in [Names -> GroupStates]
  /\ item \in [Items -> ItemRecord]
  /\ deployment \in [Attempts -> DeploymentRecord]
  /\ attempt \in [Attempts -> AttemptRecord]
  /\ cleaner \in [Attempts -> CleanerRecord]
  /\ report \in [Attempts -> ReportRecord]
  /\ DOMAIN asked = Attempts

(* The kinds a step writes to.                                             *)
LEMMA Kinds ==
  /\ TRUE \in Flags /\ FALSE \in Flags /\ 1 \in Nat
  /\ "checked" \in Phases /\ "preparing" \in Phases /\ "working" \in Phases
  /\ "ended" \in Phases /\ "cleaning" \in Phases /\ "over" \in Phases
  /\ "check" \in JobSteps /\ "call" \in JobSteps /\ "confirm" \in JobSteps
BY DEF Flags, Phases, JobSteps

(* The scenario is one for good.                                           *)
LEMMA ScopeStays == [Next]_vars => UNCHANGED scope
<1>1. ASSUME Azure \/ Others
      PROVE  UNCHANGED scope
  BY <1>1
  DEF Azure, Others, Tick, Produce, EndDeployment, SettleItem, SettleGroup, DropGroup, TakeName
<1>2. ASSUME NEW a \in Attempts, Work(a)
      PROVE  UNCHANGED scope
  BY <1>2
  DEF Work, Preflight, Retain, CheckSlot, CallCreate, Confirm, Connect, StopHost, Deploy,
      Succeed, Fail, Over, StartCleanup, Reconcile, Interrupt
<1>3. ASSUME NEW a \in Attempts, Clean(a)
      PROVE  UNCHANGED scope
  <2>1. ASSUME NEW s \in Slots, CallFails(a, s) \/ LookGroup(a, s) \/ LookDeployments(a, s)
        PROVE  UNCHANGED scope
    BY <2>1 DEF CallFails, LookGroup, LookDeployments
  <2>2. ASSUME NEW s \in Slots, SubmitDelete(a, s) \/ RemoveDelta(a, s)
        PROVE  UNCHANGED scope
    BY <2>2 DEF SubmitDelete, RemoveDelta
  <2>3. QED
    BY <1>3, <2>1, <2>2 DEF Clean, Purge, NextRound, Report, Return
<1>4. QED
  BY <1>1, <1>2, <1>3 DEF Next, vars

(* What the scenario fixes.                                                *)
LEMMA Fixed ==
  ASSUME UNCHANGED scope
  PROVE  /\ Attempts' = Attempts /\ Slots' = Slots /\ Names' = Names /\ Items' = Items
         /\ First' = First
         /\ AttemptRecord' = AttemptRecord /\ CleanerRecord' = CleanerRecord
         /\ \A a, s : Name(a, s)' = Name(a, s)
         /\ \A a : Cluster(a)' = Cluster(a) /\ Product(a)' = Product(a) /\ Ours(a)' = Ours(a)
         /\ \A i : Place(i)' = Place(i) /\ IsVault(i)' = IsVault(i) /\ Of(i)' = Of(i)
BY DEF Attempts, Slots, Names, Items, First, AttemptRecord, CleanerRecord, Name, Cluster,
       Product, Ours, Place, IsVault, Of, Kept

(* The scenario is one of the kind.                                        *)
LEMMA ScopeIs ==
  ASSUME Typed
  PROVE  /\ scope.persistent \in BOOLEAN /\ scope.site \in BOOLEAN
         /\ Attempts \subseteq Nat \ {0}
         /\ First \in Slots
<1>1. scope \in Scenario /\ scope.slots # <<>>
  BY FleetAssumption DEF Typed, FleetAssumption
<1>2. scope.slots \in Seq(STRING)
  BY <1>1 DEF Scenario
<1>3. 1 \in DOMAIN scope.slots
  BY <1>1, <1>2, SMT
<1>4. First \in Slots
  BY <1>3 DEF First, Slots
<1>5. QED
  BY <1>1, <1>4, SMT DEF Scenario, Attempts

(* Names tell groups apart, and resources.                                 *)
LEMMA NamesDiffer ==
  /\ \A a, b, s, t : Name(a, s) = Name(b, t) => s = t
  /\ \A a, b, s, t : ~scope.persistent /\ Name(a, s) = Name(b, t) => a = b
  /\ \A a, b, s : scope.persistent => Name(a, s) = Name(b, s)
  /\ \A a \in Attempts, s \in Slots : Name(a, s) \in Names
  /\ \A a : /\ Of(Cluster(a)) = a /\ Of(Product(a)) = a
            /\ Place(Cluster(a)) = Name(a, First) /\ Place(Product(a)) = Name(a, First)
  /\ \A a, b : Cluster(a) # Product(b)
  /\ \A a, b : a # b => Cluster(a) # Cluster(b) /\ Product(a) # Product(b)
  /\ \A a \in Attempts : Cluster(a) \in Items /\ Product(a) \in Items
BY SMT DEF Name, Names, Of, Cluster, Product, Place, Items

(* Every resource but the one that was there before is an attempt's.       *)
LEMMA ItemsAre ==
  /\ \A i \in Items : i = Kept \/ \E a \in Attempts : i \in Ours(a) /\ Of(i) = a
  /\ Of(Kept) = 0
  /\ \A a : Kept \notin Ours(a)
  /\ \A a, b : \A i \in Ours(a) : Of(i) = a /\ (i \in Ours(b) => a = b)
BY SMT DEF Items, Ours, Of, Cluster, Product, Kept

-------------------------------------------------------------------------------
(* What one step may do.                                                   *)

(* An attempt goes forward only, takes its snapshot when it is admitted,   *)
(* is told when its jobs were over when they are, and keeps its receipt.   *)
AttemptMoves(a) ==
  /\ attempt[a].durable => attempt'[a].durable
  /\ attempt'[a].host => attempt[a].host \/ attempt[a].phase = "preparing"
  /\ attempt'[a].step = "call" => attempt[a].step = "call" \/ ~scope.persistent
  /\ \/ /\ attempt'[a].phase = attempt[a].phase
        /\ attempt'[a].snapshot = attempt[a].snapshot
        /\ attempt'[a].said = attempt[a].said
        /\ attempt'[a].durable = attempt[a].durable
     \/ /\ attempt[a].phase = "new" /\ attempt'[a].phase = "checked" /\ Turn(a)
        /\ attempt'[a].snapshot = IF scope.persistent THEN Listed ELSE {}
        /\ attempt'[a].said = attempt[a].said
        /\ attempt'[a].durable = attempt[a].durable
     \/ /\ attempt[a].phase = "checked" /\ attempt'[a].phase = "preparing"
        /\ attempt'[a].snapshot = attempt[a].snapshot
        /\ attempt'[a].said = attempt[a].said
        /\ attempt'[a].durable
     \/ /\ \/ attempt[a].phase = "preparing" /\ attempt'[a].phase \in {"working", "ended"}
           \/ attempt[a].phase = "working" /\ attempt'[a].phase = "ended"
           \/ attempt[a].phase = "ended" /\ attempt'[a].phase = "cleaning"
        /\ attempt'[a].snapshot = attempt[a].snapshot
        /\ attempt'[a].said = attempt[a].said
        /\ attempt'[a].durable = attempt[a].durable
     \/ /\ attempt[a].phase # "over" /\ attempt'[a].phase = "over" /\ Turn(a)
        /\ attempt'[a].snapshot = attempt[a].snapshot
        /\ attempt'[a].durable = attempt[a].durable
        /\ ~attempt'[a].host
        /\ now <= attempt'[a].said + Tolerance
        /\ attempt'[a].said <= now + Tolerance

(* A deployment is started by an attempt at work, and ends once.           *)
DeploymentMoves(a) ==
  \/ deployment'[a] = deployment[a]
  \/ /\ deployment[a].state = "none" /\ attempt[a].phase = "working"
     /\ deployment'[a] = [state |-> "running", start |-> now, end |-> now]
  \/ /\ deployment[a].state = "running"
     /\ deployment'[a] = [deployment[a] EXCEPT !.state = "ended", !.end = now]

(* A resource is made once, by a host or a deployment, and keeps its time  *)
(* of creation for as long as it is there.                                 *)
ItemMoves(i) ==
  \/ item'[i] = item[i]
  \/ /\ item[i].state = "none" /\ item'[i].state = "present" /\ item'[i].created = now
     /\ \E a \in Attempts : \/ i = Cluster(a) /\ attempt[a].host
                            \/ i = Product(a) /\ deployment[a].state = "running"
  \/ /\ item[i].state \in {"present", "leaving"} /\ item'[i].state \in {"present", "leaving"}
     /\ item'[i].created = item[i].created
  \/ /\ item[i].state \in {"present", "leaving", "soft"} /\ item'[i].state \in {"soft", "gone"}
     /\ item'[i].created \in {0, item[i].created}

(* A group is made by an attempt that prepares, and is not someone else's  *)
(* once the attempt's jobs are done with it.                               *)
GroupMoves(n) ==
  \/ group'[n] = group[n]
  \/ /\ ~scope.persistent /\ group[n] = "none"
     /\ \E a \in Attempts : \E s \in Slots :
          /\ n = Name(a, s)
          /\ \/ attempt[a].phase = "preparing" /\ group'[n] = "ours"
             \/ attempt[a].phase \in {"new", "checked", "preparing"} /\ group'[n] = "other"
  \/ /\ group[n] = "leaving" /\ group'[n] \in {"none", "ours"}
  \/ /\ ~scope.persistent /\ group[n] \in {"ours", "other"} /\ group'[n] = "leaving"
     /\ \E a \in Attempts, s \in Slots :
          n = Name(a, s) /\ cleaner[a].on /\ cleaner[a].pending[s] = "submit"
  \/ /\ scope.persistent /\ group[n] = "other" /\ group'[n] = "none"

(* The clock goes forward, one unit at a time.                             *)
Moves ==
  /\ now' = now \/ (now' = now + 1 /\ UNCHANGED <<group, item, deployment, attempt>>)
  /\ \A a \in Attempts : AttemptMoves(a) /\ DeploymentMoves(a)
  /\ \A i \in Items : ItemMoves(i)
  /\ \A n \in Names : GroupMoves(n)
  /\ UNCHANGED scope

(* What stays as it is makes no move.                                      *)
LEMMA Stays ==
  /\ UNCHANGED attempt => \A a \in Attempts : AttemptMoves(a)
  /\ UNCHANGED deployment => \A a \in Attempts : DeploymentMoves(a)
  /\ UNCHANGED item => \A i \in Items : ItemMoves(i)
  /\ UNCHANGED group => \A n \in Names : GroupMoves(n)
BY DEF AttemptMoves, DeploymentMoves, ItemMoves, GroupMoves

(* A step changes one attempt: the others make no move.                    *)
LEMMA OneAttempt ==
  ASSUME Typed, NEW a \in Attempts, NEW r \in AttemptRecord,
         attempt' = [attempt EXCEPT ![a] = r], AttemptMoves(a)
  PROVE  /\ attempt' \in [Attempts -> AttemptRecord]
         /\ \A b \in Attempts : AttemptMoves(b)
<1>1. attempt \in [Attempts -> AttemptRecord]
  BY DEF Typed
<1>2. attempt' \in [Attempts -> AttemptRecord]
  BY <1>1
<1>3. \A b \in Attempts : b # a => attempt'[b] = attempt[b]
  BY <1>1
<1>4. \A b \in Attempts : b # a => AttemptMoves(b)
  BY <1>3 DEF AttemptMoves
<1>5. QED
  BY <1>2, <1>4

(* The fields of an attempt.                                               *)
LEMMA AttemptIs ==
  ASSUME Typed, NEW a \in Attempts
  PROVE  /\ attempt[a] \in AttemptRecord
         /\ \A r : attempt' = [attempt EXCEPT ![a] = r] => attempt'[a] = r
BY DEF Typed

(* The jobs of an attempt.                                                 *)
LEMMA AttemptChanges ==
  ASSUME Typed, NEW a \in Attempts,
         \/ Preflight(a) \/ Retain(a) \/ CheckSlot(a) \/ CallCreate(a) \/ Confirm(a)
         \/ StopHost(a) \/ Succeed(a) \/ Fail(a) \/ Over(a) \/ StartCleanup(a) \/ Reconcile(a)
  PROVE  /\ attempt' \in [Attempts -> AttemptRecord]
         /\ \A b \in Attempts : AttemptMoves(b)
<1> DEFINE old == attempt[a]
<1> DEFINE done == [old EXCEPT !.phase = "ended", !.slot = 1, !.step = "check"]
<1>0. old \in AttemptRecord
  BY AttemptIs
<1>1. CASE Preflight(a)
  <2> DEFINE r == [old EXCEPT !.phase = "checked",
                              !.snapshot = IF scope.persistent THEN Listed ELSE {}]
  <2>1. attempt' = [attempt EXCEPT ![a] = r] /\ old.phase = "new" /\ Turn(a)
    BY <1>1 DEF Preflight
  <2>2. r \in AttemptRecord
    <3>1. (IF scope.persistent THEN Listed ELSE {}) \in SUBSET Items
      BY DEF Listed
    <3>2. QED
      BY <1>0, <3>1, Kinds, Zenon DEF AttemptRecord
  <2>3. AttemptMoves(a)
    <3>1. attempt'[a] = r
      BY <2>1, AttemptIs
    <3>2. QED
      BY <1>0, <2>1, <3>1, SMT DEF AttemptMoves, AttemptRecord
  <2>4. QED
    BY <2>1, <2>2, <2>3, OneAttempt
<1>2. CASE Retain(a)
  <2> DEFINE r == [old EXCEPT !.phase = "preparing", !.durable = TRUE]
  <2>1. attempt' = [attempt EXCEPT ![a] = r] /\ old.phase = "checked"
    BY <1>2 DEF Retain
  <2>2. r \in AttemptRecord
    BY <1>0, Kinds, Zenon DEF AttemptRecord
  <2>3. AttemptMoves(a)
    <3>1. attempt'[a] = r
      BY <2>1, AttemptIs
    <3>2. /\ attempt'[a].phase = "preparing" /\ attempt'[a].durable
          /\ attempt'[a].snapshot = old.snapshot /\ attempt'[a].said = old.said
          /\ attempt'[a].host = old.host /\ attempt'[a].step = old.step
      BY <1>0, <3>1, SMT DEF AttemptRecord
    <3>3. QED
      BY <2>1, <3>2 DEF AttemptMoves
  <2>4. QED
    BY <2>1, <2>2, <2>3, OneAttempt
<1>3. CASE CheckSlot(a)
  <2> DEFINE r == [old EXCEPT !.step = IF scope.persistent THEN "confirm" ELSE "call"]
  <2>1. attempt' = [attempt EXCEPT ![a] = r]
    BY <1>3 DEF CheckSlot
  <2>2. r \in AttemptRecord
    <3>1. (IF scope.persistent THEN "confirm" ELSE "call") \in JobSteps
      BY Kinds
    <3>2. QED
      BY <1>0, <3>1, Zenon DEF AttemptRecord
  <2>3. AttemptMoves(a)
    <3>1. attempt'[a] = r
      BY <2>1, AttemptIs
    <3>2. QED
      BY <1>0, <3>1, SMT DEF AttemptMoves, AttemptRecord
  <2>4. QED
    BY <2>1, <2>2, <2>3, OneAttempt
<1>4. CASE CallCreate(a)
  <2>1. \/ attempt' = [attempt EXCEPT ![a] = [old EXCEPT !.step = "confirm"]]
        \/ attempt' = [attempt EXCEPT ![a] = done]
    BY <1>4 DEF CallCreate, Ended
  <2>2. PICK r : /\ attempt' = [attempt EXCEPT ![a] = r]
                 /\ r = [old EXCEPT !.step = "confirm"] \/ r = done
    BY <2>1
  <2>3. old.phase = "preparing"
    BY <1>4 DEF CallCreate
  <2>4. r \in AttemptRecord
    BY <1>0, <2>2, Kinds, Zenon DEF AttemptRecord
  <2>5. AttemptMoves(a)
    <3>1. attempt'[a] = r
      BY <2>2, AttemptIs
    <3>2. /\ attempt'[a].phase \in {old.phase, "ended"} /\ attempt'[a].durable = old.durable
          /\ attempt'[a].snapshot = old.snapshot /\ attempt'[a].said = old.said
          /\ attempt'[a].host = old.host /\ attempt'[a].step # "call"
      <4>1. CASE r = done
        BY <1>0, <4>1, <3>1, SMT DEF AttemptRecord
      <4>2. CASE r = [old EXCEPT !.step = "confirm"]
        BY <1>0, <4>2, <3>1, SMT DEF AttemptRecord
      <4>3. QED
        BY <2>2, <4>1, <4>2
    <3>3. QED
      BY <2>3, <3>2 DEF AttemptMoves
  <2>6. QED
    BY <2>2, <2>4, <2>5, OneAttempt
<1>5. CASE Confirm(a)
  <2> DEFINE next == [old EXCEPT !.slot = @ + 1, !.step = "check"]
             made == [old EXCEPT !.phase = "working", !.host = TRUE, !.slot = 1, !.step = "check"]
  <2>1. /\ attempt' = [attempt EXCEPT ![a] = IF old.slot < Len(scope.slots) THEN next ELSE made]
        /\ old.phase = "preparing"
    BY <1>5, Zenon DEF Confirm
  <2>2. PICK r : /\ attempt' = [attempt EXCEPT ![a] = r]
                 /\ r = next \/ r = made
    BY <2>1
  <2>3. r \in AttemptRecord
    <3>1. next \in AttemptRecord
      <4>1. old.slot + 1 \in Nat
        BY <1>0, SMT DEF AttemptRecord
      <4>2. QED
        BY <1>0, <4>1, Kinds, Zenon DEF AttemptRecord
    <3>2. made \in AttemptRecord
      BY <1>0, Kinds, Zenon DEF AttemptRecord
    <3>3. QED
      BY <2>2, <3>1, <3>2
  <2>4. AttemptMoves(a)
    <3>1. attempt'[a] = r
      BY <2>2, AttemptIs
    <3>2. QED
      BY <1>0, <2>1, <2>2, <3>1, SMT DEF AttemptMoves, AttemptRecord
  <2>5. QED
    BY <2>2, <2>3, <2>4, OneAttempt
<1>6. CASE StopHost(a)
  <2> DEFINE r == [old EXCEPT !.host = FALSE]
  <2>1. attempt' = [attempt EXCEPT ![a] = r]
    BY <1>6 DEF StopHost
  <2>2. r \in AttemptRecord
    BY <1>0, Kinds, Zenon DEF AttemptRecord
  <2>3. AttemptMoves(a)
    <3>1. attempt'[a] = r
      BY <2>1, AttemptIs
    <3>2. QED
      BY <1>0, <3>1, SMT DEF AttemptMoves, AttemptRecord
  <2>4. QED
    BY <2>1, <2>2, <2>3, OneAttempt
<1>7. CASE Succeed(a) \/ Fail(a)
  <2>1. attempt' = [attempt EXCEPT ![a] = done] /\ old.phase \in {"preparing", "working"}
    BY <1>7 DEF Succeed, Fail, Ended
  <2>2. done \in AttemptRecord
    BY <1>0, Kinds, Zenon DEF AttemptRecord
  <2>3. AttemptMoves(a)
    <3>1. attempt'[a] = done
      BY <2>1, AttemptIs
    <3>2. QED
      BY <1>0, <2>1, <3>1, SMT DEF AttemptMoves, AttemptRecord
  <2>4. QED
    BY <2>1, <2>2, <2>3, OneAttempt
<1>8. CASE Over(a)
  <2>1. PICK said \in (IF now = 0 THEN 0 ELSE now - Tolerance)..(now + Tolerance) :
               attempt' = [attempt EXCEPT ![a].phase = "over", ![a].host = FALSE,
                                          ![a].slot = 1, ![a].step = "check", ![a].said = said]
    BY <1>8 DEF Over
  <2> DEFINE r == [old EXCEPT !.phase = "over", !.host = FALSE, !.slot = 1, !.step = "check",
                              !.said = said]
  <2>2. attempt' = [attempt EXCEPT ![a] = r]
    BY <2>1
  <2>3. old.phase # "over" /\ Turn(a)
    BY <1>8 DEF Over
  <2>4. said \in Nat /\ now <= said + Tolerance /\ said <= now + Tolerance
    BY <2>1, SMT DEF Typed, Tolerance
  <2>5. r \in AttemptRecord
    BY <1>0, <2>4, Kinds, Zenon DEF AttemptRecord
  <2>6. AttemptMoves(a)
    <3>1. attempt'[a] = r
      BY <2>2, AttemptIs
    <3>2. QED
      BY <1>0, <2>3, <2>4, <3>1, SMT DEF AttemptMoves, AttemptRecord
  <2>7. QED
    BY <2>2, <2>5, <2>6, OneAttempt
<1>9. CASE StartCleanup(a)
  <2> DEFINE r == [old EXCEPT !.phase = "cleaning"]
  <2>1. attempt' = [attempt EXCEPT ![a] = r] /\ old.phase = "ended"
    BY <1>9 DEF StartCleanup
  <2>2. r \in AttemptRecord
    BY <1>0, Kinds, Zenon DEF AttemptRecord
  <2>3. AttemptMoves(a)
    <3>1. attempt'[a] = r
      BY <2>1, AttemptIs
    <3>2. QED
      BY <1>0, <2>1, <3>1, SMT DEF AttemptMoves, AttemptRecord
  <2>4. QED
    BY <2>1, <2>2, <2>3, OneAttempt
<1>10. CASE Reconcile(a)
  <2> DEFINE r == [old EXCEPT !.reconciled = @ + 1]
  <2>1. attempt' = [attempt EXCEPT ![a] = r]
    BY <1>10 DEF Reconcile
  <2>2. r \in AttemptRecord
    <3>1. old.reconciled + 1 \in Nat
      BY <1>0, SMT DEF AttemptRecord
    <3>2. QED
      BY <1>0, <3>1, Zenon DEF AttemptRecord
  <2>3. AttemptMoves(a)
    <3>1. attempt'[a] = r
      BY <2>1, AttemptIs
    <3>2. QED
      BY <1>0, <3>1, SMT DEF AttemptMoves, AttemptRecord
  <2>4. QED
    BY <2>1, <2>2, <2>3, OneAttempt
<1>11. QED
  BY <1>1, <1>2, <1>3, <1>4, <1>5, <1>6, <1>7, <1>8, <1>9, <1>10

(* What becomes of a resource that is removed, or made.                    *)
LEMMA ItemsBecome ==
  ASSUME Typed
  PROVE  /\ \A i : /\ Removed(i) \in ItemRecord /\ Removed(i).created = 0
                   /\ Removed(i).state \in {"soft", "gone"}
         /\ \A told \in BOOLEAN :
              LET made == [state |-> "present", created |-> now, told |-> told]
              IN made \in ItemRecord /\ made.state = "present" /\ made.created = now
         /\ \A i \in Items :
              /\ item[i] \in ItemRecord
              /\ \A state \in ItemStates :
                   LET next == [item[i] EXCEPT !.state = state]
                   IN next \in ItemRecord /\ next.state = state /\ next.created = item[i].created
<1>1. ASSUME NEW i
      PROVE  /\ Removed(i) \in ItemRecord /\ Removed(i).created = 0
             /\ Removed(i).state \in {"soft", "gone"}
  BY SMT DEF Removed, ItemRecord, ItemStates, Flags
<1>2. ASSUME NEW told \in BOOLEAN
      PROVE  LET made == [state |-> "present", created |-> now, told |-> told]
             IN made \in ItemRecord /\ made.state = "present" /\ made.created = now
  <2>1. "present" \in ItemStates /\ now \in Nat /\ told \in Flags
    BY DEF ItemStates, Flags, Typed
  <2>2. [state |-> "present", created |-> now, told |-> told] \in ItemRecord
    BY <2>1, Zenon DEF ItemRecord
  <2>3. QED
    BY <2>2
<1>3. ASSUME NEW i \in Items
      PROVE  item[i] \in ItemRecord
  BY DEF Typed
<1>4. ASSUME NEW i \in Items, NEW state \in ItemStates
      PROVE  LET next == [item[i] EXCEPT !.state = state]
             IN next \in ItemRecord /\ next.state = state /\ next.created = item[i].created
  <2>1. item[i] \in ItemRecord
    BY <1>3
  <2>2. [item[i] EXCEPT !.state = state] \in ItemRecord
    BY <2>1, Zenon DEF ItemRecord
  <2>3. QED
    BY <2>1, <2>2, SMT DEF ItemRecord
<1>5. QED
  BY <1>1, <1>2, <1>3, <1>4

(* The resources.                                                          *)
LEMMA ItemChanges ==
  ASSUME Typed,
         \/ \E a \in Attempts : Produce(a) \/ Connect(a)
         \/ \E i \in Items : SettleItem(i)
         \/ \E a \in Attempts, s \in Slots : SettleGroup(a, s) \/ RemoveDelta(a, s)
         \/ \E s \in Slots : DropGroup(s)
         \/ \E a \in Attempts, i \in Items : Purge(a, i)
  PROVE  /\ item' \in [Items -> ItemRecord]
         /\ \A i \in Items : ItemMoves(i)
<1>0. /\ item \in [Items -> ItemRecord]
      /\ "present" \in ItemStates /\ "leaving" \in ItemStates /\ "gone" \in ItemStates
      /\ \A i : i \in Listed <=> i \in Items /\ item[i].state \in {"present", "leaving"}
  BY DEF Typed, ItemStates, Listed
<1>1. ASSUME NEW a \in Attempts, Produce(a) \/ Connect(a)
      PROVE  /\ item' \in [Items -> ItemRecord]
             /\ \A i \in Items : ItemMoves(i)
  <2>1. PICK i \in Items, told \in BOOLEAN :
          /\ item' = [item EXCEPT ![i] = [state |-> "present", created |-> now, told |-> told]]
          /\ item[i].state = "none"
          /\ \/ i = Cluster(a) /\ attempt[a].host
             \/ i = Product(a) /\ deployment[a].state = "running"
    <3>1. Cluster(a) \in Items /\ Product(a) \in Items
      BY NamesDiffer
    <3>2. CASE Produce(a)
      BY <3>1, <3>2 DEF Produce, Appear
    <3>3. CASE Connect(a)
      BY <3>1, <3>3 DEF Connect, Appear
    <3>4. QED
      BY <1>1, <3>2, <3>3
  <2>2. /\ item'[i] \in ItemRecord /\ item'[i].state = "present" /\ item'[i].created = now
        /\ \A j \in Items : j # i => item'[j] = item[j]
    BY <1>0, <2>1, ItemsBecome
  <2>3. item' \in [Items -> ItemRecord]
    BY <1>0, <2>1, ItemsBecome
  <2>4. QED
    BY <2>1, <2>2, <2>3 DEF ItemMoves
<1>2. ASSUME NEW i \in Items, SettleItem(i)
      PROVE  /\ item' \in [Items -> ItemRecord]
             /\ \A j \in Items : ItemMoves(j)
  <2>1. /\ item[i].state = "leaving"
        /\ \/ item' = [item EXCEPT ![i] = Removed(i)]
           \/ item' = [item EXCEPT ![i] = [item[i] EXCEPT !.state = "present"]]
    BY <1>2 DEF SettleItem
  <2>2. PICK r : item' = [item EXCEPT ![i] = r] /\ r \in {Removed(i), [item[i] EXCEPT !.state = "present"]}
    BY <2>1
  <2>3. /\ r \in ItemRecord
        /\ \/ r.state \in {"soft", "gone"} /\ r.created = 0
           \/ r.state = "present" /\ r.created = item[i].created
    <3>1. CASE r = Removed(i)
      BY <3>1, ItemsBecome
    <3>2. CASE r = [item[i] EXCEPT !.state = "present"]
      BY <1>0, <3>2, ItemsBecome
    <3>3. QED
      BY <2>2, <3>1, <3>2
  <2>4. item'[i] = r /\ \A j \in Items : j # i => item'[j] = item[j]
    BY <1>0, <2>2
  <2>5. item' \in [Items -> ItemRecord]
    BY <1>0, <2>2, <2>3
  <2>6. QED
    BY <2>1, <2>3, <2>4, <2>5 DEF ItemMoves
<1>3. ASSUME NEW T \in SUBSET Listed, item' = [i \in Items |-> IF i \in T THEN Removed(i) ELSE item[i]]
      PROVE  /\ item' \in [Items -> ItemRecord]
             /\ \A i \in Items : ItemMoves(i)
  <2>1. \A i \in Items : item'[i] = IF i \in T THEN Removed(i) ELSE item[i]
    BY <1>3
  <2>2. item' \in [Items -> ItemRecord]
    BY <1>0, <1>3, ItemsBecome
  <2>3. QED
    BY <1>0, <2>1, <2>2, ItemsBecome DEF ItemMoves
<1>4. ASSUME UNCHANGED item
      PROVE  /\ item' \in [Items -> ItemRecord]
             /\ \A i \in Items : ItemMoves(i)
  BY <1>0, <1>4, Stays
<1>5. ASSUME NEW a \in Attempts, NEW s \in Slots, SettleGroup(a, s)
      PROVE  /\ item' \in [Items -> ItemRecord]
             /\ \A i \in Items : ItemMoves(i)
  <2> DEFINE T == {i \in Listed : Place(i) = Name(a, s)}
  <2>1. \/ item' = [i \in Items |-> IF i \in T THEN Removed(i) ELSE item[i]]
        \/ UNCHANGED item
    BY <1>5 DEF SettleGroup
  <2>2. T \in SUBSET Listed
    OBVIOUS
  <2>3. QED
    BY <1>3, <1>4, <2>1, <2>2
<1>6. ASSUME NEW s \in Slots, DropGroup(s)
      PROVE  /\ item' \in [Items -> ItemRecord]
             /\ \A i \in Items : ItemMoves(i)
  <2>1. item' = [i \in Items |-> IF i \in Listed THEN Removed(i) ELSE item[i]]
    BY <1>6 DEF DropGroup
  <2>2. QED
    BY <1>3, <2>1
<1>7. ASSUME NEW a \in Attempts, NEW s \in Slots, RemoveDelta(a, s)
      PROVE  /\ item' \in [Items -> ItemRecord]
             /\ \A i \in Items : ItemMoves(i)
  <2>1. \/ UNCHANGED item
        \/ \E T \in SUBSET Created(a, s) :
             item' = [i \in Items |-> IF i \in T THEN [item[i] EXCEPT !.state = "leaving"] ELSE item[i]]
    BY <1>7 DEF RemoveDelta
  <2>2. CASE UNCHANGED item
    BY <1>4, <2>2
  <2>3. ASSUME NEW T \in SUBSET Created(a, s),
               item' = [i \in Items |-> IF i \in T THEN [item[i] EXCEPT !.state = "leaving"] ELSE item[i]]
        PROVE  /\ item' \in [Items -> ItemRecord]
               /\ \A i \in Items : ItemMoves(i)
    <3>1. T \subseteq Listed
      BY DEF Created, Delta
    <3>2. \A i \in Items : item'[i] = IF i \in T THEN [item[i] EXCEPT !.state = "leaving"] ELSE item[i]
      BY <2>3
    <3>3. item' \in [Items -> ItemRecord]
      BY <1>0, <2>3, ItemsBecome
    <3>4. ASSUME NEW i \in Items
          PROVE  ItemMoves(i)
      <4>1. CASE i \notin T
        BY <3>2, <4>1 DEF ItemMoves
      <4>2. CASE i \in T
        <5>1. item'[i] = [item[i] EXCEPT !.state = "leaving"]
          BY <3>2, <4>2
        <5>2. item'[i].state = "leaving" /\ item'[i].created = item[i].created
          BY <1>0, <5>1, ItemsBecome
        <5>3. item[i].state \in {"present", "leaving"}
          BY <1>0, <3>1, <4>2
        <5>4. QED
          BY <5>2, <5>3 DEF ItemMoves
      <4>3. QED
        BY <4>1, <4>2
    <3>5. QED
      BY <3>3, <3>4
  <2>4. QED
    BY <2>1, <2>2, <2>3
<1>8. ASSUME NEW a \in Attempts, NEW i \in Items, Purge(a, i)
      PROVE  /\ item' \in [Items -> ItemRecord]
             /\ \A j \in Items : ItemMoves(j)
  <2>1. CASE UNCHANGED item
    BY <1>4, <2>1
  <2>2. CASE item[i].state = "soft" /\ item' = [item EXCEPT ![i] = [item[i] EXCEPT !.state = "gone"]]
    <3>1. /\ item'[i].state = "gone" /\ item'[i].created = item[i].created
          /\ \A j \in Items : j # i => item'[j] = item[j]
      BY <1>0, <2>2, ItemsBecome
    <3>2. item' \in [Items -> ItemRecord]
      BY <1>0, <2>2, ItemsBecome
    <3>3. QED
      BY <2>2, <3>1, <3>2 DEF ItemMoves
  <2>3. QED
    BY <1>8, <2>1, <2>2 DEF Purge
<1>9. QED
  BY <1>1, <1>2, <1>5, <1>6, <1>7, <1>8

(* The groups.  Only an ephemeral slot is created by a call.               *)
CallsAreEphemeral == \A a \in Attempts : attempt[a].step = "call" => ~scope.persistent

(* The groups.                                                             *)
LEMMA GroupChanges ==
  ASSUME Typed, CallsAreEphemeral,
         \/ \E a \in Attempts : CallCreate(a)
         \/ \E a \in Attempts, s \in Slots : SettleGroup(a, s) \/ SubmitDelete(a, s) \/ TakeName(a, s)
         \/ \E s \in Slots : DropGroup(s)
  PROVE  /\ group' \in [Names -> GroupStates]
         /\ \A n \in Names : GroupMoves(n)
<1>0. group \in [Names -> GroupStates]
  BY DEF Typed
<1>1. ASSUME NEW n \in Names, NEW g \in GroupStates, group' = [group EXCEPT ![n] = g],
             g = group'[n] => GroupMoves(n)
      PROVE  /\ group' \in [Names -> GroupStates]
             /\ \A m \in Names : GroupMoves(m)
  <2>1. group' \in [Names -> GroupStates] /\ group'[n] = g
    BY <1>0, <1>1
  <2>2. \A m \in Names : m # n => group'[m] = group[m]
    BY <1>0, <1>1
  <2>3. QED
    BY <1>1, <2>1, <2>2 DEF GroupMoves
<1>2. ASSUME UNCHANGED group
      PROVE  /\ group' \in [Names -> GroupStates]
             /\ \A m \in Names : GroupMoves(m)
  BY <1>0, <1>2, Stays
<1>3. ASSUME NEW a \in Attempts, CallCreate(a)
      PROVE  /\ group' \in [Names -> GroupStates]
             /\ \A m \in Names : GroupMoves(m)
  <2> DEFINE n == Name(a, SlotOf(a))
  <2>1. CASE UNCHANGED group
    BY <1>2, <2>1
  <2>2. CASE group' # group
    <3>1. /\ group' = [group EXCEPT ![n] = "ours"] /\ group[n] = "none"
          /\ attempt[a].phase = "preparing" /\ attempt[a].step = "call"
      BY <1>3, <2>2 DEF CallCreate
    <3>2. n \in Names
      BY <1>0, <2>2, <3>1
    <3>3. PICK s \in Slots : n = Name(a, s)
      <4>1. PICK b \in Attempts, s \in Slots : n = Name(b, s)
        BY <3>2 DEF Names
      <4>2. s = SlotOf(a)
        BY <4>1, NamesDiffer
      <4>3. QED
        BY <4>2
    <3>4. ~scope.persistent
      BY <3>1 DEF CallsAreEphemeral
    <3>5. group'[n] = "ours" => GroupMoves(n)
      BY <3>1, <3>3, <3>4 DEF GroupMoves
    <3>6. "ours" \in GroupStates
      BY DEF GroupStates
    <3>7. QED
      BY <1>1, <3>1, <3>2, <3>5, <3>6
  <2>3. QED
    BY <2>1, <2>2
<1>4. ASSUME NEW a \in Attempts, NEW s \in Slots, SettleGroup(a, s)
      PROVE  /\ group' \in [Names -> GroupStates]
             /\ \A m \in Names : GroupMoves(m)
  <2> DEFINE n == Name(a, s)
  <2>1. PICK g \in {"none", "ours"} : group' = [group EXCEPT ![n] = g]
    BY <1>4 DEF SettleGroup
  <2>2. n \in Names /\ g \in GroupStates /\ group[n] = "leaving"
    BY <1>4, NamesDiffer DEF SettleGroup, GroupStates
  <2>3. g = group'[n] => GroupMoves(n)
    BY <2>2 DEF GroupMoves
  <2>4. QED
    BY <1>1, <2>1, <2>2, <2>3
<1>5. ASSUME NEW a \in Attempts, NEW s \in Slots, SubmitDelete(a, s)
      PROVE  /\ group' \in [Names -> GroupStates]
             /\ \A m \in Names : GroupMoves(m)
  <2> DEFINE n == Name(a, s)
  <2>1. CASE UNCHANGED group
    BY <1>2, <2>1
  <2>2. CASE group' # group
    <3>1. /\ group' = [group EXCEPT ![n] = "leaving"] /\ Stands(n)
          /\ ~scope.persistent /\ At(a, s, {"submit"})
      BY <1>5, <2>2 DEF SubmitDelete
    <3>2. n \in Names /\ "leaving" \in GroupStates
      BY NamesDiffer DEF GroupStates
    <3>3. group'[n] = "leaving" => GroupMoves(n)
      BY <3>1 DEF GroupMoves, Stands, At
    <3>4. QED
      BY <1>1, <3>1, <3>2, <3>3
  <2>3. QED
    BY <2>1, <2>2
<1>6. ASSUME NEW a \in Attempts, NEW s \in Slots, TakeName(a, s)
      PROVE  /\ group' \in [Names -> GroupStates]
             /\ \A m \in Names : GroupMoves(m)
  <2> DEFINE n == Name(a, s)
  <2>1. /\ group' = [group EXCEPT ![n] = "other"] /\ group[n] = "none" /\ ~scope.persistent
        /\ attempt[a].phase \in {"new", "checked", "preparing"}
    BY <1>6 DEF TakeName
  <2>2. n \in Names /\ "other" \in GroupStates
    BY NamesDiffer DEF GroupStates
  <2>3. group'[n] = "other" => GroupMoves(n)
    BY <2>1 DEF GroupMoves
  <2>4. QED
    BY <1>1, <2>1, <2>2, <2>3
<1>7. ASSUME NEW s \in Slots, DropGroup(s)
      PROVE  /\ group' \in [Names -> GroupStates]
             /\ \A m \in Names : GroupMoves(m)
  <2> DEFINE n == Name(1, s)
  <2>1. /\ group' = [group EXCEPT ![n] = "none"] /\ group[n] = "other" /\ scope.persistent
    BY <1>7 DEF DropGroup
  <2>2. "none" \in GroupStates
    BY DEF GroupStates
  <2>3. group'[n] = "none" => GroupMoves(n)
    BY <2>1 DEF GroupMoves
  <2>4. CASE n \in Names
    BY <1>1, <2>1, <2>2, <2>3, <2>4
  <2>5. CASE n \notin Names
    <3>1. UNCHANGED group
      BY <1>0, <2>1, <2>5
    <3>2. QED
      BY <1>2, <3>1
  <2>6. QED
    BY <2>4, <2>5
<1>8. QED
  BY <1>3, <1>4, <1>5, <1>6, <1>7

(* The deployments.                                                        *)
LEMMA DeploymentChanges ==
  ASSUME Typed,
         \/ \E a \in Attempts : EndDeployment(a) \/ Deploy(a)
         \/ \E a \in Attempts, s \in Slots : SettleGroup(a, s)
         \/ \E s \in Slots : DropGroup(s)
  PROVE  /\ deployment' \in [Attempts -> DeploymentRecord]
         /\ \A a \in Attempts : DeploymentMoves(a)
<1> DEFINE over(a) == [deployment[a] EXCEPT !.state = "ended", !.end = now]
<1>0. /\ deployment \in [Attempts -> DeploymentRecord]
      /\ now \in Nat /\ "running" \in DeploymentStates /\ "ended" \in DeploymentStates
  BY DEF Typed, DeploymentStates
<1>1. \A a \in Attempts : over(a) \in DeploymentRecord
  BY <1>0, Zenon DEF DeploymentRecord
<1>2. ASSUME NEW T \in SUBSET {a \in Attempts : deployment[a].state = "running"},
             deployment' = [a \in Attempts |-> IF a \in T THEN over(a) ELSE deployment[a]]
      PROVE  /\ deployment' \in [Attempts -> DeploymentRecord]
             /\ \A a \in Attempts : DeploymentMoves(a)
  <2>1. \A a \in Attempts : deployment'[a] = IF a \in T THEN over(a) ELSE deployment[a]
    BY <1>2
  <2>2. deployment' \in [Attempts -> DeploymentRecord]
    BY <1>0, <1>1, <1>2
  <2>3. QED
    BY <2>1, <2>2 DEF DeploymentMoves
<1>3. ASSUME UNCHANGED deployment
      PROVE  /\ deployment' \in [Attempts -> DeploymentRecord]
             /\ \A a \in Attempts : DeploymentMoves(a)
  BY <1>0, <1>3, Stays
<1>4. ASSUME NEW a \in Attempts, EndDeployment(a)
      PROVE  /\ deployment' \in [Attempts -> DeploymentRecord]
             /\ \A b \in Attempts : DeploymentMoves(b)
  <2>1. deployment' = [deployment EXCEPT ![a] = over(a)] /\ deployment[a].state = "running"
    BY <1>4 DEF EndDeployment
  <2>2. deployment' = [b \in Attempts |-> IF b \in {a} THEN over(b) ELSE deployment[b]]
    BY <1>0, <2>1
  <2>3. QED
    BY <1>2, <2>1, <2>2
<1>5. ASSUME NEW a \in Attempts, Deploy(a)
      PROVE  /\ deployment' \in [Attempts -> DeploymentRecord]
             /\ \A b \in Attempts : DeploymentMoves(b)
  <2> DEFINE r == [state |-> "running", start |-> now, end |-> now]
  <2>1. /\ deployment' = [deployment EXCEPT ![a] = r]
        /\ deployment[a].state = "none" /\ attempt[a].phase = "working"
    BY <1>5 DEF Deploy
  <2>2. r \in DeploymentRecord
    BY <1>0 DEF DeploymentRecord
  <2>3. deployment'[a] = r /\ \A b \in Attempts : b # a => deployment'[b] = deployment[b]
    BY <1>0, <2>1
  <2>4. deployment' \in [Attempts -> DeploymentRecord]
    BY <1>0, <2>1, <2>2
  <2>5. QED
    BY <2>1, <2>3, <2>4 DEF DeploymentMoves
<1>6. ASSUME NEW a \in Attempts, NEW s \in Slots, SettleGroup(a, s)
      PROVE  /\ deployment' \in [Attempts -> DeploymentRecord]
             /\ \A b \in Attempts : DeploymentMoves(b)
  <2> DEFINE T == {b \in Attempts : deployment[b].state = "running" /\ Name(b, First) = Name(a, s)}
  <2>1. \/ UNCHANGED deployment
        \/ deployment' = [b \in Attempts |-> IF b \in T THEN over(b) ELSE deployment[b]]
    BY <1>6 DEF SettleGroup
  <2>2. T \in SUBSET {b \in Attempts : deployment[b].state = "running"}
    OBVIOUS
  <2>3. QED
    BY <1>2, <1>3, <2>1, <2>2
<1>7. ASSUME NEW s \in Slots, DropGroup(s)
      PROVE  /\ deployment' \in [Attempts -> DeploymentRecord]
             /\ \A b \in Attempts : DeploymentMoves(b)
  <2> DEFINE T == {b \in Attempts : deployment[b].state = "running"}
  <2>1. deployment' = [b \in Attempts |-> IF b \in T THEN over(b) ELSE deployment[b]]
    BY <1>7 DEF DropGroup
  <2>2. QED
    BY <1>2, <2>1
<1>8. QED
  BY <1>4, <1>5, <1>6, <1>7

-------------------------------------------------------------------------------
(* What a cleanup may do.                                                  *)

(* A visit to a slot leaves the other slots as they are.                   *)
Visits(a, s) ==
  /\ cleaner[a].on /\ cleaner'[a].on
  /\ cleaner'[a].bounded = cleaner[a].bounded /\ cleaner'[a].purging = cleaner[a].purging
  /\ report'[a] = report[a] /\ attempt' = attempt /\ deployment' = deployment
  /\ \A t \in Slots : t # s => /\ cleaner'[a].pending[t] = cleaner[a].pending[t]
                               /\ cleaner'[a].result[t] = cleaner[a].result[t]
                               /\ cleaner'[a].limit[t] = cleaner[a].limit[t]

(* It fails, or the slot is still there.                                   *)
Waits(a, s) ==
  /\ cleaner'[a].pending[s] \in {"inspect", "deleting", "done"}
  /\ cleaner'[a].result[s] # "absent"
  /\ cleaner'[a].vaults = cleaner[a].vaults /\ asked'[a] = asked[a]

(* An ephemeral group is gone.                                             *)
FindsNoGroup(a, s) ==
  /\ ~scope.persistent /\ group[Name(a, s)] = "none" /\ group' = group
  /\ cleaner'[a].pending[s] = "done"
  /\ cleaner'[a].vaults = cleaner[a].vaults /\ asked'[a] = asked[a]

(* It is there, and the attempt's.                                         *)
FindsOwn(a, s) ==
  /\ ~scope.persistent /\ group[Name(a, s)] \in {"ours", "leaving"} /\ group' = group
  /\ item' = item /\ cleaner'[a].result[s] = cleaner[a].result[s]
  /\ cleaner'[a].pending[s] = "submit"
  /\ \A i \in cleaner'[a].vaults : i \in Listed /\ IsVault(i) /\ Place(i) = Name(a, s)
  /\ asked'[a] = asked[a]

(* Its removal is asked for.                                               *)
Submits(a, s) ==
  /\ ~scope.persistent /\ cleaner[a].pending[s] = "submit"
  /\ cleaner'[a].pending[s] \in {"deleting", "done"} /\ cleaner'[a].result[s] # "absent"
  /\ cleaner'[a].vaults = cleaner[a].vaults
  /\ asked'[a] = asked[a] \cup {<<group[Name(a, s)], a>>}

(* The deployments of a persistent group have ended.                       *)
FindsDeploymentsEnded(a, s) ==
  /\ scope.persistent
  /\ cleaner[a].bounded => \A b \in Considered(a, s) : deployment[b].state # "running"
  /\ cleaner'[a].limit[s] = Max({attempt[a].said} \cup {deployment[b].end : b \in Considered(a, s)})
  /\ cleaner'[a].pending[s] \in {"remove first", "remove"}
  /\ cleaner'[a].result[s] = cleaner[a].result[s]
  /\ cleaner'[a].vaults = cleaner[a].vaults /\ asked'[a] = asked[a]

(* Its resources are asked for, if any is left that the attempt created.   *)
Removes(a, s) ==
  /\ scope.persistent /\ cleaner[a].pending[s] \in {"remove first", "remove"}
  /\ cleaner'[a].pending[s] \in {"deleting", "done"}
  /\ cleaner'[a].vaults \subseteq cleaner[a].vaults \cup Created(a, s)
  /\ asked'[a] \subseteq asked[a] \cup Created(a, s) /\ asked[a] \subseteq asked'[a]
  /\ cleaner'[a].result[s] = "absent" =>
       Created(a, s) = {} /\ Unavailable(a, s) = {} /\ item' = item

Begins(a) ==
  /\ attempt[a].durable /\ cleaner'[a].on
  /\ \/ /\ attempt[a].phase = "ended" /\ attempt'[a].phase = "cleaning" /\ attempt'[a].host = attempt[a].host
        /\ ~cleaner'[a].bounded
     \/ /\ attempt[a].phase = "over" /\ attempt'[a].phase = "over"
        /\ cleaner'[a].bounded
  /\ deployment' = deployment
  /\ \A s \in Slots : cleaner'[a].pending[s] = "inspect" /\ cleaner'[a].result[s] = "none"
  /\ cleaner'[a].vaults = {} /\ cleaner'[a].purging = {}
  /\ ~report'[a].complete
  /\ report'[a].settled /\ ~cleaner'[a].bounded => ~AtWork(a)
  /\ asked'[a] = asked[a]

Reports(a) ==
  /\ cleaner[a].on /\ cleaner'[a].on /\ cleaner'[a].bounded = cleaner[a].bounded
  /\ cleaner'[a].pending = cleaner[a].pending /\ cleaner'[a].result = cleaner[a].result
  /\ cleaner'[a].limit = cleaner[a].limit /\ cleaner'[a].vaults = cleaner[a].vaults
  /\ cleaner'[a].purging \subseteq cleaner[a].vaults \cup {Product(a)}
  /\ report'[a].settled = report[a].settled
  /\ report'[a].complete => \A s \in Slots : cleaner[a].result[s] = "absent"
  /\ asked'[a] = asked[a]
  /\ UNCHANGED <<group, item, deployment, attempt>>

(* The rest: the next round, a vault is purged, nothing.                   *)
GoesOn(a) ==
  /\ cleaner'[a].on = cleaner[a].on /\ cleaner'[a].bounded = cleaner[a].bounded
  /\ cleaner'[a].pending = cleaner[a].pending /\ cleaner'[a].result = cleaner[a].result
  /\ cleaner'[a].limit = cleaner[a].limit /\ cleaner'[a].vaults = cleaner[a].vaults
  /\ cleaner'[a].purging \subseteq cleaner[a].purging
  /\ report'[a] = report[a]
  /\ attempt'[a].phase = "over" => attempt[a].phase = "over"
  /\ asked[a] \subseteq asked'[a]
  /\ \A i \in asked'[a] : \/ i \in asked[a]
                          \/ /\ cleaner[a].on /\ i \in cleaner[a].purging
                             /\ i \in Items /\ item[i].state = "soft"

Stops(a) ==
  /\ cleaner'[a] = Idle /\ report'[a] = report[a] /\ asked'[a] = asked[a]

CleanMoves(a) ==
  \/ \E s \in Slots :
       /\ Visits(a, s)
       /\ \/ Waits(a, s) \/ FindsNoGroup(a, s) \/ FindsOwn(a, s) \/ Submits(a, s)
          \/ FindsDeploymentsEnded(a, s) \/ Removes(a, s)
  \/ Begins(a) \/ Reports(a) \/ GoesOn(a) \/ Stops(a)

-------------------------------------------------------------------------------
(* The invariants.                                                         *)

(* The receipt of an attempt, and where its jobs are.                      *)
Receipts ==
  \A a \in Attempts :
    /\ attempt[a].phase \in {"preparing", "working", "ended", "cleaning"} => attempt[a].durable
    /\ attempt[a].durable => attempt[a].phase \notin {"new", "checked"}
    /\ attempt[a].host => attempt[a].durable /\ attempt[a].phase # "over"
    /\ attempt[a].phase # "new" => Turn(a)
    /\ deployment[a].state # "none" => attempt[a].durable
    /\ cleaner[a].on => /\ attempt[a].durable
                        /\ attempt[a].phase = IF cleaner[a].bounded THEN "over" ELSE "cleaning"
    /\ asked[a] # {} => attempt[a].durable

(* What an attempt has made has its receipt, and was not there before.     *)
Things ==
  /\ \A a \in Attempts :
       /\ \A i \in Ours(a) :
            /\ item[i].state # "none" => attempt[a].durable
            /\ i \notin attempt[a].snapshot
       /\ ~scope.persistent => attempt[a].snapshot = {}
  /\ \A a \in Attempts, s \in Slots :
       group[Name(a, s)] \in {"ours", "leaving"} => attempt[a].durable /\ ~scope.persistent

(* The deployments ended, and their products were made, before now and     *)
(* one before the other.                                                   *)
Ends == \A a \in Attempts : deployment[a].start <= now /\ deployment[a].end <= now

Times ==
  /\ \A i \in Items : item[i].created <= now
  /\ \A a \in Attempts :
       /\ item[Product(a)].state # "none" => deployment[a].state # "none"
       /\ deployment[a].state = "ended" => item[Product(a)].created <= deployment[a].end
       /\ attempt[a].phase = "over" =>
            /\ deployment[a].state # "none" => deployment[a].start <= attempt[a].said + Tolerance
            /\ item[Cluster(a)].state # "none" => item[Cluster(a)].created <= attempt[a].said + Tolerance

(* A time that does not lie after the work of an attempt, give or take.    *)
WithinWork(a, t, slack) ==
  \/ t <= attempt[a].said + slack
  \/ \E b \in Attempts : /\ deployment[b].state # "none"
                         /\ deployment[b].start <= attempt[a].said + Tolerance
                         /\ t <= deployment[b].end + slack

(* What may be removed for an attempt: a resource that was not there at    *)
(* its preflight and is not a later attempt's, or lies within its work.    *)
MayRemove(a, i) ==
  /\ i \in Items /\ item[i].state # "none" /\ i \notin attempt[a].snapshot
  /\ Of(i) > a => attempt[a].phase = "over" /\ WithinWork(a, item[i].created, Tolerance)

(* A cleanup asks for its attempt's group and for what it may remove, and  *)
(* the bound of a reconciliation lies within the attempt's work.           *)
Asking ==
  \A a \in Attempts :
    /\ \A i \in asked[a] : \/ i \in {<<g, a>> : g \in GroupStates \ {"other"}} /\ ~scope.persistent
                           \/ MayRemove(a, i)
    /\ cleaner[a].on =>
         /\ \A i \in cleaner[a].vaults : MayRemove(a, i)
         /\ \A i \in cleaner[a].purging : i = Product(a) \/ MayRemove(a, i)
         /\ \A s \in Slots :
              /\ cleaner[a].pending[s] = "submit" => ~scope.persistent /\ group[Name(a, s)] # "other"
              /\ cleaner[a].bounded /\ cleaner[a].pending[s] \in {"remove first", "remove"} =>
                   WithinWork(a, cleaner[a].limit[s], 0)

(* Nothing of the attempt is at work, nor can it start anything.           *)
Still(a) ==
  /\ attempt[a].phase \in {"cleaning", "over"}
  /\ ~attempt[a].host /\ deployment[a].state # "running"

Gone(a) == Still(a) /\ \A i \in Ours(a) : item[i].state \notin {"present", "leaving"}

(* What a cleanup of an ephemeral fleet has found absent stays absent.     *)
EphemeralGone ==
  ~scope.persistent =>
    \A a \in Attempts, s \in Slots :
      /\ cleaner[a].on /\ cleaner[a].result[s] = "absent" => group[Name(a, s)] \notin {"ours", "leaving"}
      /\ report[a].complete => /\ group[Name(a, s)] \notin {"ours", "leaving"}
                               /\ attempt[a].phase \in {"cleaning", "over"}

(* A cleanup of a persistent group that began with the attempt's work over *)
(* finds it so; a reconciliation waits for the attempt's deployment and    *)
(* has a bound that is not before anything of the attempt.                 *)
PersistentGone ==
  scope.persistent =>
    \A a \in Attempts :
      /\ cleaner[a].on /\ report[a].settled /\ ~cleaner[a].bounded => Still(a)
      /\ cleaner[a].on /\ cleaner[a].bounded /\ cleaner[a].pending[First] \in {"remove first", "remove"} =>
           /\ deployment[a].state # "running"
           /\ attempt[a].said <= cleaner[a].limit[First]
           /\ deployment[a].state # "none" => deployment[a].end <= cleaner[a].limit[First]
      /\ cleaner[a].on /\ report[a].settled /\ cleaner[a].result[First] = "absent" => Gone(a)
      /\ report[a].complete /\ report[a].settled => Gone(a)

-------------------------------------------------------------------------------
(* The fields of a cleanup.                                                *)

(* The fields of a cleanup.                                                *)
LEMMA CleanerIs ==
  ASSUME NEW c \in CleanerRecord
  PROVE  /\ c.on \in Flags /\ c.bounded \in Flags /\ c.pending \in [Slots -> CleanSteps]
         /\ c.visited \subseteq Slots /\ c.result \in [Slots -> Verdicts]
         /\ c.limit \in [Slots -> Nat] /\ c.requested \subseteq Items /\ c.vaults \subseteq Items
         /\ c.unread \in Flags /\ c.rounds \in Nat /\ c.purging \subseteq Items
BY SMT DEF CleanerRecord

(* A cleanup that starts, and none.                                        *)
LEMMA FreshIs ==
  ASSUME NEW bounded \in BOOLEAN
  PROVE  /\ Fresh(bounded) \in CleanerRecord
         /\ Fresh(bounded).on /\ Fresh(bounded).bounded = bounded
         /\ Fresh(bounded).vaults = {} /\ Fresh(bounded).purging = {}
         /\ \A s \in Slots : /\ Fresh(bounded).pending[s] = "inspect"
                             /\ Fresh(bounded).result[s] = "none"
         /\ Idle \in CleanerRecord /\ ~Idle.on
<1>1. ASSUME NEW b \in BOOLEAN
      PROVE  Fresh(b) \in CleanerRecord
  <2>1. [s \in Slots |-> "inspect"] \in [Slots -> CleanSteps] /\ [s \in Slots |-> "none"] \in [Slots -> Verdicts]
    BY DEF CleanSteps, Verdicts
  <2>2. [s \in Slots |-> 0] \in [Slots -> Nat] /\ b \in Flags /\ TRUE \in Flags /\ FALSE \in Flags
        /\ {} \in SUBSET Slots /\ {} \in SUBSET Items /\ 0 \in Nat
    BY DEF Flags
  <2>3. QED
    BY <2>1, <2>2, Zenon DEF Fresh, CleanerRecord
<1>2. /\ Fresh(bounded).on /\ Fresh(bounded).bounded = bounded
      /\ Fresh(bounded).vaults = {} /\ Fresh(bounded).purging = {}
      /\ \A s \in Slots : Fresh(bounded).pending[s] = "inspect" /\ Fresh(bounded).result[s] = "none"
  BY Zenon DEF Fresh
<1>3. Idle \in CleanerRecord
  <2>1. Fresh(FALSE) \in CleanerRecord /\ FALSE \in Flags
    BY <1>1, Kinds
  <2>2. QED
    BY <2>1, Zenon DEF Idle, CleanerRecord
<1>4. ~Idle.on
  BY Zenon DEF Idle, Fresh
<1>5. QED
  BY <1>1, <1>2, <1>3, <1>4

(* A slot that is visited.                                                 *)
Same(c, d) ==
  /\ d.on = c.on /\ d.bounded = c.bounded /\ d.purging = c.purging /\ d.vaults = c.vaults

Elsewhere(c, d, s) ==
  \A t \in Slots : t # s => /\ d.pending[t] = c.pending[t] /\ d.result[t] = c.result[t]
                            /\ d.limit[t] = c.limit[t]

(* A visit to a slot gives it an outcome, and changes nothing else.        *)
LEMMA VisitedSlot ==
  ASSUME NEW c \in CleanerRecord, NEW s \in Slots, NEW o \in Verdicts
  PROVE  /\ Settled(c, s, o) \in CleanerRecord /\ Waiting(c, s, o) \in CleanerRecord
         /\ Same(c, Settled(c, s, o)) /\ Same(c, Waiting(c, s, o))
         /\ Elsewhere(c, Settled(c, s, o), s) /\ Elsewhere(c, Waiting(c, s, o), s)
         /\ Settled(c, s, o).result[s] = o /\ Waiting(c, s, o).result[s] = o
         /\ Settled(c, s, o).pending[s] = "done" /\ Waiting(c, s, o).pending[s] = c.pending[s]
<1> DEFINE r == [c.result EXCEPT ![s] = o]
           p == [c.pending EXCEPT ![s] = "done"]
           v == c.visited \cup {s}
           S == [c EXCEPT !.result = r, !.pending = p, !.visited = v]
           W == [c EXCEPT !.result = r, !.visited = v]
<1>1. Settled(c, s, o) = S /\ Waiting(c, s, o) = W
  BY Zenon DEF Settled, Waiting
<1>2. r \in [Slots -> Verdicts] /\ p \in [Slots -> CleanSteps] /\ v \in SUBSET Slots
  <2>1. "done" \in CleanSteps
    BY DEF CleanSteps
  <2>2. QED
    BY <2>1, CleanerIs
<1>3. /\ r[s] = o /\ p[s] = "done"
      /\ \A t \in Slots : t # s => r[t] = c.result[t] /\ p[t] = c.pending[t]
  BY CleanerIs
<1> HIDE DEF r, p, v
<1>4. S \in CleanerRecord /\ W \in CleanerRecord
  BY <1>2, Zenon DEF CleanerRecord
<1>5. /\ S.result = r /\ S.pending = p /\ S.limit = c.limit
      /\ W.result = r /\ W.pending = c.pending /\ W.limit = c.limit
  BY Zenon DEF CleanerRecord
<1>6. Same(c, S) /\ Same(c, W)
  BY Zenon DEF CleanerRecord, Same
<1>7. QED
  BY <1>1, <1>3, <1>4, <1>5, <1>6 DEF Elsewhere

(* A slot that is somewhere else in its course.                            *)
Moved(c, s, p, l) == [c EXCEPT !.pending[s] = p, !.limit[s] = l]

(* A step of a slot changes nothing of the others.                         *)
LEMMA MovedSlot ==
  ASSUME NEW c \in CleanerRecord, NEW s \in Slots, NEW p \in CleanSteps, NEW l \in Nat
  PROVE  /\ Moved(c, s, p, l) \in CleanerRecord
         /\ Same(c, Moved(c, s, p, l)) /\ Elsewhere(c, Moved(c, s, p, l), s)
         /\ Moved(c, s, p, l).pending[s] = p /\ Moved(c, s, p, l).limit[s] = l
         /\ Moved(c, s, p, l).result = c.result
<1> DEFINE q == [c.pending EXCEPT ![s] = p]
           h == [c.limit EXCEPT ![s] = l]
           m == [c EXCEPT !.pending = q, !.limit = h]
<1>1. q \in [Slots -> CleanSteps] /\ h \in [Slots -> Nat]
  BY CleanerIs
<1>2. /\ q[s] = p /\ h[s] = l
      /\ \A t \in Slots : t # s => q[t] = c.pending[t] /\ h[t] = c.limit[t]
  BY CleanerIs
<1>3. Moved(c, s, p, l) = m
  BY Zenon DEF Moved
<1> HIDE DEF q, h
<1>4. m \in CleanerRecord
  BY <1>1, Zenon DEF CleanerRecord
<1>5. m.pending = q /\ m.limit = h /\ m.result = c.result
  BY Zenon DEF CleanerRecord
<1>6. Same(c, m)
  BY Zenon DEF CleanerRecord, Same
<1>7. Elsewhere(c, m, s)
  BY <1>2, <1>5 DEF Elsewhere
<1>8. QED
  BY <1>2, <1>3, <1>4, <1>5, <1>6, <1>7

(* So does one that leaves the bound.                                      *)
LEMMA PendingSlot ==
  ASSUME NEW c \in CleanerRecord, NEW s \in Slots, NEW p \in CleanSteps
  PROVE  LET m == [c EXCEPT !.pending[s] = p]
         IN /\ m \in CleanerRecord /\ Same(c, m) /\ Elsewhere(c, m, s)
            /\ m.pending[s] = p /\ m.result = c.result
<1> DEFINE q == [c.pending EXCEPT ![s] = p]
           m == [c EXCEPT !.pending = q]
<1>1. q \in [Slots -> CleanSteps]
  BY CleanerIs
<1>2. q[s] = p /\ \A t \in Slots : t # s => q[t] = c.pending[t]
  BY CleanerIs
<1>3. [c EXCEPT !.pending[s] = p] = m
  BY Zenon
<1> HIDE DEF q
<1>4. m \in CleanerRecord
  BY <1>1, Zenon DEF CleanerRecord
<1>5. m.pending = q /\ m.limit = c.limit /\ m.result = c.result
  BY Zenon DEF CleanerRecord
<1>6. Same(c, m)
  BY Zenon DEF CleanerRecord, Same
<1>7. Elsewhere(c, m, s)
  BY <1>2, <1>5 DEF Elsewhere
<1>8. QED
  BY <1>2, <1>3, <1>4, <1>5, <1>6, <1>7

-------------------------------------------------------------------------------
(* Every step is a move of every cleanup.                                  *)

CleansRight ==
  /\ cleaner' \in [Attempts -> CleanerRecord]
  /\ report' \in [Attempts -> ReportRecord]
  /\ DOMAIN asked' = Attempts
  /\ \A a \in Attempts : CleanMoves(a)

(* A step that does not clean.                                             *)
LEMMA QuietStep ==
  ASSUME Typed, UNCHANGED <<cleaner, report, asked>>,
         \A a \in Attempts : attempt'[a].phase = "over" => attempt[a].phase = "over"
  PROVE  CleansRight
BY Zenon DEF Typed, CleansRight, CleanMoves, GoesOn

(* A step of one cleanup: the others go on.                                *)
LEMMA OneCleanup ==
  ASSUME Typed, NEW a \in Attempts, NEW c \in CleanerRecord,
         cleaner' = [cleaner EXCEPT ![a] = c],
         report' \in [Attempts -> ReportRecord], DOMAIN asked' = Attempts,
         \A b \in Attempts : b # a => /\ report'[b] = report[b] /\ asked'[b] = asked[b]
                                      /\ attempt'[b].phase = attempt[b].phase,
         cleaner'[a] = c => CleanMoves(a)
  PROVE  CleansRight
<1>1. cleaner' \in [Attempts -> CleanerRecord] /\ cleaner'[a] = c
      /\ \A b \in Attempts : b # a => cleaner'[b] = cleaner[b]
  BY DEF Typed
<1>2. ASSUME NEW b \in Attempts, b # a
      PROVE  GoesOn(b)
  BY <1>1, <1>2, Zenon DEF GoesOn
<1>3. QED
  BY <1>1, <1>2 DEF CleansRight, CleanMoves

(* A visit to a slot, of a cleanup that only it touches.                   *)
LEMMA OneVisit ==
  ASSUME Typed, NEW a \in Attempts, NEW s \in Slots, NEW c \in CleanerRecord,
         cleaner' = [cleaner EXCEPT ![a] = c],
         cleaner[a].on, c.on = cleaner[a].on, c.bounded = cleaner[a].bounded, c.purging = cleaner[a].purging,
         Elsewhere(cleaner[a], c, s),
         DOMAIN asked' = Attempts, \A b \in Attempts : b # a => asked'[b] = asked[b],
         UNCHANGED <<report, attempt, deployment>>,
         cleaner'[a] = c => \/ Waits(a, s) \/ FindsNoGroup(a, s) \/ FindsOwn(a, s) \/ Submits(a, s)
                            \/ FindsDeploymentsEnded(a, s) \/ Removes(a, s)
  PROVE  CleansRight
<1>1. cleaner'[a] = c
  BY DEF Typed
<1>2. Visits(a, s)
  BY <1>1, Zenon DEF Visits, Elsewhere
<1>3. CleanMoves(a)
  BY <1>1, <1>2, Zenon DEF CleanMoves
<1>4. report' \in [Attempts -> ReportRecord]
  BY DEF Typed
<1>5. \A b \in Attempts : report'[b] = report[b] /\ attempt'[b].phase = attempt[b].phase
  OBVIOUS
<1>6. QED
  BY <1>3, <1>4, <1>5, OneCleanup

(* A read fails.                                                           *)
LEMMA CallFailsRight ==
  ASSUME Typed, NEW a \in Attempts, NEW s \in Slots, CallFails(a, s)
  PROVE  CleansRight
<1> DEFINE old == cleaner[a]
           back == IF old.pending[s] \in {"inspect", "remove first"} THEN "inspect" ELSE "deleting"
           m == Moved(old, s, back, 0)
<1>1. /\ \/ cleaner' = [cleaner EXCEPT ![a] = Settled(old, s, "unknown")]
         \/ cleaner' = [cleaner EXCEPT ![a] = Waiting(m, s, "unknown")]
      /\ old.on /\ UNCHANGED <<report, attempt, deployment, asked>>
  BY Zenon DEF CallFails, At, Moved
<1>2. old \in CleanerRecord /\ "unknown" \in Verdicts /\ back \in CleanSteps /\ 0 \in Nat
      /\ DOMAIN asked' = Attempts
  BY <1>1 DEF Typed, Verdicts, CleanSteps
<1>3. back \in {"inspect", "deleting"}
  OBVIOUS
<1> HIDE DEF back
<1>4. /\ m \in CleanerRecord /\ Same(old, m) /\ Elsewhere(old, m, s) /\ m.pending[s] = back
  BY <1>2, MovedSlot
<1> HIDE DEF m
<1>5. CASE cleaner' = [cleaner EXCEPT ![a] = Settled(old, s, "unknown")]
  <2> DEFINE c == Settled(old, s, "unknown")
  <2>1. /\ c \in CleanerRecord /\ Same(old, c) /\ Elsewhere(old, c, s)
        /\ c.result[s] = "unknown" /\ c.pending[s] = "done"
    BY <1>2, VisitedSlot
  <2> HIDE DEF c
  <2>2. cleaner'[a] = c => Waits(a, s)
    BY <1>1, <2>1 DEF Waits, Same
  <2>3. cleaner' = [cleaner EXCEPT ![a] = c]
    BY <1>5 DEF c
  <2>4. QED
    BY <1>1, <1>2, <2>1, <2>2, <2>3, OneVisit DEF Same
<1>6. CASE cleaner' = [cleaner EXCEPT ![a] = Waiting(m, s, "unknown")]
  <2> DEFINE c == Waiting(m, s, "unknown")
  <2>1. /\ c \in CleanerRecord /\ Same(m, c) /\ Elsewhere(m, c, s)
        /\ c.result[s] = "unknown" /\ c.pending[s] = back
    BY <1>2, <1>4, VisitedSlot
  <2> HIDE DEF c
  <2>2. Same(old, c) /\ Elsewhere(old, c, s)
    BY <1>4, <2>1, Zenon DEF Same, Elsewhere
  <2>3. cleaner'[a] = c => Waits(a, s)
    BY <1>1, <1>3, <2>1, <2>2 DEF Waits, Same
  <2>4. cleaner' = [cleaner EXCEPT ![a] = c]
    BY <1>6 DEF c
  <2>5. QED
    BY <1>1, <1>2, <2>1, <2>2, <2>3, <2>4, OneVisit DEF Same
<1>7. QED
  BY <1>1, <1>5, <1>6

(* A group is looked at.                                                   *)
LEMMA LookGroupRight ==
  ASSUME Typed, NEW a \in Attempts, NEW s \in Slots, LookGroup(a, s)
  PROVE  CleansRight
<1> DEFINE old == cleaner[a]
           seen == {i \in Listed : IsVault(i) /\ Place(i) = Name(a, s)}
<1>1. /\ old.on /\ ~scope.persistent
      /\ UNCHANGED <<group, item, report, attempt, deployment, asked>>
  BY DEF LookGroup, At
<1>2. old \in CleanerRecord /\ DOMAIN asked' = Attempts
      /\ \A o \in {"absent", "residual", "not-attempted"} : o \in Verdicts
      /\ "submit" \in CleanSteps
  BY <1>1 DEF Typed, Verdicts, CleanSteps
<1>3. CASE group[Name(a, s)] = "none" /\ cleaner' = [cleaner EXCEPT ![a] = Settled(old, s, "absent")]
  <2> DEFINE c == Settled(old, s, "absent")
  <2>1. /\ c \in CleanerRecord /\ Same(old, c) /\ Elsewhere(old, c, s)
        /\ c.result[s] = "absent" /\ c.pending[s] = "done"
    BY <1>2, VisitedSlot
  <2> HIDE DEF c
  <2>2. cleaner'[a] = c => FindsNoGroup(a, s)
    BY <1>1, <1>3, <2>1 DEF FindsNoGroup, Same
  <2>3. cleaner' = [cleaner EXCEPT ![a] = c]
    BY <1>3 DEF c
  <2>4. QED
    BY <1>1, <1>2, <2>1, <2>2, <2>3, OneVisit DEF Same
<1>4. CASE old.pending[s] = "deleting" /\ cleaner' = [cleaner EXCEPT ![a] = Waiting(old, s, "residual")]
  <2> DEFINE c == Waiting(old, s, "residual")
  <2>1. /\ c \in CleanerRecord /\ Same(old, c) /\ Elsewhere(old, c, s)
        /\ c.result[s] = "residual" /\ c.pending[s] = "deleting"
    BY <1>2, <1>4, VisitedSlot
  <2> HIDE DEF c
  <2>2. cleaner'[a] = c => Waits(a, s)
    BY <1>1, <2>1 DEF Waits, Same
  <2>3. cleaner' = [cleaner EXCEPT ![a] = c]
    BY <1>4 DEF c
  <2>4. QED
    BY <1>1, <1>2, <2>1, <2>2, <2>3, OneVisit DEF Same
<1>5. CASE cleaner' = [cleaner EXCEPT ![a] = Settled(old, s, "not-attempted")]
  <2> DEFINE c == Settled(old, s, "not-attempted")
  <2>1. /\ c \in CleanerRecord /\ Same(old, c) /\ Elsewhere(old, c, s)
        /\ c.result[s] = "not-attempted" /\ c.pending[s] = "done"
    BY <1>2, VisitedSlot
  <2> HIDE DEF c
  <2>2. cleaner'[a] = c => Waits(a, s)
    BY <1>1, <2>1 DEF Waits, Same
  <2>3. cleaner' = [cleaner EXCEPT ![a] = c]
    BY <1>5 DEF c
  <2>4. QED
    BY <1>1, <1>2, <2>1, <2>2, <2>3, OneVisit DEF Same
<1>6. ASSUME Owns(a, s), NEW unread \in BOOLEAN, NEW vaults \in SUBSET seen,
             cleaner' = [cleaner EXCEPT ![a].pending[s] = "submit", ![a].unread = unread,
                                        ![a].vaults = vaults]
      PROVE  CleansRight
  <2> DEFINE m == [old EXCEPT !.pending[s] = "submit"]
             c == [m EXCEPT !.unread = unread, !.vaults = vaults]
  <2>1. cleaner' = [cleaner EXCEPT ![a] = c]
    BY <1>6
  <2>2. /\ m \in CleanerRecord /\ Same(old, m) /\ Elsewhere(old, m, s)
        /\ m.pending[s] = "submit" /\ m.result = old.result
    BY <1>2, PendingSlot
  <2> HIDE DEF m
  <2>3. vaults \in SUBSET Items /\ unread \in Flags
    BY <1>6 DEF Listed, Flags
  <2>4. c \in CleanerRecord
    BY <2>2, <2>3, Zenon DEF CleanerRecord
  <2>5. /\ c.on = m.on /\ c.bounded = m.bounded /\ c.purging = m.purging /\ c.vaults = vaults
        /\ c.pending = m.pending /\ c.result = m.result /\ c.limit = m.limit
    BY <2>2, Zenon DEF CleanerRecord
  <2> HIDE DEF c
  <2>6. group[Name(a, s)] \in {"ours", "leaving"}
    BY <1>1, <1>6 DEF Owns
  <2>7. cleaner'[a] = c => FindsOwn(a, s)
    BY <1>1, <2>2, <2>5, <2>6 DEF FindsOwn
  <2>8. Elsewhere(old, c, s)
    BY <2>2, <2>5, Zenon DEF Elsewhere
  <2>9. QED
    BY <1>1, <1>2, <2>1, <2>2, <2>4, <2>5, <2>7, <2>8, OneVisit DEF Same
<1>7. ASSUME Owns(a, s),
             \E unread \in (IF scope.site THEN BOOLEAN ELSE {FALSE}) :
               cleaner' = [cleaner EXCEPT ![a].pending[s] = "submit", ![a].unread = unread,
                                          ![a].vaults = IF scope.site THEN seen ELSE {}]
      PROVE  CleansRight
  <2>1. PICK unread \in (IF scope.site THEN BOOLEAN ELSE {FALSE}) :
          cleaner' = [cleaner EXCEPT ![a].pending[s] = "submit", ![a].unread = unread,
                                     ![a].vaults = IF scope.site THEN seen ELSE {}]
    BY <1>7
  <2>2. unread \in BOOLEAN
    BY <2>1
  <2>3. (IF scope.site THEN seen ELSE {}) \in SUBSET seen
    OBVIOUS
  <2>4. QED
    BY <1>6, <1>7, <2>1, <2>2, <2>3
<1>8. QED
  BY <1>3, <1>4, <1>5, <1>7 DEF LookGroup

(* Its removal is asked for.                                               *)
LEMMA SubmitDeleteRight ==
  ASSUME Typed, NEW a \in Attempts, NEW s \in Slots, SubmitDelete(a, s)
  PROVE  CleansRight
<1> DEFINE old == cleaner[a]
           m == [old EXCEPT !.pending[s] = "deleting"]
<1>1. /\ old.on /\ ~scope.persistent /\ old.pending[s] = "submit"
      /\ UNCHANGED <<report, attempt, deployment>>
      /\ asked' = [asked EXCEPT ![a] = asked[a] \cup {<<group[Name(a, s)], a>>}]
  BY DEF SubmitDelete, At
<1>2. \/ cleaner' = [cleaner EXCEPT ![a] = Waiting(m, s, "residual")]
      \/ cleaner' = [cleaner EXCEPT ![a] = Waiting(m, s, "unknown")]
      \/ cleaner' = [cleaner EXCEPT ![a] = Settled(old, s, "unknown")]
  BY DEF SubmitDelete
<1>3. old \in CleanerRecord /\ "residual" \in Verdicts /\ "unknown" \in Verdicts
      /\ "deleting" \in CleanSteps
  BY DEF Typed, Verdicts, CleanSteps
<1>4. /\ DOMAIN asked' = Attempts /\ asked'[a] = asked[a] \cup {<<group[Name(a, s)], a>>}
      /\ \A b \in Attempts : b # a => asked'[b] = asked[b]
  BY <1>1 DEF Typed
<1>5. /\ m \in CleanerRecord /\ Same(old, m) /\ Elsewhere(old, m, s) /\ m.pending[s] = "deleting"
  BY <1>3, PendingSlot
<1> HIDE DEF m
<1>6. ASSUME NEW c \in CleanerRecord, cleaner' = [cleaner EXCEPT ![a] = c],
             Same(old, c), Elsewhere(old, c, s),
             c.result[s] # "absent", c.pending[s] \in {"deleting", "done"}
      PROVE  CleansRight
  <2>1. cleaner'[a] = c => Submits(a, s)
    BY <1>1, <1>4, <1>6 DEF Submits, Same
  <2>2. QED
    BY <1>1, <1>4, <1>6, <2>1, OneVisit DEF Same
<1>7. ASSUME NEW o \in {"residual", "unknown"}, cleaner' = [cleaner EXCEPT ![a] = Waiting(m, s, o)]
      PROVE  CleansRight
  <2> DEFINE c == Waiting(m, s, o)
  <2>1. /\ c \in CleanerRecord /\ Same(m, c) /\ Elsewhere(m, c, s)
        /\ c.result[s] = o /\ c.pending[s] = "deleting"
    BY <1>3, <1>5, VisitedSlot
  <2>2. cleaner' = [cleaner EXCEPT ![a] = c]
    BY <1>7
  <2> HIDE DEF c
  <2>3. Same(old, c) /\ Elsewhere(old, c, s)
    BY <1>5, <2>1, Zenon DEF Same, Elsewhere
  <2>4. QED
    BY <1>6, <2>1, <2>2, <2>3
<1>8. CASE cleaner' = [cleaner EXCEPT ![a] = Settled(old, s, "unknown")]
  <2> DEFINE c == Settled(old, s, "unknown")
  <2>1. /\ c \in CleanerRecord /\ Same(old, c) /\ Elsewhere(old, c, s)
        /\ c.result[s] = "unknown" /\ c.pending[s] = "done"
    BY <1>3, VisitedSlot
  <2>2. cleaner' = [cleaner EXCEPT ![a] = c]
    BY <1>8
  <2> HIDE DEF c
  <2>3. QED
    BY <1>6, <2>1, <2>2
<1>9. QED
  BY <1>2, <1>7, <1>8

(* The bound of a reconciliation is the last of the ends it is made of.    *)
EndsOf(a, s) == {attempt[a].said} \cup {deployment[b].end : b \in Considered(a, s)}

(* It is one of them, and no less than any.                                *)
LEMMA LimitIs ==
  ASSUME Typed, Ends, NEW a \in Attempts, NEW s \in Slots
  PROVE  /\ EndsOf(a, s) \subseteq Nat
         /\ Max(EndsOf(a, s)) \in EndsOf(a, s)
         /\ \A t \in EndsOf(a, s) : t <= Max(EndsOf(a, s))
<1>1. now \in Nat /\ attempt[a].said \in Nat
  BY SMT DEF Typed, AttemptRecord
<1>2. \A b \in Attempts : deployment[b].end \in Nat /\ deployment[b].end <= now
  BY SMT DEF Typed, DeploymentRecord, Ends
<1>3. \A t \in EndsOf(a, s) : t = attempt[a].said \/ \E b \in Attempts : t = deployment[b].end
  BY DEF Considered, EndsOf
<1>4. \A t \in EndsOf(a, s) : t \in Nat /\ t <= now + attempt[a].said
  BY <1>1, <1>2, <1>3, SMT
<1>5. now + attempt[a].said \in Nat
  BY <1>1, SMT
<1>6. EndsOf(a, s) \in SUBSET Nat /\ EndsOf(a, s) # {}
  BY <1>4 DEF EndsOf
<1>7. QED
  BY <1>4, <1>5, <1>6, BoundedHasMax

(* The deployments of a persistent group are looked at.                    *)
LEMMA LookDeploymentsRight ==
  ASSUME Typed, Ends, NEW a \in Attempts, NEW s \in Slots, LookDeployments(a, s)
  PROVE  CleansRight
<1> DEFINE old == cleaner[a]
           limit == Max(EndsOf(a, s))
           running == \E b \in Considered(a, s) : deployment[b].state = "running"
           next == IF old.pending[s] = "inspect" THEN "remove first" ELSE "remove"
           m == Moved(old, s, next, limit)
<1>0. next \in {"remove first", "remove"}
  OBVIOUS
<1>1. /\ old.on /\ scope.persistent /\ old.pending[s] \in {"inspect", "deleting"}
      /\ UNCHANGED <<report, attempt, deployment, asked>>
  BY DEF LookDeployments, At
<1>2. \/ cleaner' = [cleaner EXCEPT ![a] = Settled(old, s, "unknown")]
      \/ cleaner' = [cleaner EXCEPT ![a] = Waiting(old, s, "residual")]
      \/ ~(Bounded(a) /\ running) /\ cleaner' = [cleaner EXCEPT ![a] = m]
  BY Zenon DEF LookDeployments, Moved, EndsOf
<1>3. old \in CleanerRecord /\ "residual" \in Verdicts /\ "unknown" \in Verdicts
      /\ next \in CleanSteps /\ DOMAIN asked' = Attempts
  BY <1>1 DEF Typed, Verdicts, CleanSteps
<1>4. limit \in Nat
  BY LimitIs
<1> HIDE DEF limit, next
<1>5. ASSUME NEW c \in CleanerRecord, cleaner' = [cleaner EXCEPT ![a] = c],
             Same(old, c), Elsewhere(old, c, s), c.result[s] # "absent",
             c.pending[s] \in {"done", "inspect", "deleting"}
      PROVE  CleansRight
  <2>1. cleaner'[a] = c => Waits(a, s)
    BY <1>1, <1>5 DEF Waits, Same
  <2>2. QED
    BY <1>1, <1>3, <1>5, <2>1, OneVisit DEF Same
<1>6. CASE ~(Bounded(a) /\ running) /\ cleaner' = [cleaner EXCEPT ![a] = m]
  <2>1. /\ m \in CleanerRecord /\ Same(old, m) /\ Elsewhere(old, m, s)
        /\ m.pending[s] = next /\ m.limit[s] = limit /\ m.result = old.result
    BY <1>3, <1>4, MovedSlot
  <2> HIDE DEF m
  <2>3. old.bounded => \A b \in Considered(a, s) : deployment[b].state # "running"
    BY <1>1, <1>6 DEF Bounded
  <2>4. limit = Max({attempt[a].said} \cup {deployment[b].end : b \in Considered(a, s)})
    BY DEF limit, EndsOf
  <2>5. cleaner'[a] = m => FindsDeploymentsEnded(a, s)
    BY <1>0, <1>1, <2>1, <2>3, <2>4 DEF FindsDeploymentsEnded, Same
  <2>6. QED
    BY <1>1, <1>3, <1>6, <2>1, <2>5, OneVisit DEF Same
<1>7. CASE cleaner' = [cleaner EXCEPT ![a] = Settled(old, s, "unknown")]
  <2> DEFINE c == Settled(old, s, "unknown")
  <2>1. /\ c \in CleanerRecord /\ Same(old, c) /\ Elsewhere(old, c, s)
        /\ c.result[s] = "unknown" /\ c.pending[s] = "done"
    BY <1>3, VisitedSlot
  <2>2. cleaner' = [cleaner EXCEPT ![a] = c]
    BY <1>7
  <2> HIDE DEF c
  <2>3. QED
    BY <1>5, <2>1, <2>2
<1>8. CASE cleaner' = [cleaner EXCEPT ![a] = Waiting(old, s, "residual")]
  <2> DEFINE c == Waiting(old, s, "residual")
  <2>1. /\ c \in CleanerRecord /\ Same(old, c) /\ Elsewhere(old, c, s)
        /\ c.result[s] = "residual" /\ c.pending[s] = old.pending[s]
    BY <1>3, VisitedSlot
  <2>2. cleaner' = [cleaner EXCEPT ![a] = c]
    BY <1>8
  <2> HIDE DEF c
  <2>3. QED
    BY <1>1, <1>5, <2>1, <2>2
<1>9. QED
  BY <1>2, <1>6, <1>7, <1>8

(* Its resources are asked for.                                            *)
LEMMA RemoveDeltaRight ==
  ASSUME Typed, NEW a \in Attempts, NEW s \in Slots, RemoveDelta(a, s)
  PROVE  CleansRight
<1> DEFINE old == cleaner[a]
           c == IF old.pending[s] = "remove first"
                THEN [old EXCEPT !.vaults = {i \in Created(a, s) : IsVault(i)}] ELSE old
           d == Moved(c, s, "deleting", 0)
           empty == Settled(d, s, IF Unavailable(a, s) = {} THEN "absent" ELSE "residual")
           asking(answered) == [d EXCEPT !.requested = c.requested \cup answered]
<1>1. /\ old.on /\ scope.persistent /\ old.pending[s] \in {"remove first", "remove"}
      /\ UNCHANGED <<report, attempt, deployment>>
  BY DEF RemoveDelta, At
<1>2. \/ /\ Created(a, s) = {} /\ UNCHANGED <<item, asked>>
         /\ cleaner' = [cleaner EXCEPT ![a] = empty]
      \/ \E sent \in SUBSET Created(a, s) : \E answered \in SUBSET sent :
           /\ asked' = [asked EXCEPT ![a] = asked[a] \cup sent]
           /\ cleaner' \in {[cleaner EXCEPT ![a] = Waiting(asking(answered), s, "residual")],
                           [cleaner EXCEPT ![a] = Settled(d, s, "unknown")]}
  <2>1. \/ /\ Created(a, s) = {} /\ UNCHANGED <<item, asked>>
           /\ cleaner' = [cleaner EXCEPT ![a] = empty]
        \/ \E again \in SUBSET (Created(a, s) \cap c.requested) :
             LET sent == (Created(a, s) \ c.requested) \cup again
             IN \E answered \in SUBSET sent :
                  /\ asked' = [asked EXCEPT ![a] = asked[a] \cup sent]
                  /\ cleaner' \in {[cleaner EXCEPT ![a] = Waiting(asking(answered), s, "residual")],
                                  [cleaner EXCEPT ![a] = Settled(d, s, "unknown")]}
    BY Zenon DEF RemoveDelta, Moved
  <2> HIDE DEF c, d, empty, asking
  <2>2. \A again \in SUBSET (Created(a, s) \cap c.requested) :
          (Created(a, s) \ c.requested) \cup again \in SUBSET Created(a, s)
    OBVIOUS
  <2>3. QED
    BY <2>1, <2>2, Zenon
<1>3. old \in CleanerRecord /\ \A o \in {"absent", "residual", "unknown"} : o \in Verdicts
      /\ "deleting" \in CleanSteps /\ 0 \in Nat /\ Created(a, s) \subseteq Items
  BY DEF Typed, Verdicts, CleanSteps, Created, Delta, Listed
<1>4. /\ c \in CleanerRecord /\ c.on = old.on /\ c.bounded = old.bounded /\ c.purging = old.purging
      /\ c.pending = old.pending /\ c.result = old.result /\ c.limit = old.limit
      /\ c.vaults \subseteq old.vaults \cup Created(a, s)
  <2>1. CASE old.pending[s] = "remove first"
    <3> DEFINE v == {i \in Created(a, s) : IsVault(i)}
    <3>1. v \in SUBSET Items /\ v \subseteq Created(a, s)
      BY <1>3
    <3>2. c = [old EXCEPT !.vaults = v]
      BY <2>1
    <3> HIDE DEF v, c
    <3>3. c \in CleanerRecord
      BY <1>3, <3>1, <3>2, Zenon DEF CleanerRecord
    <3>4. /\ c.on = old.on /\ c.bounded = old.bounded /\ c.purging = old.purging
          /\ c.pending = old.pending /\ c.result = old.result /\ c.limit = old.limit
          /\ c.vaults = v
      BY <1>3, <3>2, Zenon DEF CleanerRecord
    <3>5. QED
      BY <3>1, <3>3, <3>4
  <2>2. CASE old.pending[s] # "remove first"
    <3>1. c = old
      BY <2>2
    <3> HIDE DEF c
    <3>2. QED
      BY <1>3, <3>1
  <2>3. QED
    BY <2>1, <2>2
<1> HIDE DEF c
<1>5. /\ d \in CleanerRecord /\ Same(c, d) /\ Elsewhere(c, d, s) /\ d.pending[s] = "deleting"
  BY <1>3, <1>4, MovedSlot
<1> HIDE DEF d
<1>6. ASSUME NEW e \in CleanerRecord, Same(d, e), Elsewhere(d, e, s),
             e.pending[s] \in {"deleting", "done"}, cleaner' = [cleaner EXCEPT ![a] = e],
             DOMAIN asked' = Attempts, \A b \in Attempts : b # a => asked'[b] = asked[b],
             asked'[a] \subseteq asked[a] \cup Created(a, s), asked[a] \subseteq asked'[a],
             e.result[s] = "absent" => Created(a, s) = {} /\ Unavailable(a, s) = {} /\ item' = item
      PROVE  CleansRight
  <2>1. /\ e.on = old.on /\ e.bounded = old.bounded /\ e.purging = old.purging
        /\ e.vaults \subseteq old.vaults \cup Created(a, s)
    BY <1>4, <1>5, <1>6, Zenon DEF Same
  <2>2. Elsewhere(old, e, s)
    BY <1>4, <1>5, <1>6, Zenon DEF Elsewhere
  <2>3. cleaner'[a] = e => Removes(a, s)
    BY <1>1, <1>6, <2>1 DEF Removes
  <2>4. QED
    BY <1>1, <1>6, <2>1, <2>2, <2>3, OneVisit
<1>7. CASE /\ Created(a, s) = {} /\ UNCHANGED <<item, asked>>
           /\ cleaner' = [cleaner EXCEPT ![a] = empty]
  <2> DEFINE o == IF Unavailable(a, s) = {} THEN "absent" ELSE "residual"
             e == Settled(d, s, o)
  <2>1. o \in {"absent", "residual"} /\ (o = "absent" => Unavailable(a, s) = {}) /\ empty = e
    OBVIOUS
  <2> HIDE DEF o
  <2>2. /\ e \in CleanerRecord /\ Same(d, e) /\ Elsewhere(d, e, s)
        /\ e.result[s] = o /\ e.pending[s] = "done"
    <3>1. o \in Verdicts
      BY <1>3, <2>1
    <3>2. QED
      BY <1>5, <3>1, VisitedSlot
  <2>3. cleaner' = [cleaner EXCEPT ![a] = e] /\ DOMAIN asked' = Attempts /\ asked' = asked
    BY <1>7, <2>1 DEF Typed
  <2> HIDE DEF e
  <2>4. e.result[s] = "absent" => Created(a, s) = {} /\ Unavailable(a, s) = {} /\ item' = item
    BY <1>7, <2>1, <2>2
  <2>5. QED
    BY <1>6, <2>2, <2>3, <2>4
<1>8. ASSUME NEW answered \in SUBSET Created(a, s), NEW sent \in SUBSET Created(a, s),
             asked' = [asked EXCEPT ![a] = asked[a] \cup sent],
             cleaner' \in {[cleaner EXCEPT ![a] = Waiting(asking(answered), s, "residual")],
                          [cleaner EXCEPT ![a] = Settled(d, s, "unknown")]}
      PROVE  CleansRight
  <2> DEFINE q == asking(answered)
  <2>1. /\ DOMAIN asked' = Attempts /\ asked'[a] = asked[a] \cup sent
        /\ \A b \in Attempts : b # a => asked'[b] = asked[b]
    BY <1>8 DEF Typed
  <2>2. c.requested \cup answered \in SUBSET Items
    BY <1>3, <1>4, CleanerIs
  <2>3. /\ q \in CleanerRecord /\ Same(d, q)
        /\ q.pending = d.pending /\ q.result = d.result /\ q.limit = d.limit
    <3>1. q \in CleanerRecord
      BY <1>5, <2>2, Zenon DEF CleanerRecord
    <3>2. Same(d, q) /\ q.pending = d.pending /\ q.result = d.result /\ q.limit = d.limit
      BY <1>5, Zenon DEF CleanerRecord, Same
    <3>3. QED
      BY <3>1, <3>2
  <2> HIDE DEF q
  <2>4. CASE cleaner' = [cleaner EXCEPT ![a] = Waiting(q, s, "residual")]
    <3> DEFINE e == Waiting(q, s, "residual")
    <3>1. /\ e \in CleanerRecord /\ Same(q, e) /\ Elsewhere(q, e, s)
          /\ e.result[s] = "residual" /\ e.pending[s] = q.pending[s]
      <4>1. "residual" \in Verdicts
        BY <1>3
      <4>2. QED
        BY <2>3, <4>1, VisitedSlot
    <3>2. cleaner' = [cleaner EXCEPT ![a] = e]
      BY <2>4
    <3> HIDE DEF e
    <3>3. Same(d, e) /\ Elsewhere(d, e, s) /\ e.pending[s] = "deleting"
      BY <1>5, <2>3, <3>1, Zenon DEF Same, Elsewhere
    <3>4. QED
      BY <1>6, <2>1, <3>1, <3>2, <3>3
  <2>5. CASE cleaner' = [cleaner EXCEPT ![a] = Settled(d, s, "unknown")]
    <3> DEFINE e == Settled(d, s, "unknown")
    <3>1. /\ e \in CleanerRecord /\ Same(d, e) /\ Elsewhere(d, e, s)
          /\ e.result[s] = "unknown" /\ e.pending[s] = "done"
      BY <1>3, <1>5, VisitedSlot
    <3>2. cleaner' = [cleaner EXCEPT ![a] = e]
      BY <2>5
    <3> HIDE DEF e
    <3>3. QED
      BY <1>6, <2>1, <3>1, <3>2
  <2>6. QED
    BY <1>8, <2>4, <2>5 DEF q
<1>9. QED
  <2> HIDE DEF asking
  <2>1. CASE \E sent \in SUBSET Created(a, s) : \E answered \in SUBSET sent :
               /\ asked' = [asked EXCEPT ![a] = asked[a] \cup sent]
               /\ cleaner' \in {[cleaner EXCEPT ![a] = Waiting(asking(answered), s, "residual")],
                               [cleaner EXCEPT ![a] = Settled(d, s, "unknown")]}
    <3>1. PICK sent \in SUBSET Created(a, s) : \E answered \in SUBSET sent :
                 /\ asked' = [asked EXCEPT ![a] = asked[a] \cup sent]
                 /\ cleaner' \in {[cleaner EXCEPT ![a] = Waiting(asking(answered), s, "residual")],
                                 [cleaner EXCEPT ![a] = Settled(d, s, "unknown")]}
      BY <2>1
    <3>2. PICK answered \in SUBSET sent :
                 /\ asked' = [asked EXCEPT ![a] = asked[a] \cup sent]
                 /\ cleaner' \in {[cleaner EXCEPT ![a] = Waiting(asking(answered), s, "residual")],
                                 [cleaner EXCEPT ![a] = Settled(d, s, "unknown")]}
      BY <3>1
    <3>3. answered \in SUBSET Created(a, s)
      BY <3>1, <3>2
    <3>4. QED
      BY <1>8, <3>2, <3>3
  <2>2. QED
    BY <1>2, <1>7, <2>1

(* A cleanup that goes on, or reports.                                     *)
LEMMA CleanupGoesOn ==
  ASSUME Typed, NEW a \in Attempts,
         NextRound(a) \/ Report(a) \/ \E i \in Items : Purge(a, i)
  PROVE  CleansRight
<1> DEFINE old == cleaner[a]
<1>1. old \in CleanerRecord /\ report \in [Attempts -> ReportRecord] /\ DOMAIN asked = Attempts
  BY DEF Typed
<1>2. CASE NextRound(a)
  <2> DEFINE c == [old EXCEPT !.visited = {}, !.rounds = @ + 1]
  <2>1. cleaner' = [cleaner EXCEPT ![a] = c] /\ UNCHANGED <<attempt, report, asked>>
    BY <1>2 DEF NextRound
  <2>2. old.rounds + 1 \in Nat /\ {} \in SUBSET Slots
    BY <1>1, CleanerIs, SMT
  <2>3. c \in CleanerRecord
    BY <1>1, <2>2, Zenon DEF CleanerRecord
  <2>4. /\ Same(old, c) /\ c.pending = old.pending /\ c.result = old.result /\ c.limit = old.limit
    BY <1>1, Zenon DEF CleanerRecord, Same
  <2> HIDE DEF c
  <2>5. cleaner'[a] = c => GoesOn(a)
    BY <2>1, <2>4, Zenon DEF GoesOn, Same
  <2>6. QED
    BY <1>1, <2>1, <2>3, <2>5, OneCleanup DEF CleanMoves
<1>3. CASE Report(a)
  <2> DEFINE complete == \A s \in Slots : old.result[s] = "absent"
             purging == IF complete /\ scope.site THEN Purgeable(a) ELSE {}
             c == [old EXCEPT !.purging = purging]
             r == [report[a] EXCEPT !.given = TRUE, !.complete = complete]
  <2>1. /\ cleaner' = [cleaner EXCEPT ![a] = c] /\ old.on
        /\ report' = [report EXCEPT ![a] = r]
        /\ UNCHANGED <<group, item, deployment, attempt, asked>>
    BY <1>3 DEF Report
  <2>2. purging \subseteq old.vaults \cup {Product(a)}
    BY DEF Purgeable
  <2>3. purging \in SUBSET Items
    BY <1>1, <2>2, CleanerIs, NamesDiffer
  <2>4. complete \in Flags /\ TRUE \in Flags
    BY DEF Flags
  <2>5. r.complete <=> complete
    <3> HIDE DEF complete
    <3>1. report[a] \in ReportRecord
      BY <1>1
    <3>2. QED
      BY <3>1, Zenon DEF ReportRecord
  <2>6. r \in ReportRecord /\ r.settled = report[a].settled
    <3> HIDE DEF complete
    <3>1. report[a] \in ReportRecord
      BY <1>1
    <3>2. QED
      BY <2>4, <3>1, Zenon DEF ReportRecord
  <2> HIDE DEF purging
  <2>7. c \in CleanerRecord
    BY <1>1, <2>3, Zenon DEF CleanerRecord
  <2>8. /\ c.on = old.on /\ c.bounded = old.bounded /\ c.vaults = old.vaults /\ c.purging = purging
        /\ c.pending = old.pending /\ c.result = old.result /\ c.limit = old.limit
    BY <1>1, Zenon DEF CleanerRecord
  <2> HIDE DEF c, r
  <2>9. /\ report' \in [Attempts -> ReportRecord] /\ report'[a] = r
        /\ \A b \in Attempts : b # a => report'[b] = report[b]
    BY <1>1, <2>1, <2>6
  <2>10. cleaner'[a] = c => Reports(a)
    BY <2>1, <2>2, <2>5, <2>6, <2>8, <2>9, Zenon DEF Reports
  <2>11. QED
    BY <1>1, <2>1, <2>7, <2>9, <2>10, OneCleanup DEF CleanMoves
<1>4. ASSUME NEW i \in Items, Purge(a, i)
      PROVE  CleansRight
  <2> DEFINE c == [old EXCEPT !.purging = @ \ {i}]
  <2>1. /\ cleaner' = [cleaner EXCEPT ![a] = c] /\ UNCHANGED <<attempt, report>>
        /\ old.on /\ i \in old.purging
        /\ \/ asked' = asked
           \/ item[i].state = "soft" /\ asked' = [asked EXCEPT ![a] = asked[a] \cup {i}]
    BY <1>4 DEF Purge
  <2>2. old.purging \ {i} \in SUBSET Items
    BY <1>1, CleanerIs
  <2>3. c \in CleanerRecord
    BY <1>1, <2>2, Zenon DEF CleanerRecord
  <2>4. /\ c.on = old.on /\ c.bounded = old.bounded /\ c.vaults = old.vaults
        /\ c.purging = old.purging \ {i}
        /\ c.pending = old.pending /\ c.result = old.result /\ c.limit = old.limit
    BY <1>1, Zenon DEF CleanerRecord
  <2> HIDE DEF c
  <2>5. /\ DOMAIN asked' = Attempts /\ \A b \in Attempts : b # a => asked'[b] = asked[b]
        /\ asked'[a] = asked[a] \/ (item[i].state = "soft" /\ asked'[a] = asked[a] \cup {i})
    BY <1>1, <2>1
  <2>6. cleaner'[a] = c => GoesOn(a)
    BY <2>1, <2>4, <2>5 DEF GoesOn
  <2>7. \A b \in Attempts : b # a => /\ report'[b] = report[b] /\ asked'[b] = asked[b]
                                     /\ attempt'[b].phase = attempt[b].phase
    BY <2>1, <2>5
  <2>8. report' \in [Attempts -> ReportRecord]
    BY <1>1, <2>1
  <2>9. QED
    BY <2>1, <2>3, <2>5, <2>6, <2>7, <2>8, OneCleanup DEF CleanMoves
<1>5. QED
  BY <1>2, <1>3, <1>4

(* A cleanup that begins, or ends.                                         *)
LEMMA CleanupBegins ==
  ASSUME Typed, NEW a \in Attempts, StartCleanup(a) \/ Reconcile(a)
  PROVE  CleansRight
<1>1. report \in [Attempts -> ReportRecord] /\ DOMAIN asked = Attempts
      /\ attempt \in [Attempts -> AttemptRecord]
  BY DEF Typed
<1>2. PICK bounded \in BOOLEAN :
        /\ Begin(a, bounded) /\ attempt[a].durable
        /\ IF bounded THEN /\ attempt[a].phase = "over"
                           /\ attempt' = [attempt EXCEPT ![a].reconciled = @ + 1]
           ELSE /\ attempt[a].phase = "ended"
                /\ attempt' = [attempt EXCEPT ![a].phase = "cleaning"]
  BY DEF StartCleanup, Reconcile
<1>3. UNCHANGED <<deployment, asked>>
  BY DEF StartCleanup, Reconcile
<1>4. \A b \in Attempts : b # a => attempt'[b].phase = attempt[b].phase
  BY <1>1, <1>2
<1>5. /\ bounded => attempt'[a].phase = "over"
      /\ ~bounded => attempt'[a].phase = "cleaning" /\ attempt'[a].host = attempt[a].host
  <2>1. attempt[a] \in AttemptRecord
    BY <1>1
  <2>2. CASE bounded
    <3>1. attempt'[a] = [attempt[a] EXCEPT !.reconciled = @ + 1]
      BY <1>1, <1>2, <2>2
    <3>2. QED
      BY <1>2, <2>1, <2>2, <3>1, SMT DEF AttemptRecord
  <2>3. CASE ~bounded
    <3>1. attempt'[a] = [attempt[a] EXCEPT !.phase = "cleaning"]
      BY <1>1, <1>2, <2>3
    <3>2. QED
      BY <1>2, <2>1, <2>3, <3>1, Zenon DEF AttemptRecord
  <2>4. QED
    BY <2>2, <2>3
<1> DEFINE c == Fresh(bounded)
           settled == bounded \/ ~AtWork(a)
           r == [given |-> FALSE, complete |-> FALSE, settled |-> settled]
<1>6. /\ c \in CleanerRecord /\ c.on /\ c.bounded = bounded /\ c.vaults = {} /\ c.purging = {}
      /\ \A s \in Slots : c.pending[s] = "inspect" /\ c.result[s] = "none"
  BY FreshIs
<1>7. cleaner' = [cleaner EXCEPT ![a] = c] /\ report' = [report EXCEPT ![a] = r]
  BY <1>2 DEF Begin
<1>8. settled \in Flags /\ FALSE \in Flags
  BY DEF Flags
<1>9. settled => bounded \/ ~AtWork(a)
  OBVIOUS
<1> HIDE DEF c, settled
<1>10. r \in ReportRecord /\ ~r.complete /\ r.settled = settled
  BY <1>8, Zenon DEF ReportRecord
<1> HIDE DEF r
<1>11. /\ report' \in [Attempts -> ReportRecord] /\ report'[a] = r
       /\ \A b \in Attempts : b # a => report'[b] = report[b]
  BY <1>1, <1>7, <1>10
<1>12. cleaner'[a] = c => Begins(a)
  <2>1. SUFFICES ASSUME cleaner'[a] = c PROVE Begins(a)
    OBVIOUS
  <2>2. CASE bounded
    BY <1>2, <1>3, <1>5, <1>6, <1>10, <1>11, <2>1, <2>2, Zenon DEF Begins
  <2>3. CASE ~bounded
    BY <1>2, <1>3, <1>5, <1>6, <1>9, <1>10, <1>11, <2>1, <2>3, Zenon DEF Begins
  <2>4. QED
    BY <2>2, <2>3
<1>13. cleaner'[a] = c => CleanMoves(a)
  BY <1>12 DEF CleanMoves
<1>14. /\ DOMAIN asked' = Attempts
       /\ \A b \in Attempts : b # a => /\ report'[b] = report[b] /\ asked'[b] = asked[b]
                                       /\ attempt'[b].phase = attempt[b].phase
  BY <1>1, <1>3, <1>4, <1>11
<1>15. QED
  BY <1>6, <1>7, <1>11, <1>13, <1>14, OneCleanup

(* A cleanup that is over, or cut short.                                   *)
LEMMA CleanupStops ==
  ASSUME Typed, NEW a \in Attempts, Return(a) \/ Interrupt(a) \/ Over(a)
  PROVE  CleansRight
<1>1. /\ cleaner' = [cleaner EXCEPT ![a] = Idle] /\ UNCHANGED <<report, asked>>
      /\ \A b \in Attempts : b # a => attempt'[b].phase = attempt[b].phase
  <2>1. CASE Return(a) \/ Interrupt(a)
    BY <2>1 DEF Return, Interrupt
  <2>2. CASE Over(a)
    <3>1. PICK said : attempt' = [attempt EXCEPT ![a].phase = "over", ![a].host = FALSE,
                                          ![a].slot = 1, ![a].step = "check", ![a].said = said]
      BY <2>2 DEF Over
    <3>2. \A b \in Attempts : b # a => attempt'[b] = attempt[b]
      BY <3>1 DEF Typed
    <3>3. QED
      BY <2>2, <3>2 DEF Over
  <2>3. QED
    BY <2>1, <2>2
<1>2. Idle \in CleanerRecord
  BY FreshIs
<1>3. report' \in [Attempts -> ReportRecord] /\ DOMAIN asked' = Attempts
  BY <1>1 DEF Typed
<1>4. cleaner'[a] = Idle => Stops(a)
  BY <1>1 DEF Stops
<1>5. QED
  BY <1>1, <1>2, <1>3, <1>4, OneCleanup DEF CleanMoves

(* Only the end of an attempt's jobs makes it over.                        *)
LEMMA NotOver ==
  ASSUME Typed, NEW a \in Attempts,
         \/ Preflight(a) \/ Retain(a) \/ CheckSlot(a) \/ CallCreate(a) \/ Confirm(a)
         \/ StopHost(a) \/ Succeed(a) \/ Fail(a)
  PROVE  \A b \in Attempts : attempt'[b].phase = "over" => attempt[b].phase = "over"
<1>1. attempt \in [Attempts -> AttemptRecord] /\ attempt[a] \in AttemptRecord
  BY DEF Typed
<1>2. \E r : attempt' = [attempt EXCEPT ![a] = r] /\ (r.phase = "over" => attempt[a].phase = "over")
  <2>1. CASE Preflight(a)
    <3>1. attempt' = [attempt EXCEPT ![a] = [attempt[a] EXCEPT !.phase = "checked",
                        !.snapshot = IF scope.persistent THEN Listed ELSE {}]]
      BY <2>1 DEF Preflight
    <3>2. [attempt[a] EXCEPT !.phase = "checked",
             !.snapshot = IF scope.persistent THEN Listed ELSE {}].phase = "checked"
      BY <1>1, SMT DEF AttemptRecord
    <3>3. QED
      BY <3>1, <3>2
  <2>2. CASE Retain(a)
    <3>1. attempt' = [attempt EXCEPT ![a] = [attempt[a] EXCEPT !.phase = "preparing", !.durable = TRUE]]
      BY <2>2 DEF Retain
    <3>2. [attempt[a] EXCEPT !.phase = "preparing", !.durable = TRUE].phase = "preparing"
      BY <1>1, SMT DEF AttemptRecord
    <3>3. QED
      BY <3>1, <3>2
  <2>3. CASE CheckSlot(a) \/ StopHost(a)
    <3>1. PICK r \in {[attempt[a] EXCEPT !.step = IF scope.persistent THEN "confirm" ELSE "call"],
                      [attempt[a] EXCEPT !.host = FALSE]} : attempt' = [attempt EXCEPT ![a] = r]
      BY <2>3 DEF CheckSlot, StopHost
    <3>2. r.phase = attempt[a].phase
      BY <1>1, <3>1, SMT DEF AttemptRecord
    <3>3. QED
      BY <3>1, <3>2
  <2>4. CASE CallCreate(a) \/ Succeed(a) \/ Fail(a)
    <3>1. PICK r \in {[attempt[a] EXCEPT !.step = "confirm"],
                      [attempt[a] EXCEPT !.phase = "ended", !.slot = 1, !.step = "check"]} :
                  attempt' = [attempt EXCEPT ![a] = r]
      BY <2>4 DEF CallCreate, Succeed, Fail, Ended
    <3>2. r.phase \in {attempt[a].phase, "ended"}
      <4>1. CASE r = [attempt[a] EXCEPT !.step = "confirm"]
        BY <1>1, <4>1, SMT DEF AttemptRecord
      <4>2. CASE r = [attempt[a] EXCEPT !.phase = "ended", !.slot = 1, !.step = "check"]
        BY <1>1, <4>2, SMT DEF AttemptRecord
      <4>3. QED
        BY <3>1, <4>1, <4>2
    <3>3. QED
      BY <3>1, <3>2
  <2>5. CASE Confirm(a)
    <3>1. PICK r \in {[attempt[a] EXCEPT !.slot = @ + 1, !.step = "check"],
                      [attempt[a] EXCEPT !.phase = "working", !.host = TRUE, !.slot = 1, !.step = "check"]} :
                  attempt' = [attempt EXCEPT ![a] = r]
      BY <2>5, Zenon DEF Confirm
    <3>2. r.phase \in {attempt[a].phase, "working"}
      <4>1. CASE r = [attempt[a] EXCEPT !.slot = @ + 1, !.step = "check"]
        BY <1>1, <4>1, SMT DEF AttemptRecord
      <4>2. CASE r = [attempt[a] EXCEPT !.phase = "working", !.host = TRUE, !.slot = 1, !.step = "check"]
        BY <1>1, <4>2, SMT DEF AttemptRecord
      <4>3. QED
        BY <3>1, <4>1, <4>2
    <3>3. QED
      BY <3>1, <3>2
  <2>6. QED
    BY <2>1, <2>2, <2>3, <2>4, <2>5
<1>3. QED
  BY <1>1, <1>2

-------------------------------------------------------------------------------
(* Every step is a move.                                                   *)

AttemptsRight == attempt' \in [Attempts -> AttemptRecord] /\ \A a \in Attempts : AttemptMoves(a)
DeploymentsRight ==
  deployment' \in [Attempts -> DeploymentRecord] /\ \A a \in Attempts : DeploymentMoves(a)
ItemsRight == item' \in [Items -> ItemRecord] /\ \A i \in Items : ItemMoves(i)
GroupsRight == group' \in [Names -> GroupStates] /\ \A n \in Names : GroupMoves(n)
ClockRight == now' = now \/ (now' = now + 1 /\ UNCHANGED <<group, item, deployment, attempt>>)
Right ==
  AttemptsRight /\ DeploymentsRight /\ ItemsRight /\ GroupsRight /\ ClockRight /\ CleansRight

(* What stays as it is stays right.                                        *)
LEMMA StaysRight ==
  ASSUME Typed
  PROVE  /\ UNCHANGED attempt => AttemptsRight
         /\ UNCHANGED deployment => DeploymentsRight
         /\ UNCHANGED item => ItemsRight
         /\ UNCHANGED group => GroupsRight
         /\ UNCHANGED now => ClockRight
         /\ UNCHANGED <<cleaner, report, asked, attempt>> => CleansRight
<1>1. UNCHANGED attempt => \A a \in Attempts : attempt'[a].phase = "over" => attempt[a].phase = "over"
  OBVIOUS
<1>2. UNCHANGED <<cleaner, report, asked, attempt>> => CleansRight
  BY <1>1, QuietStep
<1>3. QED
  BY <1>2, Stays DEF Typed, AttemptsRight, DeploymentsRight, ItemsRight, GroupsRight, ClockRight

(* Every step makes the moves, and keeps the kinds.                        *)
LEMMA StepMoves ==
  ASSUME Typed, CallsAreEphemeral, Ends, [Next]_vars
  PROVE  Typed' /\ Moves /\ \A a \in Attempts : CleanMoves(a)
<1>1. Right => Typed' /\ Moves /\ \A a \in Attempts : CleanMoves(a)
  <2>1. SUFFICES ASSUME Right PROVE Typed' /\ Moves /\ \A a \in Attempts : CleanMoves(a)
    OBVIOUS
  <2>2. UNCHANGED scope
    BY ScopeStays
  <2>3. /\ Attempts' = Attempts /\ Names' = Names /\ Items' = Items
        /\ AttemptRecord' = AttemptRecord /\ CleanerRecord' = CleanerRecord
    BY <2>2, Fixed
  <2>4. Moves
    BY <2>1, <2>2 DEF Right, AttemptsRight, DeploymentsRight, ItemsRight, GroupsRight, ClockRight, Moves
  <2>5. now' \in Nat
    BY <2>1, SMT DEF Right, ClockRight, Typed
  <2>6. Typed'
    BY <2>1, <2>2, <2>3, <2>5
    DEF Right, AttemptsRight, DeploymentsRight, ItemsRight, GroupsRight, CleansRight, Typed
  <2>7. QED
    BY <2>1, <2>4, <2>6 DEF Right, CleansRight
<1>2. Right
  <2>1. CASE UNCHANGED vars
    BY <2>1, StaysRight DEF vars, Right
  <2>2. CASE Tick
    BY <2>2, StaysRight DEF Tick, Right, ClockRight
  <2>3. ASSUME NEW a \in Attempts, Produce(a) \/ Connect(a)
        PROVE  Right
    <3>1. ItemsRight
      BY <2>3, ItemChanges DEF ItemsRight
    <3>2. QED
      BY <2>3, <3>1, StaysRight DEF Produce, Connect, Right
  <2>4. ASSUME NEW a \in Attempts, EndDeployment(a) \/ Deploy(a)
        PROVE  Right
    <3>1. DeploymentsRight
      BY <2>4, DeploymentChanges DEF DeploymentsRight
    <3>2. QED
      BY <2>4, <3>1, StaysRight DEF EndDeployment, Deploy, Right
  <2>5. ASSUME NEW i \in Items, SettleItem(i)
        PROVE  Right
    <3>1. ItemsRight
      BY <2>5, ItemChanges DEF ItemsRight
    <3>2. QED
      BY <2>5, <3>1, StaysRight DEF SettleItem, Right
  <2>6. ASSUME NEW a \in Attempts, NEW s \in Slots, SettleGroup(a, s)
        PROVE  Right
    <3>1. ItemsRight /\ GroupsRight /\ DeploymentsRight
      BY <2>6, ItemChanges, GroupChanges, DeploymentChanges DEF ItemsRight, GroupsRight, DeploymentsRight
    <3>2. UNCHANGED <<now, attempt, cleaner, report, asked>>
      BY <2>6 DEF SettleGroup
    <3>3. QED
      BY <3>1, <3>2, StaysRight DEF Right
  <2>7. ASSUME NEW s \in Slots, DropGroup(s)
        PROVE  Right
    <3>1. ItemsRight /\ GroupsRight /\ DeploymentsRight
      BY <2>7, ItemChanges, GroupChanges, DeploymentChanges DEF ItemsRight, GroupsRight, DeploymentsRight
    <3>2. UNCHANGED <<now, attempt, cleaner, report, asked>>
      BY <2>7 DEF DropGroup
    <3>3. QED
      BY <3>1, <3>2, StaysRight DEF Right
  <2>8. ASSUME NEW a \in Attempts, NEW s \in Slots, TakeName(a, s)
        PROVE  Right
    <3>1. GroupsRight
      BY <2>8, GroupChanges DEF GroupsRight
    <3>2. QED
      BY <2>8, <3>1, StaysRight DEF TakeName, Right
  <2>9. ASSUME NEW a \in Attempts,
               \/ Preflight(a) \/ Retain(a) \/ CheckSlot(a) \/ CallCreate(a) \/ Confirm(a)
               \/ StopHost(a) \/ Succeed(a) \/ Fail(a)
        PROVE  Right
    <3>1. AttemptsRight
      BY <2>9, AttemptChanges DEF AttemptsRight
    <3>2. UNCHANGED <<now, item, deployment, cleaner, report, asked>>
      BY <2>9 DEF Preflight, Retain, CheckSlot, CallCreate, Confirm, StopHost, Succeed, Fail
    <3>3. CleansRight
      BY <2>9, <3>2, NotOver, QuietStep
    <3>4. GroupsRight
      <4>1. CASE CallCreate(a)
        BY <4>1, GroupChanges DEF GroupsRight
      <4>2. CASE ~CallCreate(a)
        <5>1. UNCHANGED group
          BY <2>9, <4>2 DEF Preflight, Retain, CheckSlot, Confirm, StopHost, Succeed, Fail
        <5>2. QED
          BY <5>1, StaysRight
      <4>3. QED
        BY <4>1, <4>2
    <3>5. QED
      BY <3>1, <3>2, <3>3, <3>4, StaysRight DEF Right
  <2>10. ASSUME NEW a \in Attempts, StartCleanup(a) \/ Reconcile(a) \/ Over(a)
         PROVE  Right
    <3>1. AttemptsRight
      BY <2>10, AttemptChanges DEF AttemptsRight
    <3>2. UNCHANGED <<now, group, item, deployment>>
      BY <2>10 DEF StartCleanup, Reconcile, Over
    <3>3. CleansRight
      BY <2>10, CleanupBegins, CleanupStops
    <3>4. QED
      BY <3>1, <3>2, <3>3, StaysRight DEF Right
  <2>11. ASSUME NEW a \in Attempts,
                \/ Interrupt(a) \/ NextRound(a) \/ Report(a) \/ Return(a)
                \/ \E s \in Slots : CallFails(a, s) \/ LookGroup(a, s) \/ LookDeployments(a, s)
         PROVE  Right
    <3>1. UNCHANGED <<now, group, item, deployment, attempt>>
      <4>1. ASSUME NEW s \in Slots, CallFails(a, s)
            PROVE  UNCHANGED <<now, group, item, deployment, attempt>>
        BY <4>1 DEF CallFails
      <4>2. ASSUME NEW s \in Slots, LookGroup(a, s)
            PROVE  UNCHANGED <<now, group, item, deployment, attempt>>
        BY <4>2 DEF LookGroup
      <4>3. ASSUME NEW s \in Slots, LookDeployments(a, s)
            PROVE  UNCHANGED <<now, group, item, deployment, attempt>>
        BY <4>3 DEF LookDeployments
      <4>4. QED
        BY <2>11, <4>1, <4>2, <4>3 DEF Interrupt, NextRound, Report, Return
    <3>2. CleansRight
      BY <2>11, CleanupStops, CleanupGoesOn, CallFailsRight, LookGroupRight, LookDeploymentsRight
    <3>3. QED
      BY <3>1, <3>2, StaysRight DEF Right
  <2>12. ASSUME NEW a \in Attempts, NEW s \in Slots, SubmitDelete(a, s)
         PROVE  Right
    <3>1. UNCHANGED <<now, item, deployment, attempt>>
      BY <2>12 DEF SubmitDelete
    <3>2. GroupsRight
      BY <2>12, GroupChanges DEF GroupsRight
    <3>3. CleansRight
      BY <2>12, SubmitDeleteRight
    <3>4. QED
      BY <3>1, <3>2, <3>3, StaysRight DEF Right
  <2>13. ASSUME NEW a \in Attempts, NEW s \in Slots, RemoveDelta(a, s)
         PROVE  Right
    <3>1. UNCHANGED <<now, group, deployment, attempt>>
      BY <2>13 DEF RemoveDelta
    <3>2. ItemsRight
      BY <2>13, ItemChanges DEF ItemsRight
    <3>3. CleansRight
      BY <2>13, RemoveDeltaRight
    <3>4. QED
      BY <3>1, <3>2, <3>3, StaysRight DEF Right
  <2>14. ASSUME NEW a \in Attempts, NEW i \in Items, Purge(a, i)
         PROVE  Right
    <3>1. UNCHANGED <<now, group, deployment, attempt>>
      BY <2>14 DEF Purge
    <3>2. ItemsRight
      BY <2>14, ItemChanges DEF ItemsRight
    <3>3. CleansRight
      BY <2>14, CleanupGoesOn
    <3>4. QED
      BY <3>1, <3>2, <3>3, StaysRight DEF Right
  <2>15. ASSUME Azure \/ Others
         PROVE  Right
    BY <2>15, <2>2, <2>3, <2>4, <2>5, <2>6, <2>7, <2>8 DEF Azure, Others
  <2>16. ASSUME NEW a \in Attempts, Work(a)
         PROVE  Right
    BY <2>16, <2>3, <2>4, <2>9, <2>10, <2>11 DEF Work
  <2>17. ASSUME NEW a \in Attempts, Clean(a)
         PROVE  Right
    BY <2>17, <2>11, <2>12, <2>13, <2>14 DEF Clean
  <2>18. QED
    BY <2>1, <2>15, <2>16, <2>17 DEF Next
<1>3. QED
  BY <1>1, <1>2

-------------------------------------------------------------------------------
(* The invariants hold.  What they start from:                             *)

Base == Typed /\ CallsAreEphemeral /\ Ends

FieldsTyped ==
  /\ now \in Nat
  /\ \A a \in Attempts : /\ deployment[a].start \in Nat /\ deployment[a].end \in Nat
                         /\ deployment[a].state \in DeploymentStates
                         /\ attempt[a].said \in Nat /\ attempt[a].phase \in Phases
                         /\ attempt[a].step \in JobSteps
                         /\ attempt[a].snapshot \subseteq Items
  /\ \A i \in Items : item[i].created \in Nat /\ item[i].state \in ItemStates
  /\ \A n \in Names : group[n] \in GroupStates

(* They follow from the kinds of the records.                              *)
LEMMA FieldsAre == Typed => FieldsTyped
<1>0. SUFFICES ASSUME Typed PROVE FieldsTyped
  OBVIOUS
<1>1. \A a \in Attempts : deployment[a] \in DeploymentRecord /\ attempt[a] \in AttemptRecord
  BY <1>0 DEF Typed
<1>2. \A i \in Items : item[i] \in ItemRecord
  BY <1>0 DEF Typed
<1>3. \A a \in Attempts : /\ deployment[a].start \in Nat /\ deployment[a].end \in Nat
                          /\ deployment[a].state \in DeploymentStates
  BY <1>1, SMT DEF DeploymentRecord
<1>4. \A a \in Attempts : /\ attempt[a].said \in Nat /\ attempt[a].phase \in Phases
                          /\ attempt[a].step \in JobSteps /\ attempt[a].snapshot \subseteq Items
  BY <1>1, SMT DEF AttemptRecord
<1>5. \A i \in Items : item[i].created \in Nat /\ item[i].state \in ItemStates
  BY <1>2, SMT DEF ItemRecord
<1>6. QED
  BY <1>0, <1>3, <1>4, <1>5 DEF Typed, FieldsTyped

(* A deployment that is there keeps its start, and does not end earlier.   *)
LEMMA DeploymentLater ==
  ASSUME Typed, Typed', Ends, Moves, NEW a \in Attempts
  PROVE  /\ deployment'[a].start <= now /\ deployment'[a].end <= now
         /\ deployment[a].end <= deployment'[a].end
         /\ deployment[a].state # "none" =>
              deployment'[a].start = deployment[a].start /\ deployment'[a].state # "none"
         /\ deployment[a].state # "running" /\ attempt[a].phase # "working" =>
              deployment'[a] = deployment[a]
<1> DEFINE d == deployment[a]
           started == [state |-> "running", start |-> now, end |-> now]
           ended == [d EXCEPT !.state = "ended", !.end = now]
<1>1. d \in DeploymentRecord /\ now \in Nat /\ d.start <= now /\ d.end <= now
  BY DEF Typed, Ends
<1>2. \/ deployment'[a] = d
      \/ d.state = "none" /\ attempt[a].phase = "working" /\ deployment'[a] = started
      \/ d.state = "running" /\ deployment'[a] = ended
  BY DEF Moves, DeploymentMoves
<1>3. CASE deployment'[a] = d
  BY <1>1, <1>3, SMT DEF DeploymentRecord
<1>4. CASE d.state = "none" /\ attempt[a].phase = "working" /\ deployment'[a] = started
  BY <1>1, <1>4, SMT DEF DeploymentRecord
<1>5. CASE d.state = "running" /\ deployment'[a] = ended
  BY <1>1, <1>5, SMT DEF DeploymentRecord
<1>6. QED
  BY <1>2, <1>3, <1>4, <1>5

(* The base holds at first.                                                *)
LEMMA InitBase == Init => Base
<1>1. SUFFICES ASSUME Init PROVE Base
  OBVIOUS
<1>2. attempt \in [Attempts -> AttemptRecord]
  <2>1. "new" \in Phases /\ {} \in SUBSET Items /\ 0 \in Nat
    BY DEF Phases
  <2>2. [phase |-> "new", snapshot |-> {}, durable |-> FALSE, slot |-> 1, step |-> "check",
         host |-> FALSE, said |-> 0, reconciled |-> 0] \in AttemptRecord
    BY <2>1, Kinds, Zenon DEF AttemptRecord
  <2>3. QED
    BY <1>1, <2>2 DEF Init
<1>3. item \in [Items -> ItemRecord]
  <2>1. Nothing \in ItemRecord /\ [Nothing EXCEPT !.state = "present"] \in ItemRecord
    <3>1. "none" \in ItemStates /\ "present" \in ItemStates /\ 0 \in Nat
      BY DEF ItemStates
    <3>2. Nothing \in ItemRecord
      BY <3>1, Kinds, Zenon DEF Nothing, ItemRecord
    <3>3. QED
      BY <3>1, <3>2, Zenon DEF ItemRecord
  <2>2. QED
    BY <1>1, <2>1 DEF Init
<1>4. /\ deployment \in [Attempts -> DeploymentRecord]
      /\ \A a \in Attempts : deployment[a].start = 0 /\ deployment[a].end = 0
  BY <1>1 DEF Init, DeploymentRecord, DeploymentStates
<1>5. cleaner \in [Attempts -> CleanerRecord]
  BY <1>1, FreshIs DEF Init
<1>6. report \in [Attempts -> ReportRecord]
  <2>1. [given |-> FALSE, complete |-> FALSE, settled |-> TRUE] \in ReportRecord
    BY Kinds, Zenon DEF ReportRecord
  <2>2. QED
    BY <1>1, <2>1 DEF Init
<1>7. group \in [Names -> GroupStates] /\ scope \in Scenarios /\ now = 0 /\ DOMAIN asked = Attempts
  BY <1>1 DEF Init, GroupStates
<1>8. CallsAreEphemeral
  BY <1>1 DEF Init, CallsAreEphemeral
<1>9. QED
  BY <1>2, <1>3, <1>4, <1>5, <1>6, <1>7, <1>8, SMT DEF Base, Typed, Ends

(* Every step keeps the base.                                              *)
LEMMA NextBase == Base /\ [Next]_vars => Base' /\ Moves /\ \A a \in Attempts : CleanMoves(a)
<1>1. SUFFICES ASSUME Base, [Next]_vars
               PROVE  Base' /\ Moves /\ \A a \in Attempts : CleanMoves(a)
  OBVIOUS
<1>2. Typed' /\ Moves /\ \A a \in Attempts : CleanMoves(a)
  BY <1>1, StepMoves DEF Base
<1>3. Attempts' = Attempts /\ UNCHANGED scope
  BY <1>2, Fixed DEF Moves
<1>4. CallsAreEphemeral'
  BY <1>1, <1>2, <1>3 DEF Base, Moves, AttemptMoves, CallsAreEphemeral
<1>5. Ends'
  <2>1. now \in Nat /\ now' \in Nat /\ now <= now'
    BY <1>1, <1>2, SMT DEF Base, Typed, Moves
  <2>2. \A a \in Attempts : /\ deployment'[a].start \in Nat /\ deployment'[a].end \in Nat
    <3>1. Typed' => FieldsTyped'
      BY FieldsAre, PTL
    <3>2. QED
      BY <1>2, <1>3, <3>1 DEF FieldsTyped
  <2>3. \A a \in Attempts : deployment'[a].start <= now /\ deployment'[a].end <= now
    BY <1>1, <1>2, DeploymentLater DEF Base
  <2>4. QED
    BY <1>3, <2>1, <2>2, <2>3, SMT DEF Ends
<1>6. QED
  BY <1>2, <1>4, <1>5 DEF Base

(* What a step means for one attempt.                                      *)
LEMMA Steps ==
  ASSUME Base, [Next]_vars
  PROVE  /\ Base' /\ FieldsTyped /\ FieldsTyped' /\ UNCHANGED scope
         /\ Attempts' = Attempts /\ Slots' = Slots /\ Names' = Names /\ Items' = Items /\ First' = First
         /\ \A a, s : Name(a, s)' = Name(a, s)
         /\ \A a : Cluster(a)' = Cluster(a) /\ Product(a)' = Product(a) /\ Ours(a)' = Ours(a)
         /\ \A a \in Attempts : AttemptMoves(a) /\ DeploymentMoves(a) /\ CleanMoves(a)
         /\ \A i \in Items : ItemMoves(i)
         /\ \A n \in Names : GroupMoves(n)
         /\ now <= now'
<1>1. Base' /\ Moves /\ \A a \in Attempts : CleanMoves(a)
  BY NextBase
<1>2. Typed /\ Typed' /\ (Typed' => FieldsTyped')
  BY <1>1, FieldsAre, PTL DEF Base
<1>3. now <= now'
  BY <1>1, <1>2, SMT DEF Moves, Typed
<1>4. QED
  BY <1>1, <1>2, <1>3, Fixed, FieldsAre DEF Moves

(* A resource that is there was not made later; one that is made is made   *)
(* now, by a host or a deployment at work.                                 *)
LEMMA ItemLater ==
  ASSUME Base, [Next]_vars, NEW i \in Items
  PROVE  \/ /\ item[i].state # "none" /\ item'[i].state # "none"
            /\ item'[i].created <= item[i].created
         \/ /\ item'[i] = item[i]
         \/ /\ item[i].state = "none" /\ item'[i].created = now
            /\ \E a \in Attempts : \/ i = Cluster(a) /\ attempt[a].host
                                   \/ i = Product(a) /\ deployment[a].state = "running"
<1>1. ItemMoves(i) /\ item[i].created \in Nat
  BY Steps DEF FieldsTyped
<1>2. QED
  BY <1>1, SMT DEF ItemMoves

(* The receipts, and what they admit.                                      *)
LEMMA InitReceipts == Init => Receipts /\ Things
<1>1. SUFFICES ASSUME Init PROVE Receipts /\ Things
  OBVIOUS
<1>2. \A a \in Attempts : /\ attempt[a].phase = "new" /\ ~attempt[a].durable /\ ~attempt[a].host
                          /\ attempt[a].snapshot = {} /\ deployment[a].state = "none"
                          /\ cleaner[a] = Idle /\ asked[a] = {}
  BY <1>1 DEF Init
<1>3. Receipts
  BY <1>2, FreshIs DEF Receipts
<1>4. \A a \in Attempts : \A i \in Ours(a) : item[i].state = "none"
  <2>1. TAKE a \in Attempts
  <2>2. TAKE i \in Ours(a)
  <2>3. i \in Items /\ i # Kept
    BY NamesDiffer, ItemsAre DEF Ours
  <2>4. QED
    BY <1>1, <2>3 DEF Init, Nothing
<1>5. \A a \in Attempts, s \in Slots : group[Name(a, s)] \in {"none", "other"}
  BY <1>1, NamesDiffer DEF Init
<1>6. Things
  BY <1>2, <1>4, <1>5 DEF Things
<1>7. QED
  BY <1>3, <1>6

(* Every step keeps the receipts.                                          *)
LEMMA NextReceipts == Base /\ Receipts /\ [Next]_vars => Receipts'
<1>1. SUFFICES ASSUME Base, Receipts, [Next]_vars PROVE Receipts'
  OBVIOUS
<1>2. ASSUME NEW a \in Attempts
      PROVE  /\ attempt'[a].phase \in {"preparing", "working", "ended", "cleaning"} => attempt'[a].durable
             /\ attempt'[a].durable => attempt'[a].phase \notin {"new", "checked"}
             /\ attempt'[a].host => attempt'[a].durable /\ attempt'[a].phase # "over"
             /\ attempt[a].durable => attempt'[a].durable
             /\ attempt'[a].phase # "new" => Turn(a)
             /\ attempt[a].phase = "over" => attempt'[a].phase = "over"
  <2>1. AttemptMoves(a) /\ attempt[a].phase \in Phases
    BY <1>1, Steps DEF FieldsTyped
  <2>2. QED
    BY <1>1, <2>1 DEF AttemptMoves, Receipts, Phases
<1>3. ASSUME NEW a \in Attempts
      PROVE  Turn(a) => Turn(a)'
  BY <1>1, <1>2, Steps DEF Turn
<1>4. ASSUME NEW a \in Attempts
      PROVE  deployment'[a].state # "none" => attempt'[a].durable
  <2>1. DeploymentMoves(a)
    BY <1>1, Steps
  <2>2. deployment'[a].state # "none" => attempt[a].durable
    BY <1>1, <2>1 DEF DeploymentMoves, Receipts
  <2>3. QED
    BY <1>2, <2>2
<1>5. ASSUME NEW a \in Attempts
      PROVE  /\ cleaner'[a].on => /\ attempt'[a].durable
                                  /\ attempt'[a].phase = IF cleaner'[a].bounded THEN "over" ELSE "cleaning"
             /\ asked'[a] # {} => attempt'[a].durable
  <2>1. CleanMoves(a) /\ AttemptMoves(a)
    BY <1>1, Steps
  <2>2. /\ cleaner[a].on => /\ attempt[a].durable
                            /\ attempt[a].phase = IF cleaner[a].bounded THEN "over" ELSE "cleaning"
        /\ asked[a] # {} => attempt[a].durable
    BY <1>1 DEF Receipts
  <2>3. ASSUME NEW s \in Slots, Visits(a, s),
               \/ Waits(a, s) \/ FindsNoGroup(a, s) \/ FindsOwn(a, s) \/ Submits(a, s)
               \/ FindsDeploymentsEnded(a, s) \/ Removes(a, s)
        PROVE  /\ cleaner'[a].on => /\ attempt'[a].durable
                                    /\ attempt'[a].phase = IF cleaner'[a].bounded THEN "over" ELSE "cleaning"
               /\ asked'[a] # {} => attempt'[a].durable
    BY <2>2, <2>3 DEF Visits
  <2>4. CASE Begins(a)
    BY <1>2, <2>4 DEF Begins
  <2>5. CASE Reports(a)
    BY <2>2, <2>5 DEF Reports
  <2>6. CASE GoesOn(a)
    <3>1. cleaner'[a].on => attempt'[a].phase = attempt[a].phase
      <4>1. cleaner'[a].on => attempt[a].phase \in {"over", "cleaning"}
        BY <2>2, <2>6 DEF GoesOn
      <4>2. attempt[a].phase = "over" => attempt'[a].phase = "over"
        BY <1>2
      <4>3. attempt[a].phase = "cleaning" => attempt'[a].phase \in {"cleaning", "over"}
        BY <2>1 DEF AttemptMoves
      <4>4. QED
        BY <2>6, <4>1, <4>2, <4>3 DEF GoesOn
    <3>2. asked'[a] # {} => asked[a] # {} \/ cleaner[a].on
      BY <2>6 DEF GoesOn
    <3>3. QED
      BY <1>2, <2>2, <2>6, <3>1, <3>2 DEF GoesOn
  <2>7. CASE Stops(a)
    BY <1>2, <2>2, <2>7, FreshIs DEF Stops
  <2>8. QED
    BY <2>1, <2>3, <2>4, <2>5, <2>6, <2>7 DEF CleanMoves
<1>6. QED
  BY <1>1, <1>2, <1>3, <1>4, <1>5, Steps DEF Receipts

(* Every step keeps what they admit.                                       *)
LEMMA NextThings == Base /\ Receipts /\ Things /\ [Next]_vars => Things'
<1>1. SUFFICES ASSUME Base, Receipts, Things, [Next]_vars PROVE Things'
  OBVIOUS
<1>2. \A a \in Attempts : attempt[a].durable => attempt'[a].durable
  BY <1>1, Steps DEF AttemptMoves
<1>3. ASSUME NEW a \in Attempts, NEW i \in Ours(a), item'[i].state # "none"
      PROVE  attempt'[a].durable
  <2>1. i \in Items /\ ItemMoves(i)
    BY <1>1, NamesDiffer, Steps DEF Ours
  <2>2. attempt[a].durable
    <3>1. CASE item[i].state # "none"
      BY <1>1, <3>1 DEF Things
    <3>2. CASE item[i].state = "none"
      <4>1. PICK b \in Attempts : \/ i = Cluster(b) /\ attempt[b].host
                                  \/ i = Product(b) /\ deployment[b].state = "running"
        BY <1>1, <1>3, <2>1, <3>2, ItemLater
      <4>2. b = a
        BY <4>1, ItemsAre DEF Ours
      <4>3. QED
        BY <1>1, <4>1, <4>2 DEF Receipts
    <3>3. QED
      BY <3>1, <3>2
  <2>3. QED
    BY <1>2, <2>2
<1>4. ASSUME NEW a \in Attempts
      PROVE  /\ \A i \in Ours(a) : i \notin attempt'[a].snapshot
             /\ ~scope.persistent => attempt'[a].snapshot = {}
  <2>1. CASE attempt'[a].snapshot = attempt[a].snapshot
    BY <1>1, <2>1 DEF Things
  <2>2. CASE attempt[a].phase = "new" /\ attempt'[a].snapshot = IF scope.persistent THEN Listed ELSE {}
    <3>1. ~attempt[a].durable
      BY <1>1, <2>2 DEF Receipts
    <3>2. \A i \in Ours(a) : i \notin Listed
      BY <1>1, <3>1 DEF Things, Listed
    <3>3. QED
      BY <2>2, <3>2
  <2>3. QED
    BY <1>1, <2>1, <2>2, Steps DEF AttemptMoves
<1>5. ASSUME NEW a \in Attempts, NEW s \in Slots, group'[Name(a, s)] \in {"ours", "leaving"}
      PROVE  attempt'[a].durable /\ ~scope.persistent
  <2> DEFINE n == Name(a, s)
  <2>1. n \in Names
    BY NamesDiffer
  <2>2. GroupMoves(n)
    BY <1>1, <2>1, Steps
  <2>3. CASE group[n] \in {"ours", "leaving"}
    BY <1>1, <1>2, <2>3 DEF Things
  <2>4. CASE group[n] \notin {"ours", "leaving"}
    <3>1. ~scope.persistent /\ \E b \in Attempts, t \in Slots :
             n = Name(b, t) /\ (attempt[b].phase = "preparing" \/ cleaner[b].on)
      BY <1>5, <2>2, <2>4 DEF GroupMoves
    <3>2. attempt[a].phase = "preparing" \/ cleaner[a].on
      BY <3>1, NamesDiffer
    <3>3. attempt[a].durable
      BY <1>1, <3>2 DEF Receipts
    <3>4. QED
      BY <1>2, <3>1, <3>3
  <2>5. QED
    BY <2>3, <2>4
<1>6. QED
  BY <1>1, <1>3, <1>4, <1>5, Steps DEF Things

(* The times.                                                              *)
LEMMA InitTimes == Init => Times
<1>1. SUFFICES ASSUME Init PROVE Times
  OBVIOUS
<1>2. \A i \in Items : item[i].created = 0
  BY <1>1 DEF Init, Nothing
<1>3. \A a \in Attempts : Product(a) \in Items /\ Product(a) # Kept
  BY NamesDiffer, ItemsAre DEF Ours
<1>4. \A a \in Attempts : /\ item[Product(a)].state = "none" /\ deployment[a].state = "none"
                          /\ attempt[a].phase = "new"
  BY <1>1, <1>3 DEF Init, Nothing
<1>5. now = 0
  BY <1>1 DEF Init
<1>6. QED
  BY <1>2, <1>4, <1>5, SMT DEF Times

(* Every step keeps the times.                                             *)
LEMMA NextTimes == Base /\ Receipts /\ Things /\ Times /\ [Next]_vars => Times'
<1>1. SUFFICES ASSUME Base, Receipts, Things, Times, [Next]_vars PROVE Times'
  OBVIOUS
<1>2. now \in Nat /\ now' \in Nat /\ now <= now'
  BY <1>1, Steps DEF FieldsTyped
<1>3. ASSUME NEW i \in Items
      PROVE  item'[i].created <= now
  <2>1. item[i].created \in Nat /\ item'[i].created \in Nat /\ item[i].created <= now
    BY <1>1, Steps DEF FieldsTyped, Times
  <2>2. QED
    BY <1>1, <1>2, <2>1, ItemLater, SMT
<1>4. ASSUME NEW a \in Attempts
      PROVE  /\ item'[Product(a)].state # "none" => deployment'[a].state # "none"
             /\ deployment'[a].state = "ended" => item'[Product(a)].created <= deployment'[a].end
  <2> DEFINE i == Product(a)
  <2>1. i \in Items /\ \A b : i # Cluster(b) /\ (i = Product(b) => b = a)
    BY NamesDiffer
  <2>2. DeploymentMoves(a)
    BY <1>1, Steps
  <2>3. deployment[a].state # "none" => deployment'[a].state # "none"
    BY <1>1, Steps, DeploymentLater, NextBase DEF Base
  <2>4. item'[i].state # "none" => deployment[a].state # "none"
    BY <1>1, <2>1, ItemLater DEF Times
  <2>5. ASSUME deployment'[a].state = "ended"
        PROVE  item'[i].created <= deployment'[a].end
    <3>1. CASE deployment[a].state = "ended"
      <4>1. deployment'[a] = deployment[a]
        BY <2>2, <3>1 DEF DeploymentMoves
      <4>2. item[i].created <= deployment[a].end
        BY <1>1, <3>1 DEF Times
      <4>3. item'[i].created <= item[i].created \/ item'[i] = item[i]
        BY <1>1, <2>1, <3>1, ItemLater
      <4>4. item[i].created \in Nat /\ item'[i].created \in Nat /\ deployment[a].end \in Nat
        BY <1>1, <2>1, Steps DEF FieldsTyped
      <4>5. QED
        BY <4>1, <4>2, <4>3, <4>4, SMT
    <3>2. CASE deployment[a].state # "ended"
      <4>1. deployment[a].state = "running" /\ deployment'[a] = [deployment[a] EXCEPT !.state = "ended", !.end = now]
        BY <2>2, <2>5, <3>2 DEF DeploymentMoves
      <4>2. deployment[a] \in DeploymentRecord
        BY <1>1 DEF Base, Typed
      <4>3. deployment'[a].end = now
        BY <4>1, <4>2, SMT DEF DeploymentRecord
      <4>4. QED
        BY <1>3, <2>1, <4>3
    <3>3. QED
      BY <3>1, <3>2
  <2>6. QED
    BY <2>3, <2>4, <2>5
<1>5. ASSUME NEW a \in Attempts, attempt'[a].phase = "over"
      PROVE  /\ deployment'[a].state # "none" => deployment'[a].start <= attempt'[a].said + Tolerance
             /\ item'[Cluster(a)].state # "none" => item'[Cluster(a)].created <= attempt'[a].said + Tolerance
  <2> DEFINE i == Cluster(a)
  <2>1. i \in Items /\ \A b : i # Product(b) /\ (i = Cluster(b) => b = a)
    BY NamesDiffer
  <2>2. /\ deployment'[a].start \in Nat /\ attempt'[a].said \in Nat /\ attempt[a].said \in Nat
        /\ item'[i].created \in Nat /\ item[i].created \in Nat
    BY <1>1, <2>1, Steps DEF FieldsTyped
  <2>3. deployment'[a].start <= now
    BY <1>1, Steps, DeploymentLater, NextBase DEF Base
  <2>4. CASE attempt[a].phase # "over"
    <3>1. now <= attempt'[a].said + Tolerance
      BY <1>1, <1>5, <2>4, Steps DEF AttemptMoves
    <3>2. item'[i].created <= now
      BY <1>3, <2>1
    <3>3. QED
      BY <1>2, <2>2, <2>3, <3>1, <3>2, SMT DEF Tolerance
  <2>5. CASE attempt[a].phase = "over"
    <3>1. attempt'[a].said = attempt[a].said
      BY <1>1, <1>5, <2>5, Steps DEF AttemptMoves
    <3>2. DeploymentMoves(a) /\ ~attempt[a].host
      BY <1>1, <2>5, Steps DEF Receipts
    <3>3. deployment'[a].state # "none" => deployment'[a].start = deployment[a].start /\ deployment[a].state # "none"
      <4>1. deployment[a].state # "none" => deployment'[a].start = deployment[a].start
        BY <1>1, Steps, DeploymentLater, NextBase DEF Base
      <4>2. deployment'[a].state # "none" => deployment[a].state # "none"
        BY <2>5, <3>2 DEF DeploymentMoves
      <4>3. QED
        BY <4>1, <4>2
    <3>4. item'[i].state # "none" =>
            item[i].state # "none" /\ (item'[i] = item[i] \/ item'[i].created <= item[i].created)
      BY <1>1, <2>1, <3>2, ItemLater
    <3>5. /\ deployment[a].state # "none" => deployment[a].start <= attempt[a].said + Tolerance
          /\ item[i].state # "none" => item[i].created <= attempt[a].said + Tolerance
      BY <1>1, <2>5 DEF Times
    <3>6. QED
      BY <2>2, <3>1, <3>3, <3>4, <3>5, SMT DEF Tolerance
  <2>6. QED
    BY <2>4, <2>5
<1>6. \A i \in Items : item'[i].created <= now'
  <2>1. \A i \in Items : item'[i].created \in Nat
    BY <1>1, Steps DEF FieldsTyped
  <2>2. QED
    BY <1>2, <1>3, <2>1, SMT
<1>7. QED
  BY <1>1, <1>4, <1>5, <1>6, Steps DEF Times, Tolerance

-------------------------------------------------------------------------------
(* What a cleanup asks for.                                                *)

(* After a step.                                                           *)
WorkThen(a, t, slack) ==
  \/ t <= attempt'[a].said + slack
  \/ \E b \in Attempts : /\ deployment'[b].state # "none"
                         /\ deployment'[b].start <= attempt'[a].said + Tolerance
                         /\ t <= deployment'[b].end + slack

(* The work of an attempt that is over does not become less.               *)
LEMMA WorkLasts ==
  ASSUME Base, [Next]_vars, NEW a \in Attempts, attempt[a].phase = "over",
         NEW t \in Nat, NEW u \in Nat, u <= t, NEW slack \in Nat, WithinWork(a, t, slack)
  PROVE  WorkThen(a, u, slack)
<1>1. attempt'[a].said = attempt[a].said /\ attempt[a].said \in Nat
  BY Steps DEF AttemptMoves, FieldsTyped
<1>2. CASE t <= attempt[a].said + slack
  BY <1>1, <1>2, SMT DEF WorkThen
<1>3. CASE \E b \in Attempts : /\ deployment[b].state # "none"
                               /\ deployment[b].start <= attempt[a].said + Tolerance
                               /\ t <= deployment[b].end + slack
  <2>1. PICK b \in Attempts : /\ deployment[b].state # "none"
                              /\ deployment[b].start <= attempt[a].said + Tolerance
                              /\ t <= deployment[b].end + slack
    BY <1>3
  <2>2. /\ deployment'[b].state # "none" /\ deployment'[b].start = deployment[b].start
        /\ deployment[b].end <= deployment'[b].end
    BY <2>1, Steps, NextBase, DeploymentLater DEF Base
  <2>3. deployment[b].end \in Nat /\ deployment'[b].end \in Nat
    BY Steps DEF FieldsTyped
  <2>4. u <= deployment'[b].end + slack
    BY <2>1, <2>2, <2>3, SMT
  <2>5. QED
    BY <1>1, <2>1, <2>2, <2>4 DEF WorkThen
<1>4. QED
  BY <1>2, <1>3 DEF WithinWork

(* What may be removed for an attempt may be removed as long as it is kept *)
(* in mind.                                                                *)
LEMMA MayStill ==
  ASSUME Base, Receipts, [Next]_vars, NEW a \in Attempts, attempt[a].durable,
         NEW i, MayRemove(a, i)
  PROVE  MayRemove(a, i)'
<1>1. i \in Items /\ Items' = Items /\ Attempts' = Attempts
  BY Steps DEF MayRemove
<1>2. item[i].state # "none"
  BY DEF MayRemove
<1>3. /\ item'[i].state # "none"
      /\ item'[i].created <= item[i].created
      /\ item[i].created \in Nat /\ item'[i].created \in Nat
  <2>1. item[i].created \in Nat /\ item'[i].created \in Nat
    BY <1>1, Steps DEF FieldsTyped
  <2>2. QED
    BY <1>1, <1>2, <2>1, ItemLater, SMT
<1>4. attempt'[a].snapshot = attempt[a].snapshot
  BY Steps DEF Receipts, AttemptMoves
<1>5. i \notin attempt'[a].snapshot
  BY <1>4 DEF MayRemove
<1>6. ASSUME Of(i) > a
      PROVE  attempt'[a].phase = "over" /\ WorkThen(a, item'[i].created, Tolerance)
  <2>1. attempt[a].phase = "over" /\ WithinWork(a, item[i].created, Tolerance)
    BY <1>6 DEF MayRemove
  <2>2. Tolerance \in Nat
    BY DEF Tolerance
  <2>3. QED
    BY <1>3, <2>1, <2>2, WorkLasts, Steps DEF AttemptMoves
<1>7. QED
  BY <1>1, <1>3, <1>5, <1>6 DEF MayRemove, WithinWork, WorkThen, Of, Tolerance

(* An attempt whose group a later one works in is over.                    *)
LEMMA LaterMeansOver ==
  ASSUME Typed, Receipts, Things, NEW a \in Attempts, NEW i \in Items, item[i].state # "none", Of(i) > a
  PROVE  attempt[a].phase = "over"
<1>1. a \in Nat
  BY ScopeIs
<1>2. i # Kept
  BY <1>1, ItemsAre, SMT
<1>3. PICK b \in Attempts : i \in Ours(b) /\ Of(i) = b
  BY <1>2, ItemsAre
<1>4. attempt[b].durable
  BY <1>3 DEF Things
<1>5. Turn(b) /\ a < b
  <2>1. b \in Nat /\ b > a
    BY <1>3, ScopeIs
  <2>2. QED
    BY <1>1, <1>4, <2>1, SMT DEF Receipts
<1>6. QED
  BY <1>5 DEF Turn

(* What is within the tolerance of a time is so of a later one.            *)
LEMMA LaterStill ==
  ASSUME NEW x \in Nat, NEW y \in Nat, NEW z \in Nat, x <= y + Tolerance, y <= z + 0
  PROVE  x <= z + Tolerance
BY SMT DEF Tolerance

(* What a cleanup finds beyond the snapshot may be removed.                *)
LEMMA CreatedMay ==
  ASSUME Base, Receipts, Things, Asking, NEW a \in Attempts, NEW s \in Slots, scope.persistent,
         cleaner[a].on, cleaner[a].pending[s] \in {"remove first", "remove"}, NEW i \in Created(a, s)
  PROVE  MayRemove(a, i)
<1>1. /\ i \in Items /\ item[i].state # "none" /\ i \notin attempt[a].snapshot
      /\ Bounded(a) => item[i].created <= cleaner[a].limit[s] + Tolerance
  BY DEF Created, Delta, Listed
<1>2. ASSUME Of(i) > a
      PROVE  attempt[a].phase = "over" /\ WithinWork(a, item[i].created, Tolerance)
  <2>1. attempt[a].phase = "over"
    BY <1>1, <1>2, LaterMeansOver DEF Base
  <2>2. cleaner[a].bounded
    BY <2>1 DEF Receipts
  <2>3. item[i].created <= cleaner[a].limit[s] + Tolerance
    BY <1>1, <2>2 DEF Bounded
  <2>4. WithinWork(a, cleaner[a].limit[s], 0)
    BY <2>2 DEF Asking
  <2>5. /\ cleaner[a].limit[s] \in Nat /\ item[i].created \in Nat /\ attempt[a].said \in Nat
        /\ \A b \in Attempts : deployment[b].end \in Nat
    <3>1. cleaner[a] \in CleanerRecord
      BY DEF Base, Typed
    <3>2. cleaner[a].limit \in [Slots -> Nat]
      BY <3>1, CleanerIs
    <3>3. QED
      BY <1>1, <3>2, FieldsAre DEF Base, FieldsTyped
  <2>7. CASE cleaner[a].limit[s] <= attempt[a].said + 0
    <3>1. item[i].created <= attempt[a].said + Tolerance
      BY <2>3, <2>5, <2>7, LaterStill
    <3>2. QED
      BY <2>1, <3>1 DEF WithinWork
  <2>8. ASSUME NEW b \in Attempts, deployment[b].state # "none",
               deployment[b].start <= attempt[a].said + Tolerance,
               cleaner[a].limit[s] <= deployment[b].end + 0
        PROVE  WithinWork(a, item[i].created, Tolerance)
    <3>1. item[i].created <= deployment[b].end + Tolerance
      BY <2>3, <2>5, <2>8, LaterStill
    <3>2. QED
      BY <2>8, <3>1 DEF WithinWork
  <2>9. QED
    BY <2>1, <2>4, <2>7, <2>8 DEF WithinWork
<1>3. QED
  BY <1>1, <1>2 DEF MayRemove

(* So may the attempt's own product, once it is there.                     *)
LEMMA ProductMay ==
  ASSUME Base, Things, NEW a \in Attempts, item[Product(a)].state # "none"
  PROVE  MayRemove(a, Product(a))
<1>1. Product(a) \in Items /\ Of(Product(a)) = a /\ a \in Nat /\ Product(a) \in Ours(a)
  BY NamesDiffer, ScopeIs DEF Ours, Base
<1>2. ~(Of(Product(a)) > a)
  BY <1>1, SMT
<1>3. QED
  BY <1>1, <1>2 DEF MayRemove, Things

-------------------------------------------------------------------------------
(* Asking holds.                                                           *)

(* What a cleanup may have asked for.                                      *)
AskedWell(a, i) ==
  \/ i \in {<<g, a>> : g \in GroupStates \ {"other"}} /\ ~scope.persistent
  \/ MayRemove(a, i)

(* It stays so.                                                            *)
LEMMA AskedStays ==
  ASSUME Base, Receipts, [Next]_vars, NEW a \in Attempts, attempt[a].durable,
         NEW i, AskedWell(a, i)
  PROVE  AskedWell(a, i)'
<1>1. MayRemove(a, i) => MayRemove(a, i)'
  BY MayStill
<1>2. UNCHANGED scope
  BY Steps
<1>3. QED
  BY <1>1, <1>2 DEF AskedWell, GroupStates

(* What a cleanup asks for in a step.                                      *)
LEMMA NextAsked ==
  ASSUME Base, Receipts, Things, Asking, [Next]_vars, NEW a \in Attempts, NEW i \in asked'[a]
  PROVE  AskedWell(a, i)'
<1>1. CleanMoves(a)
  BY Steps
<1>2. CASE i \in asked[a]
  <2>1. attempt[a].durable
    BY <1>2 DEF Receipts
  <2>2. AskedWell(a, i)
    BY <1>2 DEF Asking, AskedWell
  <2>3. QED
    BY <2>1, <2>2, AskedStays
<1>3. ASSUME cleaner[a].on, AskedWell(a, i)
      PROVE  AskedWell(a, i)'
  BY <1>3, AskedStays DEF Receipts
<1>4. ASSUME NEW s \in Slots, Visits(a, s), Submits(a, s), i \notin asked[a]
      PROVE  AskedWell(a, i)'
  <2>1. i = <<group[Name(a, s)], a>> /\ cleaner[a].on /\ ~scope.persistent
    BY <1>4 DEF Submits, Visits
  <2>2. group[Name(a, s)] # "other"
    BY <1>4, <2>1 DEF Submits, Asking
  <2>3. group[Name(a, s)] \in GroupStates
    BY NamesDiffer, Steps DEF FieldsTyped
  <2>4. AskedWell(a, i)
    BY <2>1, <2>2, <2>3 DEF AskedWell
  <2>5. QED
    BY <1>3, <2>1, <2>4
<1>5. ASSUME NEW s \in Slots, Visits(a, s), Removes(a, s), i \notin asked[a]
      PROVE  AskedWell(a, i)'
  <2>1. i \in Created(a, s) /\ cleaner[a].on
    BY <1>5 DEF Removes, Visits
  <2>2. MayRemove(a, i)
    BY <1>5, <2>1, CreatedMay DEF Removes
  <2>3. QED
    BY <1>3, <2>1, <2>2 DEF AskedWell
<1>6. ASSUME GoesOn(a), i \notin asked[a]
      PROVE  AskedWell(a, i)'
  <2>1. cleaner[a].on /\ i \in cleaner[a].purging /\ i \in Items /\ item[i].state = "soft"
    BY <1>6 DEF GoesOn
  <2>2. i = Product(a) \/ MayRemove(a, i)
    BY <2>1 DEF Asking
  <2>3. MayRemove(a, i)
    BY <2>1, <2>2, ProductMay
  <2>4. QED
    BY <1>3, <2>1, <2>3 DEF AskedWell
<1>7. CASE i \notin asked[a]
  BY <1>1, <1>4, <1>5, <1>6, <1>7
  DEF CleanMoves, Waits, FindsNoGroup, FindsOwn, FindsDeploymentsEnded, Begins, Reports, Stops
<1>8. QED
  BY <1>2, <1>7

(* The vaults it means to purge.                                           *)
LEMMA NextVaults ==
  ASSUME Base, Receipts, Things, Asking, [Next]_vars, NEW a \in Attempts, cleaner'[a].on
  PROVE  /\ \A i \in cleaner'[a].vaults : MayRemove(a, i)'
         /\ \A i \in cleaner'[a].purging : i = Product(a)' \/ MayRemove(a, i)'
<1>1. CleanMoves(a) /\ Product(a)' = Product(a)
  BY Steps
<1>2. ASSUME NEW i, cleaner[a].on, MayRemove(a, i)
      PROVE  MayRemove(a, i)'
  BY <1>2, MayStill DEF Receipts
<1>3. ASSUME cleaner[a].on
      PROVE  /\ \A i \in cleaner[a].vaults : MayRemove(a, i)'
             /\ \A i \in cleaner[a].purging : i = Product(a) \/ MayRemove(a, i)'
  BY <1>2, <1>3 DEF Asking
<1>4. ASSUME NEW s \in Slots, Visits(a, s),
             \/ Waits(a, s) \/ FindsNoGroup(a, s) \/ FindsOwn(a, s) \/ Submits(a, s)
             \/ FindsDeploymentsEnded(a, s) \/ Removes(a, s)
      PROVE  /\ \A i \in cleaner'[a].vaults : MayRemove(a, i)'
             /\ \A i \in cleaner'[a].purging : i = Product(a) \/ MayRemove(a, i)'
  <2>1. cleaner[a].on /\ cleaner'[a].purging = cleaner[a].purging
    BY <1>4 DEF Visits
  <2>2. CASE cleaner'[a].vaults = cleaner[a].vaults
    BY <1>3, <2>1, <2>2
  <2>3. CASE FindsOwn(a, s)
    <3>1. ASSUME NEW i \in cleaner'[a].vaults
          PROVE  MayRemove(a, i)
      <4>1. i \in Listed /\ Place(i) = Name(a, s) /\ ~scope.persistent
        BY <2>3, <3>1 DEF FindsOwn
      <4>2. i \in Items /\ item[i].state # "none"
        BY <4>1 DEF Listed
      <4>3. Of(i) = a
        BY <4>1, NamesDiffer DEF Place
      <4>4. ~(Of(i) > a)
        <5>1. a \in Nat
          BY ScopeIs DEF Base
        <5>2. QED
          BY <4>3, <5>1, SMT
      <4>5. i \notin attempt[a].snapshot
        BY <4>1 DEF Things
      <4>6. QED
        BY <4>2, <4>4, <4>5 DEF MayRemove
    <3>2. QED
      BY <1>2, <1>3, <2>1, <3>1
  <2>4. CASE Removes(a, s)
    <3>1. \A i \in Created(a, s) : MayRemove(a, i)
      BY <2>1, <2>4, CreatedMay DEF Removes
    <3>2. QED
      BY <1>2, <1>3, <2>1, <2>4, <3>1 DEF Removes
  <2>5. QED
    BY <1>4, <2>2, <2>3, <2>4 DEF Waits, FindsNoGroup, Submits, FindsDeploymentsEnded
<1>5. CASE Begins(a)
  BY <1>5 DEF Begins
<1>6. CASE Reports(a)
  <2>1. /\ cleaner[a].on /\ cleaner'[a].vaults = cleaner[a].vaults
        /\ cleaner'[a].purging \subseteq cleaner[a].vaults \cup {Product(a)}
    BY <1>6 DEF Reports
  <2>2. QED
    BY <1>1, <1>3, <2>1
<1>7. CASE GoesOn(a)
  <2>1. /\ cleaner[a].on /\ cleaner'[a].vaults = cleaner[a].vaults
        /\ cleaner'[a].purging \subseteq cleaner[a].purging
    BY <1>7 DEF GoesOn
  <2>2. QED
    BY <1>1, <1>3, <2>1
<1>8. CASE Stops(a)
  BY <1>8, FreshIs DEF Stops
<1>9. QED
  BY <1>1, <1>4, <1>5, <1>6, <1>7, <1>8 DEF CleanMoves

(* A group that a cleanup is about to remove stays its own.                *)
LEMMA NextSubmit ==
  ASSUME Base, Receipts, Things, Asking, [Next]_vars, NEW a \in Attempts, NEW s \in Slots,
         cleaner'[a].on, cleaner'[a].pending[s] = "submit"
  PROVE  ~scope.persistent /\ group'[Name(a, s)] # "other"
<1> DEFINE n == Name(a, s)
<1>1. CleanMoves(a) /\ n \in Names /\ GroupMoves(n)
  BY NamesDiffer, Steps
<1>2. CASE cleaner[a].on /\ cleaner[a].pending[s] = "submit"
  <2>1. ~scope.persistent /\ group[n] # "other"
    BY <1>2 DEF Asking
  <2>2. attempt[a].phase \notin {"new", "checked", "preparing"}
    BY <1>2 DEF Receipts
  <2>3. ASSUME NEW b \in Attempts, NEW t \in Slots, n = Name(b, t)
        PROVE  b = a
    BY <2>1, <2>3, NamesDiffer
  <2>4. QED
    BY <1>1, <2>1, <2>2, <2>3 DEF GroupMoves
<1>3. CASE FindsOwn(a, s)
  BY <1>3 DEF FindsOwn
<1>4. (cleaner[a].on /\ cleaner[a].pending[s] = "submit") \/ FindsOwn(a, s)
  <2>1. ASSUME NEW t \in Slots, Visits(a, t),
               \/ Waits(a, t) \/ FindsNoGroup(a, t) \/ FindsOwn(a, t) \/ Submits(a, t)
               \/ FindsDeploymentsEnded(a, t) \/ Removes(a, t)
        PROVE  (cleaner[a].on /\ cleaner[a].pending[s] = "submit") \/ FindsOwn(a, s)
    <3>1. CASE t # s
      BY <2>1, <3>1 DEF Visits
    <3>2. CASE t = s
      BY <2>1, <3>2 DEF Waits, FindsNoGroup, Submits, FindsDeploymentsEnded, Removes
    <3>3. QED
      BY <3>1, <3>2
  <2>2. CASE Begins(a)
    BY <2>2 DEF Begins
  <2>3. CASE Reports(a) \/ GoesOn(a)
    BY <2>3 DEF Reports, GoesOn
  <2>4. CASE Stops(a)
    BY <2>4, FreshIs DEF Stops
  <2>5. QED
    BY <1>1, <2>1, <2>2, <2>3, <2>4 DEF CleanMoves
<1>5. QED
  BY <1>2, <1>3, <1>4

(* A time is not before itself.                                            *)
LEMMA AtItself ==
  ASSUME NEW x \in Nat
  PROVE  x <= x /\ x <= x + 0
BY SMT

(* The bound of a reconciliation stays within the attempt's work.          *)
LEMMA NextLimit ==
  ASSUME Base, Receipts, Asking, [Next]_vars, NEW a \in Attempts, NEW s \in Slots,
         cleaner'[a].on, cleaner'[a].bounded, cleaner'[a].pending[s] \in {"remove first", "remove"}
  PROVE  WorkThen(a, cleaner'[a].limit[s], 0)
<1>1. CleanMoves(a)
  BY Steps
<1>2. CASE /\ cleaner[a].on /\ cleaner[a].bounded
           /\ cleaner[a].pending[s] \in {"remove first", "remove"}
           /\ cleaner'[a].limit[s] = cleaner[a].limit[s]
  <2>1. attempt[a].phase = "over" /\ WithinWork(a, cleaner[a].limit[s], 0)
    BY <1>2 DEF Receipts, Asking
  <2>2. cleaner[a].limit[s] \in Nat
    <3>1. cleaner[a] \in CleanerRecord
      BY DEF Base, Typed
    <3>2. cleaner[a].limit \in [Slots -> Nat]
      BY <3>1, CleanerIs
    <3>3. QED
      BY <3>2
  <2>3. cleaner[a].limit[s] <= cleaner[a].limit[s] /\ 0 \in Nat
    BY <2>2, AtItself
  <2>4. WorkThen(a, cleaner[a].limit[s], 0)
    BY <2>1, <2>2, <2>3, WorkLasts
  <2>5. QED
    BY <1>2, <2>4
<1>3. ASSUME Visits(a, s), FindsDeploymentsEnded(a, s)
      PROVE  WorkThen(a, cleaner'[a].limit[s], 0)
  <2> DEFINE limit == cleaner'[a].limit[s]
  <2>1. limit \in EndsOf(a, s) /\ limit \in Nat
    <3>1. limit = Max(EndsOf(a, s))
      BY <1>3 DEF FindsDeploymentsEnded, EndsOf
    <3>2. QED
      BY <3>1, LimitIs DEF Base
  <2>2. attempt' = attempt /\ deployment' = deployment
    BY <1>3 DEF Visits
  <2> HIDE DEF limit
  <2>3. limit <= limit + 0
    BY <2>1, AtItself
  <2>4. \/ limit = attempt[a].said
        \/ \E b \in Attempts : /\ deployment[b].state # "none" /\ limit = deployment[b].end
                               /\ deployment[b].start <= attempt[a].said + Tolerance
    BY <2>1 DEF EndsOf, Considered
  <2>5. WorkThen(a, limit, 0)
    BY <2>2, <2>3, <2>4 DEF WorkThen
  <2>6. QED
    BY <2>5 DEF limit
<1>4. ASSUME NEW t \in Slots, Visits(a, t),
             \/ Waits(a, t) \/ FindsNoGroup(a, t) \/ FindsOwn(a, t) \/ Submits(a, t)
             \/ FindsDeploymentsEnded(a, t) \/ Removes(a, t)
      PROVE  WorkThen(a, cleaner'[a].limit[s], 0)
  <2>1. CASE t # s
    BY <1>2, <1>4, <2>1 DEF Visits
  <2>2. CASE t = s
    BY <1>3, <1>4, <2>2 DEF Waits, FindsNoGroup, FindsOwn, Submits, Removes
  <2>3. QED
    BY <2>1, <2>2
<1>5. CASE Begins(a)
  BY <1>5 DEF Begins
<1>6. CASE Reports(a) \/ GoesOn(a)
  BY <1>2, <1>6 DEF Reports, GoesOn
<1>7. CASE Stops(a)
  BY <1>7, FreshIs DEF Stops
<1>8. QED
  BY <1>1, <1>4, <1>5, <1>6, <1>7 DEF CleanMoves

(* Every step keeps what the cleanups may ask for.                         *)
LEMMA NextAsking == Base /\ Receipts /\ Things /\ Asking /\ [Next]_vars => Asking'
<1>1. SUFFICES ASSUME Base, Receipts, Things, Asking, [Next]_vars PROVE Asking'
  OBVIOUS
<1>2. \A a \in Attempts : \A i \in asked'[a] : AskedWell(a, i)'
  BY <1>1, NextAsked
<1>3. ASSUME NEW a \in Attempts, cleaner'[a].on
      PROVE  /\ \A i \in cleaner'[a].vaults : MayRemove(a, i)'
             /\ \A i \in cleaner'[a].purging : i = Product(a)' \/ MayRemove(a, i)'
  BY <1>1, <1>3, NextVaults
<1>4. ASSUME NEW a \in Attempts, cleaner'[a].on, NEW s \in Slots, cleaner'[a].pending[s] = "submit"
      PROVE  ~scope'.persistent /\ group'[Name(a, s)'] # "other"
  BY <1>1, <1>4, NextSubmit, Steps
<1>5. ASSUME NEW a \in Attempts, cleaner'[a].on, cleaner'[a].bounded, NEW s \in Slots,
             cleaner'[a].pending[s] \in {"remove first", "remove"}
      PROVE  WithinWork(a, cleaner[a].limit[s], 0)'
  <2>1. WorkThen(a, cleaner'[a].limit[s], 0)
    BY <1>1, <1>5, NextLimit
  <2>2. QED
    BY <1>1, <2>1, Steps DEF WithinWork, WorkThen, Tolerance
<1>6. Attempts' = Attempts /\ Slots' = Slots
  BY <1>1, Steps
<1>7. QED
  BY <1>2, <1>3, <1>4, <1>5, <1>6 DEF Asking, AskedWell, GroupStates

(* At first no cleanup has asked for anything.                             *)
LEMMA InitAsking == Init => Asking
<1>1. SUFFICES ASSUME Init PROVE Asking
  OBVIOUS
<1>2. \A a \in Attempts : asked[a] = {} /\ cleaner[a] = Idle
  BY <1>1 DEF Init
<1>3. QED
  BY <1>2, FreshIs DEF Asking

-------------------------------------------------------------------------------
(* What a cleanup calls complete.                                          *)

(* A group that an attempt does not have it will not have, once its jobs   *)
(* have come to the cleanup.                                               *)
LEMMA NoGroupStays ==
  ASSUME Base, Receipts, Asking, [Next]_vars, ~scope.persistent, NEW a \in Attempts, NEW s \in Slots,
         attempt[a].phase \in {"cleaning", "over"}, group[Name(a, s)] \notin {"ours", "leaving"}
  PROVE  group'[Name(a, s)] \notin {"ours", "leaving"} /\ attempt'[a].phase \in {"cleaning", "over"}
<1> DEFINE n == Name(a, s)
<1>1. n \in Names /\ GroupMoves(n) /\ AttemptMoves(a)
  BY NamesDiffer, Steps
<1>2. ASSUME NEW b \in Attempts, NEW t \in Slots, n = Name(b, t)
      PROVE  b = a /\ t = s
  BY <1>2, NamesDiffer
<1>3. cleaner[a].on => ~(cleaner[a].pending[s] = "submit" /\ group[n] = "other")
  BY DEF Asking
<1>4. group'[n] \notin {"ours", "leaving"}
  BY <1>1, <1>2, <1>3 DEF GroupMoves
<1>5. attempt'[a].phase \in {"cleaning", "over"}
  BY <1>1 DEF AttemptMoves
<1>6. QED
  BY <1>4, <1>5

(* A result of "absent" is one found in this step, or one there was.       *)
LEMMA AbsentIs ==
  ASSUME Base, [Next]_vars, NEW a \in Attempts, NEW s \in Slots,
         cleaner'[a].on, cleaner'[a].result[s] = "absent"
  PROVE  \/ cleaner[a].on /\ cleaner[a].result[s] = "absent"
         \/ Visits(a, s) /\ (FindsNoGroup(a, s) \/ Removes(a, s))
<1>1. CleanMoves(a)
  BY Steps
<1>2. ASSUME NEW t \in Slots, Visits(a, t),
             \/ Waits(a, t) \/ FindsNoGroup(a, t) \/ FindsOwn(a, t) \/ Submits(a, t)
             \/ FindsDeploymentsEnded(a, t) \/ Removes(a, t)
      PROVE  \/ cleaner[a].on /\ cleaner[a].result[s] = "absent"
             \/ Visits(a, s) /\ (FindsNoGroup(a, s) \/ Removes(a, s))
  <2>1. CASE t # s
    BY <1>2, <2>1 DEF Visits
  <2>2. CASE t = s
    <3>1. cleaner[a].on
      BY <1>2 DEF Visits
    <3>2. QED
      BY <1>2, <2>2, <3>1 DEF Waits, FindsOwn, Submits, FindsDeploymentsEnded
  <2>3. QED
    BY <2>1, <2>2
<1>3. CASE Begins(a)
  BY <1>3 DEF Begins
<1>4. CASE Reports(a) \/ GoesOn(a)
  BY <1>4 DEF Reports, GoesOn
<1>5. CASE Stops(a)
  BY <1>5, FreshIs DEF Stops
<1>6. QED
  BY <1>1, <1>2, <1>3, <1>4, <1>5 DEF CleanMoves

(* A report of completeness is one given in this step, or one there was.   *)
LEMMA CompleteIs ==
  ASSUME Base, [Next]_vars, NEW a \in Attempts, report'[a].complete
  PROVE  \/ report'[a] = report[a]
         \/ /\ cleaner[a].on /\ \A s \in Slots : cleaner[a].result[s] = "absent"
            /\ report'[a].settled = report[a].settled
<1>1. CleanMoves(a)
  BY Steps
<1>2. QED
  BY <1>1 DEF CleanMoves, Visits, Begins, Reports, GoesOn, Stops

(* Every step keeps it, for ephemeral groups.                              *)
LEMMA NextEphemeral == Base /\ Receipts /\ Asking /\ EphemeralGone /\ [Next]_vars => EphemeralGone'
<1>1. SUFFICES ASSUME Base, Receipts, Asking, EphemeralGone, [Next]_vars, ~scope.persistent,
                      NEW a \in Attempts, NEW s \in Slots
               PROVE  /\ cleaner'[a].on /\ cleaner'[a].result[s] = "absent" =>
                           group'[Name(a, s)] \notin {"ours", "leaving"}
                      /\ report'[a].complete => /\ group'[Name(a, s)] \notin {"ours", "leaving"}
                                                /\ attempt'[a].phase \in {"cleaning", "over"}
  BY Steps DEF EphemeralGone
<1>2. cleaner[a].on => attempt[a].phase \in {"cleaning", "over"}
  BY <1>1 DEF Receipts
<1>3. ASSUME cleaner'[a].on, cleaner'[a].result[s] = "absent"
      PROVE  group'[Name(a, s)] \notin {"ours", "leaving"}
  <2>1. CASE cleaner[a].on /\ cleaner[a].result[s] = "absent"
    <3>1. group[Name(a, s)] \notin {"ours", "leaving"}
      BY <1>1, <2>1 DEF EphemeralGone
    <3>2. QED
      BY <1>1, <1>2, <2>1, <3>1, NoGroupStays
  <2>2. CASE FindsNoGroup(a, s)
    BY <2>2 DEF FindsNoGroup
  <2>3. ~Removes(a, s)
    BY <1>1 DEF Removes
  <2>4. QED
    BY <1>1, <1>3, <2>1, <2>2, <2>3, AbsentIs
<1>4. ASSUME report'[a].complete
      PROVE  /\ group'[Name(a, s)] \notin {"ours", "leaving"}
             /\ attempt'[a].phase \in {"cleaning", "over"}
  <2>1. /\ group[Name(a, s)] \notin {"ours", "leaving"}
        /\ attempt[a].phase \in {"cleaning", "over"}
    BY <1>1, <1>2, <1>4, CompleteIs DEF EphemeralGone
  <2>2. QED
    BY <1>1, <2>1, NoGroupStays
<1>5. QED
  BY <1>3, <1>4

(* At first there is no cleanup and no report.                             *)
LEMMA InitGone == Init => EphemeralGone /\ PersistentGone
<1>1. SUFFICES ASSUME Init PROVE EphemeralGone /\ PersistentGone
  OBVIOUS
<1>2. \A a \in Attempts : cleaner[a] = Idle /\ ~report[a].complete
  BY <1>1 DEF Init
<1>3. QED
  BY <1>2, FreshIs DEF EphemeralGone, PersistentGone

(* An attempt that is still stays still.                                   *)
LEMMA StillStays ==
  ASSUME Base, [Next]_vars, NEW a \in Attempts, Still(a)
  PROVE  Still(a)'
<1>1. attempt'[a].phase \in {"cleaning", "over"} /\ ~attempt'[a].host
  BY Steps DEF AttemptMoves, Still
<1>2. deployment'[a] = deployment[a]
  BY Steps DEF DeploymentMoves, Still
<1>3. QED
  BY <1>1, <1>2 DEF Still

(* What is gone stays gone.                                                *)
LEMMA GoneStays ==
  ASSUME Base, [Next]_vars, NEW a \in Attempts, Gone(a)
  PROVE  Gone(a)'
<1>1. Still(a) /\ Still(a)'
  BY StillStays DEF Gone
<1>2. ASSUME NEW i \in Ours(a)
      PROVE  item'[i].state \notin {"present", "leaving"}
  <2>1. i \in Items /\ item[i].state \notin {"present", "leaving"}
    BY NamesDiffer DEF Ours, Gone
  <2>2. ItemMoves(i)
    BY <2>1, Steps
  <2>3. ASSUME NEW b \in Attempts, \/ i = Cluster(b) /\ attempt[b].host
                                   \/ i = Product(b) /\ deployment[b].state = "running"
        PROVE  FALSE
    <3>1. b = a
      BY <2>3, ItemsAre DEF Ours
    <3>2. QED
      BY <1>1, <2>3, <3>1 DEF Still
  <2>4. QED
    BY <2>1, <2>2, <2>3 DEF ItemMoves
<1>3. Ours(a)' = Ours(a)
  BY Steps
<1>4. QED
  BY <1>1, <1>2, <1>3 DEF Gone

(* A time that is not after another is not after a later one.              *)
LEMMA LaterToo ==
  ASSUME NEW x \in Nat, NEW y \in Nat, NEW z \in Nat, y <= z
  PROVE  /\ x <= y => x <= z + Tolerance
         /\ x <= y + Tolerance => x <= z + Tolerance
         /\ y <= z + 0
BY SMT DEF Tolerance

(* What a reconciliation finds when the deployments have ended: its own    *)
(* has, and the bound is not before anything of the attempt.               *)
LEMMA NextBound ==
  ASSUME Base, Receipts, Times, PersistentGone, [Next]_vars, scope.persistent, NEW a \in Attempts,
         cleaner'[a].on, cleaner'[a].bounded, cleaner'[a].pending[First] \in {"remove first", "remove"}
  PROVE  /\ deployment'[a].state # "running"
         /\ attempt'[a].said <= cleaner'[a].limit[First]
         /\ deployment'[a].state # "none" => deployment'[a].end <= cleaner'[a].limit[First]
<1>1. CleanMoves(a) /\ First \in Slots
  BY Steps, ScopeIs DEF Base
<1>2. CASE /\ cleaner[a].on /\ cleaner[a].bounded
           /\ cleaner[a].pending[First] \in {"remove first", "remove"}
           /\ cleaner'[a].limit[First] = cleaner[a].limit[First]
  <2>1. /\ deployment[a].state # "running"
        /\ attempt[a].said <= cleaner[a].limit[First]
        /\ deployment[a].state # "none" => deployment[a].end <= cleaner[a].limit[First]
    BY <1>2 DEF PersistentGone
  <2>2. attempt[a].phase = "over"
    BY <1>2 DEF Receipts
  <2>3. deployment'[a] = deployment[a] /\ attempt'[a].said = attempt[a].said
    BY <2>1, <2>2, Steps DEF DeploymentMoves, AttemptMoves
  <2>4. QED
    BY <1>2, <2>1, <2>3
<1>3. ASSUME Visits(a, First), FindsDeploymentsEnded(a, First)
      PROVE  /\ deployment'[a].state # "running"
             /\ attempt'[a].said <= cleaner'[a].limit[First]
             /\ deployment'[a].state # "none" => deployment'[a].end <= cleaner'[a].limit[First]
  <2>1. /\ cleaner[a].on /\ cleaner[a].bounded
        /\ attempt' = attempt /\ deployment' = deployment
    BY <1>3 DEF Visits
  <2>2. attempt[a].phase = "over"
    BY <2>1 DEF Receipts
  <2>3. deployment[a].state # "none" => a \in Considered(a, First)
    BY <2>2 DEF Times, Considered
  <2>4. deployment[a].state # "running"
    BY <1>3, <2>1, <2>3 DEF FindsDeploymentsEnded
  <2>5. cleaner'[a].limit[First] = Max(EndsOf(a, First))
    BY <1>3 DEF FindsDeploymentsEnded, EndsOf
  <2>6. \A t \in EndsOf(a, First) : t <= cleaner'[a].limit[First]
    BY <1>1, <2>5, LimitIs DEF Base
  <2>7. QED
    BY <2>1, <2>3, <2>4, <2>6 DEF EndsOf
<1>4. ASSUME NEW t \in Slots, Visits(a, t),
             \/ Waits(a, t) \/ FindsNoGroup(a, t) \/ FindsOwn(a, t) \/ Submits(a, t)
             \/ FindsDeploymentsEnded(a, t) \/ Removes(a, t)
      PROVE  \/ /\ cleaner[a].on /\ cleaner[a].bounded
                /\ cleaner[a].pending[First] \in {"remove first", "remove"}
                /\ cleaner'[a].limit[First] = cleaner[a].limit[First]
             \/ Visits(a, First) /\ FindsDeploymentsEnded(a, First)
  <2>1. CASE t # First
    BY <1>1, <1>4, <2>1 DEF Visits
  <2>2. CASE t = First
    BY <1>4, <2>2 DEF Waits, FindsNoGroup, FindsOwn, Submits, Removes
  <2>3. QED
    BY <2>1, <2>2
<1>5. CASE Begins(a)
  BY <1>1, <1>5 DEF Begins
<1>6. CASE Reports(a) \/ GoesOn(a)
  BY <1>2, <1>6 DEF Reports, GoesOn
<1>7. CASE Stops(a)
  BY <1>7, FreshIs DEF Stops
<1>8. CASE \E t \in Slots : /\ Visits(a, t)
                            /\ \/ Waits(a, t) \/ FindsNoGroup(a, t) \/ FindsOwn(a, t) \/ Submits(a, t)
                               \/ FindsDeploymentsEnded(a, t) \/ Removes(a, t)
  BY <1>2, <1>3, <1>4, <1>8
<1>9. QED
  BY <1>1, <1>5, <1>6, <1>7, <1>8 DEF CleanMoves

(* A cleanup that finds nothing of the attempt, once its work is over.     *)
LEMMA NothingLeft ==
  ASSUME Base, Receipts, Things, Times, PersistentGone, scope.persistent, NEW a \in Attempts,
         cleaner[a].on, report[a].settled,
         cleaner[a].pending[First] \in {"remove first", "remove"},
         Created(a, First) = {}, Unavailable(a, First) = {}
  PROVE  Gone(a)
<1>1. Still(a)
  <2>1. CASE ~cleaner[a].bounded
    BY <2>1 DEF PersistentGone
  <2>2. CASE cleaner[a].bounded
    BY <2>2 DEF PersistentGone, Receipts, Still
  <2>3. QED
    BY <2>1, <2>2
<1>2. ASSUME NEW i \in Ours(a), item[i].state \in {"present", "leaving"}
      PROVE  FALSE
  <2>1. i \in Listed /\ Place(i) = Name(a, First) /\ i \notin attempt[a].snapshot
    BY <1>2, NamesDiffer DEF Ours, Listed, Things
  <2>2. i \in Delta(a, First) \ Unavailable(a, First)
    BY <2>1 DEF Delta
  <2>3. cleaner[a].bounded /\ ~(item[i].created <= cleaner[a].limit[First] + Tolerance)
    BY <2>2 DEF Created, Bounded
  <2>4. /\ attempt[a].phase = "over" /\ deployment[a].state # "running"
        /\ attempt[a].said <= cleaner[a].limit[First]
        /\ deployment[a].state # "none" => deployment[a].end <= cleaner[a].limit[First]
    BY <2>3 DEF Receipts, PersistentGone
  <2>5. /\ item[i].created \in Nat /\ attempt[a].said \in Nat /\ deployment[a].end \in Nat
        /\ deployment[a].state \in DeploymentStates
    BY <2>1, FieldsAre DEF Base, FieldsTyped, Listed
  <2>6. cleaner[a].limit[First] \in Nat
    <3>1. cleaner[a] \in CleanerRecord /\ First \in Slots
      BY ScopeIs DEF Base, Typed
    <3>2. cleaner[a].limit \in [Slots -> Nat]
      BY <3>1, CleanerIs
    <3>3. QED
      BY <3>1, <3>2
  <2>7. CASE i = Cluster(a)
    <3>1. item[i].created <= attempt[a].said + Tolerance
      BY <1>2, <2>4, <2>7 DEF Times
    <3>2. attempt[a].said <= cleaner[a].limit[First] + 0
      BY <2>4, <2>5, <2>6, LaterToo
    <3>3. QED
      BY <2>3, <2>5, <2>6, <3>1, <3>2, LaterStill
  <2>8. CASE i = Product(a)
    <3>1. deployment[a].state = "ended"
      BY <1>2, <2>4, <2>5, <2>8 DEF Times, DeploymentStates
    <3>2. item[i].created <= deployment[a].end
      BY <2>8, <3>1 DEF Times
    <3>3. QED
      BY <2>3, <2>4, <2>5, <2>6, <3>1, <3>2, LaterToo
  <2>9. QED
    BY <2>7, <2>8 DEF Ours
<1>3. QED
  BY <1>1, <1>2 DEF Gone

(* Every step keeps it, for persistent groups.                             *)
LEMMA NextPersistent ==
  Base /\ Receipts /\ Things /\ Times /\ PersistentGone /\ [Next]_vars => PersistentGone'
<1>0. SUFFICES ASSUME Base, Receipts, Things, Times, PersistentGone, [Next]_vars
               PROVE  PersistentGone'
  OBVIOUS
<1>1. SUFFICES ASSUME scope.persistent, NEW a \in Attempts
               PROVE  /\ cleaner'[a].on /\ report'[a].settled /\ ~cleaner'[a].bounded => Still(a)'
                      /\ cleaner'[a].on /\ report'[a].settled /\ cleaner'[a].result[First] = "absent" =>
                           Gone(a)'
                      /\ report'[a].complete /\ report'[a].settled => Gone(a)'
  <2>1. ASSUME scope.persistent, NEW a \in Attempts,
               cleaner'[a].on, cleaner'[a].bounded, cleaner'[a].pending[First] \in {"remove first", "remove"}
        PROVE  /\ deployment'[a].state # "running"
               /\ attempt'[a].said <= cleaner'[a].limit[First]
               /\ deployment'[a].state # "none" => deployment'[a].end <= cleaner'[a].limit[First]
    BY <1>0, <2>1, NextBound
  <2>2. QED
    BY <1>0, <2>1, Steps DEF PersistentGone
<1>2. First \in Slots
  BY <1>0, ScopeIs DEF Base
<1>3. ASSUME cleaner'[a].on, report'[a].settled, ~cleaner'[a].bounded
      PROVE  Still(a)'
  <2>1. CASE cleaner[a].on /\ report[a].settled /\ ~cleaner[a].bounded
    <3>1. Still(a)
      BY <1>0, <1>1, <2>1 DEF PersistentGone
    <3>2. QED
      BY <1>0, <1>1, <3>1, StillStays
  <2>2. CASE Begins(a)
    <3>1. /\ attempt'[a].phase = "cleaning" /\ attempt'[a].host = attempt[a].host
          /\ deployment' = deployment /\ ~AtWork(a)
      BY <1>3, <2>2 DEF Begins
    <3>2. QED
      BY <3>1 DEF AtWork, Still
  <2>3. QED
    <3>1. CleanMoves(a)
      BY <1>0, <1>1, Steps
    <3>2. ~Stops(a)
      BY <1>3, FreshIs DEF Stops
    <3>3. Visits(a, First) \/ (\E s \in Slots : Visits(a, s)) \/ Reports(a) \/ GoesOn(a) =>
            cleaner[a].on /\ report[a].settled /\ ~cleaner[a].bounded
      BY <1>3 DEF Visits, Reports, GoesOn
    <3>4. QED
      BY <2>1, <2>2, <3>1, <3>2, <3>3 DEF CleanMoves
<1>4. ASSUME cleaner'[a].on, report'[a].settled, cleaner'[a].result[First] = "absent"
      PROVE  Gone(a)'
  <2>1. CASE cleaner[a].on /\ cleaner[a].result[First] = "absent"
    <3>1. CASE report[a].settled
      <4>1. Gone(a)
        BY <1>0, <1>1, <2>1, <3>1 DEF PersistentGone
      <4>2. QED
        BY <1>0, <1>1, <4>1, GoneStays
    <3>2. CASE ~report[a].settled
      <4>1. Begins(a)
        <5>1. CleanMoves(a)
          BY <1>0, <1>1, Steps
        <5>2. QED
          BY <1>4, <3>2, <5>1 DEF CleanMoves, Visits, Reports, GoesOn, Stops
      <4>2. QED
        BY <1>2, <1>4, <4>1 DEF Begins
    <3>3. QED
      BY <3>1, <3>2
  <2>2. CASE Visits(a, First) /\ Removes(a, First)
    <3>1. /\ cleaner[a].on /\ report[a].settled
          /\ cleaner[a].pending[First] \in {"remove first", "remove"}
          /\ Created(a, First) = {} /\ Unavailable(a, First) = {}
      BY <1>4, <2>2 DEF Visits, Removes
    <3>2. Gone(a)
      BY <1>0, <1>1, <3>1, NothingLeft
    <3>3. QED
      BY <1>0, <1>1, <3>2, GoneStays
  <2>3. ~FindsNoGroup(a, First)
    BY <1>1 DEF FindsNoGroup
  <2>4. QED
    BY <1>0, <1>1, <1>2, <1>4, <2>1, <2>2, <2>3, AbsentIs
<1>5. ASSUME report'[a].complete, report'[a].settled
      PROVE  Gone(a)'
  <2>1. Gone(a)
    BY <1>0, <1>1, <1>2, <1>5, CompleteIs DEF PersistentGone
  <2>2. QED
    BY <1>0, <1>1, <2>1, GoneStays
<1>6. QED
  BY <1>3, <1>4, <1>5

-------------------------------------------------------------------------------
(* The results.                                                            *)

FleetInv ==
  Base /\ Receipts /\ Things /\ Times /\ Asking /\ EphemeralGone /\ PersistentGone

(* The last work of an attempt is not before any of it.                    *)
LEMMA WorkEnds ==
  ASSUME Typed, Ends, NEW a \in Attempts, NEW i \in Items, WithinWork(a, item[i].created, Tolerance)
  PROVE  item[i].created <= LastWork(a) + Tolerance
<1> DEFINE T == {attempt[a].said} \cup
                {deployment[b].end : b \in {d \in Attempts : deployment[d].start <= attempt[a].said + Tolerance}}
<1>1. /\ now \in Nat /\ attempt[a].said \in Nat /\ item[i].created \in Nat
      /\ \A b \in Attempts : deployment[b].end \in Nat /\ deployment[b].end <= now
  BY FieldsAre DEF FieldsTyped, Ends
<1>2. \A t \in T : t = attempt[a].said \/ \E b \in Attempts : t = deployment[b].end
  OBVIOUS
<1>3. \A t \in T : t \in Nat /\ t <= now + attempt[a].said
  BY <1>1, <1>2, SMT
<1>4. T \in SUBSET Nat /\ T # {} /\ now + attempt[a].said \in Nat
  <2>1. now + attempt[a].said \in Nat
    BY <1>1, SMT
  <2>2. QED
    BY <1>3, <2>1
<1>5. /\ Max(T) \in T /\ \A t \in T : t <= Max(T)
  <2> HIDE DEF T
  <2>1. QED
    BY <1>3, <1>4, BoundedHasMax
<1>6. Max(T) \in Nat /\ LastWork(a) = Max(T)
  BY <1>4, <1>5 DEF LastWork
<1>7. PICK t \in T : item[i].created <= t + Tolerance
  BY DEF WithinWork
<1>8. t <= Max(T) /\ t \in Nat
  BY <1>3, <1>5
<1> HIDE DEF T
<1>9. QED
  BY <1>1, <1>6, <1>7, <1>8, LaterToo

(* The invariant of the groups, the resources and the cleanups holds in    *)
(* every reachable state (release_fleet.py:468-786).                       *)
THEOREM FleetCorrect == Spec => []FleetInv
<1>1. Init => FleetInv
  BY InitBase, InitReceipts, InitTimes, InitAsking, InitGone DEF FleetInv
<1>2. FleetInv /\ [Next]_vars => FleetInv'
  BY NextBase, NextReceipts, NextThings, NextTimes, NextAsking, NextEphemeral, NextPersistent DEF FleetInv
<1>3. QED
  BY <1>1, <1>2, PTL DEF Spec

(* Whatever an attempt has made in Azure, its receipt was kept first, and  *)
(* admits it (release_fleet.py:468, coordinate-release-fleet.py:317-339).  *)
THEOREM RetainedFirst == Spec => []RetainedBeforeWritten
<1>1. Things => RetainedBeforeWritten
  BY DEF Things, RetainedBeforeWritten
<1>2. QED
  BY <1>1, FleetCorrect, PTL DEF FleetInv

(* After a complete cleanup nothing that its attempt created is left or    *)
(* comes back (release_fleet.py:635-786).                                  *)
THEOREM CompleteIsGone == Spec => []CompleteMeansGone
<1>1. EphemeralGone /\ PersistentGone => CompleteMeansGone
  BY DEF EphemeralGone, PersistentGone, Gone, CompleteMeansGone
<1>2. QED
  BY <1>1, FleetCorrect, PTL DEF FleetInv

(* No cleanup asks Azure to remove a group without its attempt's marker, a *)
(* resource that was there at its attempt's preflight, or what a later     *)
(* attempt created after its own work (release_fleet.py:252, 635-755).     *)
THEOREM RemovesOnlyOwn == Spec => []OnlyOwnIsRemoved
<1>1. Base /\ Things /\ Asking => OnlyOwnIsRemoved
  <2>1. SUFFICES ASSUME Base, Things, Asking, NEW a \in Attempts
                 PROVE  /\ <<"other", a>> \notin asked[a]
                        /\ asked[a] \cap attempt[a].snapshot = {}
                        /\ \A i \in asked[a] \cap Items :
                             Of(i) <= a \/ item[i].created <= LastWork(a) + Tolerance
    BY DEF OnlyOwnIsRemoved
  <2>2. \A i \in asked[a] : \/ i \in {<<g, a>> : g \in GroupStates \ {"other"}} /\ ~scope.persistent
                            \/ MayRemove(a, i)
    BY <2>1 DEF Asking
  <2>3. <<"other", a>> \notin asked[a]
    <3>1. <<"other", a>> \notin {<<g, a>> : g \in GroupStates \ {"other"}}
      BY SMT
    <3>2. <<"other", a>> \notin Items
      BY SMT DEF Items, Kept, Cluster, Product
    <3>3. QED
      BY <2>2, <3>1, <3>2 DEF MayRemove
  <2>4. asked[a] \cap attempt[a].snapshot = {}
    BY <2>1, <2>2 DEF MayRemove, Things
  <2>5. ASSUME NEW i \in asked[a] \cap Items
        PROVE  Of(i) <= a \/ item[i].created <= LastWork(a) + Tolerance
    <3>1. Of(i) \in Nat /\ a \in Nat
      <4>1. Attempts \subseteq Nat \ {0}
        BY <2>1, ScopeIs DEF Base
      <4>2. QED
        BY <4>1, <2>5, ItemsAre
    <3>2. Of(i) <= a \/ Of(i) > a
      BY <3>1, SMT
    <3>3. CASE i \in {<<g, a>> : g \in GroupStates}
      <4>1. Of(i) = a
        BY <3>3 DEF Of
      <4>2. QED
        BY <3>1, <4>1, AtItself
    <3>4. CASE MayRemove(a, i) /\ Of(i) > a
      <4>1. WithinWork(a, item[i].created, Tolerance)
        BY <3>4 DEF MayRemove
      <4>2. QED
        BY <2>1, <2>5, <4>1, WorkEnds DEF Base
    <3>5. QED
      BY <2>2, <3>2, <3>3, <3>4
  <2>6. QED
    BY <2>3, <2>4, <2>5
<1>2. QED
  BY <1>1, FleetCorrect, PTL DEF FleetInv
===============================================================================
