----------------------------- MODULE ReleaseFleet -----------------------------
(***************************************************************************)
(* Ownership and cleanup of the Azure groups that release acceptance uses  *)
(* (scripts/release_fleet.py, manage-release-fleet.py, and the ownership   *)
(* operation of coordinate-release-fleet.py).  An attempt of a workflow    *)
(* run commits what every slot held before its first write, prepares the   *)
(* groups, works in them, and cleans up; a later run can reconcile an      *)
(* attempt whose cleanup did not finish.  Azure carries out deletions and  *)
(* deployments in its own time, calls fail before or after they took       *)
(* effect, jobs are cancelled at any step, and in a persistent group the   *)
(* next attempt may be at work while an earlier one is reconciled.         *)
(*                                                                         *)
(* An attempt has one cluster, which a host connects, and one product of   *)
(* its deployment.  The deadline of a cleanup is a bound on its rounds.    *)
(***************************************************************************)
EXTENDS Naturals, Sequences, FiniteSets, FiniteSetsExt

CONSTANTS
  Scenarios,     \* what acceptance may be run on, see Scenario
  MaxTime,       \* bound on the clock, in units of CREATION_CLOCK_TOLERANCE
  MaxRounds,     \* bound on the rounds of one cleanup: its timeout over its interval
  MaxReconciles  \* bound on the reconciliations of an attempt

VARIABLES
  scope,       \* the scenario; fixed
  now,         \* Azure's clock
  group,       \* each resource group: "none", "ours" with an attempt's marker, "leaving", "other"
  item,        \* each resource: where it is in its life, its creation time, whether that is told
  deployment,  \* the deployment of each attempt, with its start and end
  attempt,     \* each attempt of a run: its phase, its receipt, its jobs
  cleaner,     \* the cleanup at work for each attempt
  report,      \* the last cleanup receipt of each attempt
  asked        \* history: what the cleanups of each attempt asked Azure to remove

vars == <<scope, now, group, item, deployment, attempt, cleaner, report, asked>>

\* slots: in order.  site: a single Site case.  bound: its vault carries the attempt's name.
\* followed: the attempts that are followed to their end; others stay at work.
Scenario == [persistent: BOOLEAN, site: BOOLEAN, bound: BOOLEAN, slots: Seq(STRING),
             attempts: SUBSET (Nat \ {0}), followed: SUBSET Nat, product: {"instance", "vault"}]

ASSUME FleetAssumption ==
  /\ Scenarios \subseteq Scenario /\ \A s \in Scenarios : s.slots # <<>>
  /\ MaxTime \in Nat /\ MaxRounds \in Nat \ {0} /\ MaxReconciles \in Nat

Tolerance == 1

Attempts == scope.attempts
Slots == {scope.slots[k] : k \in DOMAIN scope.slots}
First == scope.slots[1]

\* An ephemeral group is named for its attempt; the environment names a persistent one.
Name(a, s) == <<IF scope.persistent THEN 0 ELSE a, s>>
Names == {Name(a, s) : a \in Attempts, s \in Slots}

\* Resources: one that was there before, and each attempt's, named for it.
Kept == <<"kept", 0>>
Cluster(a) == <<"cluster", a>>
Product(a) == <<"product", a>>
Items == {Kept} \cup {Cluster(a) : a \in Attempts} \cup {Product(a) : a \in Attempts}
Of(i) == i[2]
Place(i) == Name(Of(i), First)
IsVault(i) == i[1] = "product" /\ scope.product = "vault"
Listed == {i \in Items : item[i].state \in {"present", "leaving"}}

Ours(a) == {Cluster(a), Product(a)}

------------------------------------------------------------------------------
(* What Azure does in its own time *)

Stands(n) == group[n] \in {"ours", "other"}

\* A resource appears in a group that stands.  Azure may omit its creation time.
Appear(i, told) ==
  item' = [item EXCEPT ![i] = [state |-> "present", created |-> now, told |-> told]]

\* The clock matters from the first timestamp, and only to bounds.
Tick ==
  /\ scope.persistent /\ now < MaxTime
  /\ \E a \in Attempts : attempt[a].phase \notin {"new", "checked", "preparing"}
  /\ now' = now + 1
  /\ UNCHANGED <<scope, group, item, deployment, attempt, cleaner, report, asked>>

Produce(a) ==
  /\ deployment[a].state = "running" /\ item[Product(a)].state = "none"
  /\ Stands(Place(Product(a)))
  /\ \E told \in BOOLEAN : Appear(Product(a), told)
  /\ UNCHANGED <<scope, now, group, deployment, attempt, cleaner, report, asked>>

EndDeployment(a) ==
  /\ deployment[a].state = "running"
  /\ deployment' = [deployment EXCEPT ![a].state = "ended", ![a].end = now]
  /\ UNCHANGED <<scope, now, group, item, attempt, cleaner, report, asked>>

\* What is removed is no longer listed, with whatever was told of it.
Removed(i) == [state |-> IF IsVault(i) THEN "soft" ELSE "gone", created |-> 0, told |-> TRUE]

\* An accepted deletion succeeds, or fails and leaves the resource.
SettleItem(i) ==
  /\ item[i].state = "leaving"
  /\ item' \in {[item EXCEPT ![i] = Removed(i)], [item EXCEPT ![i].state = "present"]}
  /\ UNCHANGED <<scope, now, group, deployment, attempt, cleaner, report, asked>>

\* With a group go its resources and its deployments.
SettleGroup(a, s) ==
  LET n == Name(a, s)
  IN /\ group[n] = "leaving"
     /\ \/ /\ group' = [group EXCEPT ![n] = "none"]
           /\ item' = [i \in Items |-> IF i \in Listed /\ Place(i) = n THEN Removed(i) ELSE item[i]]
           /\ deployment' = [b \in Attempts |->
                IF deployment[b].state = "running" /\ Name(b, First) = n
                THEN [deployment[b] EXCEPT !.state = "ended", !.end = now] ELSE deployment[b]]
        \/ /\ group' = [group EXCEPT ![n] = "ours"]
           /\ UNCHANGED <<item, deployment>>
     /\ UNCHANGED <<scope, now, attempt, cleaner, report, asked>>

\* Someone else takes the name of a group that is about to be created.
TakeName(a, s) ==
  /\ ~scope.persistent /\ group[Name(a, s)] = "none"
  /\ attempt[a].phase \in {"new", "checked", "preparing"}
  /\ group' = [group EXCEPT ![Name(a, s)] = "other"]
  /\ UNCHANGED <<scope, now, item, deployment, attempt, cleaner, report, asked>>

\* The owner of a persistent group removes it, with all it holds.
DropGroup(s) ==
  /\ scope.persistent /\ group[Name(1, s)] = "other"
  /\ group' = [group EXCEPT ![Name(1, s)] = "none"]
  /\ item' = [i \in Items |-> IF i \in Listed THEN Removed(i) ELSE item[i]]
  /\ deployment' = [b \in Attempts |-> IF deployment[b].state = "running"
       THEN [deployment[b] EXCEPT !.state = "ended", !.end = now] ELSE deployment[b]]
  /\ UNCHANGED <<scope, now, attempt, cleaner, report, asked>>

\* A cleanup process, when it starts, and none.
Fresh(bounded) ==
  [on |-> TRUE, bounded |-> bounded, pending |-> [s \in Slots |-> "inspect"], visited |-> {},
   result |-> [s \in Slots |-> "none"], limit |-> [s \in Slots |-> 0], requested |-> {}, vaults |-> {},
   unread |-> FALSE, rounds |-> 0, purging |-> {}]

Idle == [Fresh(FALSE) EXCEPT !.on = FALSE]

------------------------------------------------------------------------------
(* An attempt: preflight, receipt, creation, work *)

\* One fleet acceptance at a time: an attempt starts when the earlier ones have ended.
Turn(a) == \A b \in Attempts : b < a => attempt[b].phase = "over"

\* preflight refuses a name that is taken, and a persistent group that is in use.
Admits(a) ==
  \A s \in Slots :
    IF scope.persistent
    THEN /\ group[Name(a, s)] = "other"
         /\ \A i \in Listed : ~(i[1] = "product" /\ scope.product = "instance")
    ELSE group[Name(a, s)] = "none"

Preflight(a) ==
  /\ attempt[a].phase = "new" /\ Turn(a)
  /\ Admits(a)
  /\ attempt' = [attempt EXCEPT ![a].phase = "checked",
                                ![a].snapshot = IF scope.persistent THEN Listed ELSE {}]
  /\ UNCHANGED <<scope, now, group, item, deployment, cleaner, report, asked>>

\* Mutant: creation goes on where the receipt could not be kept.
RetainIfPossible(a) ==
  /\ attempt[a].phase = "checked"
  /\ \E kept \in BOOLEAN :
       attempt' = [attempt EXCEPT ![a].phase = "preparing", ![a].durable = kept]
  /\ UNCHANGED <<scope, now, group, item, deployment, cleaner, report, asked>>

\* The receipt is kept where a later run finds it before anything is written.
Retain(a) ==
  /\ attempt[a].phase = "checked"
  /\ attempt' = [attempt EXCEPT ![a].phase = "preparing", ![a].durable = TRUE]
  /\ UNCHANGED <<scope, now, group, item, deployment, cleaner, report, asked>>

\* The jobs before the cleanup are done, well or not.
Ended(a) == [attempt EXCEPT ![a].phase = "ended", ![a].slot = 1, ![a].step = "check"]

SlotOf(a) == scope.slots[attempt[a].slot]

\* exists() of create: the slot is taken up only while no group has its name.
CheckSlot(a) ==
  /\ attempt[a].phase = "preparing" /\ attempt[a].step = "check"
  /\ group[Name(a, SlotOf(a))] = IF scope.persistent THEN "other" ELSE "none"
  /\ attempt' = [attempt EXCEPT ![a].step = IF scope.persistent THEN "confirm" ELSE "call"]
  /\ UNCHANGED <<scope, now, group, item, deployment, cleaner, report, asked>>

\* A group that was taken meanwhile keeps its owner's marker, whatever the call answers.
CallCreate(a) ==
  LET n == Name(a, SlotOf(a))
  IN /\ attempt[a].phase = "preparing" /\ attempt[a].step = "call"
     /\ \E effect \in BOOLEAN, answered \in BOOLEAN :
          /\ answered => effect
          /\ group' = IF effect /\ group[n] = "none" THEN [group EXCEPT ![n] = "ours"] ELSE group
          /\ attempt' = IF answered THEN [attempt EXCEPT ![a].step = "confirm"]
                        ELSE Ended(a)
     /\ UNCHANGED <<scope, now, item, deployment, cleaner, report, asked>>

\* FleetScope.owns: the supplied group, or one with the marker of this attempt.
Owns(a, s) == group[Name(a, s)] \in IF scope.persistent THEN {"other"} ELSE {"ours", "leaving"}

Confirm(a) ==
  /\ attempt[a].phase = "preparing" /\ attempt[a].step = "confirm"
  /\ Owns(a, SlotOf(a))
  /\ attempt' = [attempt EXCEPT
       ![a] = IF @.slot < Len(scope.slots)
              THEN [attempt[a] EXCEPT !.slot = @ + 1, !.step = "check"]
              ELSE [attempt[a] EXCEPT !.phase = "working", !.host = TRUE, !.slot = 1, !.step = "check"]]
  /\ UNCHANGED <<scope, now, group, item, deployment, cleaner, report, asked>>

\* A host connects its cluster; cleanup does not wait for the hosts, so it may be late.
Connect(a) ==
  /\ attempt[a].host /\ item[Cluster(a)].state = "none" /\ Stands(Place(Cluster(a)))
  /\ Appear(Cluster(a), TRUE)
  /\ UNCHANGED <<scope, now, group, deployment, attempt, cleaner, report, asked>>

StopHost(a) ==
  /\ attempt[a].host
  /\ attempt' = [attempt EXCEPT ![a].host = FALSE]
  /\ UNCHANGED <<scope, now, group, item, deployment, cleaner, report, asked>>

Deploy(a) ==
  /\ attempt[a].phase = "working" /\ deployment[a].state = "none"
  /\ item[Cluster(a)].state = "present" /\ Stands(Name(a, First))
  /\ deployment' = [deployment EXCEPT ![a] = [state |-> "running", start |-> now, end |-> now]]
  /\ UNCHANGED <<scope, now, group, item, attempt, cleaner, report, asked>>

\* The deployment ended well, and the attempt goes on to its cleanup.
Succeed(a) ==
  /\ attempt[a].phase = "working" /\ deployment[a].state = "ended"
  /\ attempt' = Ended(a)
  /\ UNCHANGED <<scope, now, group, item, deployment, cleaner, report, asked>>

\* Any check or call of the attempt fails: its own cleanup still runs.
Fail(a) ==
  /\ attempt[a].phase \in {"preparing", "working"}
  /\ attempt' = Ended(a)
  /\ UNCHANGED <<scope, now, group, item, deployment, cleaner, report, asked>>

\* All jobs of the attempt completed, or were cancelled wherever they were.  GitHub's clock
\* says when, within the tolerance of Azure's.
Over(a) ==
  /\ attempt[a].phase # "over" /\ Turn(a)
  /\ \E said \in (IF now = 0 THEN 0 ELSE now - Tolerance)..(now + Tolerance) :
       attempt' = [attempt EXCEPT ![a].phase = "over", ![a].host = FALSE,
                                  ![a].slot = 1, ![a].step = "check",
                                  ![a].said = said]
  /\ cleaner' = [cleaner EXCEPT ![a] = Idle]
  /\ UNCHANGED <<scope, now, group, item, deployment, report, asked>>

------------------------------------------------------------------------------
(* Cleanup *)

AtWork(a) == attempt[a].host \/ deployment[a].state = "running"

Begin(a, bounded) ==
  /\ cleaner' = [cleaner EXCEPT ![a] = Fresh(bounded)]
  /\ report' = [report EXCEPT ![a] = [given |-> FALSE, complete |-> FALSE,
                                      settled |-> bounded \/ ~AtWork(a)]]

\* The cleanup job of the same run recovers the receipt that was retained before creation.
StartCleanup(a) ==
  /\ attempt[a].phase = "ended" /\ attempt[a].durable
  /\ Begin(a, FALSE)
  /\ attempt' = [attempt EXCEPT ![a].phase = "cleaning"]
  /\ UNCHANGED <<scope, now, group, item, deployment, asked>>

\* A standalone run requires that the original one has completed.
Reconcile(a) ==
  /\ attempt[a].phase = "over" /\ attempt[a].durable
  /\ ~cleaner[a].on /\ attempt[a].reconciled < MaxReconciles
  /\ Begin(a, TRUE)
  /\ attempt' = [attempt EXCEPT ![a].reconciled = @ + 1]
  /\ UNCHANGED <<scope, now, group, item, deployment, asked>>

Bounded(a) == cleaner[a].bounded /\ scope.persistent

\* The slot is looked at for the first time in this round.
At(a, s, steps) ==
  cleaner[a].on /\ s \notin cleaner[a].visited /\ cleaner[a].pending[s] \in steps

Settled(c, s, outcome) ==
  [c EXCEPT !.result[s] = outcome, !.pending[s] = "done", !.visited = @ \cup {s}]
Waiting(c, s, outcome) == [c EXCEPT !.result[s] = outcome, !.visited = @ \cup {s}]

\* A read that fails: after a timeout the slot is tried again in the next round.
CallFails(a, s) ==
  LET p == cleaner[a].pending[s]
      back == IF p \in {"inspect", "remove first"} THEN "inspect" ELSE "deleting"
  IN /\ At(a, s, {"inspect", "deleting", "remove first", "remove"})
     /\ \/ cleaner' = [cleaner EXCEPT ![a] = Settled(@, s, "unknown")]
        \/ cleaner' = [cleaner EXCEPT ![a] = Waiting([@ EXCEPT !.pending[s] = back, !.limit[s] = 0], s, "unknown")]
     /\ UNCHANGED <<scope, now, group, item, deployment, attempt, report, asked>>

\* _delete_groups: exists, then for the first time show and owns, and the vaults of a Site.
LookGroup(a, s) ==
  LET n == Name(a, s)
      vaults == {i \in Listed : IsVault(i) /\ Place(i) = n}
  IN /\ ~scope.persistent /\ At(a, s, {"inspect", "deleting"})
     /\ \/ /\ group[n] = "none"
           /\ cleaner' = [cleaner EXCEPT ![a] = Settled(@, s, "absent")]
        \/ /\ group[n] # "none" /\ cleaner[a].pending[s] = "deleting"
           /\ cleaner' = [cleaner EXCEPT ![a] = Waiting(@, s, "residual")]
        \/ /\ group[n] # "none" /\ cleaner[a].pending[s] = "inspect" /\ ~Owns(a, s)
           /\ cleaner' = [cleaner EXCEPT ![a] = Settled(@, s, "not-attempted")]
        \/ /\ group[n] # "none" /\ cleaner[a].pending[s] = "inspect" /\ Owns(a, s)
           /\ \E unread \in (IF scope.site THEN BOOLEAN ELSE {FALSE}) :
                cleaner' = [cleaner EXCEPT ![a].pending[s] = "submit", ![a].unread = unread,
                                           ![a].vaults = IF scope.site THEN vaults ELSE {}]
     /\ UNCHANGED <<scope, now, group, item, deployment, attempt, report, asked>>

\* A failed response can follow an accepted delete: the slot is "deleting" before the call.
SubmitDelete(a, s) ==
  LET n == Name(a, s)
  IN /\ ~scope.persistent /\ At(a, s, {"submit"})
     /\ \E effect \in BOOLEAN, answer \in {"accepted", "timeout", "failed"} :
          /\ answer = "accepted" => effect
          /\ group' = IF effect /\ Stands(n) THEN [group EXCEPT ![n] = "leaving"] ELSE group
          /\ cleaner' = [cleaner EXCEPT ![a] =
               CASE answer = "accepted" -> Waiting([@ EXCEPT !.pending[s] = "deleting"], s, "residual")
                 [] answer = "timeout" -> Waiting([@ EXCEPT !.pending[s] = "deleting"], s, "unknown")
                 [] OTHER -> Settled(@, s, "unknown")]
     /\ asked' = [asked EXCEPT ![a] = @ \cup {<<group[n], a>>}]
     /\ UNCHANGED <<scope, now, item, deployment, attempt, report>>

\* Mutant: the tolerance between the clocks is left out.
StartedBefore(a, s) ==
  {b \in Attempts : /\ deployment[b].state # "none" /\ Name(b, First) = Name(a, s)
                    /\ deployment[b].start <= attempt[a].said}

\* The deployments that a reconciliation waits for, and whose end extends its bound.
Considered(a, s) ==
  {b \in Attempts : /\ deployment[b].state # "none" /\ Name(b, First) = Name(a, s)
                    /\ deployment[b].start <= attempt[a].said + Tolerance}

\* _delete_created: exists, and the deployments of a bounded cleanup.
LookDeployments(a, s) ==
  LET running == \E b \in Considered(a, s) : deployment[b].state = "running"
      limit == Max({attempt[a].said} \cup {deployment[b].end : b \in Considered(a, s)})
  IN /\ scope.persistent /\ At(a, s, {"inspect", "deleting"})
     /\ \/ /\ group[Name(a, s)] = "none"
           /\ cleaner' = [cleaner EXCEPT ![a] = Settled(@, s, "unknown")]
        \/ /\ group[Name(a, s)] # "none" /\ Bounded(a) /\ running
           /\ cleaner' = [cleaner EXCEPT ![a] = Waiting(@, s, "residual")]
        \/ /\ group[Name(a, s)] # "none" /\ ~(Bounded(a) /\ running)
           /\ cleaner' = [cleaner EXCEPT
                ![a].pending[s] = IF @ = "inspect" THEN "remove first" ELSE "remove",
                ![a].limit[s] = limit]
     /\ UNCHANGED <<scope, now, group, item, deployment, attempt, report, asked>>

\* What was not in the snapshot: created by this attempt, as far as a bound can tell.
Delta(a, s) == {i \in Listed : Place(i) = Name(a, s)} \ attempt[a].snapshot
Unavailable(a, s) == {i \in Delta(a, s) : Bounded(a) /\ ~item[i].told}
\* Mutant: a reconciliation takes all that was created since the snapshot for its own.
CreatedEver(a, s) == Delta(a, s) \ Unavailable(a, s)

Created(a, s) ==
  {i \in Delta(a, s) \ Unavailable(a, s) :
     Bounded(a) => item[i].created <= cleaner[a].limit[s] + Tolerance}

\* The resources are listed and each deletion requested, again after retry_after.  Requests
\* may fail, some though they took effect; one whose diagnostics cannot be kept ends the slot.
RemoveDelta(a, s) ==
  LET c == IF cleaner[a].pending[s] = "remove first"
           THEN [cleaner[a] EXCEPT !.vaults = {i \in Created(a, s) : IsVault(i)}] ELSE cleaner[a]
      d == [c EXCEPT !.pending[s] = "deleting", !.limit[s] = 0]
  IN /\ scope.persistent /\ At(a, s, {"remove first", "remove"})
     /\ \/ /\ Created(a, s) = {}
           /\ cleaner' = [cleaner EXCEPT ![a] =
                Settled(d, s, IF Unavailable(a, s) = {} THEN "absent" ELSE "residual")]
           /\ UNCHANGED <<item, asked>>
        \/ /\ Created(a, s) # {}
           /\ \E again \in SUBSET (Created(a, s) \cap c.requested) :
                LET sent == (Created(a, s) \ c.requested) \cup again
                IN \E answered \in SUBSET sent : \E silent \in SUBSET (sent \ answered) :
                     /\ item' = [i \in Items |-> IF i \in answered \cup silent
                                  THEN [item[i] EXCEPT !.state = "leaving"] ELSE item[i]]
                     /\ cleaner' \in {[cleaner EXCEPT ![a] =
                                         Waiting([d EXCEPT !.requested = c.requested \cup answered], s, "residual")],
                                      [cleaner EXCEPT ![a] = Settled(d, s, "unknown")]}
                     /\ asked' = [asked EXCEPT ![a] = @ \cup sent]
     /\ UNCHANGED <<scope, now, group, deployment, attempt, report>>

Pending(a) == {s \in Slots : cleaner[a].pending[s] # "done"}

\* The deadline has passed, or the pending slots are visited again.
NextRound(a) ==
  /\ cleaner[a].on /\ ~report[a].given
  /\ Pending(a) # {} /\ Pending(a) \subseteq cleaner[a].visited
  /\ cleaner[a].rounds < MaxRounds
  /\ cleaner' = [cleaner EXCEPT ![a].visited = {}, ![a].rounds = @ + 1]
  /\ UNCHANGED <<scope, now, group, item, deployment, attempt, report, asked>>

\* The vaults to purge: those seen, and the one that carries the attempt's name.
Purgeable(a) == IF cleaner[a].unread THEN {}
                ELSE cleaner[a].vaults \cup (IF scope.bound THEN {Product(a)} ELSE {})

Report(a) ==
  LET complete == \A s \in Slots : cleaner[a].result[s] = "absent"
  IN /\ cleaner[a].on /\ ~report[a].given
     /\ Pending(a) \subseteq cleaner[a].visited
     /\ report' = [report EXCEPT ![a].given = TRUE, ![a].complete = complete]
     /\ cleaner' = [cleaner EXCEPT ![a].purging = IF complete /\ scope.site THEN Purgeable(a) ELSE {}]
     /\ UNCHANGED <<scope, now, group, item, deployment, attempt, asked>>

\* The deleted record must name the group; its absence, or a call that fails, ends the vault.
Purge(a, i) ==
  /\ cleaner[a].on /\ report[a].given /\ i \in cleaner[a].purging
  /\ cleaner' = [cleaner EXCEPT ![a].purging = @ \ {i}]
  /\ \/ UNCHANGED <<item, asked>>
     \/ /\ item[i].state = "soft"
        /\ item' = [item EXCEPT ![i].state = "gone"]
        /\ asked' = [asked EXCEPT ![a] = @ \cup {i}]
  /\ UNCHANGED <<scope, now, group, deployment, attempt, report>>

Return(a) ==
  /\ cleaner[a].on /\ report[a].given /\ cleaner[a].purging = {}
  /\ cleaner' = [cleaner EXCEPT ![a] = Idle]
  /\ UNCHANGED <<scope, now, group, item, deployment, attempt, report, asked>>

\* A reconciliation is cancelled, and may be started again.
Interrupt(a) ==
  /\ attempt[a].phase = "over" /\ cleaner[a].on
  /\ cleaner' = [cleaner EXCEPT ![a] = Idle]
  /\ UNCHANGED <<scope, now, group, item, deployment, attempt, report, asked>>

------------------------------------------------------------------------------
Nothing == [state |-> "none", created |-> 0, told |-> TRUE]

Init ==
  /\ scope \in Scenarios
  /\ now = 0
  /\ group = [n \in Names |-> IF scope.persistent THEN "other" ELSE "none"]
  /\ item = [i \in Items |-> IF i = Kept /\ scope.persistent
                             THEN [Nothing EXCEPT !.state = "present"] ELSE Nothing]
  /\ deployment = [a \in Attempts |-> [state |-> "none", start |-> 0, end |-> 0]]
  /\ attempt = [a \in Attempts |->
       [phase |-> "new", snapshot |-> {}, durable |-> FALSE, slot |-> 1, step |-> "check",
        host |-> FALSE, said |-> 0, reconciled |-> 0]]
  /\ cleaner = [a \in Attempts |-> Idle]
  /\ report = [a \in Attempts |-> [given |-> FALSE, complete |-> FALSE, settled |-> TRUE]]
  /\ asked = [a \in Attempts |-> {}]

Azure ==
  \/ Tick
  \/ \E a \in Attempts : Produce(a) \/ EndDeployment(a)
  \/ \E i \in Items : SettleItem(i)
  \/ \E a \in Attempts, s \in Slots : SettleGroup(a, s)

Others == \E s \in Slots : DropGroup(s) \/ \E a \in Attempts : TakeName(a, s)

Work(a) ==
  \/ Preflight(a) \/ Retain(a) \/ CheckSlot(a) \/ CallCreate(a) \/ Confirm(a) \/ Connect(a)
  \/ /\ a \in scope.followed
     /\ \/ StopHost(a) \/ Deploy(a) \/ Succeed(a) \/ Fail(a) \/ Over(a)
        \/ StartCleanup(a) \/ Reconcile(a) \/ Interrupt(a)

Clean(a) ==
  \/ \E s \in Slots : \/ CallFails(a, s)
                      \/ LookGroup(a, s) \/ SubmitDelete(a, s)
                      \/ LookDeployments(a, s) \/ RemoveDelta(a, s)
  \/ \E i \in Items : Purge(a, i)
  \/ NextRound(a) \/ Report(a) \/ Return(a)

Next == Azure \/ Others \/ \E a \in Attempts : Work(a) \/ Clean(a)

Spec == Init /\ [][Next]_vars

------------------------------------------------------------------------------
(* Properties *)

ItemStates == {"none", "present", "leaving", "soft", "gone"}
Phases == {"new", "checked", "preparing", "working", "ended", "cleaning", "over"}

TypeOK ==
  /\ scope \in Scenarios /\ now \in 0..MaxTime
  /\ group \in [Names -> {"none", "ours", "leaving", "other"}]
  /\ item \in [Items -> [state: ItemStates, created: Nat, told: BOOLEAN]]
  /\ deployment \in [Attempts -> [state: {"none", "running", "ended"}, start: Nat, end: Nat]]
  /\ \A a \in Attempts : attempt[a].phase \in Phases /\ attempt[a].snapshot \subseteq Items

\* When the last thing an attempt had started ended: its jobs, by GitHub's clock, or a
\* deployment that counts as its own because it started before that, give or take the
\* tolerance between the clocks.
LastWork(a) ==
  Max({attempt[a].said} \cup
      {deployment[b].end : b \in {d \in Attempts : deployment[d].start <= attempt[a].said + Tolerance}})

\* No cleanup asks to remove a group without its attempt's marker, a resource that the group
\* held at the attempt's preflight, or what a later attempt created after the attempt's own
\* work had ended, however calls fail, jobs are cancelled and reconciliations repeated
\* (release_fleet.py:252, 635-755, 576).
OnlyOwnIsRemoved ==
  \A a \in Attempts :
    /\ <<"other", a>> \notin asked[a]
    /\ asked[a] \cap attempt[a].snapshot = {}
    /\ \A i \in asked[a] \cap Items :
         Of(i) <= a \/ item[i].created <= LastWork(a) + Tolerance

\* After a complete cleanup nothing that the attempt created is left or will come back: no
\* group with its marker and, where no work of the attempt was still going on when the cleanup
\* began or the cleanup was a reconciliation, no resource (release_fleet.py:635-755, 786).
CompleteMeansGone ==
  \A a \in Attempts :
    report[a].complete =>
      IF scope.persistent
      THEN report[a].settled =>
             \A i \in Ours(a) : item[i].state \notin {"present", "leaving"}
      ELSE \A s \in Slots : group[Name(a, s)] \notin {"ours", "leaving"}

\* Whatever an attempt has made in Azure, at any step and after any failed call or cancelled
\* job, a receipt was kept first with which a later run can find it: the receipt admits the
\* group and does not count the resource among those that were there (release_fleet.py:468,
\* coordinate-release-fleet.py:317-339).
RetainedBeforeWritten ==
  \A a \in Attempts :
    /\ (\E s \in Slots : group[Name(a, s)] \in {"ours", "leaving"}) => attempt[a].durable
    /\ \A i \in Ours(a) :
         item[i].state # "none" => attempt[a].durable /\ i \notin attempt[a].snapshot
==============================================================================
