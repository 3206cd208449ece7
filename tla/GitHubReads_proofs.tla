---------------------------- MODULE GitHubReads_proofs ----------------------------
(***************************************************************************)
(* Proofs about the commands that read from GitHub: a release is resolved  *)
(* as it was at one moment (SnapshotIsAtomic), a caller is given bytes     *)
(* that nobody can change any more (YieldedIsFinal), and a cached answer   *)
(* is used online only while it is young (FreshUnlessOffline).  They hold  *)
(* for any list of assets, any number of redirects, processes, moves of    *)
(* the branch and ticks of the clock.                                      *)
(***************************************************************************)
EXTENDS GitHubReads, TLAPS

-------------------------------------------------------------------------------
(* The resolution of a release.                                            *)

(* The order of the requests reaches every part the second time.           *)
LEMMA ReadsAreParts ==
  /\ FirstReads \in Seq(Parts)
  /\ SecondReads \in Seq(Parts)
  /\ \A part \in Parts : \E i \in 1 .. Len(SecondReads) : SecondReads[i] = part
<1>1. Assets \in Seq(STRING) /\ Len(Assets) \in Nat /\ DOMAIN Assets = 1 .. Len(Assets)
  BY SnapshotAssumption DEF SnapshotAssumption
<1>2. \A i \in 1 .. Len(Assets) : Assets[i] \in Parts
  BY <1>1 DEF Parts, Pages
<1>3. Assets \in Seq(Parts)
  BY <1>1, <1>2, SMT
<1>4. /\ <<"repository", "release", "tag">> \in Seq(Parts)
      /\ <<"release", "tag">> \in Seq(Parts)
      /\ <<"repository">> \in Seq(Parts)
  BY SMT DEF Parts
<1>5. FirstReads \in Seq(Parts)
  BY <1>3, <1>4, SMT DEF FirstReads
<1>6. <<"release", "tag">> \o Assets \in Seq(Parts)
  BY <1>3, <1>4, SMT
<1>7. SecondReads \in Seq(Parts)
  BY <1>4, <1>6, SMT DEF SecondReads
<1>8. Len(SecondReads) = Len(Assets) + 3
  BY <1>1, SMT DEF SecondReads
<1>9. /\ SecondReads[1] = "release" /\ SecondReads[2] = "tag"
      /\ SecondReads[Len(Assets) + 3] = "repository"
  BY <1>1, SMT DEF SecondReads
<1>10. \A i \in 1 .. Len(Assets) : SecondReads[i + 2] = Assets[i]
  BY <1>1, SMT DEF SecondReads
<1>11. ASSUME NEW part \in Parts
       PROVE  \E i \in 1 .. Len(SecondReads) : SecondReads[i] = part
  <2>1. CASE part \in {"repository", "release", "tag"}
    BY <1>1, <1>8, <1>9, <2>1, SMT
  <2>2. CASE part \in Pages
    <3>1. PICK i \in 1 .. Len(Assets) : Assets[i] = part
      BY <1>1, <2>2 DEF Pages
    <3>2. i + 2 \in 1 .. Len(SecondReads) /\ SecondReads[i + 2] = part
      BY <1>1, <1>8, <1>10, <3>1, SMT
    <3>3. QED
      BY <3>2
  <2>3. QED
    BY <2>1, <2>2 DEF Parts
<1>12. QED
  BY <1>5, <1>7, <1>11

(* What is read is older than the witness, and the witness than what is    *)
(* there; what was read twice alike is as the witness had it.              *)
SnapshotInv ==
  /\ source \in [Parts -> Nat]
  /\ seen \in [Parts -> Nat]
  /\ witness \in [Parts -> Nat]
  /\ reads \in Nat
  /\ \A part \in Parts : seen[part] <= source[part]
  /\ resolving = "second" =>
       /\ \A part \in Parts : seen[part] <= witness[part] /\ witness[part] <= source[part]
       /\ \A i \in 1 .. reads : i <= Len(SecondReads) =>
            seen[SecondReads[i]] = witness[SecondReads[i]]
  /\ SnapshotIsAtomic

(* Nothing was read.                                                       *)
LEMMA SnapshotInvInit == SnapshotInit => SnapshotInv
BY SMT DEF SnapshotInit, SnapshotInv, Unread, SnapshotIsAtomic

(* Every step of a resolution, and of the publisher, keeps the invariant.  *)
LEMMA SnapshotInvStep ==
  ASSUME SnapshotInv, [SnapshotNext]_snapshotVars
  PROVE  SnapshotInv'
<1> USE DEF SnapshotInv, SnapshotIsAtomic
<1>1. ASSUME NEW part \in Parts, Publish(part)
      PROVE  SnapshotInv'
  BY <1>1, SMT DEF Publish
<1>2. CASE StartResolving
  BY <1>2, SMT DEF StartResolving, Unread
<1>3. CASE ReadFirst
  <2>1. reads + 1 \in 1 .. Len(FirstReads)
    BY <1>3, ReadsAreParts, SMT DEF ReadFirst
  <2>2. FirstReads[reads + 1] \in Parts
    BY <2>1, ReadsAreParts
  <2>3. QED
    BY <1>3, <2>2, SMT DEF ReadFirst
<1>4. CASE TurnBack
  BY <1>4, SMT DEF TurnBack
<1>5. CASE ReadSecond
  <2>1. reads + 1 \in 1 .. Len(SecondReads)
    BY <1>5, ReadsAreParts, SMT DEF ReadSecond
  <2>2. SecondReads[reads + 1] \in Parts
    BY <2>1, ReadsAreParts
  <2>3. CASE source[SecondReads[reads + 1]] = seen[SecondReads[reads + 1]]
    <3>1. seen[SecondReads[reads + 1]] = witness[SecondReads[reads + 1]]
      BY <1>5, <2>2, <2>3, SMT DEF ReadSecond
    <3>2. reads' = reads + 1 /\ UNCHANGED <<source, seen, resolving, witness>>
      BY <1>5, <2>3 DEF ReadSecond
    <3>3. QED
      BY <1>5, <3>1, <3>2, SMT DEF ReadSecond
  <2>4. CASE source[SecondReads[reads + 1]] # seen[SecondReads[reads + 1]]
    BY <1>5, <2>4, SMT DEF ReadSecond
  <2>5. QED
    BY <2>3, <2>4
<1>6. CASE Resolved
  <2>1. \A part \in Parts : seen[part] = witness[part]
    <3>1. TAKE part \in Parts
    <3>2. PICK i \in 1 .. Len(SecondReads) : SecondReads[i] = part
      BY ReadsAreParts
    <3>3. QED
      BY <1>6, <3>2, ReadsAreParts, SMT DEF Resolved
  <2>2. seen = witness
    BY <2>1, SMT
  <2>3. QED
    BY <1>6, <2>2, SMT DEF Resolved
<1>7. CASE RequestFails
  BY <1>7, SMT DEF RequestFails
<1>8. CASE UNCHANGED snapshotVars
  BY <1>8, SMT DEF snapshotVars
<1>9. QED
  BY <1>1, <1>2, <1>3, <1>4, <1>5, <1>6, <1>7, <1>8 DEF SnapshotNext, Resolve

-------------------------------------------------------------------------------
(* The transfer of an asset.                                               *)

TransferInv ==
  /\ parent \in {"idle", "make", "spawn", "poll", "terminate", "kill", "result", "hash",
                 "yield", "clean", "returned"}
  /\ parent \in {"idle", "make", "spawn"} => worker = "none"
  /\ parent \in {"spawn", "poll", "terminate", "kill"} => staging
  /\ parent \in {"result", "clean"} => worker \in Exited
  /\ parent \in {"hash", "yield"} => worker = "ok"
  /\ parent = "yield" => file = "expected"
  /\ worker \notin Exited => staging

(* There is no worker.                                                     *)
LEMMA TransferInvInit == TransferInit => TransferInv
BY DEF TransferInit, TransferInv, Exited

(* No step of the parent leaves a worker behind that could still write     *)
(* what it goes on with; a worker that exited is not there to take a step. *)
LEMMA TransferInvStep ==
  ASSUME TransferInv, BeginTransfer \/ Parent \/ DeadlinePasses \/ Worker
  PROVE  TransferInv'
<1> USE DEF TransferInv, Exited, Fail, keepWorker
<1>1. CASE BeginTransfer
  BY <1>1 DEF BeginTransfer
<1>2. CASE MakeStaging \/ SpawnWorker
  BY <1>2 DEF MakeStaging, SpawnWorker
<1>3. CASE Poll \/ Terminate \/ Kill
  BY <1>3 DEF Poll, Terminate, Kill
<1>4. CASE CheckResult \/ HashAsset \/ LeaveContext \/ RemoveStaging
  BY <1>4 DEF CheckResult, HashAsset, LeaveContext, RemoveStaging
<1>5. CASE DeadlinePasses
  BY <1>5 DEF DeadlinePasses
<1>6. CASE Redirect \/ CopyEnds \/ Flood \/ WorkerDies
  BY <1>6 DEF Redirect, CopyEnds, Flood, WorkerDies
<1>7. ASSUME NEW matches, Respond(matches)
      PROVE  TransferInv'
  BY <1>7 DEF Respond
<1>8. QED
  BY <1>1, <1>2, <1>3, <1>4, <1>5, <1>6, <1>7 DEF Parent, Worker

-------------------------------------------------------------------------------
(* The metadata cache.                                                     *)

Fields == {"stage", "refresh", "offline", "previous", "value", "reused", "age"}

MetadataTyped ==
  /\ head \in Revisions
  /\ clock \in 0 .. MaxClock
  /\ elapsed \in Nat
  /\ setBack \in Nat
  /\ records \in [Keys -> SUBSET Observation]
  /\ DOMAIN browse = Browsers

(* A command has a command's fields, and when it is to write or remember   *)
(* an answer it has one.                                                   *)
Has(b) ==
  /\ DOMAIN browse[b] = Fields
  /\ browse[b].value \subseteq Observation
  /\ browse[b].stage \in {"write", "remember", "bind"} => browse[b].value # {}
  /\ browse[b].reused /\ ~browse[b].offline /\ setBack = 0 => browse[b].age < MaxAge

(* While nobody sets the clock back, the branch's record is as old as the  *)
(* clock says, or older; what an online command reused was young.          *)
MetadataInv ==
  /\ MetadataTyped
  /\ setBack = 0 => \A r \in records[Branch] : elapsed + r.observed <= clock
  /\ \A b \in Browsers : Has(b)

(* Nothing is cached and nobody browses.                                   *)
LEMMA MetadataInvInit == MetadataInit => MetadataInv
BY MetadataAssumption, SMT
DEF MetadataAssumption, MetadataInit, MetadataInv, MetadataTyped, Has, Fields,
    Revisions, Keys, Branch, Resting, Observation

(* What a command's step changes of what the command has.                  *)
LEMMA MovedBy ==
  ASSUME MetadataInv, NEW b \in Browsers, NEW fields, Moves(b, fields)
  PROVE  /\ DOMAIN browse' = Browsers
         /\ \A v \in Browsers : v # b => browse'[v] = browse[v]
         /\ DOMAIN browse'[b] = Fields
         /\ \A f \in Fields :
              browse'[b][f] = IF f \in DOMAIN fields THEN fields[f] ELSE browse[b][f]
<1>1. b \in DOMAIN browse /\ DOMAIN browse[b] = Fields
  BY DEF MetadataInv, MetadataTyped, Has
<1>2. browse'[b] = [f \in Fields |-> IF f \in DOMAIN fields THEN fields[f] ELSE browse[b][f]]
  BY <1>1 DEF Moves
<1>3. DOMAIN browse' = Browsers /\ \A v \in Browsers : v # b => browse'[v] = browse[v]
  BY DEF Moves, MetadataInv, MetadataTyped
<1>4. QED
  BY <1>2, <1>3

(* A command that goes on without a new answer has what it had.            *)
LEMMA GoesOn ==
  ASSUME MetadataInv, NEW b \in Browsers, NEW to, Moves(b, [stage |-> to]),
         to \in {"bind", "remember", "write"} => browse[b].value # {},
         UNCHANGED setBack
  PROVE  \A v \in Browsers : Has(v)'
<1>1. /\ \A v \in Browsers : v # b => browse'[v] = browse[v]
      /\ DOMAIN browse'[b] = Fields
      /\ \A f \in Fields :
           browse'[b][f] = IF f \in {"stage"} THEN [stage |-> to][f] ELSE browse[b][f]
  BY MovedBy
<1>2. /\ browse'[b].stage = to
      /\ browse'[b].value = browse[b].value
      /\ browse'[b].reused = browse[b].reused
      /\ browse'[b].offline = browse[b].offline
      /\ browse'[b].age = browse[b].age
  BY <1>1, SMT DEF Fields
<1>3. QED
  BY <1>1, <1>2 DEF MetadataInv, Has

(* A command that ends has nothing.                                        *)
LEMMA EndsWithNothing ==
  ASSUME MetadataInv, NEW b \in Browsers, Ends(b), UNCHANGED setBack
  PROVE  DOMAIN browse' = Browsers /\ \A v \in Browsers : Has(v)'
<1>1. /\ DOMAIN browse' = Browsers
      /\ browse'[b] = Resting
      /\ \A v \in Browsers : v # b => browse'[v] = browse[v]
  BY SMT DEF MetadataInv, MetadataTyped, Ends
<1>2. Has(b)'
  BY <1>1, SMT DEF Has, Resting, Fields
<1>3. QED
  BY <1>1, <1>2 DEF MetadataInv, Has

(* The answer of a command is an observation of a revision, whose key is   *)
(* not the branch's.                                                       *)
LEMMA ValueIsObserved ==
  ASSUME MetadataInv, NEW b \in Browsers, browse[b].stage \in {"write", "remember", "bind"}
  PROVE  /\ Value(b) \in Observation
         /\ Value(b).payload \in Keys \ {Branch}
<1>1. browse[b].value # {} /\ browse[b].value \subseteq Observation
  BY DEF MetadataInv, Has
<1>2. Value(b) \in Observation
  BY <1>1 DEF Value
<1>3. QED
  BY <1>2, MetadataAssumption, SMT
  DEF Observation, Keys, Branch, Revisions, MetadataAssumption

(* Every step of a command, of the source and of the clock keeps it.       *)
LEMMA MetadataInvStep ==
  ASSUME MetadataInv,
         \/ \E b \in Browsers :
              \/ StartBrowse(b) \/ LockBranch(b) \/ ReadBranch(b) \/ FetchBranch(b)
              \/ WriteBranch(b) \/ LockCommit(b) \/ BindCommit(b) \/ Browsed(b)
         \/ MoveBranch \/ TickClock \/ SetClockBack
  PROVE  MetadataInv'
<1> DEFINE Young == setBack = 0 => \A r \in records[Branch] : elapsed + r.observed <= clock
           Sound == DOMAIN browse = Browsers /\ \A v \in Browsers : Has(v)
           Same  == UNCHANGED <<head, clock, elapsed, setBack, records>>
<1>0. Same /\ Sound' => MetadataInv'
  BY DEF MetadataInv, MetadataTyped
<1>1. ASSUME NEW b \in Browsers, Ends(b), Same
      PROVE  MetadataInv'
  BY <1>0, <1>1, EndsWithNothing
<1>2. ASSUME NEW b \in Browsers, NEW to, Moves(b, [stage |-> to]), Same,
             to \in {"bind", "remember", "write"} => browse[b].value # {}
      PROVE  MetadataInv'
  <2>1. \A v \in Browsers : Has(v)'
    BY <1>2, GoesOn
  <2>2. DOMAIN browse' = Browsers
    BY <1>2, MovedBy
  <2>3. QED
    BY <1>0, <1>2, <2>1, <2>2
<1>3. ASSUME NEW b \in Browsers, StartBrowse(b)
      PROVE  MetadataInv'
  <2>1. PICK refresh \in BOOLEAN, offline \in BOOLEAN :
          browse' = [browse EXCEPT ![b] =
            [Resting EXCEPT !.stage = "lock", !.refresh = refresh, !.offline = offline]]
    BY <1>3 DEF StartBrowse
  <2>2. /\ DOMAIN browse' = Browsers
        /\ \A v \in Browsers : v # b => browse'[v] = browse[v]
        /\ browse'[b] = [Resting EXCEPT !.stage = "lock", !.refresh = refresh, !.offline = offline]
    BY <2>1 DEF MetadataInv, MetadataTyped
  <2>3. DOMAIN browse'[b] = Fields /\ browse'[b].value = {} /\ browse'[b].stage = "lock"
        /\ browse'[b].reused = FALSE
    BY <2>2, SMT DEF Resting, Fields
  <2>4. Has(b)'
    BY <2>3 DEF Has
  <2>5. Same
    BY <1>3 DEF StartBrowse, KeepSource
  <2>6. QED
    BY <1>0, <2>2, <2>4, <2>5 DEF MetadataInv, Has
<1>4. ASSUME NEW b \in Browsers, LockBranch(b)
      PROVE  MetadataInv'
  <2>1. Same /\ (Moves(b, [stage |-> "read"]) \/ Ends(b))
    BY <1>4 DEF LockBranch, KeepSource
  <2>2. QED
    BY <1>1, <1>2, <2>1
<1>5. ASSUME NEW b \in Browsers, ReadBranch(b)
      PROVE  MetadataInv'
  <2>1. Same
    BY <1>5 DEF ReadBranch, KeepSource
  <2>2. CASE Ends(b)
    BY <1>1, <2>1, <2>2
  <2>3. CASE /\ ~Future(Branch) /\ records[Branch] # {}
             /\ ~browse[b].refresh /\ (browse[b].offline \/ ~Stale)
             /\ Moves(b, [stage |-> "remember", value |-> records[Branch], reused |-> TRUE,
                          age |-> elapsed])
    <3>1. /\ \A v \in Browsers : v # b => browse'[v] = browse[v]
          /\ DOMAIN browse' = Browsers /\ DOMAIN browse'[b] = Fields
          /\ browse'[b].stage = "remember" /\ browse'[b].value = records[Branch]
          /\ browse'[b].offline = browse[b].offline /\ browse'[b].age = elapsed
      BY <2>3, MovedBy, SMT DEF Fields
    <3>2. records[Branch] \subseteq Observation
      BY SMT DEF MetadataInv, MetadataTyped, Keys, Branch
    <3>3. ASSUME ~browse[b].offline, setBack = 0
          PROVE  elapsed < MaxAge
      <4>1. PICK r \in records[Branch] : TRUE
        BY <2>3
      <4>2. r.observed \in Nat /\ ~(clock - r.observed >= MaxAge)
        BY <2>3, <3>2, <3>3, <4>1, MetadataAssumption, SMT
        DEF Stale, Observation, MetadataAssumption
      <4>3. QED
        BY <3>3, <4>1, <4>2, MetadataAssumption, SMT
        DEF MetadataInv, MetadataTyped, MetadataAssumption
    <3>4. Has(b)'
      BY <2>1, <2>3, <3>1, <3>2, <3>3 DEF Has
    <3>5. QED
      BY <1>0, <2>1, <3>1, <3>4 DEF MetadataInv, Has
  <2>4. CASE Moves(b, [stage |-> "fetch", previous |-> records[Branch]])
    <3>1. /\ \A v \in Browsers : v # b => browse'[v] = browse[v]
          /\ DOMAIN browse' = Browsers /\ DOMAIN browse'[b] = Fields
          /\ browse'[b].stage = "fetch" /\ browse'[b].value = browse[b].value
          /\ browse'[b].offline = browse[b].offline /\ browse'[b].age = browse[b].age
          /\ browse'[b].reused = browse[b].reused
      BY <2>4, MovedBy, SMT DEF Fields
    <3>2. QED
      BY <1>0, <2>1, <3>1 DEF MetadataInv, Has
  <2>5. QED
    BY <1>5, <2>2, <2>3, <2>4 DEF ReadBranch, Abandon
<1>6. ASSUME NEW b \in Browsers, FetchBranch(b)
      PROVE  MetadataInv'
  <2>1. Same
    BY <1>6 DEF FetchBranch, KeepSource
  <2>2. CASE Moves(b, [stage |-> "write", value |-> {[payload |-> head, observed |-> clock]}])
    <3>1. /\ \A v \in Browsers : v # b => browse'[v] = browse[v]
          /\ DOMAIN browse' = Browsers /\ DOMAIN browse'[b] = Fields
          /\ browse'[b].stage = "write"
          /\ browse'[b].value = {[payload |-> head, observed |-> clock]}
          /\ browse'[b].offline = browse[b].offline /\ browse'[b].age = browse[b].age
          /\ browse'[b].reused = browse[b].reused
      BY <2>2, MovedBy, SMT DEF Fields
    <3>2. {[payload |-> head, observed |-> clock]} \subseteq Observation
      BY DEF MetadataInv, MetadataTyped, Observation
    <3>3. QED
      BY <1>0, <2>1, <3>1, <3>2 DEF MetadataInv, Has
  <2>3. QED
    BY <1>1, <1>6, <2>1, <2>2 DEF FetchBranch, Abandon
<1>7. ASSUME NEW b \in Browsers, WriteBranch(b)
      PROVE  MetadataInv'
  <2> DEFINE written == {[payload |-> Value(b).payload, observed |-> clock]}
  <2>1. CASE Abandon(b, Branch) /\ UNCHANGED <<records, elapsed>>
    BY <1>1, <1>7, <2>1 DEF WriteBranch, Abandon, KeepSource
  <2>2. CASE /\ records' = [records EXCEPT ![Branch] = written]
             /\ Moves(b, [stage |-> "remember", value |-> written])
             /\ elapsed' = 0
    <3>1. /\ \A v \in Browsers : v # b => browse'[v] = browse[v]
          /\ DOMAIN browse' = Browsers /\ DOMAIN browse'[b] = Fields
          /\ browse'[b].stage = "remember"
          /\ browse'[b].value = written
          /\ browse'[b].offline = browse[b].offline /\ browse'[b].age = browse[b].age
          /\ browse'[b].reused = browse[b].reused
      BY <2>2, MovedBy, SMT DEF Fields
    <3>2. written \subseteq Observation
      <4>1. Value(b) \in Observation
        BY <1>7, ValueIsObserved DEF WriteBranch, Stage
      <4>2. QED
        BY <4>1 DEF MetadataInv, MetadataTyped, Observation
    <3>3. UNCHANGED <<head, clock, setBack>>
      BY <1>7 DEF WriteBranch, KeepSource
    <3>4. \A v \in Browsers : Has(v)'
      BY <3>1, <3>2, <3>3 DEF MetadataInv, Has
    <3>5. records' \in [Keys -> SUBSET Observation] /\ records'[Branch] = written
      BY <2>2, <3>2 DEF MetadataInv, MetadataTyped, Keys
    <3>6. Young'
      <4>1. clock \in Nat
        BY DEF MetadataInv, MetadataTyped
      <4>2. QED
        BY <2>2, <3>3, <3>5, <4>1, SMT
    <3>7. MetadataTyped'
      BY <2>2, <3>1, <3>3, <3>5 DEF MetadataInv, MetadataTyped
    <3>8. QED
      BY <3>4, <3>6, <3>7 DEF MetadataInv
  <2>3. QED
    BY <1>7, <2>1, <2>2 DEF WriteBranch
<1>8. ASSUME NEW b \in Browsers, LockCommit(b)
      PROVE  MetadataInv'
  <2>1. Same /\ (Moves(b, [stage |-> "bind"]) \/ Ends(b))
    BY <1>8 DEF LockCommit, KeepSource
  <2>2. browse[b].value # {}
    BY <1>8 DEF LockCommit, Stage, MetadataInv, Has
  <2>3. QED
    BY <1>1, <1>2, <2>1, <2>2
<1>9. ASSUME NEW b \in Browsers, BindCommit(b)
      PROVE  MetadataInv'
  <2>1. /\ Value(b) \in Observation
        /\ Value(b).payload \in Keys \ {Branch}
        /\ browse[b].value \subseteq Observation
    BY <1>9, ValueIsObserved DEF BindCommit, Stage, MetadataInv, Has
  <2>2. UNCHANGED <<head, clock, elapsed, setBack>>
    BY <1>9 DEF BindCommit, KeepSource
  <2>3. records' \in [Keys -> SUBSET Observation] /\ records'[Branch] = records[Branch]
    <3>1. \/ UNCHANGED records
          \/ records' = [records EXCEPT ![Value(b).payload] = browse[b].value]
      BY <1>9 DEF BindCommit
    <3>2. QED
      BY <2>1, <3>1 DEF MetadataInv, MetadataTyped, Keys
  <2>4. Sound'
    <3>1. CASE Ends(b)
      BY <2>2, <3>1, EndsWithNothing
    <3>2. CASE Moves(b, [stage |-> "resolved"])
      BY <2>2, <3>2, GoesOn, MovedBy
    <3>3. QED
      BY <1>9, <3>1, <3>2 DEF BindCommit
  <2>5. QED
    BY <2>2, <2>3, <2>4 DEF MetadataInv, MetadataTyped
<1>10. ASSUME NEW b \in Browsers, Browsed(b)
       PROVE  MetadataInv'
  BY <1>1, <1>10 DEF Browsed, KeepSource
<1>11. CASE MoveBranch \/ TickClock
  <2>1. /\ UNCHANGED <<setBack, records, browse>>
        /\ head' \in Revisions /\ clock' \in 0 .. MaxClock /\ elapsed' \in Nat
        /\ elapsed' - elapsed <= clock' - clock
    BY <1>11, MetadataAssumption, SMT
    DEF MoveBranch, TickClock, MetadataInv, MetadataTyped, Revisions, MetadataAssumption
  <2>2. Young'
    <3>1. ASSUME setBack = 0, NEW r \in records[Branch]
          PROVE  elapsed' + r.observed <= clock'
      <4>1. r \in Observation
        BY SMT DEF MetadataInv, MetadataTyped, Keys, Branch
      <4>2. r.observed \in Nat /\ elapsed + r.observed <= clock
        BY <3>1, <4>1 DEF MetadataInv, Observation
      <4>3. clock \in Nat /\ clock' \in Nat /\ elapsed \in Nat
        BY <2>1 DEF MetadataInv, MetadataTyped
      <4>4. elapsed' \in Nat /\ elapsed' - elapsed <= clock' - clock
        BY <2>1
      <4>5. \A e, f, c, d, o \in Nat : e + o <= c /\ f - e <= d - c => f + o <= d
        BY SMT
      <4>6. QED
        BY <4>2, <4>3, <4>4, <4>5
    <3>2. QED
      BY <2>1, <3>1
  <2>3. Sound'
    BY <2>1 DEF MetadataInv, MetadataTyped, Has
  <2>4. QED
    BY <2>1, <2>2, <2>3 DEF MetadataInv, MetadataTyped
<1>12. CASE SetClockBack
  <2>1. /\ UNCHANGED <<head, elapsed, records, browse>>
        /\ clock' \in 0 .. MaxClock /\ setBack' \in Nat /\ setBack' # 0
    BY <1>12, MetadataAssumption, SMT
    DEF SetClockBack, MetadataInv, MetadataTyped, MetadataAssumption
  <2>2. QED
    BY <2>1 DEF MetadataInv, MetadataTyped, Has
<1>13. QED
  BY <1>3, <1>4, <1>5, <1>6, <1>7, <1>8, <1>9, <1>10, <1>11, <1>12

-------------------------------------------------------------------------------
(* The theorems.                                                           *)

ReadsInv == SnapshotInv /\ TransferInv /\ MetadataInv

(* The three parts change apart: what one command does leaves the other's  *)
(* state as it was.                                                        *)
LEMMA ReadsInvStep == ReadsInv /\ [Next]_vars => ReadsInv'
<1> SUFFICES ASSUME ReadsInv, [Next]_vars PROVE ReadsInv'
  OBVIOUS
<1>1. UNCHANGED snapshotVars => SnapshotInv'
  BY SnapshotInvStep DEF ReadsInv
<1>2. UNCHANGED transferVars => TransferInv'
  BY DEF ReadsInv, transferVars, TransferInv
<1>3. UNCHANGED metadataVars => MetadataInv'
  BY DEF ReadsInv, metadataVars, MetadataInv, MetadataTyped, Has
<1>4. CASE PublisherActs \/ Acquire
  BY <1>2, <1>3, <1>4, SnapshotInvStep DEF PublisherActs, Acquire, SnapshotNext, ReadsInv
<1>5. CASE DownloadDescriptor \/ BindDescriptor \/ Transfer
  BY <1>1, <1>3, <1>5, TransferInvStep
  DEF DownloadDescriptor, BindDescriptor, Transfer, Worker, ReadsInv
<1>6. CASE Browse
  <2>1. UNCHANGED snapshotVars /\ UNCHANGED transferVars
    BY <1>6 DEF Browse, acquireVars
  <2>2. MetadataInv'
    BY <1>6, MetadataInvStep DEF Browse, ReadsInv
  <2>3. QED
    BY <1>1, <1>2, <2>1, <2>2 DEF ReadsInv
<1>7. CASE UNCHANGED vars
  BY <1>1, <1>2, <1>3, <1>7 DEF vars, acquireVars, ReadsInv
<1>8. QED
  BY <1>4, <1>5, <1>6, <1>7 DEF Next

(* The inductive invariant of the reads.                                   *)
THEOREM ReadsCorrect == Spec => []ReadsInv
<1>1. Init => ReadsInv
  BY SnapshotInvInit, TransferInvInit, MetadataInvInit DEF Init, ReadsInv
<1>2. QED
  BY <1>1, ReadsInvStep, PTL DEF Spec

(* What is returned as one release was one release at one moment, however  *)
(* many assets it has and whatever its publisher changed meanwhile.        *)
THEOREM SnapshotsAreAtomic == Spec => []SnapshotIsAtomic
<1>1. ReadsInv => SnapshotIsAtomic
  BY DEF ReadsInv, SnapshotInv
<1>2. QED
  BY <1>1, ReadsCorrect, PTL

(* A caller is given the expected bytes whole and nobody is left who could *)
(* change them, whatever the worker and the server do.                     *)
THEOREM YieldsAreFinal == Spec => []YieldedIsFinal
<1>1. ReadsInv => YieldedIsFinal
  BY DEF ReadsInv, TransferInv, YieldedIsFinal, Exited
<1>2. QED
  BY <1>1, ReadsCorrect, PTL

(* A cached answer that is used online is younger than its limit in time   *)
(* as it passed, unless the clock was set back.                            *)
THEOREM ReusedIsFresh == Spec => []FreshUnlessOffline
<1>1. ReadsInv => FreshUnlessOffline
  BY DEF ReadsInv, MetadataInv, Has, FreshUnlessOffline
<1>2. QED
  BY <1>1, ReadsCorrect, PTL
===============================================================================
