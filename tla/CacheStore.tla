----------------------------- MODULE CacheStore -----------------------------
(***************************************************************************)
(* The cache of workspace packages and proofs as processes share it:       *)
(* publication, leases, inspection and removal of entries under operating  *)
(* system locks (siteops/workspace_cache.py, cache_management.py,          *)
(* cache_filesystem.py).  A process may die between any two file           *)
(* operations; its locks go with it and its files stay.                    *)
(*                                                                         *)
(* Every entry has an object directory, and a package a directory of       *)
(* receipts as well.  The extracted files of a package stand as one node.  *)
(* Whether bytes are the ones named, a proof is valid and a policy is      *)
(* current are answers the verifier may give either way each time; the     *)
(* bytes of an entry in place change only through these operations, which  *)
(* is the scope docs/cache.md states.                                      *)
(***************************************************************************)
EXTENDS Naturals, FiniteSets

CONSTANTS
  Procs,   \* processes
  Digests  \* identities; a package and a proof may have the same one

Kinds == {"package", "proof"}
Entries == Kinds \X Digests
Kind(e) == e[1]
Packages == {e \in Entries : Kind(e) = "package"}

\* The nodes of an object directory, and of the directory of a package's receipts.
ObjectNodes(kind) ==
  IF kind = "package" THEN {"object", "package.zip", "content", "files"} ELSE {"object", "proof.bin"}
ReceiptNodes == {"receipts", "receipt", "stale"}

\* The nodes inside a directory.
Inside(node) ==
  CASE node = "object"   -> {"package.zip", "content", "proof.bin"}
    [] node = "content"  -> {"files"}
    [] node = "receipts" -> {"receipt", "stale"} \cup Procs
    [] OTHER             -> {}

VARIABLES
  object,   \* the nodes of each entry's object directory
  receipts, \* the nodes of each package's receipts, "stale" being temporary files left behind
  writing,  \* the processes with a temporary receipt in it
  building, \* the processes with a candidate in staging
  litter,   \* whether a candidate was left behind there
  call      \* each process: its operation, its entry, where it is, the nodes it has yet to delete

disk == <<object, receipts, writing, building, litter>>
vars == <<disk, call>>

Operations == {"publish", "lease", "list", "remove"}
Stages == {"lock", "locked", "inspect", "build", "fill", "record", "write", "replace",
           "rename", "held", "delete", "release"}

Idle == [stage |-> "idle"]
Call == [op : Operations, entry : Entries, stage : Stages,
         rest : SUBSET (ObjectNodes("package") \cup ObjectNodes("proof") \cup ReceiptNodes \cup Procs)]

\* The type invariant.
TypeOK ==
  /\ \A e \in Entries : object[e] \subseteq ObjectNodes(Kind(e))
  /\ DOMAIN object = Entries
  /\ receipts \in [Entries -> SUBSET ReceiptNodes]
  /\ writing \in [Entries -> SUBSET Procs]
  /\ building \subseteq Procs /\ litter \in BOOLEAN
  /\ call \in [Procs -> Call \cup {Idle}]

Init ==
  /\ object = [e \in Entries |-> {}] /\ receipts = [e \in Entries |-> {}]
  /\ writing = [e \in Entries |-> {}]
  /\ building = {} /\ litter = FALSE
  /\ call = [p \in Procs |-> Idle]

------------------------------------------------------------------------------
(* Locks *)

At(p, stage) == call[p].stage = stage
Entry(p) == call[p].entry
Goes(p, stage) == call' = [call EXCEPT ![p].stage = stage]

\* Mutant: maintenance puts the kind before every digest.
LockByKind(e) == <<IF Kind(e) = "package" THEN "package-" ELSE "proof-", e[2]>>

\* The name of a lock file: what stands before the digest, and the digest.  The cache and
\* its maintenance each build the name.
StoreLock(e) == IF Kind(e) = "package" THEN <<"", e[2]>> ELSE <<"proof-", e[2]>>
MaintenanceLock(e) == <<IF Kind(e) = "package" THEN "" ELSE "proof-", e[2]>>

\* Mutant: only publication excludes others.
ExclusiveToPublish(p) == call[p].op = "publish"

LockOf(p) == IF call[p].op \in {"publish", "lease"} THEN StoreLock(Entry(p)) ELSE MaintenanceLock(Entry(p))
Exclusive(p) == call[p].op # "lease"
Holds(p) == call[p].stage \notin {"idle", "lock"}

\* Some process holds the lock that p asks for in a mode that excludes it.
LockTaken(p) ==
  \E q \in Procs \ {p} : Holds(q) /\ LockOf(q) = LockOf(p) /\ (Exclusive(p) \/ Exclusive(q))

Begin(p) ==
  /\ At(p, "idle")
  /\ \E op \in Operations, e \in Entries :
       call' = [call EXCEPT ![p] = [op |-> op, entry |-> e, stage |-> "lock", rest |-> {}]]
  /\ UNCHANGED disk

Acquire(p) ==
  /\ At(p, "lock") /\ ~LockTaken(p)
  /\ Goes(p, CASE call[p].op = "lease" -> "inspect" [] OTHER -> "locked")
  /\ UNCHANGED disk

\* The deadline of the wait, which for maintenance is now.
Busy(p) ==
  /\ At(p, "lock") /\ LockTaken(p)
  /\ call' = [call EXCEPT ![p] = Idle]
  /\ UNCHANGED disk

Release(p) ==
  /\ At(p, "release")
  /\ call' = [call EXCEPT ![p] = Idle]
  /\ UNCHANGED disk

------------------------------------------------------------------------------
(* Publication and use *)

Present(e) == "object" \in object[e]
Whole(e) == object[e] = ObjectNodes(Kind(e))

LookUpTarget(p) ==
  /\ At(p, "locked") /\ call[p].op = "publish"
  /\ Goes(p, IF Present(Entry(p)) THEN "inspect" ELSE "build")
  /\ UNCHANGED disk

\* _read_object, _read_proof: an entry in place is verified, whoever asks.  A package
\* gets a receipt for it.
Inspect(p) ==
  /\ At(p, "inspect") /\ Whole(Entry(p))
  /\ Goes(p, IF Kind(Entry(p)) = "package" THEN "record"
             ELSE IF call[p].op = "lease" THEN "held" ELSE "release")
  /\ UNCHANGED disk

MakeCandidate(p) ==
  /\ At(p, "build")
  /\ building' = building \cup {p}
  /\ Goes(p, "fill")
  /\ UNCHANGED <<object, receipts, writing, litter>>

\* The bytes are copied, verified, unpacked and validated in the candidate.
FillCandidate(p) ==
  /\ At(p, "fill")
  /\ Goes(p, IF Kind(Entry(p)) = "package" THEN "record" ELSE "rename")
  /\ UNCHANGED disk

RenameCandidate(p) ==
  /\ At(p, "rename")
  /\ object' = [object EXCEPT ![Entry(p)] = ObjectNodes(Kind(Entry(p)))]
  /\ building' = building \ {p}
  /\ Goes(p, "release")
  /\ UNCHANGED <<receipts, writing, litter>>

\* A proof is read again at the end, which finds what LeasesAreKept says it does.
EndUse(p) ==
  /\ At(p, "held")
  /\ Goes(p, "release")
  /\ UNCHANGED disk

------------------------------------------------------------------------------
(* Receipts: written beside each other by any number of lease holders *)

MakeReceipts(p) ==
  /\ At(p, "record")
  /\ receipts' = [receipts EXCEPT ![Entry(p)] = @ \cup {"receipts"}]
  /\ Goes(p, "write")
  /\ UNCHANGED <<object, writing, building, litter>>

WriteReceipt(p) ==
  /\ At(p, "write")
  /\ writing' = [writing EXCEPT ![Entry(p)] = @ \cup {p}]
  /\ Goes(p, "replace")
  /\ UNCHANGED <<object, receipts, building, litter>>

ReplaceReceipt(p) ==
  /\ At(p, "replace")
  /\ writing' = [writing EXCEPT ![Entry(p)] = @ \ {p}]
  /\ receipts' = [receipts EXCEPT ![Entry(p)] = @ \cup {"receipt"}]
  /\ Goes(p, IF p \in building THEN "rename"
             ELSE IF call[p].op = "lease" THEN "held" ELSE "release")
  /\ UNCHANGED <<object, building, litter>>

\* The process's temporary receipt and candidate stay where they are.
LeaveBehind(p) ==
  /\ receipts' = [e \in Entries |-> receipts[e] \cup (IF p \in writing[e] THEN {"stale"} ELSE {})]
  /\ litter' = (litter \/ p \in building)
  /\ writing' = [e \in Entries |-> writing[e] \ {p}]
  /\ building' = building \ {p}
  /\ UNCHANGED object

\* The process removes its temporary receipt and its candidate.
CleanUp(p) ==
  /\ writing' = [e \in Entries |-> writing[e] \ {p}]
  /\ building' = building \ {p}
  /\ UNCHANGED <<object, receipts, litter>>

\* A missing or incomplete entry, a verifier that refuses, a policy that has expired, a
\* file system that fails: the operation ends, after its cleanup, which may fail too.
Fail(p) ==
  /\ call[p].stage \in {"inspect", "build", "fill", "record", "write", "replace", "rename"}
  /\ CleanUp(p) \/ LeaveBehind(p)
  /\ Goes(p, "release")

------------------------------------------------------------------------------
(* Inspection and removal *)

\* Everything under an entry, as _inventory walks it.
Inventory(e) == object[e] \cup receipts[e] \cup writing[e]

List(p) ==
  /\ At(p, "locked") /\ call[p].op = "list"
  /\ Goes(p, "release")
  /\ UNCHANGED disk

\* All nodes are inspected before any is deleted; an entry without any is missing.  An
\* inspection that refuses a node ends as RemovalFails does before the first deletion.
TakeInventory(p) ==
  /\ At(p, "locked") /\ call[p].op = "remove"
  /\ LET nodes == Inventory(Entry(p)) IN
       call' = [call EXCEPT ![p].stage = IF nodes = {} THEN "release" ELSE "delete", ![p].rest = nodes]
  /\ UNCHANGED disk

\* Mutant: the walk is undone without regard to which of the two directories comes first.
NextChildless(rest) == {n \in rest : Inside(n) \cap rest = {}}

\* The reverse of the walk: children before their parent, the object before the receipts.
NextToDelete(rest) ==
  LET first == IF rest \cap ObjectNodes("package") # {} \/ rest \cap ObjectNodes("proof") # {}
                 THEN rest \ (ReceiptNodes \cup Procs) ELSE rest
  IN  {n \in first : Inside(n) \cap rest = {}}

\* A directory that has something in it, or a node that is gone, makes the call fail.
DeleteNode(p) ==
  /\ At(p, "delete")
  /\ LET e == Entry(p) IN
     \E n \in NextToDelete(call[p].rest) :
       /\ n \in Inventory(e) /\ Inside(n) \cap Inventory(e) = {}
       /\ object' = [object EXCEPT ![e] = @ \ {n}]
       /\ receipts' = [receipts EXCEPT ![e] = @ \ {n}]
       /\ writing' = [writing EXCEPT ![e] = @ \ {n}]
       /\ call' = [call EXCEPT ![p].stage = IF call[p].rest = {n} THEN "release" ELSE "delete",
                               ![p].rest = @ \ {n}]
  /\ UNCHANGED <<building, litter>>

RemovalFails(p) ==
  /\ At(p, "delete")
  /\ call' = [call EXCEPT ![p].stage = "release", ![p].rest = {}]
  /\ UNCHANGED disk

------------------------------------------------------------------------------

\* The system closes the files of a process that dies, and so releases its lock.
Crash(p) ==
  /\ ~At(p, "idle")
  /\ LeaveBehind(p)
  /\ call' = [call EXCEPT ![p] = Idle]

Next ==
  \E p \in Procs :
    \/ Begin(p) \/ Acquire(p) \/ Busy(p) \/ Release(p)
    \/ LookUpTarget(p) \/ Inspect(p) \/ MakeCandidate(p) \/ FillCandidate(p) \/ RenameCandidate(p)
    \/ EndUse(p)
    \/ MakeReceipts(p) \/ WriteReceipt(p) \/ ReplaceReceipt(p) \/ Fail(p)
    \/ List(p) \/ TakeInventory(p) \/ DeleteNode(p) \/ RemovalFails(p)
    \/ Crash(p)

Spec == Init /\ [][Next]_vars

------------------------------------------------------------------------------
(* Properties *)

\* What a lease holder uses is a whole entry that was published in one step and that
\* nothing touches until it is done, whoever publishes, removes or dies meanwhile, and
\* an entry that is no longer whole is never taken for one or completed.
Store == INSTANCE PackageStore WITH
  Users  <- Procs,
  state  <- [e \in Entries |-> IF Whole(e) THEN "whole" ELSE IF Present(e) THEN "damaged" ELSE "absent"],
  leases <- [e \in Entries |-> {p \in Procs : At(p, "held") /\ Entry(p) = e}]
LeasesAreKept == Store!StoreSpec

\* A package in place, whole or not, has evidence of a verification: it is recorded before
\* the package appears and deleted after it has gone, also by a process that dies.  And
\* what a removal has yet to delete is all there is of the entry: nobody adds to it while
\* it runs, and a removal that gets to the end of its list leaves nothing.
StoredHasEvidence == \A e \in Packages : Present(e) => "receipt" \in receipts[e]
RemovalSeesAll ==
  \A p \in Procs : At(p, "delete") => call[p].rest = Inventory(Entry(p))
StoreIsAccounted == StoredHasEvidence /\ RemovalSeesAll

==============================================================================
