-------------------------- MODULE PackageCache_proofs --------------------------
(***************************************************************************)
(* The promises of the cache, proved for any number of processes and       *)
(* digests.  One inductive invariant carries those of the store: the locks *)
(* exclude whom they should (Locked), every process knows of its entry     *)
(* what its place in the code takes for granted (Knows), and every entry   *)
(* is a tree with its evidence beside it (Tree).                           *)
(*                                                                         *)
(* Another carries those of the layout (Opened): the root only grows       *)
(* (RootAt, Grows), an opener relies on what it made or found (OpenerAt),  *)
(* and the initializers that may still replace the marker are fewer than   *)
(* the reads that are left to anyone who reads it (ReadsOn).               *)
(***************************************************************************)
EXTENDS PackageCache, Sequences, FiniteSetTheorems, TLAPS

Busied(p) == ~At(p, "idle")

\* Two processes hold one lock only if both hold it for a lease.
Locked ==
  \A p, q \in Procs :
    p # q /\ Holds(p) /\ Holds(q) /\ Entry(p) = Entry(q) => ~Exclusive(p) /\ ~Exclusive(q)

\* What a place in the code implies of the operation that got there, and what the process
\* has seen of its entry and still relies on.
Knows(p) ==
  /\ At(p, "locked") => Exclusive(p)
  /\ call[p].stage \in {"inspect", "record", "write", "replace"} => call[p].op \in {"publish", "lease"}
  /\ call[p].stage \in {"build", "fill", "rename"} => call[p].op = "publish"
  /\ At(p, "held") => call[p].op = "lease"
  /\ At(p, "delete") => call[p].op = "remove" /\ call[p].rest = Inventory(Entry(p))
  /\ call[p].stage \in {"fill", "rename"} => p \in building
  /\ At(p, "build") \/ p \in building => object[Entry(p)] = {}
  /\ p \in building => call[p].stage \in {"fill", "record", "write", "replace", "rename"}
  /\ p \in building => call[p].op = "publish"
  /\ call[p].stage \in {"record", "write", "replace", "held"} /\ p \notin building => Whole(Entry(p))
  /\ call[p].stage \in {"record", "write", "replace"} => Kind(Entry(p)) = "package"
  /\ At(p, "rename") /\ Kind(Entry(p)) = "package" => "receipt" \in receipts[Entry(p)]
  /\ \A e \in Entries : p \in writing[e] => At(p, "replace") /\ Entry(p) = e

\* A node is there only with the directory it is in, and an object only with its receipt.
Tree(e) ==
  /\ object[e] # {} => "object" \in object[e]
  /\ "files" \in object[e] => "content" \in object[e]
  /\ Kind(e) = "package" /\ Present(e) => "receipt" \in receipts[e]

StoreInv ==
  /\ TypeOK
  /\ Locked
  /\ \A p \in Procs : Knows(p)
  /\ \A e \in Entries : Tree(e)

------------------------------------------------------------------------------
(* Records and locks *)

\* A process that is not idle is in a call.
LEMMA InCall ==
  ASSUME TypeOK, NEW p \in Procs, Busied(p)
  PROVE  call[p] \in Call
BY DEF TypeOK, Busied, At, Idle

\* A process that moves keeps its operation, its entry and what it has to delete.
LEMMA Moved ==
  ASSUME TypeOK, NEW p \in Procs, Busied(p), NEW s \in Stages, Goes(p, s)
  PROVE  /\ call' \in [Procs -> Call \cup {Idle}]
         /\ call'[p].op = call[p].op /\ call'[p].entry = call[p].entry
         /\ call'[p].rest = call[p].rest /\ call'[p].stage = s
         /\ \A q \in Procs \ {p} : call'[q] = call[q]
BY InCall DEF TypeOK, Goes, Call, Idle

\* The two ways to name the lock of an entry agree, and no two entries share a lock.
LEMMA OneLockPerEntry ==
  ASSUME TypeOK, NEW p \in Procs, Busied(p), NEW q \in Procs, Busied(q)
  PROVE  LockOf(p) = LockOf(q) <=> Entry(p) = Entry(q)
<1>1. call[p] \in Call /\ call[q] \in Call
  BY InCall
<1>2. \A e \in Entries : MaintenanceLock(e) = StoreLock(e)
  BY DEF MaintenanceLock, StoreLock
<1>3. \A e, f \in Entries : StoreLock(e) = StoreLock(f) => e = f
  <2> SUFFICES ASSUME NEW e \in Entries, NEW f \in Entries, StoreLock(e) = StoreLock(f)
               PROVE  e = f
    OBVIOUS
  <2>1. /\ e = <<e[1], e[2]>> /\ e[1] \in {"package", "proof"}
        /\ f = <<f[1], f[2]>> /\ f[1] \in {"package", "proof"}
    BY DEF Entries, Kinds
  <2>2. /\ StoreLock(e)[1] = IF e[1] = "package" THEN "" ELSE "proof-"
        /\ StoreLock(f)[1] = IF f[1] = "package" THEN "" ELSE "proof-"
        /\ StoreLock(e)[2] = e[2] /\ StoreLock(f)[2] = f[2]
    BY DEF StoreLock, Kind
  <2>3. e[1] = f[1] /\ e[2] = f[2]
    BY <2>1, <2>2
  <2> QED
    BY <2>1, <2>3
<1> QED
  BY <1>1, <1>2, <1>3 DEF LockOf, Entry, Call

------------------------------------------------------------------------------
(* What a step of one process leaves to the others *)

\* A process that holds a lock for itself shares its entry with no other holder.
LEMMA Exclusion ==
  ASSUME StoreInv, NEW p \in Procs, NEW q \in Procs, p # q, Holds(p), Holds(q),
         Exclusive(p) \/ Exclusive(q)
  PROVE  Entry(p) # Entry(q)
BY DEF StoreInv, Locked

\* Locks stay exclusive when a process that held one goes on holding it or lets it go.
LEMMA LocksKept ==
  ASSUME StoreInv, NEW p \in Procs,
         \A q \in Procs \ {p} : call'[q] = call[q],
         Holds(p)' => Holds(p) /\ call'[p].op = call[p].op /\ call'[p].entry = call[p].entry
  PROVE  Locked'
<1> SUFFICES ASSUME NEW q \in Procs, NEW r \in Procs, q # r,
                    Holds(q)', Holds(r)', Entry(q)' = Entry(r)'
             PROVE  ~Exclusive(q)' /\ ~Exclusive(r)'
  BY DEF Locked
<1>1. /\ Holds(q) /\ call'[q].op = call[q].op /\ call'[q].entry = call[q].entry
      /\ Holds(r) /\ call'[r].op = call[r].op /\ call'[r].entry = call[r].entry
  BY DEF Holds
<1> QED
  BY <1>1 DEF StoreInv, Locked, Entry, Exclusive

\* The others keep what they rely on if this step changes no object but its own, under an
\* exclusive lock, and takes no receipt away but so.
LEMMA OthersKnow ==
  ASSUME StoreInv, NEW p \in Procs,
         \A q \in Procs \ {p} : call'[q] = call[q],
         \A q \in Procs \ {p} : q \in building' <=> q \in building,
         \A q \in Procs \ {p}, e \in Entries : q \in writing'[e] => q \in writing[e],
         \A e \in Entries : object'[e] = object[e] \/ (Holds(p) /\ Exclusive(p) /\ e = Entry(p)),
         \A e \in Entries : Inventory(e)' = Inventory(e) \/ (Holds(p) /\ e = Entry(p)),
         \A e \in Entries : receipts[e] \subseteq receipts'[e] \/ (Holds(p) /\ Exclusive(p) /\ e = Entry(p))
  PROVE  \A q \in Procs \ {p} : Knows(q)'
<1> TAKE q \in Procs \ {p}
<1>1. Knows(q)
  BY DEF StoreInv
<1>2. CASE ~Holds(q)
  BY <1>1, <1>2 DEF Knows, Holds, At
<1>3. CASE Holds(q)
  <2>1. Entry(q) \in Entries
    BY <1>3, InCall DEF StoreInv, Holds, Busied, At, Call, Entry
  <2>2. object'[Entry(q)] = object[Entry(q)]
    BY <1>3, <2>1, Exclusion
  <2>3. receipts[Entry(q)] \subseteq receipts'[Entry(q)]
    BY <1>3, <2>1, Exclusion
  <2>4. Exclusive(q) => Inventory(Entry(q))' = Inventory(Entry(q))
    BY <1>3, <2>1, Exclusion DEF Inventory, Entry
  <2>5. At(q, "delete")' => call'[q].op = "remove" /\ call'[q].rest = Inventory(Entry(q))'
    BY <1>1, <2>4 DEF Knows, At, Exclusive
  <2>6. /\ At(q, "build")' \/ q \in building' => object'[Entry(q)'] = {}
        /\ call'[q].stage \in {"record", "write", "replace", "held"} /\ q \notin building' => Whole(Entry(q))'
    BY <1>1, <2>2 DEF Knows, At, Entry, Whole
  <2>7. At(q, "rename")' /\ Kind(Entry(q)') = "package" => "receipt" \in receipts'[Entry(q)']
    BY <1>1, <2>3 DEF Knows, At, Entry
  <2> QED
    BY <1>1, <2>5, <2>6, <2>7 DEF Knows, At, Entry, Exclusive
<1> QED
  BY <1>2, <1>3

------------------------------------------------------------------------------
(* Steps that leave the disk alone *)

LEMMA DiskUnchanged ==
  ASSUME StoreInv, NEW p \in Procs, UNCHANGED disk,
         call' \in [Procs -> Call \cup {Idle}],
         \A q \in Procs \ {p} : call'[q] = call[q],
         Locked', Knows(p)'
  PROVE  StoreInv'
<1>1. TypeOK'
  BY DEF StoreInv, TypeOK, disk
<1>2. \A q \in Procs \ {p} : Knows(q)'
  BY OthersKnow DEF disk, Inventory
<1>3. \A e \in Entries : Tree(e)'
  BY DEF StoreInv, Tree, Present, disk
<1> QED
  BY <1>1, <1>2, <1>3 DEF StoreInv

\* A process that keeps its call and its locks moves on without touching the disk.
LEMMA OnlyMoves ==
  ASSUME StoreInv, NEW p \in Procs, UNCHANGED disk, Holds(p),
         NEW s \in Stages, Goes(p, s), Knows(p)'
  PROVE  StoreInv'
<1>1. Busied(p) /\ TypeOK
  BY DEF Holds, Busied, At, StoreInv
<1>2. Locked'
  BY <1>1, Moved, LocksKept
<1> QED
  BY <1>1, <1>2, Moved, DiskUnchanged

LEMMA BeginSafe == ASSUME StoreInv, NEW p \in Procs, Begin(p) PROVE StoreInv'
<1>1. PICK op \in Operations, e \in Entries :
        call' = [call EXCEPT ![p] = [op |-> op, entry |-> e, stage |-> "lock", rest |-> {}]]
  BY DEF Begin
<1>2. /\ call' \in [Procs -> Call \cup {Idle}]
      /\ call'[p].stage = "lock"
      /\ \A q \in Procs \ {p} : call'[q] = call[q]
  BY <1>1 DEF StoreInv, TypeOK, Call, Stages
<1>3. p \notin building /\ \A f \in Entries : p \notin writing[f]
  BY DEF StoreInv, Knows, Begin, At
<1>4. UNCHANGED disk
  BY DEF Begin
<1>5. Knows(p)'
  BY <1>2, <1>3, <1>4 DEF Knows, At, disk
<1>6. Locked'
  BY <1>2, LocksKept DEF Holds
<1> QED
  BY <1>2, <1>4, <1>5, <1>6, DiskUnchanged

\* The lock is given only to a process with which no holder conflicts.
LEMMA AcquireSafe == ASSUME StoreInv, NEW p \in Procs, Acquire(p) PROVE StoreInv'
<1> DEFINE s == IF call[p].op = "lease" THEN "inspect" ELSE "locked"
<1>1. Busied(p) /\ TypeOK /\ Goes(p, s) /\ s \in Stages /\ UNCHANGED disk
  BY DEF Acquire, Busied, At, StoreInv, Stages
<1> HIDE DEF s
<1>2. /\ call' \in [Procs -> Call \cup {Idle}]
      /\ call'[p].op = call[p].op /\ call'[p].entry = call[p].entry /\ call'[p].stage = s
      /\ \A q \in Procs \ {p} : call'[q] = call[q]
  BY <1>1, Moved
<1>3. p \notin building /\ \A f \in Entries : p \notin writing[f]
  BY DEF StoreInv, Knows, Acquire, At
<1>4. Knows(p)'
  BY <1>1, <1>2, <1>3 DEF Knows, At, disk, s, Exclusive
<1>5. \A q \in Procs \ {p} : Holds(q) /\ Entry(q) = Entry(p) => ~Exclusive(p) /\ ~Exclusive(q)
  BY <1>1, OneLockPerEntry DEF Acquire, LockTaken, Holds, Busied, At
<1>6. Locked'
  BY <1>2, <1>5 DEF StoreInv, Locked, Holds, Entry, Exclusive
<1> QED
  BY <1>1, <1>2, <1>4, <1>6, DiskUnchanged

\* A process that ends its call holds nothing and knows nothing.
LEMMA BackToIdle ==
  ASSUME StoreInv, NEW p \in Procs, UNCHANGED disk, call' = [call EXCEPT ![p] = Idle],
         p \notin building, \A f \in Entries : p \notin writing[f]
  PROVE  StoreInv'
<1>1. /\ call' \in [Procs -> Call \cup {Idle}]
      /\ call'[p].stage = "idle"
      /\ \A q \in Procs \ {p} : call'[q] = call[q]
  BY DEF StoreInv, TypeOK, Idle
<1>2. Knows(p)'
  BY <1>1 DEF Knows, At, disk
<1>3. Locked'
  BY <1>1, LocksKept DEF Holds
<1> QED
  BY <1>1, <1>2, <1>3, DiskUnchanged

LEMMA EndSafe == ASSUME StoreInv, NEW p \in Procs, Busy(p) \/ Release(p) PROVE StoreInv'
<1>1. p \notin building /\ \A f \in Entries : p \notin writing[f]
  BY DEF StoreInv, Knows, Busy, Release, At
<1> QED
  BY <1>1, BackToIdle DEF Busy, Release

\* Looking at the target, verifying it, filling a candidate, ending a lease, listing: the
\* process learns something, and nothing changes.
LEMMA LookUpSafe == ASSUME StoreInv, NEW p \in Procs, LookUpTarget(p) PROVE StoreInv'
<1> DEFINE s == IF Present(Entry(p)) THEN "inspect" ELSE "build"
<1>1. /\ Busied(p) /\ Holds(p) /\ TypeOK /\ Goes(p, s) /\ s \in Stages /\ UNCHANGED disk
      /\ Knows(p) /\ At(p, "locked")
  BY DEF LookUpTarget, Busied, Holds, At, StoreInv, Stages
<1>2. Tree(Entry(p))
  BY <1>1, InCall DEF StoreInv, Call, Entry
<1>3. ~Present(Entry(p)) => object[Entry(p)] = {}
  BY <1>2 DEF Tree, Present
<1> HIDE DEF s
<1>4. Knows(p)'
  BY <1>1, <1>3, Moved DEF Knows, At, disk, s, Entry, LookUpTarget
<1> QED
  BY <1>1, <1>4, OnlyMoves

LEMMA InspectSafe == ASSUME StoreInv, NEW p \in Procs, Inspect(p) PROVE StoreInv'
<1> DEFINE s == IF Kind(Entry(p)) = "package" THEN "record"
                  ELSE IF call[p].op = "lease" THEN "held" ELSE "release"
<1>1. /\ Busied(p) /\ Holds(p) /\ TypeOK /\ Goes(p, s) /\ UNCHANGED disk
      /\ Knows(p) /\ At(p, "inspect") /\ Whole(Entry(p))
  BY DEF Inspect, Busied, Holds, At, StoreInv
<1>2. s \in {"record", "held", "release"} /\ s \in Stages
  BY DEF Stages
<1>3. s = "record" => Kind(Entry(p)) = "package"
  OBVIOUS
<1>4. s = "held" => call[p].op = "lease"
  OBVIOUS
<1> HIDE DEF s
<1>5. Knows(p)'
  BY <1>1, <1>2, <1>3, <1>4, Moved DEF Knows, At, disk, Entry, Whole
<1> QED
  BY <1>1, <1>2, <1>5, OnlyMoves

LEMMA FillSafe == ASSUME StoreInv, NEW p \in Procs, FillCandidate(p) PROVE StoreInv'
<1> DEFINE s == IF Kind(Entry(p)) = "package" THEN "record" ELSE "rename"
<1>1. /\ Busied(p) /\ Holds(p) /\ TypeOK /\ Goes(p, s) /\ s \in Stages /\ UNCHANGED disk
      /\ Knows(p) /\ At(p, "fill")
  BY DEF FillCandidate, Busied, Holds, At, StoreInv, Stages
<1> HIDE DEF s
<1>2. Knows(p)'
  BY <1>1, Moved DEF Knows, At, disk, s, Entry
<1> QED
  BY <1>1, <1>2, OnlyMoves

LEMMA ToReleaseSafe ==
  ASSUME StoreInv, NEW p \in Procs, EndUse(p) \/ List(p) PROVE StoreInv'
<1>1. /\ Busied(p) /\ Holds(p) /\ TypeOK /\ Goes(p, "release") /\ "release" \in Stages
      /\ UNCHANGED disk /\ Knows(p) /\ (At(p, "held") \/ At(p, "locked"))
  BY DEF EndUse, List, Busied, Holds, At, StoreInv, Stages
<1>2. Knows(p)'
  BY <1>1, Moved DEF Knows, At, disk
<1> QED
  BY <1>1, <1>2, OnlyMoves

------------------------------------------------------------------------------
(* Steps that change the disk *)

LEMMA MakeCandidateSafe == ASSUME StoreInv, NEW p \in Procs, MakeCandidate(p) PROVE StoreInv'
<1>1. /\ Busied(p) /\ Holds(p) /\ TypeOK /\ Goes(p, "fill") /\ "fill" \in Stages
      /\ Knows(p) /\ At(p, "build")
      /\ building' = building \cup {p} /\ UNCHANGED <<object, receipts, writing, litter>>
  BY DEF MakeCandidate, Busied, Holds, At, StoreInv, Stages
<1>2. /\ call' \in [Procs -> Call \cup {Idle}]
      /\ call'[p].op = call[p].op /\ call'[p].entry = call[p].entry /\ call'[p].stage = "fill"
      /\ \A q \in Procs \ {p} : call'[q] = call[q]
  BY <1>1, Moved
<1>3. TypeOK'
  BY <1>1, <1>2 DEF TypeOK
<1>4. Locked'
  BY <1>1, <1>2, LocksKept
<1>5. Knows(p)'
  BY <1>1, <1>2 DEF Knows, At, Entry
<1>6. \A q \in Procs \ {p} : Knows(q)'
  BY <1>1, <1>2, OthersKnow DEF Inventory
<1>7. \A e \in Entries : Tree(e)'
  BY <1>1 DEF StoreInv, Tree, Present
<1> QED
  BY <1>3, <1>4, <1>5, <1>6, <1>7 DEF StoreInv

LEMMA RenameSafe == ASSUME StoreInv, NEW p \in Procs, RenameCandidate(p) PROVE StoreInv'
<1>1. /\ Busied(p) /\ Holds(p) /\ TypeOK /\ Goes(p, "release") /\ "release" \in Stages
      /\ Knows(p) /\ At(p, "rename")
      /\ object' = [object EXCEPT ![Entry(p)] = ObjectNodes(Kind(Entry(p)))]
      /\ building' = building \ {p} /\ UNCHANGED <<receipts, writing, litter>>
  BY DEF RenameCandidate, Busied, Holds, At, StoreInv, Stages
<1>2. /\ call' \in [Procs -> Call \cup {Idle}]
      /\ call'[p].op = call[p].op /\ call'[p].entry = call[p].entry /\ call'[p].stage = "release"
      /\ \A q \in Procs \ {p} : call'[q] = call[q]
  BY <1>1, Moved
<1>3. Entry(p) \in Entries /\ Exclusive(p)
  BY <1>1, InCall DEF Call, Entry, Knows, At, Exclusive
<1>4. /\ DOMAIN object = Entries /\ DOMAIN object' = Entries
      /\ object'[Entry(p)] = ObjectNodes(Kind(Entry(p)))
      /\ \A e \in Entries \ {Entry(p)} : object'[e] = object[e]
  BY <1>1, <1>3 DEF TypeOK
<1>5. TypeOK'
  BY <1>1, <1>2, <1>4 DEF TypeOK
<1>6. Locked'
  BY <1>1, <1>2, LocksKept
<1>7. Knows(p)'
  BY <1>1, <1>2 DEF Knows, At, Entry
<1>8. \A q \in Procs \ {p} : Knows(q)'
  BY <1>1, <1>2, <1>3, <1>4, OthersKnow DEF Inventory
<1>9. \A e \in Entries : Tree(e)'
  BY <1>1, <1>3, <1>4 DEF StoreInv, Tree, Present, Knows, ObjectNodes, At
<1> QED
  BY <1>5, <1>6, <1>7, <1>8, <1>9 DEF StoreInv

LEMMA MakeReceiptsSafe == ASSUME StoreInv, NEW p \in Procs, MakeReceipts(p) PROVE StoreInv'
<1>1. /\ Busied(p) /\ Holds(p) /\ TypeOK /\ Goes(p, "write") /\ "write" \in Stages
      /\ Knows(p) /\ At(p, "record")
      /\ receipts' = [receipts EXCEPT ![Entry(p)] = @ \cup {"receipts"}]
      /\ UNCHANGED <<object, writing, building, litter>>
  BY DEF MakeReceipts, Busied, Holds, At, StoreInv, Stages
<1>2. /\ call' \in [Procs -> Call \cup {Idle}]
      /\ call'[p].op = call[p].op /\ call'[p].entry = call[p].entry /\ call'[p].stage = "write"
      /\ \A q \in Procs \ {p} : call'[q] = call[q]
  BY <1>1, Moved
<1>3. Entry(p) \in Entries
  BY <1>1, InCall DEF Call, Entry
<1>4. /\ receipts' \in [Entries -> SUBSET ReceiptNodes]
      /\ \A e \in Entries : receipts[e] \subseteq receipts'[e]
      /\ \A e \in Entries \ {Entry(p)} : receipts'[e] = receipts[e]
  BY <1>1, <1>3 DEF TypeOK, ReceiptNodes
<1>5. TypeOK'
  BY <1>1, <1>2, <1>4 DEF TypeOK
<1>6. Locked'
  BY <1>1, <1>2, LocksKept
<1>7. Knows(p)'
  BY <1>1, <1>2 DEF Knows, At, Entry, Whole
<1>8. \A q \in Procs \ {p} : Knows(q)'
  BY <1>1, <1>2, <1>4, OthersKnow DEF Inventory
<1>9. \A e \in Entries : Tree(e)'
  BY <1>1, <1>4 DEF StoreInv, Tree, Present
<1> QED
  BY <1>5, <1>6, <1>7, <1>8, <1>9 DEF StoreInv

LEMMA WriteReceiptSafe == ASSUME StoreInv, NEW p \in Procs, WriteReceipt(p) PROVE StoreInv'
<1>1. /\ Busied(p) /\ Holds(p) /\ TypeOK /\ Goes(p, "replace") /\ "replace" \in Stages
      /\ Knows(p) /\ At(p, "write")
      /\ writing' = [writing EXCEPT ![Entry(p)] = @ \cup {p}]
      /\ UNCHANGED <<object, receipts, building, litter>>
  BY DEF WriteReceipt, Busied, Holds, At, StoreInv, Stages
<1>2. /\ call' \in [Procs -> Call \cup {Idle}]
      /\ call'[p].op = call[p].op /\ call'[p].entry = call[p].entry /\ call'[p].stage = "replace"
      /\ \A q \in Procs \ {p} : call'[q] = call[q]
  BY <1>1, Moved
<1>3. Entry(p) \in Entries
  BY <1>1, InCall DEF Call, Entry
<1>4. /\ writing' \in [Entries -> SUBSET Procs]
      /\ \A e \in Entries \ {Entry(p)} : writing'[e] = writing[e]
      /\ \A q \in Procs \ {p}, e \in Entries : q \in writing'[e] => q \in writing[e]
  BY <1>1, <1>3 DEF TypeOK
<1>5. TypeOK'
  BY <1>1, <1>2, <1>4 DEF TypeOK
<1>6. Locked'
  BY <1>1, <1>2, LocksKept
<1>7. \A e \in Entries : p \in writing'[e] => e = Entry(p)
  BY <1>1, <1>4 DEF Knows, At
<1>8. Knows(p)'
  BY <1>1, <1>2, <1>7 DEF Knows, At, Entry, Whole
<1>9. \A q \in Procs \ {p} : Knows(q)'
  BY <1>1, <1>2, <1>4, OthersKnow DEF Inventory
<1>10. \A e \in Entries : Tree(e)'
  BY <1>1 DEF StoreInv, Tree, Present
<1> QED
  BY <1>5, <1>6, <1>8, <1>9, <1>10 DEF StoreInv

LEMMA ReplaceReceiptSafe == ASSUME StoreInv, NEW p \in Procs, ReplaceReceipt(p) PROVE StoreInv'
<1> DEFINE s == IF p \in building THEN "rename"
                  ELSE IF call[p].op = "lease" THEN "held" ELSE "release"
<1>1. /\ Busied(p) /\ Holds(p) /\ TypeOK /\ Goes(p, s) /\ Knows(p) /\ At(p, "replace")
      /\ writing' = [writing EXCEPT ![Entry(p)] = @ \ {p}]
      /\ receipts' = [receipts EXCEPT ![Entry(p)] = @ \cup {"receipt"}]
      /\ UNCHANGED <<object, building, litter>>
  BY DEF ReplaceReceipt, Busied, Holds, At, StoreInv
<1>2. /\ s \in {"rename", "held", "release"} /\ s \in Stages
      /\ p \in building <=> s = "rename"
      /\ s = "held" => call[p].op = "lease"
  <2>1. p \in building => call[p].op # "lease"
    BY <1>1 DEF Knows
  <2>2. CASE p \in building
    BY <2>1, <2>2 DEF Stages
  <2>3. CASE p \notin building
    BY <2>3 DEF Stages
  <2> QED
    BY <2>2, <2>3
<1>3. s = "held" => call[p].op = "lease"
  BY <1>2
<1> HIDE DEF s
<1>4. /\ call' \in [Procs -> Call \cup {Idle}]
      /\ call'[p].op = call[p].op /\ call'[p].entry = call[p].entry /\ call'[p].stage = s
      /\ \A q \in Procs \ {p} : call'[q] = call[q]
  BY <1>1, <1>2, Moved
<1>5. Entry(p) \in Entries
  BY <1>1, InCall DEF Call, Entry
<1>6. /\ writing' \in [Entries -> SUBSET Procs]
      /\ receipts' \in [Entries -> SUBSET ReceiptNodes]
      /\ \A e \in Entries \ {Entry(p)} : writing'[e] = writing[e] /\ receipts'[e] = receipts[e]
      /\ \A q \in Procs, e \in Entries : q \in writing'[e] => q \in writing[e]
      /\ \A e \in Entries : receipts[e] \subseteq receipts'[e]
      /\ "receipt" \in receipts'[Entry(p)] /\ p \notin writing'[Entry(p)]
  BY <1>1, <1>5 DEF TypeOK, ReceiptNodes
<1>7. TypeOK'
  BY <1>1, <1>4, <1>6 DEF TypeOK
<1>8. Locked'
  BY <1>1, <1>4, LocksKept
<1>9. \A e \in Entries : p \notin writing'[e]
  BY <1>1, <1>6 DEF Knows
<1>10. Knows(p)'
  BY <1>1, <1>2, <1>3, <1>4, <1>6, <1>9 DEF Knows, At, Entry, Whole
<1>11. \A q \in Procs \ {p} : Knows(q)'
  BY <1>1, <1>4, <1>6, OthersKnow DEF Inventory
<1>12. \A e \in Entries : Tree(e)'
  BY <1>1, <1>6 DEF StoreInv, Tree, Present
<1> QED
  BY <1>7, <1>8, <1>10, <1>11, <1>12 DEF StoreInv

\* An operation that ends early, or dies, leaves an object as it is and takes no receipt
\* away; what it leaves or removes is under the entry it holds.
LEMMA LeftAlone ==
  ASSUME StoreInv, NEW p \in Procs, CleanUp(p) \/ LeaveBehind(p)
  PROVE  /\ object' = object /\ litter' \in BOOLEAN
         /\ receipts' \in [Entries -> SUBSET ReceiptNodes]
         /\ writing' \in [Entries -> SUBSET Procs]
         /\ building' = building \ {p} /\ \A e \in Entries : writing'[e] = writing[e] \ {p}
         /\ \A e \in Entries : receipts[e] \subseteq receipts'[e]
         /\ \A e \in Entries : Inventory(e)' = Inventory(e) \/ (Holds(p) /\ e = Entry(p))
<1>1. /\ object' = object /\ litter' \in BOOLEAN
      /\ building' = building \ {p} /\ writing' = [e \in Entries |-> writing[e] \ {p}]
  BY DEF CleanUp, LeaveBehind, StoreInv, TypeOK
<1>2. \/ receipts' = receipts
      \/ receipts' = [e \in Entries |-> receipts[e] \cup (IF p \in writing[e] THEN {"stale"} ELSE {})]
  BY DEF CleanUp, LeaveBehind
<1>3. receipts \in [Entries -> SUBSET ReceiptNodes] /\ writing \in [Entries -> SUBSET Procs]
  BY DEF StoreInv, TypeOK
<1>4. /\ receipts' \in [Entries -> SUBSET ReceiptNodes]
      /\ \A e \in Entries : receipts[e] \subseteq receipts'[e]
      /\ \A e \in Entries : p \notin writing[e] => receipts'[e] = receipts[e]
  BY <1>2, <1>3 DEF ReceiptNodes
<1>5. \A e \in Entries : p \in writing[e] => Holds(p) /\ e = Entry(p)
  BY DEF StoreInv, Knows, Holds, At
<1>6. \A e \in Entries : Inventory(e)' = Inventory(e) \/ (Holds(p) /\ e = Entry(p))
  <2> TAKE e \in Entries
  <2>1. CASE p \in writing[e]
    BY <1>5, <2>1
  <2>2. CASE p \notin writing[e]
    <3>1. writing'[e] = writing[e] /\ receipts'[e] = receipts[e] /\ object'[e] = object[e]
      BY <1>1, <1>4, <2>2
    <3> QED
      BY <3>1 DEF Inventory
  <2> QED
    BY <2>1, <2>2
<1> QED
  BY <1>1, <1>3, <1>4, <1>6

LEMMA FailSafe == ASSUME StoreInv, NEW p \in Procs, Fail(p) PROVE StoreInv'
<1>1. /\ Busied(p) /\ Holds(p) /\ TypeOK /\ Goes(p, "release") /\ "release" \in Stages
      /\ Knows(p) /\ (CleanUp(p) \/ LeaveBehind(p))
  BY DEF Fail, Busied, Holds, At, StoreInv, Stages
<1>2. /\ call' \in [Procs -> Call \cup {Idle}]
      /\ call'[p].op = call[p].op /\ call'[p].entry = call[p].entry /\ call'[p].stage = "release"
      /\ \A q \in Procs \ {p} : call'[q] = call[q]
  BY <1>1, Moved
<1>3. TypeOK'
  BY <1>1, <1>2, LeftAlone DEF TypeOK
<1>4. Locked'
  BY <1>1, <1>2, LocksKept
<1>5. Knows(p)'
  BY <1>1, <1>2, LeftAlone DEF Knows, At
<1>6. \A q \in Procs \ {p} : Knows(q)'
  BY <1>1, <1>2, LeftAlone, OthersKnow
<1>7. \A e \in Entries : Tree(e)'
  BY <1>1, LeftAlone DEF StoreInv, Tree, Present
<1> QED
  BY <1>3, <1>4, <1>5, <1>6, <1>7 DEF StoreInv

LEMMA CrashSafe == ASSUME StoreInv, NEW p \in Procs, Crash(p) PROVE StoreInv'
<1>1. LeaveBehind(p) /\ call' = [call EXCEPT ![p] = Idle]
  BY DEF Crash
<1>2. /\ call' \in [Procs -> Call \cup {Idle}]
      /\ call'[p].stage = "idle"
      /\ \A q \in Procs \ {p} : call'[q] = call[q]
  BY <1>1 DEF StoreInv, TypeOK, Idle
<1>3. TypeOK'
  BY <1>1, <1>2, LeftAlone DEF StoreInv, TypeOK
<1>4. Locked'
  BY <1>2, LocksKept DEF Holds
<1>5. Knows(p)'
  BY <1>1, <1>2, LeftAlone DEF Knows, At
<1>6. \A q \in Procs \ {p} : Knows(q)'
  BY <1>1, <1>2, LeftAlone, OthersKnow
<1>7. \A e \in Entries : Tree(e)'
  BY <1>1, LeftAlone DEF StoreInv, Tree, Present
<1> QED
  BY <1>3, <1>4, <1>5, <1>6, <1>7 DEF StoreInv

------------------------------------------------------------------------------
(* Removal *)

LEMMA TakeInventorySafe == ASSUME StoreInv, NEW p \in Procs, TakeInventory(p) PROVE StoreInv'
<1> DEFINE nodes == Inventory(Entry(p))
           s == IF nodes = {} THEN "release" ELSE "delete"
<1>1. /\ Busied(p) /\ Holds(p) /\ Knows(p) /\ At(p, "locked") /\ call[p].op = "remove"
      /\ call' = [call EXCEPT ![p].stage = s, ![p].rest = nodes] /\ UNCHANGED disk
  BY DEF TakeInventory, Busied, Holds, At, StoreInv
<1>2. call[p] \in Call /\ Entry(p) \in Entries
  BY <1>1, InCall DEF StoreInv, Call, Entry
<1>3. nodes \subseteq ObjectNodes("package") \cup ObjectNodes("proof") \cup ReceiptNodes \cup Procs
  BY <1>2 DEF StoreInv, TypeOK, Inventory, Entries, Kinds, Kind
<1>4. s \in {"release", "delete"} /\ s \in Stages
  BY DEF Stages
<1> HIDE DEF nodes, s
<1>5. /\ call' \in [Procs -> Call \cup {Idle}]
      /\ call'[p].op = call[p].op /\ call'[p].entry = call[p].entry
      /\ call'[p].stage = s /\ call'[p].rest = nodes
      /\ \A q \in Procs \ {p} : call'[q] = call[q]
  BY <1>1, <1>2, <1>3, <1>4 DEF StoreInv, TypeOK, Call
<1>6. Inventory(Entry(p))' = nodes
  BY <1>1, <1>5 DEF nodes, Inventory, disk, Entry
<1>7. Knows(p)'
  BY <1>1, <1>4, <1>5, <1>6 DEF Knows, At, disk
<1>8. Locked'
  BY <1>1, <1>5, LocksKept
<1> QED
  BY <1>1, <1>5, <1>7, <1>8, DiskUnchanged

LEMMA RemovalFailsSafe == ASSUME StoreInv, NEW p \in Procs, RemovalFails(p) PROVE StoreInv'
<1>1. /\ Busied(p) /\ Holds(p) /\ Knows(p) /\ At(p, "delete") /\ call[p] \in Call
      /\ call' = [call EXCEPT ![p].stage = "release", ![p].rest = {}] /\ UNCHANGED disk
  BY InCall DEF RemovalFails, Busied, Holds, At, StoreInv
<1>2. /\ call' \in [Procs -> Call \cup {Idle}]
      /\ call'[p].op = call[p].op /\ call'[p].entry = call[p].entry /\ call'[p].stage = "release"
      /\ \A q \in Procs \ {p} : call'[q] = call[q]
  BY <1>1 DEF StoreInv, TypeOK, Call, Stages
<1>3. Knows(p)'
  BY <1>1, <1>2 DEF Knows, At, disk
<1>4. Locked'
  BY <1>1, <1>2, LocksKept
<1> QED
  BY <1>1, <1>2, <1>3, <1>4, DiskUnchanged

\* Children go before their directory and the object before its evidence, so what is left
\* is still a tree, and what the removal has left to do is still all there is.
LEMMA DeleteNodeSafe == ASSUME StoreInv, NEW p \in Procs, DeleteNode(p) PROVE StoreInv'
<1> DEFINE e == Entry(p)
<1>1. /\ Busied(p) /\ Holds(p) /\ Knows(p) /\ At(p, "delete") /\ call[p] \in Call /\ e \in Entries
      /\ call[p].op = "remove" /\ call[p].rest = Inventory(e) /\ Exclusive(p)
  BY InCall DEF DeleteNode, Busied, Holds, At, StoreInv, Knows, Exclusive, Entry, Call
<1>2. PICK n \in NextToDelete(call[p].rest) :
        /\ n \in Inventory(e) /\ Inside(n) \cap Inventory(e) = {}
        /\ object' = [object EXCEPT ![e] = @ \ {n}]
        /\ receipts' = [receipts EXCEPT ![e] = @ \ {n}]
        /\ writing' = [writing EXCEPT ![e] = @ \ {n}]
        /\ call' = [call EXCEPT ![p].stage = IF call[p].rest = {n} THEN "release" ELSE "delete",
                                ![p].rest = @ \ {n}]
  BY DEF DeleteNode
<1>3. building' = building /\ litter' = litter
  BY DEF DeleteNode
<1>4. /\ call' \in [Procs -> Call \cup {Idle}]
      /\ call'[p].op = call[p].op /\ call'[p].entry = call[p].entry
      /\ call'[p].stage \in {"release", "delete"} /\ call'[p].rest = call[p].rest \ {n}
      /\ \A q \in Procs \ {p} : call'[q] = call[q]
  BY <1>1, <1>2 DEF StoreInv, TypeOK, Call, Stages
<1> HIDE DEF e
<1>5. /\ DOMAIN object' = Entries /\ \A f \in Entries : object'[f] \subseteq ObjectNodes(Kind(f))
      /\ receipts' \in [Entries -> SUBSET ReceiptNodes] /\ writing' \in [Entries -> SUBSET Procs]
      /\ object'[e] = object[e] \ {n} /\ receipts'[e] = receipts[e] \ {n}
      /\ writing'[e] = writing[e] \ {n}
      /\ \A f \in Entries \ {e} :
           object'[f] = object[f] /\ receipts'[f] = receipts[f] /\ writing'[f] = writing[f]
  BY <1>1, <1>2 DEF StoreInv, TypeOK
<1>6. TypeOK'
  BY <1>3, <1>4, <1>5 DEF StoreInv, TypeOK
<1>7. Locked'
  BY <1>1, <1>4, LocksKept
<1>8. e = Entry(p) /\ e = Entry(p)'
  BY <1>4 DEF e, Entry
<1>9. Inventory(Entry(p))' = call'[p].rest
  BY <1>1, <1>4, <1>5, <1>8 DEF Inventory
<1>10. Knows(p)'
  BY <1>1, <1>3, <1>4, <1>5, <1>9 DEF Knows, At
<1>11. \A q \in Procs \ {p} : Knows(q)'
  <2>1. \A f \in Entries \ {e} : Inventory(f)' = Inventory(f)
    BY <1>5 DEF Inventory
  <2>2. \A q \in Procs \ {p}, f \in Entries : q \in writing'[f] => q \in writing[f]
    BY <1>5
  <2> QED
    BY <1>1, <1>3, <1>4, <1>5, <1>8, <2>1, <2>2, OthersKnow
<1>12. \A f \in Entries : Tree(f)'
  <2>1. \A f \in Entries \ {e} : Tree(f)'
    BY <1>5 DEF StoreInv, Tree, Present
  <2>2. Tree(e) /\ object[e] \subseteq ObjectNodes(Kind(e))
    BY <1>1 DEF StoreInv, TypeOK
  <2>3. object'[e] # {} => "object" \in object'[e]
    <3> SUFFICES ASSUME n = "object" PROVE object[e] \subseteq {"object"}
      BY <1>5, <2>2 DEF Tree
    <3>1. object[e] \cap {"package.zip", "content", "proof.bin"} = {}
      BY <1>2 DEF Inside, Inventory
    <3> QED
      BY <3>1, <2>2 DEF Tree, ObjectNodes
  <2>4. "files" \in object'[e] => "content" \in object'[e]
    <3>1. n = "content" => "files" \notin object[e]
      BY <1>2 DEF Inside, Inventory
    <3> QED
      BY <3>1, <1>5, <2>2 DEF Tree
  <2>5. Kind(e) = "package" /\ "object" \in object'[e] => "receipt" \in receipts'[e]
    <3>1. "object" \in object[e] => n \notin ReceiptNodes
      BY <1>1, <1>2 DEF NextToDelete, Inventory, ObjectNodes
    <3> QED
      BY <3>1, <1>5, <2>2 DEF Tree, Present, ReceiptNodes
  <2> QED
    BY <2>1, <2>3, <2>4, <2>5 DEF Tree, Present
<1> QED
  BY <1>6, <1>7, <1>10, <1>11, <1>12 DEF StoreInv

------------------------------------------------------------------------------
(* The promises *)

LEMMA StoreInitSafe == Init => StoreInv
<1> SUFFICES ASSUME Init PROVE StoreInv
  OBVIOUS
<1>1. TypeOK
  BY DEF Init, TypeOK, Idle
<1>2. \A p \in Procs : call[p].stage = "idle"
  BY DEF Init, Idle
<1>3. Locked
  BY <1>2 DEF Locked, Holds
<1>4. \A p \in Procs : Knows(p)
  BY <1>2 DEF Init, Knows, At
<1>5. \A e \in Entries : Tree(e)
  BY DEF Init, Tree, Present
<1> QED
  BY <1>1, <1>3, <1>4, <1>5 DEF StoreInv

LEMMA StoreStep == StoreInv /\ [Next]_vars => StoreInv'
<1> SUFFICES ASSUME StoreInv, [Next]_vars PROVE StoreInv'
  OBVIOUS
<1>1. CASE UNCHANGED vars
  BY <1>1 DEF vars, disk, StoreInv, TypeOK, Locked, Knows, Tree, Present, Whole, Inventory,
              At, Entry, Holds, Exclusive
<1>2. CASE Next
  <2>1. PICK p \in Procs :
          \/ Begin(p) \/ Acquire(p) \/ Busy(p) \/ Release(p)
          \/ LookUpTarget(p) \/ Inspect(p) \/ MakeCandidate(p) \/ FillCandidate(p)
          \/ RenameCandidate(p) \/ EndUse(p)
          \/ MakeReceipts(p) \/ WriteReceipt(p) \/ ReplaceReceipt(p) \/ Fail(p)
          \/ List(p) \/ TakeInventory(p) \/ DeleteNode(p) \/ RemovalFails(p)
          \/ Crash(p)
    BY <1>2 DEF Next
  <2> QED
    BY <2>1, BeginSafe, AcquireSafe, EndSafe, LookUpSafe, InspectSafe, MakeCandidateSafe,
       FillSafe, RenameSafe, ToReleaseSafe, MakeReceiptsSafe, WriteReceiptSafe,
       ReplaceReceiptSafe, FailSafe, TakeInventorySafe, DeleteNodeSafe, RemovalFailsSafe, CrashSafe
<1> QED
  BY <1>1, <1>2

\* Locks exclude, processes know what they rely on, and entries are trees with evidence,
\* in every state that any number of processes can bring about.
THEOREM StoreCorrect == Spec => []StoreInv
BY StoreInitSafe, StoreStep, PTL DEF Spec

\* The variables keep their types.
THEOREM TypeCorrect == Spec => []TypeOK
<1>1. StoreInv => TypeOK
  BY DEF StoreInv
<1> QED
  BY <1>1, StoreCorrect, PTL

\* A package in place has a receipt, which publication records before the rename and
\* removal deletes after the object, whoever dies in between; and a removal deletes all
\* there is of an entry, as nobody adds to it after the inventory.
THEOREM StoreAccounts == Spec => []StoreIsAccounted
<1>1. StoreInv => StoredHasEvidence
  BY DEF StoreInv, Tree, StoredHasEvidence, Packages
<1>2. StoreInv => RemovalSeesAll
  BY DEF StoreInv, Knows, RemovalSeesAll
<1> QED
  BY <1>1, <1>2, StoreCorrect, PTL DEF StoreIsAccounted

------------------------------------------------------------------------------
(* What readers and lease holders see *)

StateOf(e) == IF Whole(e) THEN "whole" ELSE IF Present(e) THEN "damaged" ELSE "absent"
State == [e \in Entries |-> StateOf(e)]
Leases == [e \in Entries |-> {p \in Procs : At(p, "held") /\ Entry(p) = e}]

\* The steps of the abstract cache, read off the detailed one.
LEMMA StoreReadings ==
  ASSUME NEW e \in Entries, NEW u \in Procs
  PROVE  /\ State[e] = "absent" /\ State' = [State EXCEPT ![e] = "whole"] /\ Leases' = Leases
             => Store!Publish(e)
         /\ State[e] = "whole" /\ Leases' = [Leases EXCEPT ![e] = @ \cup {u}] /\ State' = State
             => Store!Lease(e, u)
         /\ Leases' = [Leases EXCEPT ![e] = @ \ {u}] /\ State' = State
             => Store!EndLease(e, u)
         /\ State[e] = "whole" /\ Leases[e] = {} /\ State' = [State EXCEPT ![e] = "damaged"]
             /\ Leases' = Leases => Store!Damage(e)
         /\ State[e] = "damaged" /\ State' = [State EXCEPT ![e] = "absent"] /\ Leases' = Leases
             => Store!Discard(e)
         /\ State' = State /\ Leases' = Leases => UNCHANGED Store!store
BY DEF State, StateOf, Leases, Store!Publish, Store!Lease, Store!EndLease, Store!Damage,
       Store!Discard, Store!store

\* A step that leaves the objects alone starts a lease of a whole entry, ends one, or is
\* not seen.
LEMMA LeaseStep ==
  ASSUME StoreInv, NEW p \in Procs, object' = object,
         \A q \in Procs \ {p} : call'[q] = call[q],
         At(p, "held")' => /\ Busied(p) /\ call'[p].entry = call[p].entry
                           /\ At(p, "held") \/ Whole(Entry(p))
  PROVE  [Store!StoreNext]_Store!store
<1>1. State' = State
  BY DEF State, StateOf, Whole, Present
<1>2. At(p, "held") \/ At(p, "held")' => Entry(p) \in Entries
  BY InCall DEF StoreInv, Busied, At, Entry, Call
<1>3. \A q \in Procs \ {p}, e \in Entries :
        (At(q, "held") /\ Entry(q) = e)' <=> At(q, "held") /\ Entry(q) = e
  BY DEF At, Entry
<1>4. CASE At(p, "held") <=> At(p, "held")'
  <2>1. Leases' = Leases
    BY <1>3, <1>4 DEF Leases, At, Entry
  <2> QED
    BY <1>1, <2>1 DEF State, StateOf, Leases, Store!store
<1>5. CASE ~At(p, "held") /\ At(p, "held")'
  <2>1. PICK e \in Entries : e = Entry(p) /\ e = Entry(p)'
    BY <1>2, <1>5 DEF Entry
  <2>2. /\ \A q \in Procs, f \in Entries :
              (At(q, "held") /\ Entry(q) = f)' <=> (At(q, "held") /\ Entry(q) = f) \/ (q = p /\ f = e)
    BY <1>3, <1>5, <2>1
  <2>3. Leases' = [Leases EXCEPT ![e] = @ \cup {p}]
    <3>1. \A f \in Entries \ {e} : Leases'[f] = Leases[f]
      BY <2>2 DEF Leases
    <3>2. Leases'[e] = Leases[e] \cup {p}
      BY <2>2 DEF Leases
    <3> QED
      BY <3>1, <3>2 DEF Leases
  <2>4. State[e] = "whole"
    BY <1>5, <2>1 DEF State, StateOf
  <2>5. Store!Lease(e, p)
    BY <1>1, <2>3, <2>4, StoreReadings
  <2> QED
    BY <2>5 DEF Store!StoreNext
<1>6. CASE At(p, "held") /\ ~At(p, "held")'
  <2>1. PICK e \in Entries : e = Entry(p)
    BY <1>2, <1>6
  <2>2. /\ \A q \in Procs, f \in Entries :
              (At(q, "held") /\ Entry(q) = f)' <=> (At(q, "held") /\ Entry(q) = f) /\ ~(q = p /\ f = e)
    BY <1>3, <1>6, <2>1
  <2>3. Leases' = [Leases EXCEPT ![e] = @ \ {p}]
    <3>1. \A f \in Entries \ {e} : Leases'[f] = Leases[f]
      BY <2>2 DEF Leases
    <3>2. Leases'[e] = Leases[e] \ {p}
      BY <2>2 DEF Leases
    <3> QED
      BY <3>1, <3>2 DEF Leases
  <2>4. Store!EndLease(e, p)
    BY <1>1, <2>3, StoreReadings
  <2> QED
    BY <2>4 DEF Store!StoreNext
<1> QED
  BY <1>4, <1>5, <1>6

\* All steps but the rename and the deletions are such steps.
LEMMA QuietStep ==
  ASSUME StoreInv, NEW p \in Procs,
         \/ Begin(p) \/ Acquire(p) \/ Busy(p) \/ Release(p)
         \/ LookUpTarget(p) \/ Inspect(p) \/ MakeCandidate(p) \/ FillCandidate(p) \/ EndUse(p)
         \/ MakeReceipts(p) \/ WriteReceipt(p) \/ ReplaceReceipt(p) \/ Fail(p)
         \/ List(p) \/ TakeInventory(p) \/ RemovalFails(p) \/ Crash(p)
  PROVE  [Store!StoreNext]_Store!store
<1>1. Knows(p) /\ call \in [Procs -> Call \cup {Idle}]
  BY DEF StoreInv, TypeOK
<1>2. object' = object
  BY LeftAlone DEF Begin, Acquire, Busy, Release, LookUpTarget, Inspect, MakeCandidate,
         FillCandidate, EndUse, MakeReceipts, WriteReceipt, ReplaceReceipt, Fail, List,
         TakeInventory, RemovalFails, Crash, disk
<1>3. \A q \in Procs \ {p} : call'[q] = call[q]
  BY <1>1 DEF Begin, Acquire, Busy, Release, LookUpTarget, Inspect, MakeCandidate,
         FillCandidate, EndUse, MakeReceipts, WriteReceipt, ReplaceReceipt, Fail, List,
         TakeInventory, RemovalFails, Crash, Goes
<1>4. At(p, "held")' => (Inspect(p) \/ ReplaceReceipt(p)) /\ Busied(p)
  <2>1. At(p, "idle") => call'[p].stage # "held"
    <3>1. At(p, "idle") => Begin(p)
      BY DEF Begin, Acquire, Busy, Release, LookUpTarget, Inspect, MakeCandidate,
         FillCandidate, EndUse, MakeReceipts, WriteReceipt, ReplaceReceipt, Fail, List,
         TakeInventory, RemovalFails, Crash, At
    <3> QED
      BY <1>1, <3>1 DEF Begin
  <2>2. Busied(p) => call[p] \in Call
    BY InCall DEF StoreInv
  <2>3. CASE Acquire(p)
    <3> DEFINE s == IF call[p].op = "lease" THEN "inspect" ELSE "locked"
    <3>1. Goes(p, s) /\ Busied(p)
      BY <2>3 DEF Acquire, Busied, At
    <3>2. call'[p].stage = s
      BY <1>1, <2>2, <3>1 DEF Goes, Call
    <3> QED
      BY <3>2 DEF At
  <2>4. CASE Busied(p) /\ ~Acquire(p) /\ ~Inspect(p) /\ ~ReplaceReceipt(p)
    BY <1>1, <2>2, <2>4 DEF Busied, Begin, Busy, Release, LookUpTarget, MakeCandidate,
       FillCandidate, EndUse, MakeReceipts, WriteReceipt, Fail, List,
       TakeInventory, RemovalFails, Crash, Goes, At, Call, Idle
  <2> QED
    BY <2>1, <2>3, <2>4 DEF Busied, At, Inspect, ReplaceReceipt
<1>5. At(p, "held")' => Whole(Entry(p)) /\ call'[p].entry = call[p].entry
  <2>1. Busied(p) => call[p] \in Call
    BY InCall DEF StoreInv
  <2>2. CASE Inspect(p)
    BY <1>1, <1>4, <2>1, <2>2 DEF Inspect, Goes, Call
  <2>3. CASE ReplaceReceipt(p)
    <3> DEFINE s == IF p \in building THEN "rename"
                      ELSE IF call[p].op = "lease" THEN "held" ELSE "release"
    <3>1. Goes(p, s) /\ At(p, "replace") /\ Busied(p)
      BY <2>3 DEF ReplaceReceipt, At, Busied
    <3>2. p \in building => s = "rename"
      BY <1>1 DEF Knows
    <3>3. p \notin building => Whole(Entry(p))
      BY <1>1, <3>1 DEF Knows, At
    <3> HIDE DEF s
    <3>4. call'[p].stage = s /\ call'[p].entry = call[p].entry
      BY <1>1, <2>1, <3>1 DEF Goes, Call
    <3> QED
      BY <3>2, <3>3, <3>4 DEF At
  <2> QED
    BY <1>4, <2>2, <2>3
<1> QED
  BY <1>2, <1>3, <1>4, <1>5, LeaseStep

\* The rename publishes: the entry was absent, and is whole at once.
LEMMA RenamePublishes ==
  ASSUME StoreInv, NEW p \in Procs, RenameCandidate(p)
  PROVE  [Store!StoreNext]_Store!store
<1>1. /\ TypeOK /\ Busied(p) /\ Knows(p) /\ At(p, "rename") /\ Goes(p, "release")
      /\ "release" \in Stages
      /\ object' = [object EXCEPT ![Entry(p)] = ObjectNodes(Kind(Entry(p)))]
  BY DEF RenameCandidate, StoreInv, Busied, At, Stages
<1>2. PICK e \in Entries : e = Entry(p)
  BY <1>1, InCall DEF Entry, Call
<1>3. /\ call'[p].stage = "release"
      /\ \A q \in Procs \ {p} : call'[q] = call[q]
  BY <1>1, Moved
<1>4. object[e] = {}
  BY <1>1, <1>2 DEF Knows, At
<1>5. /\ object'[e] = ObjectNodes(Kind(e))
      /\ \A f \in Entries \ {e} : object'[f] = object[f]
  BY <1>1, <1>2 DEF TypeOK
<1>6. Leases' = Leases
  <2>1. \A q \in Procs, f \in Entries :
          (At(q, "held") /\ Entry(q) = f)' <=> At(q, "held") /\ Entry(q) = f
    BY <1>1, <1>3 DEF At, Entry
  <2> QED
    BY <2>1 DEF Leases
<1>7. State[e] = "absent"
  BY <1>4 DEF State, StateOf, Whole, Present, ObjectNodes
<1>8. State' = [State EXCEPT ![e] = "whole"]
  <2>1. State'[e] = "whole"
    BY <1>5 DEF State, StateOf, Whole
  <2>2. \A f \in Entries \ {e} : State'[f] = State[f]
    BY <1>5 DEF State, StateOf, Whole, Present
  <2> QED
    BY <2>1, <2>2 DEF State
<1>9. Store!Publish(e)
  BY <1>2, <1>6, <1>7, <1>8, StoreReadings
<1> QED
  BY <1>9 DEF Store!StoreNext

\* A deletion damages an entry that nobody leases or, at the last node, discards it.
LEMMA DeletionDamages ==
  ASSUME StoreInv, NEW p \in Procs, DeleteNode(p)
  PROVE  [Store!StoreNext]_Store!store
<1>1. /\ TypeOK /\ Busied(p) /\ Holds(p) /\ Knows(p) /\ At(p, "delete") /\ Exclusive(p)
      /\ call[p] \in Call
  BY InCall DEF DeleteNode, StoreInv, Knows, Busied, Holds, At, Exclusive
<1>2. PICK e \in Entries : e = Entry(p)
  BY <1>1 DEF Entry, Call
<1>3. PICK n \in NextToDelete(call[p].rest) :
        /\ Inside(n) \cap Inventory(e) = {}
        /\ object' = [object EXCEPT ![e] = @ \ {n}]
        /\ call' = [call EXCEPT ![p].stage = IF call[p].rest = {n} THEN "release" ELSE "delete",
                                ![p].rest = @ \ {n}]
  BY <1>2 DEF DeleteNode
<1>4. /\ call'[p].stage \in {"release", "delete"}
      /\ \A q \in Procs \ {p} : call'[q] = call[q]
  BY <1>1, <1>3 DEF TypeOK, Call
<1>5. /\ object'[e] = object[e] \ {n}
      /\ \A f \in Entries \ {e} : object'[f] = object[f]
  BY <1>3 DEF TypeOK, StoreInv
<1>6. Leases' = Leases
  <2>1. \A q \in Procs, f \in Entries :
          (At(q, "held") /\ Entry(q) = f)' <=> At(q, "held") /\ Entry(q) = f
    BY <1>1, <1>4 DEF At, Entry
  <2> QED
    BY <2>1 DEF Leases
<1>7. Leases[e] = {}
  <2>1. \A q \in Procs : ~(At(q, "held") /\ Entry(q) = e)
    BY <1>1, <1>2, Exclusion DEF At, Holds
  <2> QED
    BY <2>1 DEF Leases
<1>8. \A f \in Entries \ {e} : State'[f] = State[f]
  BY <1>5 DEF State, StateOf, Whole, Present
<1>9. CASE object'[e] = object[e]
  <2>1. State' = State
    BY <1>8, <1>9 DEF State, StateOf, Whole, Present
  <2> QED
    BY <1>2, <1>6, <2>1, StoreReadings
<1>10. CASE object'[e] # object[e]
  <2>1. n \in object[e] /\ n \in ObjectNodes(Kind(e)) /\ object[e] \subseteq ObjectNodes(Kind(e))
    BY <1>1, <1>5, <1>10 DEF TypeOK
  <2>2. State'[e] # "whole"
    BY <1>5, <2>1 DEF State, StateOf, Whole
  <2>3. State[e] = "absent" => "object" \notin object[e]
    BY DEF State, StateOf, Present
  <2>4. Tree(e)
    BY DEF StoreInv
  <2>5. State[e] # "absent"
    BY <2>1, <2>3, <2>4 DEF Tree
  <2>6. CASE State[e] = "whole"
    <3>1. n # "object"
      <4>1. object[e] = ObjectNodes(Kind(e)) /\ Kind(e) \in {"package", "proof"}
        BY <2>6 DEF State, StateOf, Whole, Entries, Kinds, Kind
      <4>2. object[e] \cap {"package.zip", "proof.bin"} # {}
        BY <4>1 DEF ObjectNodes
      <4> QED
        BY <1>3, <4>2 DEF Inside, Inventory
    <3>2. "object" \in object'[e]
      BY <1>5, <2>1, <2>4, <3>1 DEF Tree
    <3>3. State'[e] = "damaged"
      BY <2>2, <3>2 DEF State, StateOf, Present
    <3>4. State' = [State EXCEPT ![e] = "damaged"]
      BY <1>8, <3>3 DEF State
    <3>5. Store!Damage(e)
      BY <1>2, <1>6, <1>7, <2>6, <3>4, StoreReadings
    <3> QED
      BY <3>5 DEF Store!StoreNext
  <2>7. CASE State[e] = "damaged" /\ n = "object"
    <3>1. State'[e] = "absent"
      BY <1>5, <2>2, <2>7 DEF State, StateOf, Present
    <3>2. State' = [State EXCEPT ![e] = "absent"]
      BY <1>8, <3>1 DEF State
    <3>3. Store!Discard(e)
      BY <1>2, <1>6, <2>7, <3>2, StoreReadings
    <3> QED
      BY <3>3 DEF Store!StoreNext
  <2>8. CASE State[e] = "damaged" /\ n # "object"
    <3>1. State'[e] = "damaged"
      BY <1>5, <2>1, <2>2, <2>4, <2>8 DEF State, StateOf, Present, Tree
    <3>2. State' = State
      BY <1>8, <2>8, <3>1 DEF State
    <3> QED
      BY <1>2, <1>6, <3>2, StoreReadings
  <2>9. State[e] \in {"whole", "damaged", "absent"}
    BY DEF State, StateOf
  <2> QED
    BY <2>5, <2>6, <2>7, <2>8, <2>9
<1> QED
  BY <1>9, <1>10

\* The cache implements the abstract one: what a lease holder uses appeared whole and stays
\* as it is until the lease ends, and a damaged entry is only ever discarded.
THEOREM CacheImplementsStore == Spec => LeasesAreKept
<1>1. Init => Store!StoreInit
  BY DEF Init, Store!StoreInit, Whole, Present, ObjectNodes, At, Idle
<1>2. StoreInv /\ [Next]_vars => [Store!StoreNext]_Store!store
  <2> SUFFICES ASSUME StoreInv, [Next]_vars PROVE [Store!StoreNext]_Store!store
    OBVIOUS
  <2>1. CASE UNCHANGED vars
    BY <2>1 DEF vars, disk, Store!store, Whole, Present, At, Entry
  <2>2. CASE Next
    <3>1. PICK p \in Procs :
            \/ Begin(p) \/ Acquire(p) \/ Busy(p) \/ Release(p)
            \/ LookUpTarget(p) \/ Inspect(p) \/ MakeCandidate(p) \/ FillCandidate(p)
            \/ RenameCandidate(p) \/ EndUse(p)
            \/ MakeReceipts(p) \/ WriteReceipt(p) \/ ReplaceReceipt(p) \/ Fail(p)
            \/ List(p) \/ TakeInventory(p) \/ DeleteNode(p) \/ RemovalFails(p)
            \/ Crash(p)
      BY <2>2 DEF Next
    <3> QED
      BY <3>1, QuietStep, RenamePublishes, DeletionDamages
  <2> QED
    BY <2>1, <2>2
<1> QED
  BY <1>1, <1>2, StoreCorrect, PTL DEF Spec, LeasesAreKept, Store!StoreSpec


-------------------------------------------------------------------------------
(* How the root comes into being.                                          *)

OpenerFields == {"stage", "caller", "seen", "made", "mark", "reads", "outcome"}
Laid == {"objects", "receipts", "staging", "locks", "objects/sha256"}

LEMMA LayoutIs ==
  /\ L!ToSet(L!Layout) = Laid
  /\ Len(L!Layout) = 5 /\ \A m \in 0 .. 4 : L!Layout[m + 1] \in Laid
  /\ L!Directories \subseteq Laid /\ L!Objects \in Laid
<1>1. /\ Len(L!Layout) = 5 /\ DOMAIN L!Layout = 1 .. 5
      /\ L!Layout[1] = "objects" /\ L!Layout[2] = "receipts" /\ L!Layout[3] = "staging"
      /\ L!Layout[4] = "locks" /\ L!Layout[5] = "objects/sha256"
  BY SMT DEF L!Layout, L!Objects
<1>2. 1 .. 5 = {1, 2, 3, 4, 5} /\ \A m \in 0 .. 4 : m + 1 \in {1, 2, 3, 4, 5}
  BY SMT
<1>3. QED
  BY <1>1, <1>2 DEF L!ToSet, Laid, L!Directories, L!Objects

LEMMA OpenersAre ==
  IsFiniteSet(Openers) /\ MarkerReads \in Nat \ {0} /\ L!NoMarker \notin Openers
BY CacheAssumption DEF CacheAssumption, L!LayoutAssumption, L!IsFiniteSet, IsFiniteSet

LEMMA LaidIs == Laid = {L!Layout[m + 1] : m \in 0 .. 4}
<1>1. /\ L!Layout[1] = "objects" /\ L!Layout[2] = "receipts" /\ L!Layout[3] = "staging"
      /\ L!Layout[4] = "locks" /\ L!Layout[5] = "objects/sha256"
  BY SMT DEF L!Layout, L!Objects
<1>2. 0 .. 4 = {0, 1, 2, 3, 4}
  BY SMT
<1>3. {L!Layout[m + 1] : m \in 0 .. 4} =
        {L!Layout[1], L!Layout[2], L!Layout[3], L!Layout[4], L!Layout[5]}
  BY <1>2, SMT
<1>4. QED
  BY <1>1, <1>3 DEF Laid

(* What a step makes of what its opener knows.                             *)
LEMMA OpenerGoes ==
  ASSUME DOMAIN opening = Openers, NEW p \in Openers, NEW fields, L!GoesTo(p, fields),
         \A q \in Openers : DOMAIN opening[q] = OpenerFields
  PROVE  /\ DOMAIN opening' = Openers
         /\ \A q \in Openers : q # p => opening'[q] = opening[q]
         /\ \A q \in Openers : DOMAIN opening'[q] = OpenerFields
         /\ \A field \in DOMAIN fields \cap OpenerFields : opening'[p][field] = fields[field]
         /\ "caller" \notin DOMAIN fields => opening'[p].caller = opening[p].caller
         /\ "seen" \notin DOMAIN fields => opening'[p].seen = {}
         /\ "made" \notin DOMAIN fields => opening'[p].made = 0
         /\ "outcome" \notin DOMAIN fields => opening'[p].outcome = "ok"
<1>1. DOMAIN L!Started = OpenerFields
  BY SMT DEF L!Started, OpenerFields
<1>2. L!Started.seen = {} /\ L!Started.made = 0 /\ L!Started.outcome = "ok"
  BY SMT DEF L!Started
<1> DEFINE knows == [field \in OpenerFields |->
                       IF field \in DOMAIN fields THEN fields[field]
                       ELSE IF field = "caller" THEN opening[p].caller ELSE L!Started[field]]
<1>3. opening' = [opening EXCEPT ![p] = knows]
  BY <1>1 DEF L!GoesTo
<1>4. /\ DOMAIN opening' = Openers /\ opening'[p] = knows
      /\ \A q \in Openers : q # p => opening'[q] = opening[q]
  BY <1>3
<1>5. QED
  BY <1>2, <1>4 DEF OpenerFields

(* Past its check, an opener has seen the marker, which nobody takes away. *)
Vouched == {"marker", "read", "names", "nodes", "lookup", "build", "attach", "use"}

Renaming == {p \in Openers : L!At(p, "rename")}

(* A reader is refused a marker that was replaced as often as it reads it: *)
(* each time, one of those that were about to replace it has done so.      *)
ReadsOn(p) ==
  /\ opening[p].reads \in 1 .. MarkerReads
  /\ opening[p].reads + Cardinality(Renaming) + (IF opening[p].mark = marker THEN 0 ELSE 1)
       <= Cardinality(Openers)

(* What an opener relies on where it is.                                   *)
OpenerAt(p) ==
  /\ opening[p].stage # "invalid" /\ opening[p].outcome \in {"ok", "oserror"}
  /\ opening[p].stage \in {"unmarked", "scan", "mkdir", "stage", "lexists", "rename", "unstage"} =>
       exists
  /\ opening[p].stage = "mkdir" =>
       /\ opening[p].made \in 0 .. 4
       /\ \A m \in 0 .. 4 : m < opening[p].made => L!Layout[m + 1] \in dirs
  /\ opening[p].stage \in {"stage", "lexists", "rename", "unstage"} => Laid \subseteq dirs
  /\ opening[p].stage = "publish" /\ exists => L!Marked
  /\ \/ opening[p].stage \in Vouched
     \/ opening[p].stage = "settle" /\ opening[p].outcome = "ok"
     => L!Marked
  /\ opening[p].stage = "nodes" => opening[p].seen \subseteq dirs
  /\ opening[p].stage = "read" => ReadsOn(p)

(* Only a marked root is used, and it is whole.                            *)
RootAt ==
  /\ L!Marked => exists /\ Laid \subseteq dirs
  /\ ~exists => dirs = {}
  /\ L!Namespace \in dirs => L!NamespaceChild \in dirs /\ L!Marked
  /\ filled # {} \/ prepared # {} \/ "prepared" \in leftover => L!Marked

Opened ==
  /\ DOMAIN opening = Openers /\ \A p \in Openers : DOMAIN opening[p] = OpenerFields
  /\ RootAt
  /\ \A p \in Openers : OpenerAt(p)

(* The root only grows, and a marker is only replaced by who was about to. *)
Grows(p) ==
  /\ exists => exists'
  /\ exists' /\ ~exists => L!Marked'
  /\ dirs \subseteq dirs'
  /\ L!Marked => L!Marked'
  /\ L!Marked => /\ opening'[p].stage # "rename"
                 /\ marker' = marker \/ opening[p].stage = "rename"

LEMMA StillOn ==
  ASSUME Opened, NEW p \in Openers, NEW q \in Openers, q # p, Grows(p),
         \A r \in Openers : r # p => opening'[r] = opening[r],
         opening[q].stage = "read"
  PROVE  ReadsOn(q)'
<1>1. /\ L!Marked /\ ReadsOn(q) /\ opening'[q] = opening[q]
  BY DEF Opened, OpenerAt, Vouched
<1>2. /\ Renaming' \subseteq Renaming
      /\ marker' = marker \/ (p \in Renaming /\ p \notin Renaming')
  BY <1>1 DEF Grows, Renaming, L!At
<1>3. IsFiniteSet(Renaming) /\ IsFiniteSet(Renaming') /\ IsFiniteSet(Renaming \ {p})
  <2>1. Renaming \subseteq Openers /\ Renaming \ {p} \subseteq Openers /\ Renaming' \subseteq Openers
    BY <1>2 DEF Renaming
  <2>2. QED
    BY <2>1, FS_Subset, OpenersAre
<1>4. /\ Cardinality(Renaming) \in Nat /\ Cardinality(Renaming') \in Nat
      /\ Cardinality(Openers) \in Nat
  BY <1>3, FS_CardinalityType, OpenersAre
<1>5. Cardinality(Renaming') <= Cardinality(Renaming)
  BY <1>2, <1>3, FS_Subset
<1>6. CASE marker' = marker
  <2> DEFINE late == IF opening[q].mark = marker THEN 0 ELSE 1
  <2>1. late \in {0, 1}
    OBVIOUS
  <2>2. /\ opening[q].reads \in 1 .. MarkerReads
        /\ opening[q].reads + Cardinality(Renaming) + late <= Cardinality(Openers)
    BY <1>1 DEF ReadsOn
  <2> HIDE DEF late
  <2>3. opening[q].reads + Cardinality(Renaming') + late <= Cardinality(Openers)
    BY <1>4, <1>5, <2>1, <2>2, OpenersAre, SMT
  <2>4. QED
    BY <1>1, <1>6, <2>2, <2>3 DEF ReadsOn, late
<1>7. CASE p \in Renaming /\ p \notin Renaming'
  <2>1. Cardinality(Renaming \ {p}) = Cardinality(Renaming) - 1
    BY <1>3, <1>7, FS_RemoveElement
  <2>2. Renaming' \subseteq Renaming \ {p}
    BY <1>2, <1>7
  <2>3. Cardinality(Renaming') <= Cardinality(Renaming) - 1
    BY <1>3, <2>1, <2>2, FS_Subset
  <2>4. /\ opening[q].reads \in 1 .. MarkerReads
        /\ opening[q].reads + Cardinality(Renaming) <= Cardinality(Openers)
    <3>1. CASE opening[q].mark = marker
      BY <1>1, <1>4, <3>1, SMT DEF ReadsOn
    <3>2. CASE opening[q].mark # marker
      BY <1>1, <1>4, <3>2, SMT DEF ReadsOn
    <3>3. QED
      BY <3>1, <3>2
  <2>5. opening[q].reads + Cardinality(Renaming') + 1 <= Cardinality(Openers)
    BY <1>4, <2>3, <2>4, OpenersAre, SMT
  <2>6. opening[q].reads + Cardinality(Renaming') + 0 <= Cardinality(Openers)
    BY <1>4, <2>3, <2>4, OpenersAre, SMT
  <2>7. QED
    BY <1>1, <2>4, <2>5, <2>6 DEF ReadsOn
<1>8. QED
  BY <1>2, <1>6, <1>7

LEMMA StillAt ==
  ASSUME Opened, NEW p \in Openers, Grows(p),
         \A r \in Openers : r # p => opening'[r] = opening[r]
  PROVE  \A q \in Openers : q # p => OpenerAt(q)'
<1> SUFFICES ASSUME NEW q \in Openers, q # p PROVE OpenerAt(q)'
  OBVIOUS
<1>1. OpenerAt(q) /\ opening'[q] = opening[q]
  BY DEF Opened
<1>2. opening[q].stage = "read" => ReadsOn(q)'
  BY StillOn
<1>3. QED
  BY <1>1, <1>2 DEF OpenerAt, Grows, Vouched

(* A step of p leaves what the other openers know alone.                   *)
Others(p) ==
  /\ DOMAIN opening' = Openers
  /\ \A q \in Openers : q # p => opening'[q] = opening[q]
  /\ \A q \in Openers : DOMAIN opening'[q] = OpenerFields

LEMMA KeptOpened ==
  ASSUME Opened, NEW p \in Openers, Others(p), Grows(p), RootAt', OpenerAt(p)'
  PROVE  Opened'
<1>1. \A q \in Openers : q # p => OpenerAt(q)'
  BY StillAt DEF Others
<1>2. QED
  BY <1>1 DEF Opened, Others

LEMMA GoesIs ==
  ASSUME Opened, NEW p \in Openers, NEW stage, L!Goes(p, stage)
  PROVE  /\ Others(p)
         /\ opening'[p].stage = stage /\ opening'[p].outcome = "ok"
         /\ opening'[p].made = 0
<1>1. DOMAIN [stage |-> stage] = {"stage"} /\ [stage |-> stage].stage = stage
  BY SMT
<1>2. QED
  BY <1>1, OpenerGoes DEF Opened, Others, OpenerFields, L!Goes

LEMMA ChecksIs ==
  ASSUME Opened, NEW p \in Openers, NEW caller, L!GoesTo(p, L!Check(caller))
  PROVE  Others(p) /\ opening'[p].stage = "marker" /\ opening'[p].outcome = "ok"
<1>1. /\ DOMAIN L!Check(caller) = {"stage", "caller"}
      /\ L!Check(caller).stage = "marker"
  BY SMT DEF L!Check
<1>2. QED
  BY <1>1, OpenerGoes DEF Opened, Others, OpenerFields

LEMMA RaisesIs ==
  ASSUME Opened, NEW p \in Openers, NEW outcome, L!GoesTo(p, L!Raise(outcome))
  PROVE  Others(p) /\ opening'[p].stage = "settle" /\ opening'[p].outcome = outcome
<1>1. /\ DOMAIN L!Raise(outcome) = {"stage", "outcome"}
      /\ L!Raise(outcome).stage = "settle" /\ L!Raise(outcome).outcome = outcome
  BY SMT DEF L!Raise
<1>2. QED
  BY <1>1, OpenerGoes DEF Opened, Others, OpenerFields

(* A step that changes nothing another opener relies on.                   *)
LEMMA QuietOpening ==
  ASSUME Opened, NEW p \in Openers, Others(p), OpenerAt(p)',
         UNCHANGED <<exists, dirs, marker, filled>>,
         prepared' \subseteq prepared \/ L!Marked,
         "prepared" \in leftover' => "prepared" \in leftover \/ L!Marked,
         L!Marked => opening'[p].stage # "rename"
  PROVE  Opened'
<1>1. L!Marked' = L!Marked
  BY DEF L!Marked
<1>2. Grows(p)
  BY <1>1 DEF Grows
<1>3. RootAt'
  BY <1>1 DEF RootAt, Opened
<1>4. QED
  BY <1>2, <1>3, KeptOpened

(* The root is looked at.                                                  *)
LEMMA LooksAtRoot ==
  ASSUME Opened, NEW p \in Openers,
         L!LstatFindsNothing(p) \/ L!LstatFindsRoot(p) \/ L!ListUnmarked(p)
  PROVE  Opened'
<1>1. /\ UNCHANGED <<exists, dirs, marker, filled, prepared, leftover>>
      /\ RootAt /\ OpenerAt(p)
  BY DEF L!LstatFindsNothing, L!LstatFindsRoot, L!ListUnmarked, L!shared, L!work, Opened
<1>2. L!Marked' = L!Marked
  BY <1>1 DEF L!Marked
<1>3. CASE L!LstatFindsNothing(p)
  <2>1. PICK stage \in {"uninitialized", "publish"} : L!Goes(p, stage)
    BY <1>3 DEF L!LstatFindsNothing
  <2>2. ~exists'
    BY <1>1, <1>3 DEF L!LstatFindsNothing
  <2>3. OpenerAt(p)' /\ opening'[p].stage # "rename"
    BY <2>1, <2>2, GoesIs DEF OpenerAt, Vouched
  <2> QED
    BY <1>1, <2>1, <2>3, GoesIs, QuietOpening
<1>4. CASE L!LstatFindsRoot(p)
  <2>1. L!Goes(p, "unmarked") /\ exists'
    BY <1>1, <1>4 DEF L!LstatFindsRoot
  <2>2. OpenerAt(p)' /\ opening'[p].stage # "rename"
    BY <2>1, GoesIs DEF OpenerAt, Vouched
  <2> QED
    BY <1>1, <2>1, <2>2, GoesIs, QuietOpening
<1>5. CASE L!ListUnmarked(p) /\ ~L!Marked /\ L!TopLevel \subseteq L!Directories
  <2> DEFINE fields == [stage |-> "scan", seen |-> L!TopLevel]
  <2>1. L!GoesTo(p, fields) /\ exists'
    BY <1>1, <1>5 DEF L!ListUnmarked, L!At, OpenerAt
  <2>2. DOMAIN fields = {"stage", "seen"} /\ fields.stage = "scan"
    BY SMT
  <2> HIDE DEF fields
  <2>3. Others(p) /\ opening'[p].stage = "scan" /\ opening'[p].outcome = "ok"
    BY <2>1, <2>2, OpenerGoes DEF Opened, Others, OpenerFields
  <2>4. OpenerAt(p)' /\ opening'[p].stage # "rename"
    BY <2>1, <2>3 DEF OpenerAt, Vouched
  <2> QED
    BY <1>1, <2>3, <2>4, QuietOpening
<1>6. CASE L!ListUnmarked(p) /\ ~(~L!Marked /\ L!TopLevel \subseteq L!Directories)
  <2>1. L!GoesTo(p, L!Check("initialize"))
    BY <1>6 DEF L!ListUnmarked
  <2>2. L!Marked
    BY <1>1, <1>6 DEF RootAt, L!TopLevel
  <2>3. OpenerAt(p)' /\ opening'[p].stage # "rename"
    BY <1>2, <2>1, <2>2, ChecksIs DEF OpenerAt, Vouched
  <2> QED
    BY <1>1, <2>1, <2>3, ChecksIs, QuietOpening
<1>7. QED
  BY <1>3, <1>4, <1>5, <1>6

(* An entry that is not another initializer's work is in a marked root.    *)
LEMMA ScansRoot ==
  ASSUME Opened, NEW p \in Openers, L!ScanDirectory(p) \/ L!ScanEnds(p)
  PROVE  Opened'
<1>1. /\ UNCHANGED <<exists, dirs, marker, filled, prepared, leftover>>
      /\ RootAt /\ OpenerAt(p) /\ exists
  BY DEF L!ScanDirectory, L!ScanEnds, L!shared, L!work, Opened, OpenerAt, L!At
<1>2. L!Marked' = L!Marked
  BY <1>1 DEF L!Marked
<1>3. CASE L!ScanEnds(p)
  <2>1. PICK stage \in {"uninitialized", "mkdir"} : L!Goes(p, stage)
    BY <1>3 DEF L!ScanEnds
  <2>2. OpenerAt(p)' /\ opening'[p].stage # "rename"
    BY <1>1, <2>1, GoesIs, SMT DEF OpenerAt, Vouched
  <2> QED
    BY <1>1, <2>1, <2>2, GoesIs, QuietOpening
<1>4. CASE L!ScanDirectory(p)
  <2>1. PICK d \in opening[p].seen :
          IF L!Foreign(d) THEN L!GoesTo(p, L!Check("initialize"))
          ELSE opening' = [opening EXCEPT ![p].seen = @ \ {d}]
    BY <1>4 DEF L!ScanDirectory
  <2>2. CASE L!Foreign(d)
    <3>1. L!Marked
      BY <1>1, <2>2 DEF RootAt, L!Foreign
    <3>2. OpenerAt(p)' /\ opening'[p].stage # "rename"
      BY <1>2, <2>1, <2>2, <3>1, ChecksIs DEF OpenerAt, Vouched
    <3> QED
      BY <1>1, <2>1, <2>2, <3>2, ChecksIs, QuietOpening
  <2>3. CASE ~L!Foreign(d)
    <3>1. opening[p].stage = "scan" /\ opening' = [opening EXCEPT ![p].seen = @ \ {d}]
      BY <1>4, <2>1, <2>3 DEF L!ScanDirectory, L!At
    <3>2. Others(p) /\ opening'[p].stage = "scan" /\ opening'[p].outcome = opening[p].outcome
      BY <3>1 DEF Others, Opened, OpenerFields
    <3>3. OpenerAt(p)' /\ opening'[p].stage # "rename"
      BY <1>1, <3>2 DEF OpenerAt, Vouched
    <3> QED
      BY <1>1, <3>2, <3>3, QuietOpening
  <2> QED
    BY <2>2, <2>3
<1>5. QED
  BY <1>3, <1>4

(* A root built aside is published with its marker.                        *)
LEMMA PublishesRoot ==
  ASSUME Opened, NEW p \in Openers, L!PublishCandidate(p)
  PROVE  Opened'
<1>1. /\ UNCHANGED <<filled, prepared, leftover>>
      /\ RootAt /\ OpenerAt(p) /\ opening[p].stage = "publish"
  BY DEF L!PublishCandidate, Opened, L!At
<1>2. CASE /\ ~exists /\ exists' = TRUE /\ marker' = p /\ dirs' = L!ToSet(L!Layout)
           /\ L!GoesTo(p, L!Check("initialize"))
  <2>1. L!Marked' /\ dirs = {} /\ dirs' = Laid /\ ~L!Marked
    BY <1>1, <1>2, LayoutIs, OpenersAre DEF L!Marked, RootAt
  <2>2. RootAt'
    BY <1>1, <1>2, <2>1 DEF RootAt, Laid, L!Namespace, L!NamespaceChild
  <2>3. Others(p) /\ OpenerAt(p)' /\ Grows(p)
    BY <1>2, <2>1, ChecksIs DEF OpenerAt, Vouched, Grows
  <2> QED
    BY <2>2, <2>3, KeptOpened
<1>3. CASE /\ UNCHANGED <<exists, marker, dirs>> /\ exists
           /\ L!GoesTo(p, L!Check("initialize"))
  <2>1. L!Marked /\ L!Marked'
    BY <1>1, <1>3 DEF OpenerAt, L!Marked
  <2>2. OpenerAt(p)' /\ opening'[p].stage # "rename"
    BY <1>3, <2>1, ChecksIs DEF OpenerAt, Vouched
  <2> QED
    BY <1>1, <1>3, <2>2, ChecksIs, QuietOpening
<1>4. CASE /\ UNCHANGED <<exists, marker, dirs>> /\ ~exists
           /\ L!GoesTo(p, L!Raise("oserror"))
  <2>1. OpenerAt(p)' /\ opening'[p].stage # "rename"
    BY <1>4, RaisesIs DEF OpenerAt, Vouched
  <2> QED
    BY <1>1, <1>4, <2>1, RaisesIs, QuietOpening
<1>5. QED
  BY <1>2, <1>3, <1>4 DEF L!PublishCandidate

(* The directories are made in the order of the layout.                    *)
LEMMA MakesDirectory ==
  ASSUME Opened, NEW p \in Openers, L!MakeDirectory(p)
  PROVE  Opened'
<1>1. /\ UNCHANGED <<exists, marker, filled, prepared, leftover>>
      /\ RootAt /\ OpenerAt(p) /\ opening[p].stage = "mkdir" /\ exists
      /\ opening[p].made \in 0 .. 4
      /\ \A m \in 0 .. 4 : m < opening[p].made => L!Layout[m + 1] \in dirs
  BY DEF L!MakeDirectory, L!work, Opened, L!At, OpenerAt
<1>2. L!Marked' = L!Marked
  BY <1>1 DEF L!Marked
<1> DEFINE made == opening[p].made
<1>3. CASE UNCHANGED dirs /\ L!GoesTo(p, L!Raise("oserror"))
  <2>1. OpenerAt(p)' /\ opening'[p].stage # "rename"
    BY <1>3, RaisesIs DEF OpenerAt, Vouched
  <2> QED
    BY <1>1, <1>3, <2>1, RaisesIs, QuietOpening
<1>4. CASE /\ dirs' = dirs \cup {L!Layout[made + 1]}
           /\ L!GoesTo(p, [stage |-> IF made + 1 = Len(L!Layout) THEN "stage" ELSE "mkdir",
                           made |-> made + 1])
  <2> DEFINE stage == IF made + 1 = 5 THEN "stage" ELSE "mkdir"
             fields == [stage |-> stage, made |-> made + 1]
  <2>1. L!GoesTo(p, fields)
    BY <1>4, LayoutIs
  <2>2. DOMAIN fields = {"stage", "made"} /\ fields.stage = stage /\ fields.made = made + 1
    BY SMT
  <2> HIDE DEF fields
  <2>3. /\ Others(p) /\ opening'[p].stage = stage /\ opening'[p].outcome = "ok"
        /\ opening'[p].made = made + 1
    <3>1. {"stage", "made"} \cap OpenerFields = {"stage", "made"}
      BY DEF OpenerFields
    <3>2. /\ \A field \in {"stage", "made"} : opening'[p][field] = fields[field]
          /\ Others(p) /\ opening'[p].outcome = "ok"
      BY <2>1, <2>2, <3>1, OpenerGoes DEF Opened, Others
    <3> QED
      BY <2>2, <3>2
  <2>4. stage \in {"stage", "mkdir"} /\ L!Layout[made + 1] \in Laid
    BY <1>1, LayoutIs
  <2>5. /\ dirs \subseteq dirs'
        /\ dirs' \subseteq dirs \cup Laid
        /\ \A m \in 0 .. 4 : m <= made => L!Layout[m + 1] \in dirs'
    <3>1. \A m \in 0 .. 4 : m <= made => m < made \/ m = made
      BY <1>1
    <3> QED
      BY <1>1, <1>4, <2>4, <3>1
  <2>6. RootAt'
    BY <1>1, <1>2, <2>5 DEF RootAt, Laid, L!Namespace, L!NamespaceChild
  <2>7. Grows(p)
    BY <1>1, <1>2, <2>3, <2>4, <2>5 DEF Grows
  <2>8. CASE made + 1 = 5
    <3>1. Laid \subseteq dirs'
      <4>1. made = 4
        BY <1>1, <2>8
      <4>2. \A m \in 0 .. 4 : L!Layout[m + 1] \in dirs'
        BY <2>5, <4>1
      <4>3. Laid = {L!Layout[m + 1] : m \in 0 .. 4}
        BY LaidIs
      <4> QED
        BY <4>2, <4>3
    <3>2. OpenerAt(p)'
      BY <1>1, <2>3, <2>8, <3>1 DEF OpenerAt, Vouched
    <3> QED
      BY <2>3, <2>6, <2>7, <3>2, KeptOpened
  <2>9. CASE made + 1 # 5
    <3>1. /\ made + 1 \in 0 .. 4
          /\ \A m \in 0 .. 4 : m < made + 1 => L!Layout[m + 1] \in dirs'
      BY <1>1, <2>5, <2>9
    <3>2. OpenerAt(p)'
      BY <1>1, <2>3, <2>9, <3>1 DEF OpenerAt, Vouched
    <3> QED
      BY <2>3, <2>6, <2>7, <3>2, KeptOpened
  <2> QED
    BY <2>8, <2>9
<1>5. QED
  BY <1>3, <1>4 DEF L!MakeDirectory

(* The marker is written aside, and placed unless there is one.            *)
LEMMA StagesMarker ==
  ASSUME Opened, NEW p \in Openers,
         L!StageMarker(p) \/ L!LookForMarker(p) \/ L!Unstage(p)
  PROVE  Opened'
<1>1. /\ UNCHANGED <<exists, dirs, marker, filled, prepared>>
      /\ "prepared" \in leftover' => "prepared" \in leftover
      /\ RootAt /\ OpenerAt(p) /\ exists /\ Laid \subseteq dirs
  BY DEF L!StageMarker, L!LookForMarker, L!Unstage, L!shared, L!work, Opened, OpenerAt, L!At
<1>2. L!Marked' = L!Marked
  BY <1>1 DEF L!Marked
<1>3. ASSUME NEW stage \in {"lexists", "rename", "unstage"}, L!Goes(p, stage),
             stage = "rename" => ~L!Marked
      PROVE  Opened'
  <2>1. OpenerAt(p)'
    BY <1>1, <1>3, GoesIs DEF OpenerAt, Vouched
  <2> QED
    BY <1>1, <1>3, <2>1, GoesIs, QuietOpening
<1>4. ASSUME L!GoesTo(p, L!Raise("oserror"))
      PROVE  Opened'
  <2>1. OpenerAt(p)' /\ opening'[p].stage # "rename"
    BY <1>4, RaisesIs DEF OpenerAt, Vouched
  <2> QED
    BY <1>1, <1>4, <2>1, RaisesIs, QuietOpening
<1>5. ASSUME L!Marked, L!GoesTo(p, L!Check("initialize"))
      PROVE  Opened'
  <2>1. OpenerAt(p)' /\ opening'[p].stage # "rename"
    BY <1>2, <1>5, ChecksIs DEF OpenerAt, Vouched
  <2> QED
    BY <1>1, <1>5, <2>1, ChecksIs, QuietOpening
<1>6. QED
  BY <1>3, <1>4, <1>5 DEF L!StageMarker, L!LookForMarker, L!Unstage

LEMMA RenamesMarker ==
  ASSUME Opened, NEW p \in Openers, L!RenameMarker(p)
  PROVE  Opened'
<1>1. /\ UNCHANGED <<exists, dirs, filled, prepared, leftover>>
      /\ RootAt /\ OpenerAt(p) /\ opening[p].stage = "rename"
      /\ exists /\ Laid \subseteq dirs
  BY DEF L!RenameMarker, Opened, OpenerAt, L!At
<1>2. CASE marker' = p /\ L!GoesTo(p, L!Check("initialize"))
  <2>1. L!Marked'
    BY <1>2, OpenersAre DEF L!Marked
  <2>2. RootAt'
    BY <1>1, <2>1 DEF RootAt
  <2>3. Others(p) /\ OpenerAt(p)' /\ Grows(p)
    BY <1>1, <1>2, <2>1, ChecksIs DEF OpenerAt, Vouched, Grows
  <2> QED
    BY <2>2, <2>3, KeptOpened
<1>3. CASE marker' = marker /\ L!Goes(p, "unstage")
  <2>1. OpenerAt(p)' /\ opening'[p].stage # "rename"
    BY <1>1, <1>3, GoesIs DEF OpenerAt, Vouched
  <2> QED
    BY <1>1, <1>3, <2>1, GoesIs, QuietOpening
<1>4. QED
  BY <1>2, <1>3 DEF L!RenameMarker

(* The marker is read as long as it is replaced under the reader.          *)
LEMMA ReadsMarker ==
  ASSUME Opened, NEW p \in Openers, L!FindMarker(p) \/ L!ReadMarker(p),
         Cardinality(Openers) <= MarkerReads
  PROVE  Opened'
<1>1. /\ UNCHANGED <<exists, dirs, marker, filled, prepared, leftover>>
      /\ OpenerAt(p) /\ L!Marked
  BY DEF L!FindMarker, L!ReadMarker, L!shared, L!work, Opened, OpenerAt, L!At, Vouched
<1>2. L!Marked'
  BY <1>1 DEF L!Marked
<1>3. /\ IsFiniteSet(Openers) /\ Cardinality(Openers) \in Nat
      /\ IsFiniteSet(Renaming) /\ Cardinality(Renaming) \in Nat
      /\ MarkerReads \in Nat \ {0}
  <2>1. Renaming \subseteq Openers
    BY DEF Renaming
  <2> QED
    BY <2>1, FS_Subset, FS_CardinalityType, OpenersAre
<1>4. ASSUME NEW reads \in 1 .. MarkerReads,
             L!GoesTo(p, [stage |-> "read", mark |-> marker, reads |-> reads]),
             \/ reads = 1 
             \/ /\ opening[p].stage = "read"
                /\ reads + Cardinality(Renaming) <= Cardinality(Openers)
      PROVE  Opened'
  <2> DEFINE fields == [stage |-> "read", mark |-> marker, reads |-> reads]
  <2>1. L!GoesTo(p, fields)
    BY <1>4
  <2>2. /\ DOMAIN fields = {"stage", "mark", "reads"}
        /\ fields.stage = "read" /\ fields.mark = marker /\ fields.reads = reads
    BY SMT
  <2> HIDE DEF fields
  <2>3. /\ Others(p) /\ opening'[p].stage = "read" /\ opening'[p].outcome = "ok"
        /\ opening'[p].mark = marker /\ opening'[p].reads = reads
    <3>1. /\ \A field \in {"stage", "mark", "reads"} : opening'[p][field] = fields[field]
          /\ Others(p) /\ opening'[p].outcome = "ok"
      BY <2>1, <2>2, OpenerGoes DEF Opened, Others, OpenerFields
    <3> QED
      BY <2>2, <3>1
  <2>4. /\ Renaming' \subseteq Renaming /\ Renaming' \subseteq Openers \ {p}
    BY <2>3 DEF Renaming, L!At, Others
  <2>5. /\ IsFiniteSet(Openers \ {p}) /\ Cardinality(Openers \ {p}) = Cardinality(Openers) - 1
        /\ IsFiniteSet(Renaming') /\ Cardinality(Renaming') \in Nat
        /\ Cardinality(Renaming') <= Cardinality(Renaming)
        /\ Cardinality(Renaming') <= Cardinality(Openers) - 1
    <3>1. IsFiniteSet(Openers \ {p}) /\ Cardinality(Openers \ {p}) = Cardinality(Openers) - 1
      BY <1>3, FS_RemoveElement
    <3>2. IsFiniteSet(Renaming') /\ Cardinality(Renaming') <= Cardinality(Renaming)
      BY <1>3, <2>4, FS_Subset
    <3>3. Cardinality(Renaming') <= Cardinality(Openers \ {p})
      BY <2>4, <3>1, FS_Subset
    <3> QED
      BY <3>1, <3>2, <3>3, FS_CardinalityType
  <2>6. reads + Cardinality(Renaming') <= Cardinality(Openers)
    <3>1. CASE reads = 1
      BY <1>3, <2>5, <3>1
    <3>2. CASE reads + Cardinality(Renaming) <= Cardinality(Openers)
      BY <1>3, <2>5, <3>2
    <3> QED
      BY <1>4, <3>1, <3>2
  <2>7. ReadsOn(p)'
    <3>1. opening'[p].mark = marker'
      BY <1>1, <2>3
    <3>2. reads + Cardinality(Renaming') + 0 <= Cardinality(Openers)
      BY <1>3, <2>5, <2>6
    <3> QED
      BY <2>3, <3>1, <3>2 DEF ReadsOn
  <2>8. OpenerAt(p)'
    BY <1>2, <2>3, <2>7 DEF OpenerAt, Vouched
  <2> QED
    BY <1>1, <2>3, <2>8, QuietOpening
<1>5. CASE L!FindMarker(p)
  <2>1. 1 \in 1 .. MarkerReads
    BY <1>3
  <2>2. L!GoesTo(p, [stage |-> "read", mark |-> marker, reads |-> 1])
    BY <1>1, <1>5 DEF L!FindMarker
  <2> QED
    BY <1>4, <2>1, <2>2
<1>6. CASE L!ReadMarker(p) /\ opening[p].mark = marker
  <2>1. L!Goes(p, "names")
    BY <1>6 DEF L!ReadMarker
  <2>2. OpenerAt(p)' /\ opening'[p].stage # "rename"
    BY <1>2, <2>1, GoesIs DEF OpenerAt, Vouched
  <2> QED
    BY <1>1, <2>1, <2>2, GoesIs, QuietOpening
<1>7. CASE L!ReadMarker(p) /\ opening[p].mark # marker
  <2>1. ReadsOn(p) /\ opening[p].stage = "read"
    BY <1>1, <1>7 DEF OpenerAt, L!ReadMarker, L!At
  <2>2. /\ opening[p].reads \in 1 .. MarkerReads
        /\ opening[p].reads + Cardinality(Renaming) + 1 <= Cardinality(Openers)
    BY <1>7, <2>1 DEF ReadsOn
  <2>3. /\ opening[p].reads < MarkerReads /\ opening[p].reads + 1 \in 1 .. MarkerReads
        /\ (opening[p].reads + 1) + Cardinality(Renaming) <= Cardinality(Openers)
    BY <1>3, <2>2
  <2>4. L!GoesTo(p, [stage |-> "read", mark |-> marker, reads |-> opening[p].reads + 1])
    BY <1>7, <2>3 DEF L!ReadMarker
  <2> QED
    BY <1>4, <2>1, <2>3, <2>4
<1>8. QED
  BY <1>5, <1>6, <1>7

(* What is checked of a marked root is there.                              *)
LEMMA ChecksNodes ==
  ASSUME Opened, NEW p \in Openers, L!ListRoot(p) \/ L!CheckNodes(p)
  PROVE  Opened'
<1>1. /\ UNCHANGED <<exists, dirs, marker, filled, prepared, leftover>>
      /\ OpenerAt(p) /\ RootAt /\ L!Marked
  BY DEF L!ListRoot, L!CheckNodes, L!shared, L!work, Opened, OpenerAt, L!At, Vouched
<1>2. L!Marked'
  BY <1>1 DEF L!Marked
<1>3. CASE L!ListRoot(p)
  <2> DEFINE fields == [stage |-> "nodes", seen |-> L!TopLevel]
  <2>1. L!GoesTo(p, fields)
    BY <1>1, <1>3, LayoutIs DEF L!ListRoot, RootAt, L!TopLevel
  <2>2. DOMAIN fields = {"stage", "seen"} /\ fields.stage = "nodes" /\ fields.seen = L!TopLevel
    BY SMT
  <2> HIDE DEF fields
  <2>3. /\ \A field \in {"stage", "seen"} : opening'[p][field] = fields[field]
        /\ Others(p) /\ opening'[p].outcome = "ok"
    BY <2>1, <2>2, OpenerGoes DEF Opened, Others, OpenerFields
  <2>4. opening'[p].stage = "nodes" /\ opening'[p].seen \subseteq dirs'
    BY <1>1, <2>2, <2>3 DEF L!TopLevel
  <2>5. OpenerAt(p)'
    BY <1>2, <2>3, <2>4 DEF OpenerAt, Vouched
  <2> QED
    BY <1>1, <2>3, <2>4, <2>5, QuietOpening
<1>4. CASE L!CheckNodes(p)
  <2>1. opening[p].seen \subseteq dirs /\ L!Objects \in dirs
    BY <1>1, <1>4, LayoutIs DEF OpenerAt, RootAt, L!CheckNodes, L!At
  <2>2. L!Goes(p, "settle")
    BY <1>1, <1>4, <2>1 DEF L!CheckNodes, L!Goes, RootAt
  <2>3. OpenerAt(p)' /\ opening'[p].stage # "rename"
    BY <1>2, <2>2, GoesIs DEF OpenerAt, Vouched
  <2> QED
    BY <1>1, <2>2, <2>3, GoesIs, QuietOpening
<1>5. QED
  BY <1>3, <1>4

(* What was built aside is swept up, and the caller goes on.               *)
LEMMA Settles ==
  ASSUME Opened, NEW p \in Openers, L!Settle(p)
  PROVE  Opened'
<1>1. /\ UNCHANGED <<exists, dirs, marker, filled>> /\ prepared' \subseteq prepared
      /\ "prepared" \in leftover' => "prepared" \in leftover \/ prepared # {}
      /\ OpenerAt(p) /\ RootAt /\ opening[p].stage = "settle"
  BY DEF L!Settle, L!shared, Opened, L!At
<1>2. "prepared" \in leftover' => "prepared" \in leftover \/ L!Marked
  BY <1>1 DEF RootAt
<1>3. CASE opening[p].outcome # "ok"
  <2>1. L!Goes(p, "oserror")
    BY <1>1, <1>3 DEF L!Settle, L!Goes, OpenerAt
  <2>2. OpenerAt(p)' /\ opening'[p].stage # "rename"
    BY <2>1, GoesIs DEF OpenerAt, Vouched
  <2> QED
    BY <1>1, <1>2, <2>1, <2>2, GoesIs, QuietOpening
<1>4. CASE opening[p].outcome = "ok"
  <2>1. L!Marked'
    BY <1>1, <1>4 DEF OpenerAt, L!Marked
  <2>2. \/ \E stage \in {"lookup", "use"} : L!Goes(p, stage)
        \/ L!GoesTo(p, L!Check("prepare"))
    BY <1>4 DEF L!Settle, L!Goes
  <2>3. ASSUME NEW stage \in {"lookup", "use"}, L!Goes(p, stage)
        PROVE  Opened'
    <3>1. OpenerAt(p)' /\ opening'[p].stage # "rename"
      BY <2>1, <2>3, GoesIs DEF OpenerAt, Vouched
    <3> QED
      BY <1>1, <1>2, <2>3, <3>1, GoesIs, QuietOpening
  <2>4. CASE L!GoesTo(p, L!Check("prepare"))
    <3>1. OpenerAt(p)' /\ opening'[p].stage # "rename"
      BY <2>1, <2>4, ChecksIs DEF OpenerAt, Vouched
    <3> QED
      BY <1>1, <1>2, <2>4, <3>1, ChecksIs, QuietOpening
  <2> QED
    BY <2>2, <2>3, <2>4
<1>5. QED
  BY <1>3, <1>4

(* A namespace joins a marked root with its child.                         *)
LEMMA PreparesNamespace ==
  ASSUME Opened, NEW p \in Openers, L!PrepareNamespace(p)
  PROVE  Opened'
<1>1. /\ UNCHANGED <<exists, marker, filled>>
      /\ UNCHANGED dirs \/ dirs' = dirs \cup {L!Namespace, L!NamespaceChild}
      /\ UNCHANGED leftover
      /\ OpenerAt(p) /\ RootAt /\ L!Marked
  BY DEF L!PrepareNamespace, L!LookUpNamespace, L!BuildNamespace, L!AttachNamespace,
         L!shared, L!work, Opened, OpenerAt, L!At, Vouched
<1>2. L!Marked' /\ dirs \subseteq dirs'
  BY <1>1 DEF L!Marked
<1>3. RootAt'
  BY <1>1, <1>2 DEF RootAt
<1>4. ASSUME Others(p), OpenerAt(p)', opening'[p].stage # "rename"
      PROVE  Opened'
  <2>1. Grows(p)
    BY <1>1, <1>2, <1>4 DEF Grows
  <2> QED
    BY <1>3, <1>4, <2>1, KeptOpened
<1>5. \/ \E stage \in {"use", "build", "attach"} : L!Goes(p, stage)
      \/ L!GoesTo(p, L!Check("attached"))
      \/ L!GoesTo(p, L!Raise("oserror"))
  BY DEF L!PrepareNamespace, L!LookUpNamespace, L!BuildNamespace, L!AttachNamespace
<1>6. ASSUME NEW stage \in {"use", "build", "attach"}, L!Goes(p, stage)
      PROVE  Opened'
  <2>1. Others(p) /\ OpenerAt(p)' /\ opening'[p].stage # "rename"
    BY <1>2, <1>6, GoesIs DEF OpenerAt, Vouched
  <2> QED
    BY <1>4, <2>1
<1>7. CASE L!GoesTo(p, L!Check("attached"))
  <2>1. Others(p) /\ OpenerAt(p)' /\ opening'[p].stage # "rename"
    BY <1>2, <1>7, ChecksIs DEF OpenerAt, Vouched
  <2> QED
    BY <1>4, <2>1
<1>8. CASE L!GoesTo(p, L!Raise("oserror"))
  <2>1. Others(p) /\ OpenerAt(p)' /\ opening'[p].stage # "rename"
    BY <1>8, RaisesIs DEF OpenerAt, Vouched
  <2> QED
    BY <1>4, <2>1
<1>9. QED
  BY <1>5, <1>6, <1>7, <1>8

(* Entries appear in a marked root, and a process may die anywhere.        *)
LEMMA UsesOrDies ==
  ASSUME Opened, NEW p \in Openers, L!Use(p) \/ L!Crash(p)
  PROVE  Opened'
<1>1. CASE L!Use(p)
  <2>1. /\ UNCHANGED <<exists, dirs, marker, prepared, leftover>>
        /\ OpenerAt(p) /\ RootAt /\ L!Marked /\ L!Goes(p, "done")
    BY <1>1 DEF L!Use, L!work, Opened, OpenerAt, L!At, Vouched
  <2>2. L!Marked'
    BY <2>1 DEF L!Marked
  <2>3. Others(p) /\ opening'[p].stage = "done" /\ opening'[p].outcome = "ok"
    BY <2>1, GoesIs
  <2>4. RootAt' /\ Grows(p) /\ OpenerAt(p)'
    BY <2>1, <2>2, <2>3 DEF RootAt, Grows, OpenerAt, Vouched
  <2> QED
    BY <2>3, <2>4, KeptOpened
<1>2. CASE L!Crash(p)
  <2>1. /\ UNCHANGED <<exists, dirs, marker, filled>> /\ prepared' \subseteq prepared
        /\ "prepared" \in leftover' => "prepared" \in leftover \/ prepared # {}
        /\ OpenerAt(p) /\ RootAt /\ opening' = [opening EXCEPT ![p] = L!Started]
    BY <1>2 DEF L!Crash, L!shared, Opened
  <2>2. /\ DOMAIN L!Started = OpenerFields
        /\ L!Started.stage = "start" /\ L!Started.outcome = "ok"
    BY SMT DEF L!Started, OpenerFields
  <2>3. Others(p) /\ opening'[p].stage = "start" /\ opening'[p].outcome = "ok"
    BY <2>1, <2>2 DEF Others, Opened
  <2>4. OpenerAt(p)'
    BY <2>3 DEF OpenerAt, Vouched
  <2>5. "prepared" \in leftover' => "prepared" \in leftover \/ L!Marked
    BY <2>1 DEF RootAt
  <2> QED
    BY <2>1, <2>3, <2>4, <2>5, QuietOpening
<1>3. QED
  BY <1>1, <1>2

\* However the processes race to make the root, as long as they are not more than the
\* reads a marker is given (_MARKER_READS): what every opener relies on holds.
THEOREM OpeningCorrect ==
  ASSUME Cardinality(Openers) <= MarkerReads
  PROVE  CacheSpec => []Opened
<1>1. CacheInit => Opened
  <2> SUFFICES ASSUME CacheInit PROVE Opened
    OBVIOUS
  <2>1. /\ dirs = {} /\ marker = L!NoMarker /\ filled = {} /\ prepared = {} /\ leftover = {}
        /\ opening = [p \in Openers |-> L!Started]
    BY DEF CacheInit, L!Init
  <2>2. /\ DOMAIN L!Started = OpenerFields
        /\ L!Started.stage = "start" /\ L!Started.outcome = "ok"
    BY SMT DEF L!Started, OpenerFields
  <2>3. /\ DOMAIN opening = Openers
        /\ \A p \in Openers : /\ DOMAIN opening[p] = OpenerFields
                              /\ opening[p].stage = "start" /\ opening[p].outcome = "ok"
    BY <2>1, <2>2
  <2>4. RootAt
    BY <2>1 DEF RootAt, L!Marked, L!Namespace
  <2>5. \A p \in Openers : OpenerAt(p)
    BY <2>3 DEF OpenerAt, Vouched
  <2> QED
    BY <2>3, <2>4, <2>5 DEF Opened
<1>2. Opened /\ [CacheNext]_cacheVars => Opened'
  <2> SUFFICES ASSUME Opened, [CacheNext]_cacheVars PROVE Opened'
    OBVIOUS
  <2>1. CASE UNCHANGED layoutVars
    BY <2>1 DEF layoutVars, Opened, RootAt, OpenerAt, ReadsOn, Renaming, L!Marked, L!At
  <2>2. CASE L!Next /\ ~UNCHANGED layoutVars
    <3>1. PICK p \in Openers :
            \/ L!Initialize(p) \/ L!CheckRoot(p) \/ L!PrepareNamespace(p)
            \/ L!Use(p) \/ L!Crash(p)
      BY <2>2 DEF L!Next, L!Finished, L!vars, L!shared, L!work, layoutVars
    <3>2. CASE L!Initialize(p)
      BY <3>2, LooksAtRoot, ScansRoot, PublishesRoot, MakesDirectory, StagesMarker,
         RenamesMarker DEF L!Initialize
    <3>3. CASE L!CheckRoot(p)
      BY <3>3, ReadsMarker, ChecksNodes, Settles DEF L!CheckRoot
    <3> QED
      BY <3>1, <3>2, <3>3, PreparesNamespace, UsesOrDies
  <2> QED
    BY <2>1, <2>2 DEF CacheNext, Opening, Storing, cacheVars
<1>3. QED
  BY <1>1, <1>2, PTL DEF CacheSpec

\* A marked root is whole, and nobody is refused one, whoever else initializes, dies or
\* fails meanwhile (cache_layout.py).  The hypothesis is needed: among more initializers
\* than reads, one may find a new marker each time it reads, and give up.
THEOREM RootsAreSound ==
  ASSUME Cardinality(Openers) <= MarkerReads
  PROVE  CacheSpec => []RootIsSound
<1>1. Opened => RootIsSound
  BY LayoutIs DEF Opened, RootAt, OpenerAt, RootIsSound, L!RootIsSound, L!MarkedIsComplete,
     L!NoneIsRefused, L!At
<1>2. QED
  BY <1>1, OpeningCorrect, PTL

\* A cache that is in use is a store: what holds of the store holds of the cache.
LEMMA CacheIsStore == CacheSpec => Spec
<1>1. CacheInit => Init
  BY DEF CacheInit
<1>2. [CacheNext]_cacheVars => [Next]_vars
  BY DEF CacheNext, Opening, Storing, cacheVars
<1>3. QED
  BY <1>1, <1>2, PTL DEF CacheSpec, Spec

\* In the composition too, a package in place has a receipt, a removal deletes all there is
\* of an entry, and leases are kept.
THEOREM CachePromises == CacheSpec => []StoreIsAccounted /\ LeasesAreKept
<1>1. QED
  BY CacheIsStore, StoreAccounts, CacheImplementsStore
==============================================================================
