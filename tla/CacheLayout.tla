---------------------------- MODULE CacheLayout ----------------------------
(***************************************************************************)
(* How the processes of one user bring the shared cache directory into     *)
(* being, with no lock to help them (siteops/cache_layout.py).  A root     *)
(* that does not exist is built aside and renamed into place; an empty     *)
(* directory the operator made is laid out where it is, several processes  *)
(* at once, and the marker cache.json comes last.  Afterwards each process *)
(* adds the optional namespace it needs and uses the cache.                *)
(*                                                                         *)
(* Every step is one call into the file system, so that another process    *)
(* may act, and this one may die, between any two of them.  Only Site Ops  *)
(* acts on the root once the operator has, or has not, made it: that is    *)
(* the scope docs/cache.md states.  The two namespaces differ in name      *)
(* only; "proofs" stands for both.  Ownership and permission checks fail   *)
(* for no directory the program makes and are left out.                    *)
(***************************************************************************)
EXTENDS Naturals, FiniteSets, Sequences, SequencesExt

CONSTANTS
  Procs,         \* processes that open the cache
  Inspectors,    \* those of them that open it with create=False
  MarkerReads,   \* _MARKER_READS
  MaxCrashes,    \* bound on the processes killed
  MaxFaults      \* bound on the file system calls that fail with an OSError

NoMarker == "none"

LayoutAssumption ==
  /\ NoMarker \notin Procs
  /\ Inspectors \subseteq Procs
  /\ IsFiniteSet(Procs)
  /\ MarkerReads \in Nat \ {0}
  /\ MaxCrashes \in Nat /\ MaxFaults \in Nat

Directories == {"objects", "receipts", "staging", "locks"}
Objects == "objects/sha256"
Namespace == "proofs"
NamespaceChild == "proofs/sha256"

\* What an initializer makes in place, in this order, before the marker.
Layout == <<"objects", "receipts", "staging", "locks", Objects>>

VARIABLES
  exists,     \* whether the root directory is there
  dirs,       \* the directories under it
  marker,     \* the process whose marker is there, or NoMarker
  filled,     \* the directories in which a user of the cache has left an entry
  candidates, \* processes with a root built aside
  staged,     \* processes with a marker file in staging
  prepared,   \* processes with a namespace built in staging
  litter,     \* what a dead process, or a cleanup that failed, left behind
  call,       \* each process: where it is and what it has read
  replaces,   \* the platform: rename replaces a file (POSIX) or is refused (Windows)
  crashes, faults

shared == <<exists, dirs, marker, filled, replaces>>
work == <<candidates, staged, prepared, litter>>
vars == <<shared, work, call, crashes, faults>>

Returned == {"done", "uninitialized", "invalid", "oserror"}
Stages == Returned \cup
  {"start", "unmarked", "scan", "mkdir", "stage", "lexists", "rename", "unstage",
   "publish", "marker", "read", "names", "nodes", "settle",
   "lookup", "build", "attach", "use"}

\* The check of the root serves three callers: the initialization and both ends of
\* prepare_namespace.
Callers == {"initialize", "prepare", "attached"}

Call == [stage : Stages, caller : Callers, seen : SUBSET (Directories \cup {Namespace}),
         made : 0 .. Len(Layout), mark : Procs \cup {NoMarker}, reads : 0 .. MarkerReads,
         outcome : {"ok", "invalid", "oserror"}]

\* The type invariant.
TypeOK ==
  /\ exists \in BOOLEAN
  /\ dirs \subseteq ToSet(Layout) \cup {Namespace, NamespaceChild}
  /\ marker \in Procs \cup {NoMarker}
  /\ filled \subseteq {Objects, "receipts", "locks", "staging"}
  /\ candidates \subseteq Procs /\ staged \subseteq Procs /\ prepared \subseteq Procs
  /\ litter \subseteq {"candidate", "staged", "prepared"}
  /\ call \in [Procs -> Call]
  /\ replaces \in BOOLEAN
  /\ crashes \in 0 .. MaxCrashes /\ faults \in 0 .. MaxFaults

Started == [stage |-> "start", caller |-> "initialize", seen |-> {}, made |-> 0,
            mark |-> NoMarker, reads |-> 0, outcome |-> "ok"]

\* The operator names a directory that does not exist or an empty one.
Init ==
  /\ exists \in BOOLEAN /\ replaces \in BOOLEAN
  /\ dirs = {} /\ marker = NoMarker /\ filled = {}
  /\ candidates = {} /\ staged = {} /\ prepared = {} /\ litter = {}
  /\ call = [p \in Procs |-> Started]
  /\ crashes = 0 /\ faults = 0

------------------------------------------------------------------------------
(* What a process sees *)

\* The entries of the root other than the marker.
TopLevel == dirs \cap (Directories \cup {Namespace})
Marked == marker # NoMarker

\* An entry that _unmarked_layout does not take for the work of another initializer.
\* Staged markers are: it recognizes their names.
Foreign(d) ==
  \/ d = "objects" /\ Objects \in filled
  \/ d = "staging" /\ (prepared # {} \/ "prepared" \in litter)
  \/ d \in filled

At(p, stage) == call[p].stage = stage

\* A process moves on; what it does not carry along is out of scope.
GoesTo(p, fields) ==
  call' = [call EXCEPT ![p] =
    [field \in DOMAIN Started |->
       IF field \in DOMAIN fields THEN fields[field]
       ELSE IF field = "caller" THEN call[p].caller ELSE Started[field]]]
Goes(p, stage) == GoesTo(p, [stage |-> stage])

\* One call into the file system fails.
Fault == faults < MaxFaults /\ faults' = faults + 1
NoFault == UNCHANGED faults

\* _check_root is about to run for this caller.
Check(caller) == [stage |-> "marker", caller |-> caller]

\* An exception leaves the block: the finally clauses run on the way out.
Raise(outcome) == [stage |-> "settle", outcome |-> outcome]

------------------------------------------------------------------------------
(* _initialize and _unmarked_layout *)

\* The root is not there: an inspection says so, and anyone else builds one aside.
LstatFindsNothing(p) ==
  /\ At(p, "start") /\ ~exists
  /\ IF p \in Inspectors
       THEN Goes(p, "uninitialized") /\ UNCHANGED candidates
       ELSE Goes(p, "publish") /\ candidates' = candidates \cup {p}
  /\ NoFault
  /\ UNCHANGED <<shared, staged, prepared, litter, crashes>>

\* The root is there: is it unmarked?  Only names of the layout may be in it.
LstatFindsRoot(p) ==
  /\ At(p, "start") /\ exists
  /\ Goes(p, "unmarked")
  /\ NoFault /\ UNCHANGED <<shared, work, crashes>>

ListUnmarked(p) ==
  /\ At(p, "unmarked")
  /\ IF ~Marked /\ TopLevel \subseteq Directories
       THEN GoesTo(p, [stage |-> "scan", seen |-> TopLevel])
       ELSE GoesTo(p, Check("initialize"))
  /\ NoFault /\ UNCHANGED <<shared, work, crashes>>

\* The listed directories are opened one by one, in whatever order they were listed.
ScanDirectory(p) ==
  /\ At(p, "scan")
  /\ \E d \in call[p].seen :
       IF Foreign(d)
         THEN GoesTo(p, Check("initialize"))
         ELSE call' = [call EXCEPT ![p].seen = @ \ {d}]
  /\ NoFault /\ UNCHANGED <<shared, work, crashes>>

ScanEnds(p) ==
  /\ At(p, "scan") /\ call[p].seen = {}
  /\ Goes(p, IF p \in Inspectors THEN "uninitialized" ELSE "mkdir")
  /\ NoFault /\ UNCHANGED <<shared, work, crashes>>

\* The candidate becomes the root, unless a root appeared since.  A rename cannot
\* replace that root: it is not empty.
PublishCandidate(p) ==
  /\ At(p, "publish")
  /\ \/ /\ ~exists
        /\ exists' = TRUE /\ marker' = p /\ dirs' = ToSet(Layout)
        /\ candidates' = candidates \ {p}
        /\ GoesTo(p, Check("initialize"))
        /\ NoFault
     \/ /\ exists
        /\ GoesTo(p, Check("initialize"))
        /\ NoFault /\ UNCHANGED <<exists, marker, dirs, candidates>>
     \/ /\ Fault
        /\ GoesTo(p, IF exists THEN Check("initialize") ELSE Raise("oserror"))
        /\ UNCHANGED <<exists, marker, dirs, candidates>>
  /\ UNCHANGED <<filled, staged, prepared, litter, replaces, crashes>>

------------------------------------------------------------------------------
(* _initialize_in_place *)

\* Mutant: objects/sha256 is left to the first publication.
MakeTopDirectory(p) ==
  /\ At(p, "mkdir")
  /\ dirs' = dirs \cup {Layout[call[p].made + 1]}
  /\ GoesTo(p, [stage |-> IF call[p].made + 2 = Len(Layout) THEN "stage" ELSE "mkdir",
                made |-> call[p].made + 1])
  /\ NoFault /\ UNCHANGED <<exists, marker, filled, work, replaces, crashes>>

\* A directory that another initializer made first is accepted.
MakeDirectory(p) ==
  /\ At(p, "mkdir")
  /\ \/ /\ dirs' = dirs \cup {Layout[call[p].made + 1]}
        /\ GoesTo(p, [stage |-> IF call[p].made + 1 = Len(Layout) THEN "stage" ELSE "mkdir",
                      made |-> call[p].made + 1])
        /\ NoFault
     \/ /\ Fault
        /\ GoesTo(p, Raise("oserror"))
        /\ UNCHANGED dirs
  /\ UNCHANGED <<exists, marker, filled, work, replaces, crashes>>

\* write_new removes a file whose write does not complete.
StageMarker(p) ==
  /\ At(p, "stage")
  /\ \/ /\ staged' = staged \cup {p}
        /\ Goes(p, "lexists")
        /\ NoFault /\ UNCHANGED litter
     \/ /\ Fault
        /\ GoesTo(p, Raise("oserror"))
        /\ litter' \in {litter, litter \cup {"staged"}}
        /\ UNCHANGED staged
  /\ UNCHANGED <<shared, candidates, prepared, crashes>>

LookForMarker(p) ==
  /\ At(p, "lexists")
  /\ Goes(p, IF Marked THEN "unstage" ELSE "rename")
  /\ NoFault /\ UNCHANGED <<shared, work, crashes>>

\* A marker placed since the look is replaced, where the system allows it.
RenameMarker(p) ==
  /\ At(p, "rename")
  /\ \/ /\ replaces \/ ~Marked
        /\ marker' = p
        /\ staged' = staged \ {p}
        /\ GoesTo(p, Check("initialize"))
        /\ NoFault
     \/ /\ ~replaces /\ Marked
        /\ Goes(p, "unstage")
        /\ NoFault /\ UNCHANGED <<marker, staged>>
     \/ /\ Fault
        /\ Goes(p, "unstage")
        /\ UNCHANGED <<marker, staged>>
  /\ UNCHANGED <<exists, dirs, filled, candidates, prepared, litter, replaces, crashes>>

\* The own marker is not needed, or could not be placed.
Unstage(p) ==
  /\ At(p, "unstage")
  /\ staged' = staged \ {p}
  /\ \/ NoFault /\ UNCHANGED litter
     \/ Fault /\ litter' = litter \cup {"staged"}
  /\ GoesTo(p, IF Marked THEN Check("initialize") ELSE Raise("oserror"))
  /\ UNCHANGED <<shared, candidates, prepared, crashes>>

------------------------------------------------------------------------------
(* _check_root and _read_marker *)

FindMarker(p) ==
  /\ At(p, "marker")
  /\ GoesTo(p, IF Marked THEN [stage |-> "read", mark |-> marker, reads |-> 1]
                         ELSE Raise("invalid"))
  /\ NoFault /\ UNCHANGED <<shared, work, crashes>>

\* The read is good if the file opened is still the one first seen; otherwise it is
\* tried again.
ReadMarker(p) ==
  /\ At(p, "read")
  /\ \/ /\ call[p].mark = marker
        /\ Goes(p, "names")
     \/ /\ call[p].mark # marker
        /\ GoesTo(p, IF call[p].reads < MarkerReads
                       THEN [stage |-> "read", mark |-> marker, reads |-> call[p].reads + 1]
                       ELSE Raise("invalid"))
  /\ NoFault /\ UNCHANGED <<shared, work, crashes>>

ListRoot(p) ==
  /\ At(p, "names")
  /\ GoesTo(p, IF Directories \subseteq TopLevel
                 THEN [stage |-> "nodes", seen |-> TopLevel] ELSE Raise("invalid"))
  /\ NoFault /\ UNCHANGED <<shared, work, crashes>>

CheckNodes(p) ==
  /\ At(p, "nodes")
  /\ GoesTo(p, IF /\ Objects \in dirs
                  /\ Namespace \in call[p].seen => NamespaceChild \in dirs
                 THEN [stage |-> "settle"] ELSE Raise("invalid"))
  /\ NoFault /\ UNCHANGED <<shared, work, crashes>>

\* The finally clauses: what was built aside and not published is removed; then the
\* caller of the check goes on, or the exception does.
Settle(p) ==
  /\ At(p, "settle")
  /\ candidates' = candidates \ {p} /\ prepared' = prepared \ {p}
  /\ \/ NoFault /\ UNCHANGED litter
     \/ /\ Fault
        /\ p \in candidates \cup prepared
        /\ litter' = litter \cup {IF p \in candidates THEN "candidate" ELSE "prepared"}
  /\ GoesTo(p, IF call[p].outcome # "ok" THEN [stage |-> call[p].outcome]
               ELSE IF call[p].caller = "prepare" THEN [stage |-> "lookup"]
               ELSE IF call[p].caller = "attached" \/ p \in Inspectors THEN [stage |-> "use"]
               ELSE Check("prepare"))
  /\ UNCHANGED <<shared, staged, crashes>>

------------------------------------------------------------------------------
(* prepare_namespace, and the use of the cache that follows *)

LookUpNamespace(p) ==
  /\ At(p, "lookup")
  /\ Goes(p, IF Namespace \in dirs THEN "use" ELSE "build")
  /\ NoFault /\ UNCHANGED <<shared, work, crashes>>

\* The namespace is built in staging with its child.
BuildNamespace(p) ==
  /\ At(p, "build")
  /\ \/ /\ prepared' = prepared \cup {p}
        /\ Goes(p, "attach")
        /\ NoFault
     \/ /\ Fault
        /\ GoesTo(p, Raise("oserror"))
        /\ UNCHANGED prepared
  /\ UNCHANGED <<shared, candidates, staged, litter, crashes>>

AttachNamespace(p) ==
  /\ At(p, "attach")
  /\ \/ /\ Namespace \notin dirs
        /\ dirs' = dirs \cup {Namespace, NamespaceChild}
        /\ prepared' = prepared \ {p}
        /\ GoesTo(p, Check("attached"))
        /\ NoFault
     \/ /\ Namespace \in dirs
        /\ GoesTo(p, Check("attached"))
        /\ NoFault /\ UNCHANGED <<dirs, prepared>>
     \/ /\ Fault
        /\ GoesTo(p, IF Namespace \in dirs THEN Check("attached") ELSE Raise("oserror"))
        /\ UNCHANGED <<dirs, prepared>>
  /\ UNCHANGED <<exists, marker, filled, candidates, staged, litter, replaces, crashes>>

\* Lock files, packages under way, receipts and objects appear, which a later call must
\* not mistake for the content of a directory that is not a cache.
Use(p) ==
  /\ At(p, "use")
  /\ \E entries \in {{"locks"}, {"locks", "staging"}, {"locks", "receipts", Objects}} :
       filled' = filled \cup entries
  /\ Goes(p, "done")
  /\ NoFault /\ UNCHANGED <<exists, dirs, marker, work, replaces, crashes>>

\* A process dies where it is, and the command is run again.
Crash(p) ==
  /\ crashes < MaxCrashes /\ crashes' = crashes + 1
  /\ ~At(p, "start") /\ call[p].stage \notin Returned
  /\ litter' = litter \cup (IF p \in candidates THEN {"candidate"} ELSE {})
                       \cup (IF p \in staged \/ At(p, "stage") THEN {"staged"} ELSE {})
                       \cup (IF p \in prepared THEN {"prepared"} ELSE {})
  /\ candidates' = candidates \ {p} /\ staged' = staged \ {p} /\ prepared' = prepared \ {p}
  /\ call' = [call EXCEPT ![p] = Started]
  /\ NoFault /\ UNCHANGED shared

Initialize(p) ==
  \/ LstatFindsNothing(p) \/ LstatFindsRoot(p)
  \/ ListUnmarked(p) \/ ScanDirectory(p) \/ ScanEnds(p)
  \/ PublishCandidate(p)
  \/ MakeDirectory(p) \/ StageMarker(p) \/ LookForMarker(p) \/ RenameMarker(p) \/ Unstage(p)

CheckRoot(p) == FindMarker(p) \/ ReadMarker(p) \/ ListRoot(p) \/ CheckNodes(p) \/ Settle(p)

PrepareNamespace(p) == LookUpNamespace(p) \/ BuildNamespace(p) \/ AttachNamespace(p)

Finished ==
  /\ \A p \in Procs : call[p].stage \in Returned
  /\ UNCHANGED vars

Next ==
  \/ \E p \in Procs : Initialize(p) \/ CheckRoot(p) \/ PrepareNamespace(p) \/ Use(p) \/ Crash(p)
  \/ Finished

Spec == Init /\ [][Next]_vars

------------------------------------------------------------------------------
(* Properties *)

\* A marked root is a whole cache: whatever process dies or fails, and wherever, the
\* marker comes after everything it vouches for, and a namespace is never there
\* without its child.  Nobody repairs a marked root, so one that is not whole is
\* useless for good.
MarkedIsComplete ==
  /\ Marked => exists /\ ToSet(Layout) \subseteq dirs
  /\ Namespace \in dirs => NamespaceChild \in dirs

\* Processes that open the cache at the same time all succeed: none takes what another
\* is in the middle of doing for a directory that is not a cache, and the leftovers of
\* a process that died are completed, not refused.
NoneIsRefused == \A p \in Procs : ~At(p, "invalid")

\* A cache that is opened for the first time, by several processes of which some die, ends
\* as a whole one or as one that the next process completes.
RootIsSound == MarkedIsComplete /\ NoneIsRefused

==============================================================================
