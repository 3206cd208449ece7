---------------------------- MODULE SourceMetadata ----------------------------
(***************************************************************************)
(* The cache of what a source said, shared by the processes that browse it *)
(* (siteops/source_metadata_cache.py, github_metadata_cache.py): the       *)
(* commit of a branch, which goes stale, and what is bound to a commit,    *)
(* which never changes.  A record carries the wall clock of the            *)
(* observation, and the wall clock may be set back.                        *)
(*                                                                         *)
(* `resolve_commit` of a branch reads or fetches the branch's record under *)
(* its lock and then remembers the answer under the lock of the commit.    *)
(* The bytes of a record are one file, replaced as a whole, and what a     *)
(* reader could find wrong in them is left out.                            *)
(***************************************************************************)
EXTENDS Naturals, FiniteSets

CONSTANTS
  Browsers,    \* processes
  MaxRevision, \* bound on how often the branch moves
  MaxAge,      \* REFERENCE_MAX_AGE, in ticks
  MaxClock,    \* bound on the clock
  MaxStepsBack \* bound on how often the clock is set back

ASSUME MetadataAssumption ==
  /\ MaxRevision \in Nat \ {0} /\ MaxAge \in Nat /\ MaxClock \in Nat /\ MaxStepsBack \in Nat

Revisions == 1 .. MaxRevision
Branch == 0                      \* the key of the branch; a revision is the key of its commit
Keys == {Branch} \cup Revisions
Observation == [payload : Revisions, observed : 0 .. MaxClock]

VARIABLES
  head,      \* the revision of the branch at the source
  clock,     \* the wall clock
  elapsed,   \* history: ticks since the branch's record was observed, as time really passed
  setBack,   \* how often the clock was set back
  records,   \* for each key, the record in the cache if there is one
  locks,     \* for each key, the process that holds its lock
  browse     \* each process: its options, where it is and what it has

metadataVars == <<head, clock, elapsed, setBack, records, locks, browse>>

Resting == [stage |-> "idle", refresh |-> FALSE, offline |-> FALSE, previous |-> {},
            value |-> {}, reused |-> FALSE, age |-> 0]

MetadataInit ==
  /\ head = 1 /\ clock = 0 /\ elapsed = 0 /\ setBack = 0
  /\ records = [key \in Keys |-> {}]
  /\ locks = [key \in Keys |-> {}]
  /\ browse = [b \in Browsers |-> Resting]

------------------------------------------------------------------------------

Value(b) == CHOOSE v \in browse[b].value : TRUE
Moves(b, fields) ==
  browse' = [browse EXCEPT ![b] = [f \in DOMAIN @ |-> IF f \in DOMAIN fields THEN fields[f] ELSE @[f]]]
Stage(b, stage) == browse[b].stage = stage
KeepSource == UNCHANGED <<head, clock, setBack>>
Ends(b) == browse' = [browse EXCEPT ![b] = Resting]

TakeLock(b, key) == locks[key] = {} /\ locks' = [locks EXCEPT ![key] = {b}]
DropLock(b, key) == locks' = [locks EXCEPT ![key] = {}]

\* An error ends the command, and its lock with it.
Abandon(b, key) == Ends(b) /\ DropLock(b, key)

Future(key) == \E r \in records[key] : r.observed > clock
Stale == \E r \in records[Branch] : clock - r.observed >= MaxAge

------------------------------------------------------------------------------
(* get_or_fetch of the branch *)

StartBrowse(b) ==
  /\ Stage(b, "idle")
  /\ \E refresh, offline \in BOOLEAN :
       /\ ~(refresh /\ offline)
       /\ browse' = [browse EXCEPT ![b] =
            [Resting EXCEPT !.stage = "lock", !.refresh = refresh, !.offline = offline]]
  /\ KeepSource /\ UNCHANGED <<elapsed, records, locks>>

\* The lock is waited for so long, and then the command fails.
LockBranch(b) ==
  /\ Stage(b, "lock")
  /\ \/ TakeLock(b, Branch) /\ Moves(b, [stage |-> "read"])
     \/ locks[Branch] # {} /\ Ends(b) /\ UNCHANGED locks
  /\ KeepSource /\ UNCHANGED <<elapsed, records>>

\* Mutant: age is not looked at.
ReadAnyAge(b) ==
  /\ Stage(b, "read")
  /\ \/ Future(Branch) /\ Abandon(b, Branch)
     \/ /\ ~Future(Branch) /\ records[Branch] # {} /\ ~browse[b].refresh
        /\ Moves(b, [stage |-> "remember", value |-> records[Branch], reused |-> TRUE,
                     age |-> elapsed])
        /\ DropLock(b, Branch)
     \/ /\ ~Future(Branch) /\ (records[Branch] = {} \/ browse[b].refresh)
        /\ Moves(b, [stage |-> "fetch", previous |-> records[Branch]])
        /\ UNCHANGED locks
  /\ KeepSource /\ UNCHANGED <<elapsed, records>>

\* A record from the future is an error, whatever the options.  A stale one is used only
\* when offline use is asked for.
ReadBranch(b) ==
  /\ Stage(b, "read")
  /\ \/ Future(Branch) /\ Abandon(b, Branch)
     \/ /\ ~Future(Branch) /\ records[Branch] # {}
        /\ ~browse[b].refresh /\ (browse[b].offline \/ ~Stale)
        /\ Moves(b, [stage |-> "remember", value |-> records[Branch], reused |-> TRUE,
                     age |-> elapsed])
        /\ DropLock(b, Branch)
     \/ ~Future(Branch) /\ records[Branch] = {} /\ browse[b].offline /\ Abandon(b, Branch)
     \/ /\ ~Future(Branch) /\ ~browse[b].offline
        /\ records[Branch] = {} \/ browse[b].refresh \/ Stale
        /\ Moves(b, [stage |-> "fetch", previous |-> records[Branch]])
        /\ UNCHANGED locks
  /\ KeepSource /\ UNCHANGED <<elapsed, records>>

\* The source answers with the revision of this moment, or not at all.
FetchBranch(b) ==
  /\ Stage(b, "fetch")
  /\ \/ Abandon(b, Branch)
     \/ /\ Moves(b, [stage |-> "write", value |-> {[payload |-> head, observed |-> clock]}])
        /\ UNCHANGED locks
  /\ KeepSource /\ UNCHANGED <<elapsed, records>>

\* The record gets the time at which the answer was there; writing it may fail.
WriteBranch(b) ==
  /\ Stage(b, "write")
  /\ \/ /\ LET observation == {[payload |-> Value(b).payload, observed |-> clock]} IN
           /\ records' = [records EXCEPT ![Branch] = observation]
           /\ Moves(b, [stage |-> "remember", value |-> observation])
        /\ elapsed' = 0
        /\ DropLock(b, Branch)
     \/ Abandon(b, Branch) /\ UNCHANGED <<records, elapsed>>
  /\ KeepSource

------------------------------------------------------------------------------
(* remember: what the answer binds to its commit *)

LockCommit(b) ==
  /\ Stage(b, "remember")
  /\ LET key == Value(b).payload IN
     \/ TakeLock(b, key) /\ Moves(b, [stage |-> "bind"])
     \/ locks[key] # {} /\ Ends(b) /\ UNCHANGED locks
  /\ KeepSource /\ UNCHANGED <<elapsed, records>>

\* The first observation of a commit is kept with its timestamp; writing it may fail.
BindCommit(b) ==
  /\ Stage(b, "bind")
  /\ LET key == Value(b).payload IN
     /\ \/ /\ Value(b).observed <= clock /\ ~Future(key)
           /\ records' = IF records[key] = {} THEN [records EXCEPT ![key] = browse[b].value]
                         ELSE records
           /\ Moves(b, [stage |-> "resolved"])
        \/ /\ Value(b).observed > clock \/ Future(key) \/ records[key] = {}
           /\ Ends(b) /\ UNCHANGED records
     /\ DropLock(b, key)
  /\ KeepSource /\ UNCHANGED elapsed

Browsed(b) ==
  /\ Stage(b, "resolved")
  /\ Ends(b)
  /\ KeepSource /\ UNCHANGED <<elapsed, records, locks>>

------------------------------------------------------------------------------
(* The source and the clock *)

MoveBranch ==
  /\ head < MaxRevision /\ head' = head + 1
  /\ UNCHANGED <<clock, elapsed, setBack, records, locks, browse>>

TickClock ==
  /\ clock < MaxClock /\ clock' = clock + 1
  /\ elapsed' = IF elapsed < MaxAge THEN elapsed + 1 ELSE elapsed
  /\ UNCHANGED <<head, setBack, records, locks, browse>>

SetClockBack ==
  /\ setBack < MaxStepsBack /\ clock > 0
  /\ setBack' = setBack + 1 /\ clock' = clock - 1
  /\ UNCHANGED <<head, elapsed, records, locks, browse>>

------------------------------------------------------------------------------
(* Properties *)

\* A cached answer that is used online is younger than its limit, in time as it passed,
\* unless the clock was set back; an older one is fetched again or fails.
FreshUnlessOffline ==
  \A b \in Browsers :
    browse[b].reused /\ ~browse[b].offline /\ setBack = 0 => browse[b].age < MaxAge

==============================================================================
