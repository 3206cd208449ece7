---------------------------- MODULE SourceProfiles ----------------------------
(***************************************************************************)
(* The approved source of one name: three files in a directory that any    *)
(* command of the user may read, and that enrollment, renewal and removal  *)
(* change file by file (siteops/source_profiles.py).  There is no lock.  A *)
(* record is trusted because its profile names the digests of the two      *)
(* other files, and because a renewal is written aside and swapped in.     *)
(*                                                                         *)
(* Every step is one call into the file system.  A file is known by the    *)
(* approval it was written for; its digest is that approval, and for the   *)
(* trusted root the root alone.  Ownership, path and syntax checks do not  *)
(* fail for files these commands write and are left out.                   *)
(***************************************************************************)
EXTENDS Naturals, Sequences, FiniteSets, Functions, TLC

CONSTANTS
  Operators,    \* processes that enroll, renew and remove
  Users,        \* processes that use the approval (PinnedContent)
  Publishers,   \* what an approval says of who may publish: reference and policy identity
  Roots,        \* trusted roots
  Validity,     \* _STANDARD_VALIDITY, in ticks of the clock
  MaxTime,      \* bound on the clock
  MaxCommands,  \* bound on the commands of an operator
  MaxUses,      \* bound on the commands of a user
  MaxActive,    \* bound on the commands under way at once
  MaxFaults     \* bound on the kinds of failure, each of which happens once

ASSUME ProfilesAssumption ==
  /\ Operators \cap Users = {}
  /\ Validity \in Nat \ {0} /\ MaxTime \in Nat
  /\ MaxCommands \in Nat /\ MaxUses \in Nat /\ MaxActive \in Nat /\ MaxFaults \in Nat

Procs == Operators \cup Users
Approval == [publisher : Publishers, root : Roots, until : 1 .. MaxTime + Validity]
Files == {"policy", "root", "profile"}
Unset == "unset"

\* The directory of the record, and those a renewal keeps in its holding directory.
Current == <<"sources", "current">>
New(p) == <<p, "new">>
Previous(p) == <<p, "previous">>
Places == {Current} \cup (Procs \X {"new", "previous"})

VARIABLES
  dirs,      \* the directories there are, each with the files in it
  call,      \* each process: where it is and what it has read
  now,       \* the clock
  faults     \* what has failed: a write, a rename, an unlink, or a process that died

profileVars == <<dirs, call, now, faults>>

Idle == [stage |-> "idle", command |-> "none", then |-> "none", given |-> {}, seen |-> {},
         receipt |-> {}, at |-> Current, left |-> <<>>, outcome |-> "none", runs |-> 0]

Record(a) == [file \in Files |-> a]

\* The name is enrolled or it is not.
ProfilesInit ==
  /\ dirs \in {<<>>} \cup {[place \in {Current} |-> Record(a)] : a \in {b \in Approval : b.until = Validity}}
  /\ call = [p \in Procs |-> Idle]
  /\ now = 0 /\ faults = {}

------------------------------------------------------------------------------
(* Steps and files *)

\* A process begins its next command.
MayStart(p, bound) ==
  /\ call[p].stage = "idle" /\ call[p].runs < bound
  /\ Cardinality({q \in Procs : call[q].stage # "idle"}) < MaxActive

The(approvals) == CHOOSE a \in approvals : TRUE

\* A function with some of its values changed, and with one more value.
Changed(f, changes) ==
  [x \in DOMAIN f |-> IF x \in DOMAIN changes THEN changes[x] ELSE f[x]]
Plus(f, x, value) == [y \in DOMAIN f \cup {x} |-> IF y = x THEN value ELSE f[y]]

At(p, stage) == call[p].stage = stage
Goes(p, fields) == call' = [call EXCEPT ![p] = Changed(@, fields)]
GoesTo(p, stage) == Goes(p, [stage |-> stage])
\* The command returns, with whatever it reports.
Returns(p) == call' = [call EXCEPT ![p] = [Idle EXCEPT !.runs = call[p].runs]]

Fault(kind) ==
  /\ Cardinality(faults) < MaxFaults /\ kind \notin faults
  /\ faults' = faults \cup {kind}
NoFault == UNCHANGED faults
KeepTime == UNCHANGED now
OnlyCall == NoFault /\ KeepTime /\ UNCHANGED dirs

There(place) == place \in DOMAIN dirs
Has(place, file) == There(place) /\ file \in DOMAIN dirs[place]
Full(place) == There(place) /\ dirs[place] # <<>>
Without(place) == Restrict(dirs, DOMAIN dirs \ {place})

\* What a rename leaves: an empty directory in the way is replaced, a full one is not.
Moved(from, to) == Plus(Restrict(dirs, DOMAIN dirs \ {from, to}), to, dirs[from])

\* A complete record whose digests agree.
Whole(place) ==
  /\ There(place) /\ DOMAIN dirs[place] = Files
  /\ dirs[place]["policy"] = dirs[place]["profile"]
  /\ dirs[place]["root"].root = dirs[place]["profile"].root

------------------------------------------------------------------------------
(* read_source: the profile, the two files it names, and the policy once more *)

\* What a reader does with a record that cannot be read or has expired.
ReadFails(p) ==
  CASE call[p].then = "written" ->
         Goes(p, [stage |-> "discard", at |-> Current, left |-> <<"profile", "root", "policy">>,
                  then |-> "refused"])
    [] call[p].then = "renewed" ->
         Goes(p, [stage |-> "discard", at |-> Current, left |-> <<"profile", "root", "policy">>,
                  then |-> "rollback"])
    [] OTHER -> Returns(p)

RequiresValid(p) == call[p].then \notin {"found", "match"}

ReadProfile(p) ==
  /\ At(p, "profile")
  /\ IF Has(Current, "profile")
       THEN Goes(p, [stage |-> "policy", seen |-> {dirs[Current]["profile"]}])
       ELSE ReadFails(p)
  /\ OnlyCall

ReadPolicy(p) ==
  /\ At(p, "policy")
  /\ IF Has(Current, "policy") /\ {dirs[Current]["policy"]} = call[p].seen
       THEN GoesTo(p, "root")
       ELSE ReadFails(p)
  /\ OnlyCall

ReadRoot(p) ==
  /\ At(p, "root")
  /\ IF Has(Current, "root") /\ dirs[Current]["root"].root = The(call[p].seen).root
       THEN GoesTo(p, "recheck")
       ELSE ReadFails(p)
  /\ OnlyCall

\* Where a reader goes on with what it has read.
Continues(p) ==
  CASE call[p].then = "renewed" ->
         Goes(p, [stage |-> "discard", at |-> Previous(p), left |-> <<"profile", "root", "policy">>,
                  then |-> "renewal"])
    [] call[p].then = "written" -> Returns(p)
    [] OTHER -> GoesTo(p, call[p].then)

\* The policy is loaded from its file again, and may have been renewed since.
LoadPolicy(p) ==
  /\ At(p, "recheck")
  /\ IF /\ Has(Current, "policy")
        /\ LET policy == dirs[Current]["policy"] IN
           /\ policy.publisher = The(call[p].seen).publisher
           /\ policy.root = The(call[p].seen).root
           /\ RequiresValid(p) => policy.until > now
       THEN Continues(p)
       ELSE ReadFails(p)
  /\ OnlyCall

ReadSource(p) == ReadProfile(p) \/ ReadPolicy(p) \/ ReadRoot(p) \/ LoadPolicy(p)

------------------------------------------------------------------------------
(* source enroll: cmd_source, enroll_source and enroll_standard_source *)

\* The command reads what is enrolled before it changes anything.
Enroll(p) ==
  /\ p \in Operators /\ MayStart(p, MaxCommands)
  /\ \E command \in {"custom", "standard"} :
       Goes(p, [command |-> command, then |-> "found", runs |-> call[p].runs + 1,
                stage |-> IF There(Current) THEN "profile" ELSE "found", outcome |-> "none"])
  /\ OnlyCall

\* A custom policy is checked for its own validity; a standard one is made now.
GivePolicy(p) ==
  /\ At(p, "found")
  /\ \E publisher \in Publishers, root \in Roots, until \in now + 1 .. now + Validity :
       /\ call[p].command = "standard" => until = now + Validity
       /\ Goes(p, [stage |-> "given", seen |-> {},
                   given |-> {[publisher |-> publisher, root |-> root, until |-> until]}])
  /\ OnlyCall

\* A standard enrollment of a name that is not there is an enrollment with the files made.
FindExisting(p) ==
  /\ At(p, "given")
  /\ Goes(p, CASE There(Current) ->
                    [stage |-> "profile",
                     then |-> IF call[p].command = "standard" THEN "match" ELSE "compare"]
               [] ~There(Current) /\ call[p].command = "standard" -> [command |-> "custom"]
               [] OTHER -> [stage |-> "create", at |-> Current, then |-> "written"])
  /\ OnlyCall

\* An existing approval stays, whatever the comparison with the given one reports.
CompareExisting(p) ==
  /\ At(p, "compare")
  /\ Returns(p)
  /\ OnlyCall

\* Renewal is for the same publisher only, and starts with a holding directory.
MatchExisting(p) ==
  /\ At(p, "match")
  /\ IF /\ Has(Current, "policy")
        /\ {The(call[p].seen).publisher, dirs[Current]["policy"].publisher}
             = {The(call[p].given).publisher}
        /\ The(call[p].given).until > now
       THEN Goes(p, [stage |-> "create", at |-> New(p), then |-> "swap"])
       ELSE Returns(p)
  /\ OnlyCall

------------------------------------------------------------------------------
(* _write_record and _discard *)

\* The exclusive mkdir decides between enrollments of one name.
CreateRecord(p) ==
  /\ At(p, "create")
  /\ \/ /\ ~There(call[p].at)
        /\ dirs' = Plus(dirs, call[p].at, <<>>)
        /\ Goes(p, [stage |-> "write", left |-> <<"policy", "root", "profile">>])
        /\ NoFault
     \/ /\ There(call[p].at)
        /\ Returns(p)
        /\ NoFault /\ UNCHANGED dirs
  /\ KeepTime

WriteFails(p) ==
  Goes(p, [stage |-> "discard", left |-> <<"profile", "root", "policy">>,
           then |-> IF call[p].then = "swap" THEN "cleanup" ELSE "refused"])

\* Mutant: the profile is written first.
WriteProfileFirst(p) ==
  /\ At(p, "write")
  /\ LET place == call[p].at
         file == IF Len(call[p].left) = 3 THEN "profile" ELSE IF Len(call[p].left) = 2
                 THEN "policy" ELSE "root" IN
     /\ There(place)
     /\ dirs' = [dirs EXCEPT ![place] = Plus(@, file, The(call[p].given))]
     /\ Goes(p, IF file # "root" THEN [left |-> Tail(call[p].left)]
                ELSE IF call[p].then = "swap" THEN [stage |-> "swap", left |-> <<>>]
                ELSE [stage |-> "profile", left |-> <<>>])
     /\ NoFault
  /\ KeepTime

\* Files are made exclusively, the profile that vouches for the others last.
WriteFile(p) ==
  /\ At(p, "write")
  /\ LET place == call[p].at file == Head(call[p].left) IN
     \/ /\ There(place) /\ ~Has(place, file)
        /\ dirs' = [dirs EXCEPT ![place] = Plus(@, file, The(call[p].given))]
        /\ Goes(p, IF file # "profile" THEN [left |-> Tail(call[p].left)]
                   ELSE IF call[p].then = "swap" THEN [stage |-> "swap", left |-> <<>>]
                   ELSE [stage |-> "profile", left |-> <<>>])
        /\ NoFault
     \/ /\ ~There(place) \/ Has(place, file)
        /\ WriteFails(p)
        /\ NoFault /\ UNCHANGED dirs
     \/ /\ Fault("write")
        /\ WriteFails(p)
        /\ UNCHANGED dirs
  /\ KeepTime

\* Unlinking what is there; a failure is logged and does not stop it.
DiscardFile(p) ==
  /\ At(p, "discard") /\ call[p].left # <<>>
  /\ LET place == call[p].at file == Head(call[p].left) IN
     \/ /\ dirs' = IF Has(place, file)
                     THEN [dirs EXCEPT ![place] = Restrict(@, DOMAIN @ \ {file})] ELSE dirs
        /\ NoFault
     \/ /\ Fault("unlink") /\ Has(place, file)
        /\ UNCHANGED dirs
  /\ Goes(p, [left |-> Tail(call[p].left)])
  /\ KeepTime

DiscardDirectory(p) ==
  /\ At(p, "discard") /\ call[p].left = <<>>
  /\ dirs' = IF There(call[p].at) /\ ~Full(call[p].at) THEN Without(call[p].at) ELSE dirs
  /\ IF call[p].then = "renewal"
       THEN Goes(p, [stage |-> "cleanup", outcome |-> "renewed"])
       ELSE GoesTo(p, call[p].then)
  /\ NoFault /\ KeepTime

------------------------------------------------------------------------------
(* _replace_source: the swap, its undoing and the end of the holding directory *)

Renames(p, from, to, good, bad) ==
  \/ /\ There(from) /\ ~Full(to)
     /\ dirs' = Moved(from, to)
     /\ Goes(p, good)
     /\ NoFault
  \/ /\ ~There(from) \/ Full(to)
     /\ Goes(p, bad)
     /\ NoFault /\ UNCHANGED dirs
  \/ /\ Fault("rename")
     /\ Goes(p, bad)
     /\ UNCHANGED dirs

SetAside(p) ==
  /\ At(p, "swap")
  /\ Renames(p, Current, Previous(p),
             [stage |-> "install"], [stage |-> "cleanup", outcome |-> "inspect"])
  /\ KeepTime

InstallNew(p) ==
  /\ At(p, "install")
  /\ Renames(p, New(p), Current,
             [stage |-> "profile", then |-> "renewed"], [stage |-> "rollback"])
  /\ KeepTime

\* Mutant: the failure is reported and the previous record stays aside.
ForgetPrevious(p) ==
  /\ At(p, "rollback")
  /\ Goes(p, [stage |-> "cleanup", outcome |-> "kept"])
  /\ NoFault /\ UNCHANGED dirs /\ KeepTime

RestorePrevious(p) ==
  /\ At(p, "rollback")
  /\ Renames(p, Previous(p), Current,
             [stage |-> "cleanup", outcome |-> "kept"], [stage |-> "cleanup", outcome |-> "inspect"])
  /\ KeepTime

\* A holding directory that still has the previous record in it is left behind.
CleanUp(p) ==
  /\ At(p, "cleanup")
  /\ IF There(New(p))
       THEN Goes(p, [stage |-> "discard", at |-> New(p), left |-> <<"profile", "root", "policy">>,
                     then |-> "emptied"])
       ELSE Returns(p)
  /\ dirs' = IF There(New(p)) THEN dirs ELSE Without(Previous(p))
  /\ NoFault /\ KeepTime

Emptied(p) ==
  /\ At(p, "emptied")
  /\ Returns(p)
  /\ dirs' = Restrict(dirs, DOMAIN dirs \ {New(p), Previous(p)})
  /\ NoFault /\ KeepTime

------------------------------------------------------------------------------
(* source remove *)

Remove(p) ==
  /\ p \in Operators /\ MayStart(p, MaxCommands)
  /\ LET whole == There(Current) /\ DOMAIN dirs[Current] = Files IN
     Goes(p, [runs |-> call[p].runs + 1, command |-> "remove", outcome |-> "none",
              stage |-> IF whole THEN "unlink" ELSE "refused",
              left |-> IF whole THEN <<"profile", "policy", "root">> ELSE <<>>])
  /\ OnlyCall

UnlinkFile(p) ==
  /\ At(p, "unlink") /\ call[p].left # <<>>
  /\ LET file == Head(call[p].left) IN
     \/ /\ Has(Current, file)
        /\ dirs' = [dirs EXCEPT ![Current] = Restrict(@, DOMAIN @ \ {file})]
        /\ Goes(p, [left |-> Tail(call[p].left)])
        /\ NoFault
     \/ /\ ~Has(Current, file)
        /\ GoesTo(p, "refused")
        /\ NoFault /\ UNCHANGED dirs
     \/ /\ Fault("unlink")
        /\ GoesTo(p, "refused")
        /\ UNCHANGED dirs
  /\ KeepTime

RemoveDirectory(p) ==
  /\ At(p, "unlink") /\ call[p].left = <<>>
  /\ dirs' = IF There(Current) /\ ~Full(Current) THEN Without(Current) ELSE dirs
  /\ Returns(p)
  /\ NoFault /\ KeepTime

Refuse(p) ==
  /\ At(p, "refused")
  /\ Returns(p)
  /\ OnlyCall

------------------------------------------------------------------------------

Tick == now < MaxTime /\ now' = now + 1 /\ UNCHANGED <<dirs, call, faults>>

EnrollSource(p) ==
  \/ Enroll(p) \/ GivePolicy(p) \/ FindExisting(p) \/ CompareExisting(p) \/ MatchExisting(p)
  \/ CreateRecord(p) \/ WriteFile(p) \/ DiscardFile(p) \/ DiscardDirectory(p)
ReplaceSource(p) ==
  SetAside(p) \/ InstallNew(p) \/ RestorePrevious(p) \/ CleanUp(p) \/ Emptied(p)
RemoveSource(p) == Remove(p) \/ UnlinkFile(p) \/ RemoveDirectory(p) \/ Refuse(p)

ProfileStep(p) == ReadSource(p) \/ EnrollSource(p) \/ ReplaceSource(p) \/ RemoveSource(p)
==============================================================================
