-------------------------- MODULE PinnedContent_proofs --------------------------
(***************************************************************************)
(* Proofs about pinned content and the approval it is used under: what is  *)
(* executed was approved while its plan was prepared                       *)
(* (ExecutesUnderApproval), the pin is never overwritten unread            *)
(* (PinIsRegister), and, for the commands of one operator, a record in     *)
(* place is whole and a failed renewal keeps the one it found              *)
(* (ApprovalSurvives).  They hold for any number of users, releases,       *)
(* approvals, failures and changes.                                        *)
(***************************************************************************)
EXTENDS PinnedContent, TLAPS

-------------------------------------------------------------------------------
(* Records and files.                                                      *)

CallFields == {"stage", "command", "then", "given", "seen", "receipt", "at", "left",
               "outcome", "runs"}
WantFields == {"release", "base", "missing", "restored", "asked"}

Shape ==
  /\ DOMAIN call = Procs
  /\ \A p \in Procs : DOMAIN call[p] = CallFields
  /\ DOMAIN want = Users
  /\ \A p \in Users : DOMAIN want[p] = WantFields
  /\ DOMAIN inEffect = Users
  /\ now \in Nat

(* What a step changes of what its process knows.                          *)
LEMMA GoesTakes ==
  ASSUME Shape, NEW p \in Procs, NEW fields, Goes(p, fields)
  PROVE  /\ DOMAIN call' = Procs
         /\ \A q \in Procs : q # p => call'[q] = call[q]
         /\ \A q \in Procs : DOMAIN call'[q] = CallFields
         /\ \A f \in CallFields :
              call'[p][f] = IF f \in DOMAIN fields THEN fields[f] ELSE call[p][f]
<1>1. p \in DOMAIN call /\ DOMAIN call[p] = CallFields
  BY DEF Shape
<1>2. call' = [call EXCEPT ![p] = Changed(call[p], fields)]
  BY DEF Goes
<1>3. call'[p] = [f \in CallFields |-> IF f \in DOMAIN fields THEN fields[f] ELSE call[p][f]]
  BY <1>1, <1>2 DEF Changed
<1>4. DOMAIN call' = Procs /\ \A q \in Procs : q # p => call'[q] = call[q]
  BY <1>2 DEF Shape
<1>5. QED
  BY <1>3, <1>4 DEF Shape

(* A command that goes on to a stage keeps the rest.                       *)
LEMMA MovesOn ==
  ASSUME Shape, NEW p \in Procs, NEW to, Goes(p, [stage |-> to])
  PROVE  /\ call'[p].stage = to
         /\ \A f \in CallFields \ {"stage"} : call'[p][f] = call[p][f]
         /\ call'[p].then = call[p].then /\ call'[p].receipt = call[p].receipt
         /\ call'[p].command = call[p].command
BY GoesTakes, SMT DEF CallFields

(* A command that returns knows nothing.                                   *)
LEMMA ReturnsTakes ==
  ASSUME Shape, NEW p \in Procs, Returns(p)
  PROVE  /\ DOMAIN call' = Procs
         /\ \A q \in Procs : q # p => call'[q] = call[q]
         /\ \A q \in Procs : DOMAIN call'[q] = CallFields
         /\ call'[p].stage = "idle" /\ call'[p].command = "none" /\ call'[p].then = "none"
         /\ call'[p].given = {} /\ call'[p].receipt = {} /\ call'[p].outcome = "none"
<1>1. /\ DOMAIN call' = Procs
      /\ \A q \in Procs : q # p => call'[q] = call[q]
      /\ call'[p] = [Idle EXCEPT !.runs = call[p].runs]
  BY DEF Shape, Returns
<1>2. QED
  BY <1>1, SMT DEF Idle, Shape, CallFields

(* What a step changes of what a user wants.                               *)
LEMMA WantTakes ==
  ASSUME Shape, NEW p \in Users, NEW fields, Want(p, fields)
  PROVE  /\ DOMAIN want' = Users
         /\ \A q \in Users : q # p => want'[q] = want[q]
         /\ \A q \in Users : DOMAIN want'[q] = WantFields
         /\ \A f \in WantFields :
              want'[p][f] = IF f \in DOMAIN fields THEN fields[f] ELSE want[p][f]
<1>1. p \in DOMAIN want /\ DOMAIN want[p] = WantFields
  BY DEF Shape
<1>2. want' = [want EXCEPT ![p] = Changed(want[p], fields)]
  BY DEF Want
<1>3. want'[p] = [f \in WantFields |-> IF f \in DOMAIN fields THEN fields[f] ELSE want[p][f]]
  BY <1>1, <1>2 DEF Changed
<1>4. DOMAIN want' = Users /\ \A q \in Users : q # p => want'[q] = want[q]
  BY <1>2 DEF Shape
<1>5. QED
  BY <1>3, <1>4 DEF Shape

(* A user that wants nothing.                                              *)
LEMMA NothingWanted ==
  /\ DOMAIN Nothing = WantFields
  /\ Nothing.release = {} /\ Nothing.base = {} /\ Nothing.asked = 0
BY SMT DEF Nothing, WantFields

(* The places of a record differ.                                          *)
LEMMA PlacesDiffer ==
  \A p, q : /\ New(p) # Current /\ Previous(p) # Current /\ New(p) # Previous(q)
            /\ New(p) = New(q) => p = q
            /\ Previous(p) = Previous(q) => p = q
BY SMT DEF New, Previous, Current

(* One of some is one of them.                                             *)
LEMMA TheIs == \A S : S # {} => The(S) \in S
BY DEF The

-------------------------------------------------------------------------------
(* Where an operator is.                                                   *)

Reading == {"profile", "policy", "root", "recheck"}
Unwritten == {<<"policy", "root", "profile">>, <<"root", "profile">>, <<"profile">>}
Undiscarded == {<<"profile", "root", "policy">>, <<"root", "policy">>, <<"policy">>, <<>>}
Unremoved == {<<"profile", "policy", "root">>, <<"policy", "root">>, <<"root">>, <<>>}

(* A record is written at its place or beside it, and discarded where a    *)
(* command left one: who goes on from there with what it was given has it. *)
OperatorAt(p) ==
  /\ call[p].stage \in Reading \cup
       {"idle", "found", "given", "compare", "match", "create", "write", "discard", "swap",
        "install", "rollback", "cleanup", "emptied", "unlink", "refused"}
  /\ call[p].stage \in Reading =>
       call[p].then \in {"found", "compare", "match", "written", "renewed"}
  /\ call[p].stage \in {"create", "write"} =>
       \/ call[p].at = Current /\ call[p].then = "written"
       \/ call[p].at = New(p) /\ call[p].then = "swap"
  /\ call[p].stage = "write" => call[p].left \in Unwritten
  /\ call[p].stage = "discard" =>
       /\ call[p].left \in Undiscarded
       /\ \/ call[p].at = Current /\ call[p].then \in {"refused", "rollback"}
          \/ call[p].at = New(p) /\ call[p].then \in {"cleanup", "emptied"}
          \/ call[p].at = Previous(p) /\ call[p].then = "renewal"
  /\ call[p].stage = "unlink" => call[p].left \in Unremoved
  /\ call[p].given \subseteq Approval
  /\ \/ call[p].stage \in {"given", "compare", "match", "create", "write"}
     \/ call[p].then \in {"compare", "match"}
     => call[p].given # {}

(* What is left of a list without its first file.                          *)
LEMMA Lists ==
  /\ \A l \in Unwritten :
       /\ Head(l) = "profile" <=> l = <<"profile">>
       /\ l # <<"profile">> => Tail(l) \in Unwritten
  /\ \A l \in Undiscarded \cup Unremoved : l # <<>> =>
       /\ Head(l) \in Files
       /\ l \in Undiscarded => Tail(l) \in Undiscarded
       /\ l \in Unremoved => Tail(l) \in Unremoved
       /\ Tail(l) # <<"profile", "root", "policy">> /\ Tail(l) # <<"profile", "policy", "root">>
       /\ Head(l) = "profile" <=>
            l \in {<<"profile", "root", "policy">>, <<"profile", "policy", "root">>}
BY SMT DEF Unwritten, Undiscarded, Unremoved, Files

(* An operator goes on with the rest of its list.                          *)
LEMMA GoesDownTheList ==
  ASSUME Shape, NEW p \in Operators, OperatorAt(p), NEW rest, Goes(p, [left |-> rest]),
         call[p].stage = "write" => rest \in Unwritten,
         call[p].stage = "discard" => rest \in Undiscarded,
         call[p].stage = "unlink" => rest \in Unremoved
  PROVE  OperatorAt(p)'
BY GoesTakes, SMT DEF Procs, OperatorAt, CallFields

(* Reading what is there, an operator goes on to what it read for.         *)
LEMMA OperatorReads ==
  ASSUME Shape, NEW p \in Operators, OperatorAt(p), ReadSource(p)
  PROVE  OperatorAt(p)'
<1> USE GoesTakes, ReturnsTakes DEF Procs
<1>1. ASSUME call[p].stage \in Reading, ReadFails(p)
      PROVE  OperatorAt(p)'
  <2>1. CASE call[p].then = "written"
    BY <1>1, <2>1, SMT DEF ReadFails, OperatorAt, CallFields, Reading, Undiscarded
  <2>2. CASE call[p].then = "renewed"
    BY <1>1, <2>2, SMT DEF ReadFails, OperatorAt, CallFields, Reading, Undiscarded
  <2>3. CASE call[p].then \notin {"written", "renewed"}
    BY <1>1, <2>3, SMT DEF ReadFails, OperatorAt, CallFields, Reading
  <2>4. QED
    BY <2>1, <2>2, <2>3
<1>2. CASE ReadProfile(p)
  BY <1>1, <1>2, SMT DEF ReadProfile, At, OperatorAt, CallFields, Reading
<1>3. CASE ReadPolicy(p)
  BY <1>1, <1>3, SMT DEF ReadPolicy, At, GoesTo, OperatorAt, CallFields, Reading
<1>4. CASE ReadRoot(p)
  BY <1>1, <1>4, SMT DEF ReadRoot, At, GoesTo, OperatorAt, CallFields, Reading
<1>5. CASE LoadPolicy(p)
  <2>1. call[p].stage = "recheck" /\ (ReadFails(p) \/ Continues(p))
    BY <1>5 DEF LoadPolicy, At
  <2>2. CASE Continues(p)
    BY <2>1, <2>2, SMT DEF Continues, GoesTo, OperatorAt, CallFields, Reading, Undiscarded
  <2>3. QED
    BY <1>1, <2>1, <2>2 DEF Reading
<1>6. QED
  BY <1>2, <1>3, <1>4, <1>5 DEF ReadSource

(* Enrolling, an operator writes what it was given.                        *)
LEMMA OperatorEnrolls ==
  ASSUME Shape, now \in 0 .. MaxTime, NEW p \in Operators, OperatorAt(p), EnrollSource(p)
  PROVE  OperatorAt(p)'
<1> USE GoesTakes, ReturnsTakes DEF Procs, At, GoesTo, Reading
<1>1. CASE Enroll(p)
  BY <1>1, SMT DEF Enroll, MayStart, OperatorAt, CallFields
<1>2. CASE GivePolicy(p)
  <2>1. PICK publisher \in Publishers, root \in Roots, until \in now + 1 .. now + Validity :
          Goes(p, [stage |-> "given", seen |-> {},
                   given |-> {[publisher |-> publisher, root |-> root, until |-> until]}])
    BY <1>2 DEF GivePolicy
  <2>2. until \in 1 .. MaxTime + Validity
    BY ProfilesAssumption, SMT DEF ProfilesAssumption
  <2>3. [publisher |-> publisher, root |-> root, until |-> until] \in Approval
    BY <2>2 DEF Approval
  <2> DEFINE a == [publisher |-> publisher, root |-> root, until |-> until]
  <2>4. Goes(p, [stage |-> "given", seen |-> {}, given |-> {a}]) /\ a \in Approval
    BY <2>1, <2>3
  <2> HIDE DEF a
  <2>5. QED
    BY <2>4, SMT DEF OperatorAt, CallFields
<1>3. CASE FindExisting(p)
  <2>1. call[p].stage = "given"
    BY <1>3 DEF FindExisting
  <2>2. CASE There(Current)
    <3>1. PICK then \in {"match", "compare"} : Goes(p, [stage |-> "profile", then |-> then])
      BY <1>3, <2>2 DEF FindExisting
    <3>2. QED
      BY <2>1, <3>1, SMT DEF OperatorAt, CallFields
  <2>3. CASE ~There(Current) /\ call[p].command = "standard"
    <3>1. Goes(p, [command |-> "custom"])
      BY <1>3, <2>3 DEF FindExisting
    <3>2. QED
      BY <2>1, <3>1, SMT DEF OperatorAt, CallFields
  <2>4. CASE ~There(Current) /\ call[p].command # "standard"
    <3>1. Goes(p, [stage |-> "create", at |-> Current, then |-> "written"])
      BY <1>3, <2>4 DEF FindExisting
    <3>2. QED
      BY <2>1, <3>1, SMT DEF OperatorAt, CallFields
  <2>5. QED
    BY <2>2, <2>3, <2>4
<1>4. CASE CompareExisting(p)
  BY <1>4, SMT DEF CompareExisting, OperatorAt
<1>5. CASE MatchExisting(p)
  BY <1>5, SMT DEF MatchExisting, OperatorAt, CallFields
<1>6. CASE CreateRecord(p)
  BY <1>6, SMT DEF CreateRecord, OperatorAt, CallFields, Unwritten
<1>7. CASE WriteFile(p)
  <2>1. call[p].stage = "write"
    BY <1>7 DEF WriteFile
  <2>2. CASE WriteFails(p)
    BY <2>1, <2>2, SMT DEF WriteFails, OperatorAt, CallFields, Undiscarded
  <2>3. CASE Head(call[p].left) # "profile" /\ Goes(p, [left |-> Tail(call[p].left)])
    <3>1. Tail(call[p].left) \in Unwritten
      BY <2>1, <2>3, Lists DEF OperatorAt, Unwritten
    <3>2. QED
      BY <2>1, <2>3, <3>1, GoesDownTheList
  <2>4. CASE call[p].then = "swap" /\ Goes(p, [stage |-> "swap", left |-> <<>>])
    BY <2>1, <2>4, SMT DEF OperatorAt, CallFields
  <2>5. CASE call[p].then # "swap" /\ Goes(p, [stage |-> "profile", left |-> <<>>])
    BY <2>1, <2>5, SMT DEF OperatorAt, CallFields
  <2>6. QED
    BY <1>7, <2>2, <2>3, <2>4, <2>5 DEF WriteFile
<1>8. CASE DiscardFile(p)
  <2>1. /\ call[p].stage = "discard" /\ call[p].left # <<>>
        /\ Goes(p, [left |-> Tail(call[p].left)])
    BY <1>8 DEF DiscardFile
  <2>2. Tail(call[p].left) \in Undiscarded
    BY <2>1, Lists DEF OperatorAt
  <2>3. QED
    BY <2>1, <2>2, GoesDownTheList
<1>9. CASE DiscardDirectory(p)
  BY <1>9, SMT DEF DiscardDirectory, OperatorAt, CallFields
<1>10. QED
  BY <1>1, <1>2, <1>3, <1>4, <1>5, <1>6, <1>7, <1>8, <1>9 DEF EnrollSource

(* Renewing and removing, it discards what it left.                        *)
LEMMA OperatorReplaces ==
  ASSUME Shape, NEW p \in Operators, OperatorAt(p), ReplaceSource(p) \/ RemoveSource(p)
  PROVE  OperatorAt(p)'
<1> USE GoesTakes, ReturnsTakes DEF Procs, At, GoesTo, Reading
<1>1. CASE SetAside(p)
  BY <1>1, SMT DEF SetAside, Renames, OperatorAt, CallFields
<1>2. CASE InstallNew(p)
  BY <1>2, SMT DEF InstallNew, Renames, OperatorAt, CallFields
<1>3. CASE RestorePrevious(p)
  BY <1>3, SMT DEF RestorePrevious, Renames, OperatorAt, CallFields
<1>4. CASE CleanUp(p)
  BY <1>4, SMT DEF CleanUp, OperatorAt, CallFields, Undiscarded
<1>5. CASE Emptied(p) \/ RemoveDirectory(p) \/ Refuse(p)
  BY <1>5, SMT DEF Emptied, RemoveDirectory, Refuse, OperatorAt
<1>6. CASE Remove(p)
  BY <1>6, SMT DEF Remove, MayStart, OperatorAt, CallFields, Unremoved
<1>7. CASE UnlinkFile(p)
  <2>1. /\ call[p].stage = "unlink" /\ call[p].left # <<>>
        /\ Goes(p, [left |-> Tail(call[p].left)]) \/ Goes(p, [stage |-> "refused"])
    BY <1>7 DEF UnlinkFile
  <2>2. Tail(call[p].left) \in Unremoved
    BY <2>1, Lists DEF OperatorAt
  <2>3. CASE Goes(p, [stage |-> "refused"])
    BY <2>1, <2>3, SMT DEF OperatorAt, CallFields
  <2>4. QED
    BY <2>1, <2>2, <2>3, GoesDownTheList
<1>8. QED
  BY <1>1, <1>2, <1>3, <1>4, <1>5, <1>6, <1>7 DEF ReplaceSource, RemoveSource

-------------------------------------------------------------------------------
(* The files of the approval.                                              *)

(* Whatever file there is was written for some approval.                   *)
FilesAre ==
  \A place \in DOMAIN dirs :
    /\ DOMAIN dirs[place] \subseteq Files
    /\ \A file \in DOMAIN dirs[place] : dirs[place][file] \in Approval

(* What each call into the file system makes of the directories.           *)
LEMMA FilesMade ==
  ASSUME FilesAre, NEW place, dirs' = Plus(dirs, place, <<>>)
  PROVE  FilesAre'
BY SMT DEF FilesAre, Plus

LEMMA FilesWritten ==
  ASSUME FilesAre, NEW place \in DOMAIN dirs, NEW file \in Files, NEW a \in Approval,
         dirs' = [dirs EXCEPT ![place] = Plus(@, file, a)]
  PROVE  FilesAre'
<1>1. /\ dirs'[place] = Plus(dirs[place], file, a)
      /\ DOMAIN dirs' = DOMAIN dirs
      /\ \A q \in DOMAIN dirs : q # place => dirs'[q] = dirs[q]
  OBVIOUS
<1>2. /\ DOMAIN dirs'[place] \subseteq Files
      /\ \A f \in DOMAIN dirs'[place] : dirs'[place][f] \in Approval
  BY <1>1 DEF FilesAre, Plus
<1>3. QED
  BY <1>1, <1>2 DEF FilesAre

LEMMA FilesUnlinked ==
  ASSUME FilesAre, NEW place \in DOMAIN dirs, NEW file,
         dirs' = [dirs EXCEPT ![place] = Restrict(@, DOMAIN @ \ {file})]
  PROVE  FilesAre'
<1>1. /\ dirs'[place] = Restrict(dirs[place], DOMAIN dirs[place] \ {file})
      /\ DOMAIN dirs' = DOMAIN dirs
      /\ \A q \in DOMAIN dirs : q # place => dirs'[q] = dirs[q]
  OBVIOUS
<1>2. /\ DOMAIN dirs'[place] \subseteq Files
      /\ \A f \in DOMAIN dirs'[place] : dirs'[place][f] \in Approval
  BY <1>1 DEF FilesAre, Restrict
<1>3. QED
  BY <1>1, <1>2 DEF FilesAre

LEMMA FilesRestricted ==
  ASSUME FilesAre, NEW S \in SUBSET DOMAIN dirs, dirs' = Restrict(dirs, S)
  PROVE  FilesAre'
BY DEF FilesAre, Restrict

LEMMA FilesMoved ==
  ASSUME FilesAre, NEW from \in DOMAIN dirs, NEW to, dirs' = Moved(from, to)
  PROVE  FilesAre'
BY SMT DEF FilesAre, Moved, Plus, Restrict

(* No step of a command leaves a file that is nobody's.                    *)
LEMMA FilesStep ==
  ASSUME FilesAre, NEW p \in Operators, OperatorAt(p), ProfileStep(p)
  PROVE  FilesAre'
<1>1. ASSUME UNCHANGED dirs PROVE FilesAre'
  BY <1>1 DEF FilesAre
<1>2. ASSUME NEW from, NEW to, NEW good, NEW bad, Renames(p, from, to, good, bad)
      PROVE  FilesAre'
  BY <1>1, <1>2, FilesMoved DEF Renames, There
<1>3. ASSUME NEW S \in SUBSET DOMAIN dirs, dirs' = Restrict(dirs, S) PROVE FilesAre'
  BY <1>3, FilesRestricted
<1>4. CASE ReadSource(p)
  BY <1>1, <1>4 DEF ReadSource, ReadProfile, ReadPolicy, ReadRoot, LoadPolicy, OnlyCall
<1>5. CASE Enroll(p) \/ GivePolicy(p) \/ FindExisting(p) \/ CompareExisting(p) \/ MatchExisting(p)
  BY <1>1, <1>5
  DEF Enroll, GivePolicy, FindExisting, CompareExisting, MatchExisting, OnlyCall
<1>6. CASE CreateRecord(p)
  BY <1>1, <1>6, FilesMade DEF CreateRecord
<1>7. CASE WriteFile(p)
  <2>1. CASE UNCHANGED dirs
    BY <1>1, <2>1
  <2>2. CASE ~UNCHANGED dirs
    <3>1. /\ call[p].stage = "write" /\ call[p].at \in DOMAIN dirs
          /\ dirs' = [dirs EXCEPT ![call[p].at] =
                        Plus(@, Head(call[p].left), The(call[p].given))]
      BY <1>7, <2>2 DEF WriteFile, At, There
    <3>2. The(call[p].given) \in Approval
      BY <3>1, TheIs DEF OperatorAt
    <3>3. Head(call[p].left) \in Files
      BY <3>1, SMT DEF OperatorAt, Unwritten, Files
    <3>4. QED
      BY <3>1, <3>2, <3>3, FilesWritten
  <2>3. QED
    BY <2>1, <2>2
<1>8. CASE DiscardFile(p) \/ UnlinkFile(p)
  <2>1. CASE UNCHANGED dirs
    BY <1>1, <2>1
  <2>2. CASE ~UNCHANGED dirs
    <3>1. PICK place, file :
            /\ place \in DOMAIN dirs
            /\ dirs' = [dirs EXCEPT ![place] = Restrict(@, DOMAIN @ \ {file})]
      BY <1>8, <2>2 DEF DiscardFile, UnlinkFile, Has, There
    <3>2. QED
      BY <3>1, FilesUnlinked
  <2>3. QED
    BY <2>1, <2>2
<1>9. CASE DiscardDirectory(p) \/ CleanUp(p) \/ Emptied(p) \/ RemoveDirectory(p)
  <2>1. \/ UNCHANGED dirs
        \/ \E S \in SUBSET DOMAIN dirs : dirs' = Restrict(dirs, S)
    BY <1>9 DEF DiscardDirectory, CleanUp, Emptied, RemoveDirectory, Without
  <2>2. QED
    BY <1>1, <1>3, <2>1
<1>10. CASE SetAside(p) \/ InstallNew(p) \/ RestorePrevious(p)
  BY <1>2, <1>10 DEF SetAside, InstallNew, RestorePrevious
<1>11. CASE Remove(p) \/ Refuse(p)
  BY <1>1, <1>11 DEF Remove, Refuse, OnlyCall
<1>12. QED
  BY <1>4, <1>5, <1>6, <1>7, <1>8, <1>9, <1>10, <1>11
  DEF ProfileStep, EnrollSource, ReplaceSource, RemoveSource

-------------------------------------------------------------------------------
(* Where a user is.                                                        *)

Holding == {"read pin", "replace pin"}
Checked == {"root hash", "execute"}

(* A user reads an approval to bind it, and again to revalidate a receipt. *)
UserAt(p) ==
  /\ call[p].stage \in Reading \cup Holding \cup Checked \cup
       {"idle", "refused", "bound", "lease", "resolve", "reuse", "proof", "again", "package",
        "verify", "attest", "prepare", "receipt", "lock"}
  /\ call[p].stage \in Reading => call[p].then \in {"bound", "receipt"}
  /\ call[p].stage \in Checked \cup {"receipt"} => call[p].then = "receipt"
  /\ call[p].then = "receipt" =>
       call[p].stage \in Reading \cup Checked \cup {"refused", "receipt"}

(* A user that goes on after it resolved, or that deploys, has a release;  *)
(* who holds the lock and found its pin replaces that one.                 *)
PinAt(p) ==
  /\ call[p].stage = "idle" => want[p].base = {}
  /\ want[p].release \subseteq Releases
  /\ \/ call[p].command = "deploy" /\ call[p].stage # "idle"
     \/ call[p].stage \in Holding \cup
          {"lease", "reuse", "proof", "again", "package", "verify", "attest", "lock"}
     => want[p].release # {}
  /\ call[p].stage \in Holding => pinLock = {p}
  /\ call[p].stage = "replace pin" => want[p].base = {pin}

(* A receipt is for a policy there was; while it is revalidated, every     *)
(* policy in place was seen, and one that is checked is of those, and was  *)
(* in force after the plan was prepared.                                   *)
ReceiptAt(p) ==
  /\ \/ call[p].stage \in {"attest", "prepare"}
     \/ call[p].then = "receipt"
     => call[p].receipt # {} /\ call[p].receipt \subseteq Approval
  /\ call[p].then = "receipt" =>
       InPlace \subseteq inEffect[p] /\ want[p].asked \in Nat /\ want[p].asked <= now
  /\ call[p].stage \in Checked =>
       call[p].receipt \subseteq inEffect[p] /\ The(call[p].receipt).until > want[p].asked

UserHolds(p) == UserAt(p) /\ PinAt(p) /\ ReceiptAt(p)

(* The policy in place is as long as the directories are, and is somebody's*)
(* approval.                                                               *)
LEMMA PolicyStays ==
  /\ UNCHANGED dirs => InPlace' = InPlace
  /\ PolicyInForce \subseteq InPlace
  /\ FilesAre => InPlace \subseteq Approval
BY DEF InPlace, PolicyInForce, FilesAre, Has, There

(* A user that ends holds nothing.                                         *)
LEMMA IdleHolds ==
  ASSUME NEW p \in Users, call'[p].stage = "idle", call'[p].then # "receipt",
         want'[p].base = {}, want'[p].release = {}
  PROVE  UserHolds(p)'
BY DEF UserHolds, UserAt, PinAt, ReceiptAt, Holding, Checked, Reading

LEMMA EndedHolds ==
  ASSUME Shape, NEW p \in Users, Returns(p), want'[p].base = {}, want'[p].release = {}
  PROVE  UserHolds(p)'
BY ReturnsTakes, IdleHolds DEF Procs

(* What happens around a user keeps what it holds, when a revalidation     *)
(* sees what is put in place and nobody else takes its lock.               *)
LEMMA OtherHolds ==
  ASSUME Shape, NEW q \in Users, UserHolds(q), call'[q] = call[q], want'[q] = want[q],
         inEffect[q] \subseteq inEffect'[q],
         call[q].then = "receipt" => InPlace' \subseteq inEffect'[q],
         now' \in Nat, now <= now',
         call[q].stage \in Holding => pin' = pin /\ pinLock' = pinLock
  PROVE  UserHolds(q)'
<1>1. UserAt(q)'
  BY DEF UserHolds, UserAt, Reading, Holding, Checked
<1>2. PinAt(q)'
  BY DEF UserHolds, PinAt, Holding
<1>3. ReceiptAt(q)'
  <2>1. \A a, b, c \in Nat : a <= b /\ b <= c => a <= c
    BY SMT
  <2>2. want[q].asked \in Nat /\ want[q].asked <= now => want[q].asked <= now'
    BY <2>1 DEF Shape
  <2>3. QED
    BY <2>2 DEF UserHolds, ReceiptAt, Checked
<1>4. QED
  BY <1>1, <1>2, <1>3 DEF UserHolds

(* An error ends a command.                                                *)
LEMMA FailsHolds ==
  ASSUME Shape, NEW p \in Users, Fails(p)
  PROVE  UserHolds(p)'
<1>1. Returns(p) /\ want'[p] = Nothing
  BY DEF Fails, Shape
<1>2. QED
  BY <1>1, EndedHolds, NothingWanted

(* A command that starts reads the approval first.                         *)
LEMMA StartHolds ==
  ASSUME Shape, NEW p \in Users, pin \in Releases \cup {NoPin}, StartDeploy(p) \/ StartPin(p)
  PROVE  UserHolds(p)'
<1> DEFINE to == IF There(Current) THEN "profile" ELSE "refused"
<1> DEFINE Starts(command, wants) ==
      /\ call' = [call EXCEPT ![p] =
           [Idle EXCEPT !.runs = call[p].runs + 1, !.command = command, !.then = "bound",
                        !.stage = to]]
      /\ want' = [want EXCEPT ![p] = wants]
      /\ \/ command = "deploy" /\ wants = [Nothing EXCEPT !.release = {pin}] /\ pin # NoPin
         \/ command = "pin" /\ wants = Nothing
<1>0. PICK command \in {"deploy", "pin"} : \E wants : Starts(command, wants)
  BY DEF StartDeploy, StartPin
<1>1. PICK wants : Starts(command, wants)
  BY <1>0
<1>2. to \in {"profile", "refused"}
  OBVIOUS
<1> HIDE DEF to
<1>3. call'[p] = [Idle EXCEPT !.runs = call[p].runs + 1, !.command = command,
                              !.then = "bound", !.stage = to]
  BY <1>1 DEF Shape, Procs
<1>4. /\ call'[p].stage = to /\ call'[p].command = command /\ call'[p].then = "bound"
  BY <1>3, SMT DEF Idle
<1>5. want'[p] = wants
  BY <1>1 DEF Shape
<1>6. /\ wants.base = {} /\ wants.release \subseteq Releases
      /\ command = "deploy" => wants.release # {}
  BY <1>1, SMT DEF Nothing
<1>7. UserAt(p)'
  BY <1>2, <1>4 DEF UserAt, Reading, Holding, Checked
<1>8. PinAt(p)'
  BY <1>2, <1>4, <1>5, <1>6 DEF PinAt, Holding
<1>9. ReceiptAt(p)'
  BY <1>2, <1>4 DEF ReceiptAt, Checked
<1>10. QED
  BY <1>7, <1>8, <1>9 DEF UserHolds

(* A deploying user binds the approval and leases what it selected.        *)
LEMMA LeaseHolds ==
  ASSUME Shape, NEW p \in Users, UserHolds(p), BindApproval(p) \/ Lease(p)
  PROVE  UserHolds(p)'
<1>1. CASE Fails(p)
  BY <1>1, FailsHolds
<1>2. CASE ~Fails(p)
  <2>1. /\ call'[p].then = call[p].then
        /\ call'[p].command = call[p].command
        /\ want'[p].release = want[p].release
        /\ \/ call[p].stage = "bound" /\ call'[p].stage = "lease" /\ call[p].command = "deploy"
           \/ call[p].stage = "bound" /\ call'[p].stage = "resolve"
           \/ call[p].stage = "lease" /\ call'[p].stage = "resolve"
        \/ /\ call'[p].then = "used"
           /\ call'[p].command = call[p].command
           /\ want'[p].release = want[p].release
           /\ call[p].stage = "lease" /\ call'[p].stage = "verify"
    BY <1>2, GoesTakes, WantTakes, SMT
    DEF BindApproval, Lease, Procs, At, GoesTo, CallFields, WantFields
  <2>2. UserAt(p)'
    BY <2>1 DEF UserHolds, UserAt, Reading, Holding, Checked
  <2>3. PinAt(p)'
    BY <2>1 DEF UserHolds, PinAt, Holding
  <2>4. ReceiptAt(p)'
    BY <2>1 DEF UserHolds, UserAt, ReceiptAt, Reading, Checked
  <2>5. QED
    BY <2>2, <2>3, <2>4 DEF UserHolds
<1>3. QED
  BY <1>1, <1>2

(* A receipt is for the policy in place when the verification began.       *)
LEMMA VerifyHolds ==
  ASSUME Shape, FilesAre, NEW p \in Users, UserHolds(p), StartVerify(p) \/ Attest(p)
  PROVE  UserHolds(p)'
<1>1. CASE Fails(p)
  BY <1>1, FailsHolds
<1>2. CASE StartVerify(p) /\ ~Fails(p)
  <2>1. /\ call[p].stage = "verify" /\ call'[p].stage = "attest"
        /\ call'[p].receipt = PolicyInForce
        /\ call'[p].then = call[p].then
        /\ want' = want
        /\ PolicyInForce # {} /\ PolicyInForce \subseteq Approval
    BY <1>2, GoesTakes, PolicyStays, SMT DEF StartVerify, Procs, At, CallFields
  <2>2. UserAt(p)'
    BY <2>1 DEF UserHolds, UserAt, Reading, Holding, Checked
  <2>3. PinAt(p)'
    BY <2>1 DEF UserHolds, PinAt, Holding
  <2>4. ReceiptAt(p)'
    BY <2>1 DEF UserHolds, UserAt, ReceiptAt, Reading, Checked
  <2>5. QED
    BY <2>2, <2>3, <2>4 DEF UserHolds
<1>3. CASE Attest(p) /\ ~Fails(p)
  <2>1. /\ call[p].stage = "attest" /\ call'[p].stage \in {"prepare", "lock", "lease"}
        /\ call'[p].receipt = call[p].receipt
        /\ call'[p].then = call[p].then
        /\ want' = want
    <3>1. PICK to \in {"prepare", "lock", "lease"} : GoesTo(p, to)
      BY <1>3 DEF Attest
    <3>2. QED
      BY <1>3, <3>1, GoesTakes, SMT DEF Attest, Procs, At, GoesTo, CallFields
  <2>2. UserAt(p)'
    BY <2>1 DEF UserHolds, UserAt, Reading, Holding, Checked
  <2>3. PinAt(p)'
    BY <2>1 DEF UserHolds, PinAt, Holding
  <2>4. ReceiptAt(p)'
    BY <2>1 DEF UserHolds, UserAt, ReceiptAt, Reading, Checked
  <2>5. QED
    BY <2>2, <2>3, <2>4 DEF UserHolds
<1>4. QED
  BY <1>1, <1>2, <1>3

(* What is acquired is what the release resolved to.                       *)
LEMMA AcquireHolds ==
  ASSUME Shape, published \in Releases, NEW p \in Users, UserHolds(p), Acquire(p)
  PROVE  UserHolds(p)'
<1>1. CASE Fails(p)
  BY <1>1, FailsHolds
<1>2. CASE ~Fails(p)
  <2>1. /\ call[p].stage \in {"resolve", "reuse", "proof", "again", "package"}
        /\ call'[p].stage \in {"reuse", "verify", "proof", "again", "package"}
        /\ call'[p].then \in {"acquired", "published", call[p].then}
        /\ \/ call[p].stage = "resolve" /\ want'[p].release = {published}
           \/ call[p].stage # "resolve" /\ want'[p].release = want[p].release
    <3>1. CASE Resolve(p)
      BY <1>2, <3>1, GoesTakes, WantTakes, SMT
      DEF Resolve, Procs, At, GoesTo, CallFields, WantFields
    <3>2. CASE Reuse(p)
      BY <3>2, GoesTakes, WantTakes, SMT DEF Reuse, Procs, At, GoesTo, CallFields, WantFields
    <3>3. CASE FetchProof(p)
      BY <1>2, <3>3, GoesTakes, SMT DEF FetchProof, Procs, At, GoesTo, CallFields
    <3>4. CASE LeaseAgain(p)
      BY <1>2, <3>4, GoesTakes, SMT DEF LeaseAgain, Procs, At, GoesTo, CallFields
    <3>5. CASE FetchPackage(p)
      BY <1>2, <3>5, GoesTakes, SMT DEF FetchPackage, Procs, At, GoesTo, CallFields
    <3>6. QED
      BY <3>1, <3>2, <3>3, <3>4, <3>5 DEF Acquire
  <2>2. UserAt(p)'
    BY <2>1 DEF UserHolds, UserAt, Reading, Holding, Checked
  <2>3. PinAt(p)'
    <3>1. want'[p].release \subseteq Releases /\ want'[p].release # {}
      BY <2>1 DEF UserHolds, PinAt
    <3>2. QED
      BY <2>1, <3>1 DEF PinAt, Holding
  <2>4. ReceiptAt(p)'
    BY <2>1 DEF UserHolds, UserAt, ReceiptAt, Reading, Checked
  <2>5. QED
    BY <2>2, <2>3, <2>4 DEF UserHolds
<1>3. QED
  BY <1>1, <1>2

(* An approval lasts until some time.                                      *)
LEMMA LongAs == \A a \in Approval : a.until \in Nat
BY ProfilesAssumption, SMT DEF ProfilesAssumption, Approval

(* A revalidation counts the policies in place from where it begins.       *)
LEMMA RevalidateHolds ==
  ASSUME Shape, FilesAre, NEW p \in Users, UserHolds(p),
         Revalidate(p) \/ CheckReceipt(p) \/ CheckRoot(p) \/ Execute(p)
  PROVE  UserHolds(p)'
<1>0. UNCHANGED <<dirs, now, pin, pinLock>> /\ InPlace' = InPlace
  BY PolicyStays
  DEF Revalidate, CheckReceipt, CheckRoot, Execute, Quiet, OnlyCall, KeepTime, KeepPin
<1>1. CASE Fails(p)
  BY <1>1, FailsHolds
<1>2. CASE Revalidate(p)
  <2>1. /\ call[p].stage = "prepare" /\ call'[p].stage \in {"profile", "refused"}
        /\ call'[p].then = "receipt"
        /\ call'[p].receipt = call[p].receipt
        /\ call'[p].command = call[p].command
        /\ want'[p].release = want[p].release
        /\ want'[p].asked = now
        /\ inEffect'[p] = InPlace
    <3>1. PICK to \in {"profile", "refused"} :
            Goes(p, [stage |-> to, then |-> "receipt", seen |-> {}])
      BY <1>2 DEF Revalidate
    <3>2. QED
      BY <1>2, <3>1, GoesTakes, WantTakes, SMT
      DEF Revalidate, Procs, At, CallFields, WantFields, Shape
  <2>2. UserAt(p)'
    BY <2>1 DEF UserHolds, UserAt, Reading, Holding, Checked
  <2>3. PinAt(p)'
    BY <2>1 DEF UserHolds, PinAt, Holding
  <2>4. ReceiptAt(p)'
    <3>1. now \in Nat /\ now <= now
      BY SMT DEF Shape
    <3>2. QED
      BY <1>0, <2>1, <3>1 DEF UserHolds, ReceiptAt, Checked
  <2>5. QED
    BY <2>2, <2>3, <2>4 DEF UserHolds
<1>3. CASE CheckReceipt(p) /\ ~Fails(p)
  <2>1. /\ call[p].stage = "receipt" /\ call'[p].stage = "root hash"
        /\ call'[p].then = call[p].then
        /\ call'[p].receipt = call[p].receipt
        /\ call'[p].command = call[p].command
        /\ want' = want /\ inEffect' = inEffect
        /\ InPlace = call[p].receipt /\ The(call[p].receipt).until > now
    <3>1. /\ call[p].stage = "receipt" /\ Goes(p, [stage |-> "root hash"])
          /\ want' = want /\ inEffect' = inEffect
          /\ InPlace = call[p].receipt /\ The(call[p].receipt).until > now
      BY <1>3 DEF CheckReceipt, Quiet, At, GoesTo
    <3>2. /\ call'[p].stage = "root hash"
          /\ call'[p].then = call[p].then
          /\ call'[p].receipt = call[p].receipt
          /\ call'[p].command = call[p].command
      BY <3>1, MovesOn DEF Procs
    <3>3. QED
      BY <3>1, <3>2
  <2>2. UserAt(p)'
    BY <2>1 DEF UserHolds, UserAt, Reading, Holding, Checked
  <2>3. PinAt(p)'
    BY <1>0, <2>1 DEF UserHolds, UserAt, PinAt, Holding
  <2>4. ReceiptAt(p)'
    <3>1. /\ call[p].receipt # {} /\ call[p].receipt \subseteq Approval
          /\ InPlace \subseteq inEffect[p] /\ want[p].asked \in Nat /\ want[p].asked <= now
      BY <2>1 DEF UserHolds, UserAt, ReceiptAt
    <3>2. The(call[p].receipt).until \in Nat
      <4>1. The(call[p].receipt) \in Approval
        BY <3>1, TheIs
      <4>2. QED
        BY <4>1, LongAs
    <3>3. The(call[p].receipt).until > want[p].asked
      <4>1. \A a, b, c \in Nat : b <= c /\ a > c => a > b
        BY SMT
      <4>2. now \in Nat
        BY DEF Shape
      <4>3. QED
        BY <2>1, <3>1, <3>2, <4>1, <4>2
    <3>4. QED
      BY <1>0, <2>1, <3>1, <3>3 DEF ReceiptAt, Checked
  <2>5. QED
    BY <2>2, <2>3, <2>4 DEF UserHolds
<1>4. CASE CheckRoot(p) /\ ~Fails(p)
  <2>1. /\ call[p].stage = "root hash" /\ call'[p].stage = "execute"
        /\ call'[p].then = call[p].then
        /\ call'[p].receipt = call[p].receipt
        /\ call'[p].command = call[p].command
        /\ want' = want /\ inEffect' = inEffect
    <3>1. /\ call[p].stage = "root hash" /\ Goes(p, [stage |-> "execute"])
          /\ want' = want /\ inEffect' = inEffect
      BY <1>4 DEF CheckRoot, Quiet, At, GoesTo
    <3>2. /\ call'[p].stage = "execute"
          /\ call'[p].then = call[p].then
          /\ call'[p].receipt = call[p].receipt
          /\ call'[p].command = call[p].command
      BY <3>1, MovesOn DEF Procs
    <3>3. QED
      BY <3>1, <3>2
  <2>2. UserAt(p)'
    BY <2>1 DEF UserHolds, UserAt, Reading, Holding, Checked
  <2>3. PinAt(p)'
    BY <1>0, <2>1 DEF UserHolds, UserAt, PinAt, Holding
  <2>4. ReceiptAt(p)'
    BY <1>0, <2>1 DEF UserHolds, UserAt, ReceiptAt, Checked
  <2>5. QED
    BY <2>2, <2>3, <2>4 DEF UserHolds
<1>5. CASE Execute(p)
  <2>1. Returns(p) /\ Want(p, Nothing)
    BY <1>5 DEF Execute
  <2>2. want'[p].base = {} /\ want'[p].release = {}
    BY <2>1, WantTakes, NothingWanted DEF WantFields
  <2>3. QED
    BY <2>1, <2>2, EndedHolds
<1>6. QED
  BY <1>1, <1>2, <1>3, <1>4, <1>5

(* Pinning, a user replaces under the lock the pin it found there.         *)
LEMMA PinHolds ==
  ASSUME Shape, NEW p \in Users, UserHolds(p), LockProject(p) \/ ComparePin(p) \/ ReplacePin(p)
  PROVE  UserHolds(p)'
<1>1. CASE Fails(p)
  BY <1>1, FailsHolds
<1>2. CASE Returns(p) /\ Want(p, Nothing)
  <2>1. want'[p].base = {} /\ want'[p].release = {}
    BY <1>2, WantTakes, NothingWanted DEF WantFields
  <2>2. QED
    BY <1>2, <2>1, EndedHolds
<1>3. CASE ~Fails(p) /\ ~(Returns(p) /\ Want(p, Nothing))
  <2>1. /\ \/ call[p].stage = "lock" /\ pinLock' = {p} /\ Goes(p, [stage |-> "read pin"])
           \/ /\ call[p].stage = "read pin" /\ pinLock' = pinLock /\ want[p].base = {pin}
              /\ Goes(p, [stage |-> "replace pin"])
        /\ UNCHANGED <<want, pin>>
    BY <1>3 DEF LockProject, ComparePin, ReplacePin, At, GoesTo
  <2>2. /\ call'[p].then = call[p].then /\ call'[p].command = call[p].command
        /\ \/ /\ call[p].stage = "lock" /\ pinLock' = {p}
              /\ call'[p].stage = "read pin"
           \/ /\ call[p].stage = "read pin" /\ pinLock' = pinLock /\ want[p].base = {pin}
              /\ call'[p].stage = "replace pin"
    BY <2>1, MovesOn DEF Procs
  <2>3. UserAt(p)'
    BY <2>2 DEF UserHolds, UserAt, Reading, Holding, Checked
  <2>4. PinAt(p)'
    BY <2>1, <2>2 DEF UserHolds, PinAt, Holding
  <2>5. ReceiptAt(p)'
    BY <2>2 DEF UserHolds, UserAt, ReceiptAt, Reading, Holding, Checked
  <2>6. QED
    BY <2>3, <2>4, <2>5 DEF UserHolds
<1>4. QED
  BY <1>1, <1>2, <1>3

(* A user reads the approval or ends.                                      *)
LEMMA ReaderHolds ==
  ASSUME Shape, NEW p \in Users, UserHolds(p), ProfileStep(p),
         inEffect[p] \subseteq inEffect'[p],
         call[p].then = "receipt" => InPlace \subseteq inEffect'[p],
         want'[p] = IF call'[p].stage = "idle" THEN Nothing ELSE want[p]
  PROVE  UserHolds(p)' /\ UNCHANGED <<dirs, now>>
<1> USE DEF Procs
<1>1. ReadSource(p) \/ Refuse(p)
  <2>1. p \notin Operators
    BY ProfilesAssumption DEF ProfilesAssumption
  <2>2. ~EnrollSource(p)
    BY <2>1
    DEF UserHolds, UserAt, Reading, Holding, Checked, EnrollSource, Enroll, GivePolicy,
        FindExisting, CompareExisting, MatchExisting, CreateRecord, WriteFile, DiscardFile,
        DiscardDirectory, At
  <2>3. ~ReplaceSource(p)
    BY DEF UserHolds, UserAt, Reading, Holding, Checked, ReplaceSource, SetAside, InstallNew,
           RestorePrevious, CleanUp, Emptied, At
  <2>4. ~Remove(p) /\ ~UnlinkFile(p) /\ ~RemoveDirectory(p)
    BY <2>1
    DEF UserHolds, UserAt, Reading, Holding, Checked, Remove, UnlinkFile, RemoveDirectory, At
  <2>5. QED
    BY <2>2, <2>3, <2>4 DEF ProfileStep, RemoveSource
<1>2. UNCHANGED <<dirs, now>> /\ InPlace' = InPlace
  BY <1>1, PolicyStays
  DEF ReadSource, ReadProfile, ReadPolicy, ReadRoot, LoadPolicy, Refuse, OnlyCall, KeepTime
<1>3. CASE Returns(p)
  <2>1. call'[p].stage = "idle"
    BY <1>3, ReturnsTakes
  <2>2. want'[p].base = {} /\ want'[p].release = {}
    BY <2>1, NothingWanted
  <2>3. QED
    BY <1>2, <1>3, <2>2, EndedHolds
<1>4. CASE ~Returns(p)
  <2>1. call[p].stage \in Reading /\ call[p].then \in {"bound", "receipt"}
    BY <1>1, <1>4
    DEF ReadSource, ReadProfile, ReadPolicy, ReadRoot, LoadPolicy, Refuse, At, UserHolds,
        UserAt, Reading
  <2>2. ~ReadFails(p)
    BY <1>4, <2>1 DEF ReadFails
  <2>3. /\ call'[p].then = call[p].then
        /\ call'[p].command = call[p].command
        /\ call'[p].receipt = call[p].receipt
        /\ call'[p].stage \in Reading \cup {call[p].then}
    <3>1. CASE ReadProfile(p)
      <4>1. Goes(p, [stage |-> "policy", seen |-> {dirs[Current]["profile"]}])
        BY <2>2, <3>1 DEF ReadProfile
      <4>2. QED
        BY <4>1, GoesTakes, SMT DEF CallFields, Reading
    <3>2. CASE ReadPolicy(p) \/ ReadRoot(p)
      <4>1. Goes(p, [stage |-> "root"]) \/ Goes(p, [stage |-> "recheck"])
        BY <2>2, <3>2 DEF ReadPolicy, ReadRoot, GoesTo
      <4>2. QED
        BY <4>1, MovesOn DEF Reading
    <3>3. CASE LoadPolicy(p)
      <4>1. Goes(p, [stage |-> call[p].then])
        BY <2>1, <2>2, <3>3 DEF LoadPolicy, Continues, GoesTo
      <4>2. QED
        BY <4>1, MovesOn
    <3>4. CASE Refuse(p)
      BY <1>4, <3>4 DEF Refuse
    <3>5. QED
      BY <1>1, <3>1, <3>2, <3>3, <3>4 DEF ReadSource
  <2>4. want'[p] = want[p]
    BY <2>1, <2>3 DEF Reading
  <2>5. UserAt(p)'
    BY <2>1, <2>3 DEF UserHolds, UserAt, Reading, Holding, Checked
  <2>6. PinAt(p)'
    BY <2>1, <2>3, <2>4 DEF UserHolds, PinAt, Reading, Holding
  <2>7. ReceiptAt(p)'
    BY <1>2, <2>1, <2>3, <2>4 DEF UserHolds, ReceiptAt, Reading, Checked
  <2>8. QED
    BY <1>2, <2>5, <2>6, <2>7 DEF UserHolds
<1>5. QED
  BY <1>3, <1>4

-------------------------------------------------------------------------------
(* Whose state a step changes.                                             *)

(* Only its own.                                                           *)
OwnCall(p) ==
  /\ DOMAIN call' = Procs
  /\ \A q \in Procs : DOMAIN call'[q] = CallFields /\ (q # p => call'[q] = call[q])

OwnWant(p) ==
  /\ DOMAIN want' = Users /\ DOMAIN inEffect' = Users
  /\ \A q \in Users : /\ DOMAIN want'[q] = WantFields
                      /\ q # p => want'[q] = want[q] /\ inEffect'[q] = inEffect[q]

LEMMA CallIsOwn ==
  ASSUME Shape, NEW p \in Procs, Returns(p) \/ (\E fields : Goes(p, fields)) \/ UNCHANGED call
  PROVE  OwnCall(p)
<1>1. CASE Returns(p)
  BY <1>1, ReturnsTakes DEF OwnCall
<1>2. CASE \E fields : Goes(p, fields)
  BY <1>2, GoesTakes DEF OwnCall
<1>3. CASE UNCHANGED call
  BY <1>3 DEF OwnCall, Shape
<1>4. QED
  BY <1>1, <1>2, <1>3

LEMMA WantIsOwn ==
  ASSUME Shape, NEW p \in Users, Fails(p) \/ (\E fields : Want(p, fields)) \/ UNCHANGED want,
         \/ UNCHANGED inEffect
         \/ \E policies : inEffect' = [inEffect EXCEPT ![p] = policies]
  PROVE  OwnWant(p)
<1>1. DOMAIN inEffect' = Users /\ \A q \in Users : q # p => inEffect'[q] = inEffect[q]
  BY DEF Shape
<1>2. CASE Fails(p)
  BY <1>1, <1>2, NothingWanted DEF Fails, OwnWant, Shape
<1>3. CASE \E fields : Want(p, fields)
  BY <1>1, <1>3, WantTakes DEF OwnWant
<1>4. CASE UNCHANGED want
  BY <1>1, <1>4 DEF OwnWant, Shape
<1>5. QED
  BY <1>2, <1>3, <1>4

(* A step of a command on the approval is a step of its own.               *)
LEMMA ProfileStepIsOwn ==
  ASSUME Shape, NEW p \in Procs, ProfileStep(p)
  PROVE  OwnCall(p) /\ now' = now
<1>1. ReadFails(p) \/ Continues(p) => Returns(p) \/ \E fields : Goes(p, fields)
  BY DEF ReadFails, Continues, GoesTo
<1>2. CASE ReadSource(p)
  BY <1>1, <1>2, CallIsOwn
  DEF ReadSource, ReadProfile, ReadPolicy, ReadRoot, LoadPolicy, GoesTo, OnlyCall, KeepTime
<1>3. CASE Enroll(p) \/ GivePolicy(p) \/ FindExisting(p) \/ CompareExisting(p) \/ MatchExisting(p)
  BY <1>3, CallIsOwn
  DEF Enroll, GivePolicy, FindExisting, CompareExisting, MatchExisting, OnlyCall, KeepTime
<1>4. CASE CreateRecord(p)
  BY <1>4, CallIsOwn DEF CreateRecord, KeepTime
<1>5. CASE WriteFile(p)
  <2>1. \E fields : Goes(p, fields)
    BY <1>5 DEF WriteFile, WriteFails
  <2>2. QED
    BY <1>5, <2>1, CallIsOwn DEF WriteFile, KeepTime
<1>6. CASE DiscardFile(p) \/ DiscardDirectory(p)
  BY <1>6, CallIsOwn DEF DiscardFile, DiscardDirectory, GoesTo, KeepTime
<1>7. CASE ReplaceSource(p)
  BY <1>7, CallIsOwn
  DEF ReplaceSource, SetAside, InstallNew, RestorePrevious, CleanUp, Emptied, Renames, KeepTime
<1>8. CASE Remove(p) \/ Refuse(p)
  BY <1>8, CallIsOwn DEF Remove, Refuse, OnlyCall, KeepTime
<1>9. CASE UnlinkFile(p) \/ RemoveDirectory(p)
  BY <1>9, CallIsOwn DEF UnlinkFile, RemoveDirectory, GoesTo, KeepTime
<1>10. QED
  BY <1>2, <1>3, <1>4, <1>5, <1>6, <1>7, <1>8, <1>9
  DEF ProfileStep, EnrollSource, RemoveSource

UserStep(p) == Deploy(p) \/ Acquire(p) \/ WritePin(p)

(* So is every other step of a user, who never changes an approval.        *)
LEMMA UserStepIsOwn ==
  ASSUME Shape, NEW p \in Users, UserStep(p)
  PROVE  /\ OwnCall(p) /\ OwnWant(p)
         /\ UNCHANGED <<dirs, now, published>>
<1> USE DEF Quiet, OnlyCall, KeepTime, KeepSource
<1>0. /\ p \in Procs
      /\ Fails(p) => Returns(p)
      /\ \A stage : GoesTo(p, stage) => \E fields : Goes(p, fields)
  BY DEF Procs, Fails, GoesTo
<1>1. CASE StartDeploy(p) \/ StartPin(p)
  <2> DEFINE to == IF There(Current) THEN "profile" ELSE "refused"
  <2>1. PICK command, wants :
          /\ call' = [call EXCEPT ![p] =
               [Idle EXCEPT !.runs = call[p].runs + 1, !.command = command, !.then = "bound",
                            !.stage = to]]
          /\ want' = [want EXCEPT ![p] = wants]
          /\ wants \in {[Nothing EXCEPT !.release = {pin}], Nothing}
    BY <1>1 DEF StartDeploy, StartPin
  <2>2. DOMAIN Idle = CallFields
    BY SMT DEF Idle, CallFields
  <2>3. DOMAIN wants = WantFields
    BY <2>1, NothingWanted
  <2>4. OwnCall(p)
    BY <2>1, <2>2 DEF Shape, OwnCall, Procs
  <2>5. OwnWant(p)
    BY <1>1, <2>1, <2>3 DEF Shape, OwnWant, StartDeploy, StartPin
  <2>6. QED
    BY <1>1, <2>4, <2>5 DEF StartDeploy, StartPin
<1>2. CASE BindApproval(p) \/ Lease(p) \/ StartVerify(p) \/ Attest(p)
  <2>1. CASE Fails(p)
    BY <1>0, <1>2, <2>1, CallIsOwn, WantIsOwn DEF BindApproval, Lease, StartVerify, Attest
  <2>2. CASE ~Fails(p)
    BY <1>0, <1>2, <2>2, CallIsOwn, WantIsOwn DEF BindApproval, Lease, StartVerify, Attest
  <2>3. QED
    BY <2>1, <2>2
<1>3. CASE Acquire(p)
  <2>1. CASE Fails(p)
    BY <1>0, <1>3, <2>1, CallIsOwn, WantIsOwn
    DEF Acquire, Resolve, Reuse, FetchProof, LeaseAgain, FetchPackage
  <2>2. CASE ~Fails(p)
    BY <1>0, <1>3, <2>2, CallIsOwn, WantIsOwn
    DEF Acquire, Resolve, Reuse, FetchProof, LeaseAgain, FetchPackage
  <2>3. QED
    BY <2>1, <2>2
<1>4. CASE Revalidate(p) \/ CheckReceipt(p) \/ CheckRoot(p) \/ Execute(p)
  <2>1. CASE Fails(p) /\ (CheckReceipt(p) \/ CheckRoot(p))
    BY <1>0, <2>1, CallIsOwn, WantIsOwn DEF CheckReceipt, CheckRoot
  <2>2. CASE ~Fails(p) \/ Revalidate(p) \/ Execute(p)
    BY <1>0, <1>4, <2>2, CallIsOwn, WantIsOwn DEF Revalidate, CheckReceipt, CheckRoot, Execute
  <2>3. QED
    BY <1>4, <2>1, <2>2
<1>5. CASE LockProject(p) \/ ComparePin(p) \/ ReplacePin(p)
  BY <1>0, <1>5, CallIsOwn, WantIsOwn DEF LockProject, ComparePin, ReplacePin
<1>6. QED
  BY <1>1, <1>2, <1>3, <1>4, <1>5 DEF UserStep, Deploy, Acquire, WritePin

-------------------------------------------------------------------------------
(* What always holds.                                                      *)

ContentInv ==
  /\ Shape /\ now \in 0 .. MaxTime /\ FilesAre
  /\ pin \in Releases \cup {NoPin} /\ published \in Releases
  /\ \A p \in Operators : OperatorAt(p)
  /\ \A p \in Users : UserHolds(p)

LEMMA InitHolds == Init => ContentInv
<1> SUFFICES ASSUME Init PROVE ContentInv
  OBVIOUS
<1>1. Shape /\ now \in 0 .. MaxTime
  <2>1. DOMAIN Idle = CallFields
    BY SMT DEF Idle, CallFields
  <2>2. \A p \in Procs : DOMAIN call[p] = CallFields
    BY <2>1 DEF Init, ProfilesInit
  <2>3. 0 \in Nat /\ 0 \in 0 .. MaxTime
    BY ProfilesAssumption, SMT DEF ProfilesAssumption
  <2>4. QED
    BY <2>2, <2>3, NothingWanted DEF Init, ProfilesInit, Shape
<1>2. FilesAre
  BY DEF Init, ProfilesInit, FilesAre, Record
<1>3. \A p \in Procs : /\ call[p].stage = "idle" /\ call[p].then = "none"
                       /\ call[p].given = {}
  BY SMT DEF Init, ProfilesInit, Idle
<1>4. ASSUME NEW p \in Operators PROVE OperatorAt(p)
  BY <1>3 DEF Procs, OperatorAt, Reading
<1>5. ASSUME NEW p \in Users PROVE UserHolds(p)
  <2>1. want[p].base = {} /\ want[p].release = {}
    BY NothingWanted DEF Init
  <2>2. call[p].stage = "idle" /\ call[p].then = "none"
    BY <1>3 DEF Procs
  <2>3. QED
    BY <2>1, <2>2 DEF UserHolds, UserAt, PinAt, ReceiptAt, Reading, Holding, Checked
<1>6. QED
  BY <1>1, <1>2, <1>4, <1>5 DEF ContentInv, Init

(* Holding the project lock is for one.                                    *)
LEMMA OneHolds ==
  ASSUME ContentInv, NEW p \in Users, NEW q \in Users, q # p, call[q].stage \in Holding,
         UserStep(p)
  PROVE  pin' = pin /\ pinLock' = pinLock
<1>1. pinLock = {q} /\ pinLock # {p}
  BY DEF ContentInv, UserHolds, PinAt, Holding
<1>2. call[p].stage \notin Holding
  BY <1>1 DEF ContentInv, UserHolds, PinAt
<1>3. QED
  BY <1>1, <1>2
  DEF UserStep, Deploy, Acquire, WritePin, StartDeploy, BindApproval, Lease, StartVerify, Attest,
      Revalidate, CheckReceipt, CheckRoot, Execute, Resolve, Reuse, FetchProof, LeaseAgain,
      FetchPackage, StartPin, LockProject, ComparePin, ReplacePin, KeepPin, At, Holding

LEMMA UserKeeps ==
  ASSUME ContentInv, NEW p \in Users, UserStep(p)
  PROVE  ContentInv'
<1>1. /\ OwnCall(p) /\ OwnWant(p)
      /\ UNCHANGED <<dirs, now, published>> /\ InPlace' = InPlace
  BY UserStepIsOwn, PolicyStays DEF ContentInv
<1>2. Shape' /\ (now \in 0 .. MaxTime)' /\ FilesAre' /\ (published \in Releases)'
  BY <1>1 DEF ContentInv, Shape, OwnCall, OwnWant, FilesAre
<1>3. UserHolds(p)'
  <2>1. CASE StartDeploy(p) \/ StartPin(p)
    BY <2>1, StartHolds DEF ContentInv
  <2>2. CASE BindApproval(p) \/ Lease(p)
    BY <2>2, LeaseHolds DEF ContentInv
  <2>3. CASE StartVerify(p) \/ Attest(p)
    BY <2>3, VerifyHolds DEF ContentInv
  <2>4. CASE Acquire(p)
    BY <2>4, AcquireHolds DEF ContentInv
  <2>5. CASE Revalidate(p) \/ CheckReceipt(p) \/ CheckRoot(p) \/ Execute(p)
    BY <2>5, RevalidateHolds DEF ContentInv
  <2>6. CASE LockProject(p) \/ ComparePin(p) \/ ReplacePin(p)
    BY <2>6, PinHolds DEF ContentInv
  <2>7. QED
    BY <2>1, <2>2, <2>3, <2>4, <2>5, <2>6 DEF UserStep, Deploy, WritePin
<1>4. ASSUME NEW q \in Users, q # p PROVE UserHolds(q)'
  <2>1. call'[q] = call[q] /\ want'[q] = want[q] /\ inEffect'[q] = inEffect[q]
    BY <1>1, <1>4 DEF OwnCall, OwnWant, Procs
  <2>2. call[q].then = "receipt" => InPlace' \subseteq inEffect'[q]
    BY <1>1, <2>1 DEF ContentInv, UserHolds, ReceiptAt
  <2>3. now' \in Nat /\ now <= now'
    <3>1. now \in Nat => now <= now
      BY SMT
    <3>2. QED
      BY <1>1, <3>1 DEF ContentInv, Shape
  <2>4. call[q].stage \in Holding => pin' = pin /\ pinLock' = pinLock
    BY <1>4, OneHolds
  <2>5. QED
    BY <2>1, <2>2, <2>3, <2>4, OtherHolds DEF ContentInv
<1>5. ASSUME NEW q \in Operators PROVE OperatorAt(q)'
  <2>1. q # p /\ q \in Procs
    BY ProfilesAssumption DEF ProfilesAssumption, Procs
  <2>2. call'[q] = call[q]
    BY <1>1, <2>1 DEF OwnCall
  <2>3. QED
    BY <2>2 DEF ContentInv, OperatorAt, Reading
<1>6. pin' \in Releases \cup {NoPin}
  <2>1. CASE ReplacePin(p) /\ pin' = Selected(p)
    <3>1. want[p].release # {} /\ want[p].release \subseteq Releases
      BY <2>1 DEF ContentInv, UserHolds, PinAt, Holding, ReplacePin, At
    <3>2. QED
      BY <2>1, <3>1 DEF Selected
  <2>2. CASE ~(ReplacePin(p) /\ pin' = Selected(p))
    <3>1. pin' = pin
      BY <2>2
      DEF UserStep, Deploy, Acquire, WritePin, StartDeploy, BindApproval, Lease, StartVerify,
          Attest, Revalidate, CheckReceipt, CheckRoot, Execute, Resolve, Reuse, FetchProof,
          LeaseAgain, FetchPackage, StartPin, LockProject, ComparePin, ReplacePin, KeepPin
    <3>2. QED
      BY <3>1 DEF ContentInv
  <2>3. QED
    BY <2>1, <2>2
<1>7. QED
  BY <1>2, <1>3, <1>4, <1>5, <1>6 DEF ContentInv

(* A command on the approval, and its process that dies.                   *)
LEMMA ApproveKeeps ==
  ASSUME ContentInv, NEW p \in Procs, Approve(p)
  PROVE  ContentInv'
<1>1. OwnCall(p) /\ now' = now
  BY ProfileStepIsOwn DEF ContentInv, Approve
<1>2. /\ DOMAIN want' = Users /\ DOMAIN inEffect' = Users
      /\ \A q \in Users :
           /\ want'[q] = IF call'[q].stage = "idle" THEN Nothing ELSE want[q]
           /\ inEffect[q] \subseteq inEffect'[q]
           /\ call[q].then = "receipt" => InPlace' \subseteq inEffect'[q]
  <2>1. \A q \in Users : call[q].then = "receipt" => ~At(q, "idle")
    BY DEF ContentInv, UserHolds, UserAt, Reading, Checked, At
  <2>2. QED
    BY <2>1 DEF Approve, Witnessed
<1>3. Shape' /\ (now \in 0 .. MaxTime)'
  BY <1>1, <1>2, NothingWanted DEF ContentInv, Shape, OwnCall
<1>4. ASSUME NEW q \in Users, q # p PROVE UserHolds(q)'
  <2>1. call'[q] = call[q]
    BY <1>1, <1>4 DEF OwnCall, Procs
  <2>2. CASE call[q].stage = "idle"
    <3>1. call'[q].stage = "idle" /\ call'[q].then # "receipt"
      BY <2>1, <2>2 DEF ContentInv, UserHolds, UserAt, Reading, Checked
    <3>2. want'[q].base = {} /\ want'[q].release = {}
      BY <1>2, <3>1, NothingWanted
    <3>3. QED
      BY <3>1, <3>2, IdleHolds
  <2>3. CASE call[q].stage # "idle"
    <3>1. want'[q] = want[q]
      BY <1>2, <2>1, <2>3
    <3>2. now' \in Nat /\ now <= now'
      <4>1. now \in Nat => now <= now
        BY SMT
      <4>2. QED
        BY <1>1, <4>1 DEF ContentInv, Shape
    <3>3. QED
      BY <1>2, <2>1, <3>1, <3>2, OtherHolds DEF ContentInv, Approve
  <2>4. QED
    BY <2>2, <2>3
<1>5. CASE p \in Users
  <2>1. UserHolds(p)' /\ UNCHANGED dirs
    <3>1. call[p].then = "receipt" => InPlace \subseteq inEffect'[p]
      BY <1>2, <1>5 DEF ContentInv, UserHolds, ReceiptAt
    <3>2. QED
      BY <1>2, <1>5, <3>1, ReaderHolds DEF ContentInv, Approve
  <2>2. FilesAre' /\ (pin \in Releases \cup {NoPin})' /\ (published \in Releases)'
    BY <2>1 DEF ContentInv, FilesAre, Approve
  <2>3. \A q \in Operators : OperatorAt(q)'
    <3>1. \A q \in Operators : q # p /\ q \in Procs
      BY <1>5, ProfilesAssumption DEF ProfilesAssumption, Procs
    <3>2. QED
      BY <1>1, <3>1 DEF ContentInv, OperatorAt, OwnCall, Reading
  <2>4. QED
    BY <1>3, <1>4, <1>5, <2>1, <2>2, <2>3 DEF ContentInv
<1>6. CASE p \in Operators
  <2>1. FilesAre' /\ (pin \in Releases \cup {NoPin})' /\ (published \in Releases)'
    BY <1>6, FilesStep DEF ContentInv, Approve
  <2>2. OperatorAt(p)'
    BY <1>6, OperatorReads, OperatorEnrolls, OperatorReplaces
    DEF ContentInv, Approve, ProfileStep
  <2>3. \A q \in Operators : q # p => OperatorAt(q)'
    BY <1>1 DEF ContentInv, OperatorAt, OwnCall, Reading, Procs
  <2>4. \A q \in Users : q # p
    BY <1>6, ProfilesAssumption DEF ProfilesAssumption
  <2>5. QED
    BY <1>3, <1>4, <2>1, <2>2, <2>3, <2>4 DEF ContentInv
<1>7. QED
  BY <1>5, <1>6 DEF Procs

LEMMA CrashKeeps ==
  ASSUME ContentInv, NEW p \in Procs, Crash(p)
  PROVE  ContentInv'
<1>1. OwnCall(p) /\ now' = now /\ UNCHANGED <<pin, published, inEffect>>
  BY CallIsOwn DEF ContentInv, Crash, KeepSource
<1>2. Shape' /\ (now \in 0 .. MaxTime)'
  BY <1>1, NothingWanted DEF ContentInv, Shape, OwnCall, Crash
<1>3. FilesAre' /\ InPlace' = InPlace
  <2>1. dirs' = Restrict(dirs, DOMAIN dirs \ {New(p), Previous(p)})
    BY DEF Crash
  <2>2. /\ Current \in DOMAIN dirs' <=> Current \in DOMAIN dirs
        /\ Current \in DOMAIN dirs => dirs'[Current] = dirs[Current]
    BY <2>1, PlacesDiffer DEF Restrict
  <2>3. InPlace' = InPlace
    BY <2>2 DEF InPlace, Has, There
  <2>4. QED
    BY <2>1, <2>3, FilesRestricted DEF ContentInv
<1>4. ASSUME NEW q \in Operators PROVE OperatorAt(q)'
  <2>1. CASE q = p
    BY <1>4, <2>1, ReturnsTakes DEF ContentInv, OperatorAt, Crash, Reading
  <2>2. CASE q # p
    BY <1>1, <2>2 DEF ContentInv, OperatorAt, OwnCall, Reading, Procs
  <2>3. QED
    BY <2>1, <2>2
<1>5. ASSUME NEW q \in Users PROVE UserHolds(q)'
  <2>1. CASE q = p
    <3>1. Returns(q) /\ want'[q].base = {} /\ want'[q].release = {}
      BY <2>1, NothingWanted DEF Crash
    <3>2. QED
      BY <3>1, EndedHolds DEF ContentInv
  <2>2. CASE q # p
    <3>1. call'[q] = call[q] /\ want'[q] = want[q]
      BY <1>1, <2>2 DEF OwnCall, Procs, Crash
    <3>2. call[q].then = "receipt" => InPlace' \subseteq inEffect'[q]
      BY <1>1, <1>3 DEF ContentInv, UserHolds, ReceiptAt
    <3>3. now' \in Nat /\ now <= now'
      <4>1. now \in Nat => now <= now
        BY SMT
      <4>2. QED
        BY <1>1, <4>1 DEF ContentInv, Shape
    <3>4. call[q].stage \in Holding => pin' = pin /\ pinLock' = pinLock
      BY <1>1, <2>2 DEF ContentInv, UserHolds, PinAt, Crash, Holding
    <3>5. QED
      BY <1>1, <3>1, <3>2, <3>3, <3>4, OtherHolds DEF ContentInv
  <2>3. QED
    BY <2>1, <2>2
<1>6. QED
  BY <1>1, <1>2, <1>3, <1>4, <1>5 DEF ContentInv

LEMMA StepKeeps == ContentInv /\ [Next]_vars => ContentInv'
<1> SUFFICES ASSUME ContentInv, [Next]_vars PROVE ContentInv'
  OBVIOUS
<1>1. ASSUME UNCHANGED <<dirs, call, want, pin, pinLock, inEffect>>, now' \in 0 .. MaxTime,
             now <= now', published' \in Releases
      PROVE  ContentInv'
  <2>1. now' \in Nat
    BY <1>1, ProfilesAssumption, SMT DEF ProfilesAssumption
  <2>2. Shape' /\ (now \in 0 .. MaxTime)' /\ FilesAre' /\ (pin \in Releases \cup {NoPin})'
        /\ (published \in Releases)'
    BY <1>1, <2>1 DEF ContentInv, Shape, FilesAre
  <2>3. \A q \in Operators : OperatorAt(q)'
    BY <1>1 DEF ContentInv, OperatorAt, Reading
  <2>4. \A q \in Users : UserHolds(q)'
    <3>1. InPlace' = InPlace
      BY <1>1, PolicyStays
    <3>2. \A q \in Users : call[q].then = "receipt" => InPlace' \subseteq inEffect'[q]
      BY <1>1, <3>1 DEF ContentInv, UserHolds, ReceiptAt
    <3>3. QED
      BY <1>1, <2>1, <3>2, OtherHolds DEF ContentInv
  <2>5. QED
    BY <2>2, <2>3, <2>4 DEF ContentInv
<1>2. now <= now /\ (now < MaxTime => now <= now + 1 /\ now + 1 \in 0 .. MaxTime)
  BY ProfilesAssumption, SMT DEF ContentInv, ProfilesAssumption
<1>3. CASE \E p \in Procs : Approve(p) \/ Crash(p)
  BY <1>3, ApproveKeeps, CrashKeeps
<1>4. CASE \E p \in Users : Deploy(p) \/ Acquire(p) \/ WritePin(p)
  BY <1>4, UserKeeps DEF UserStep
<1>5. CASE \E i \in cached : Evict(i)
  BY <1>1, <1>2, <1>5 DEF Evict, profileVars, ContentInv
<1>6. CASE Republish
  BY <1>1, <1>2, <1>6 DEF Republish, profileVars, ContentInv
<1>7. CASE Tick /\ UNCHANGED contentVars
  BY <1>1, <1>2, <1>7 DEF Tick, contentVars, ContentInv
<1>8. CASE UNCHANGED vars
  BY <1>1, <1>2, <1>8 DEF vars, profileVars, contentVars, ContentInv
<1>9. QED
  BY <1>3, <1>4, <1>5, <1>6, <1>7, <1>8 DEF Next

(* Whatever is interleaved, fails, dies or is published, every command is  *)
(* where its code has it, and holds what it has read and locked            *)
(* (project.py, workspace_acquisition.py, source_profiles.py).             *)
THEOREM ContentCorrect == Spec => []ContentInv
<1>1. QED
  BY InitHolds, StepKeeps, PTL DEF Spec

(* A plan is executed only under a policy that was in place, and in force, *)
(* after the plan was prepared (command_context.py, revalidation of a      *)
(* receipt).                                                               *)
THEOREM ExecutesApproved == Spec => []ExecutesUnderApproval
<1>1. ContentInv => ExecutesUnderApproval
  BY DEF ContentInv, UserHolds, ReceiptAt, Checked, ExecutesUnderApproval, At
<1>2. QED
  BY <1>1, ContentCorrect, PTL

(* A `project pin` replaces the pin it read, or nothing (project.py,       *)
(* write_pin).                                                             *)
THEOREM PinImplementsRegister == Spec => PinIsRegister
<1> DEFINE bases == [p \in Users |-> want[p].base]
<1>1. Init => Register!Init
  BY NothingWanted DEF Init, Register!Init
<1>2. ASSUME ContentInv, ContentInv', [Next]_vars
      PROVE  [Register!Next]_<<pin, bases>>
  <2>1. ASSUME NEW p \in Users, pin' = pin, want'[p].base \in {{}, {pin}, want[p].base},
               \A q \in Users : q # p => want'[q].base = want[q].base
        PROVE  [Register!Next]_<<pin, bases>>
    <3>1. CASE want'[p].base = {pin}
      <4>1. bases' = [bases EXCEPT ![p] = {pin}]
        BY <2>1, <3>1
      <4>2. QED
        BY <2>1, <4>1 DEF Register!Next, Register!Read
    <3>2. CASE want'[p].base = {}
      <4>1. bases' = [bases EXCEPT ![p] = {}]
        BY <2>1, <3>2
      <4>2. QED
        BY <2>1, <4>1 DEF Register!Next, Register!GiveUp
    <3>3. CASE want'[p].base = want[p].base
      <4>1. bases' = bases
        BY <2>1, <3>3
      <4>2. QED
        BY <2>1, <4>1
    <3>4. QED
      BY <2>1, <3>1, <3>2, <3>3
  <2>2. CASE \E p \in Users : UserStep(p)
    <3>1. PICK p \in Users : UserStep(p)
      BY <2>2
    <3>2. \A q \in Users : q # p => want'[q].base = want[q].base
      BY <1>2, <3>1, UserStepIsOwn DEF ContentInv, OwnWant
    <3>3. CASE ReplacePin(p) /\ pin' = Selected(p) /\ Want(p, Nothing)
      <4>1. bases[p] = {pin} /\ pin' \in Releases
        <5>1. want[p].base = {pin} /\ want[p].release # {} /\ want[p].release \subseteq Releases
          BY <1>2, <3>3 DEF ContentInv, UserHolds, PinAt, Holding, ReplacePin, At
        <5>2. QED
          BY <3>3, <5>1 DEF Selected
      <4>2. want'[p].base = {}
        BY <1>2, <3>3, WantTakes, NothingWanted DEF ContentInv, WantFields
      <4>3. bases' = [bases EXCEPT ![p] = {}]
        BY <3>2, <4>2
      <4>4. QED
        BY <4>1, <4>3 DEF Register!Next, Register!Replace
    <3>4. CASE ~(ReplacePin(p) /\ pin' = Selected(p) /\ Want(p, Nothing))
      <4>1. pin' = pin
        BY <3>1, <3>4
        DEF UserStep, Deploy, Acquire, WritePin, StartDeploy, BindApproval, Lease, StartVerify,
            Attest, Revalidate, CheckReceipt, CheckRoot, Execute, Resolve, Reuse, FetchProof,
            LeaseAgain, FetchPackage, StartPin, LockProject, ComparePin, ReplacePin, KeepPin
      <4>2. want'[p].base \in {{}, {pin}, want[p].base}
        <5>1. CASE Fails(p)
          BY <1>2, <5>1, NothingWanted DEF Fails, ContentInv, Shape
        <5>2. CASE StartDeploy(p) \/ StartPin(p)
          <6>1. want'[p] = Nothing \/ want'[p] = [Nothing EXCEPT !.release = {pin}]
            BY <1>2, <5>2 DEF StartDeploy, StartPin, ContentInv, Shape
          <6>2. [Nothing EXCEPT !.release = {pin}].base = {}
            BY SMT DEF Nothing
          <6>3. QED
            BY <6>1, <6>2, NothingWanted
        <5>3. CASE BindApproval(p) /\ Want(p, [base |-> {pin}])
          BY <1>2, <5>3, WantTakes, SMT DEF ContentInv, WantFields
        <5>4. CASE UNCHANGED want
          BY <5>4
        <5>5. CASE Lease(p) /\ Want(p, [restored |-> TRUE])
          BY <1>2, <5>5, WantTakes, SMT DEF ContentInv, WantFields
        <5>6. CASE Resolve(p) /\ Want(p, [release |-> {published}])
          BY <1>2, <5>6, WantTakes, SMT DEF ContentInv, WantFields
        <5>7. CASE Reuse(p) /\ Want(p, [missing |-> Misses(Selected(p))])
          <6> DEFINE missing == Misses(Selected(p))
          <6>1. Want(p, [missing |-> missing])
            BY <5>7
          <6> HIDE DEF missing
          <6>2. QED
            BY <1>2, <6>1, WantTakes, SMT DEF ContentInv, WantFields
        <5>8. CASE Revalidate(p) /\ Want(p, [asked |-> now])
          BY <1>2, <5>8, WantTakes, SMT DEF ContentInv, WantFields
        <5>9. CASE Execute(p) /\ Want(p, Nothing)
          BY <1>2, <5>9, WantTakes, NothingWanted DEF ContentInv, WantFields
        <5>10. QED
          <6>1. Deploy(p) \/ Acquire(p) \/ WritePin(p)
            BY <3>1 DEF UserStep
          <6>2. CASE Deploy(p)
            BY <5>1, <5>2, <5>3, <5>4, <5>5, <5>8, <5>9, <6>2
            DEF Deploy, BindApproval, Lease, StartVerify, Attest, Revalidate, CheckReceipt,
                CheckRoot, Execute
          <6>3. CASE Acquire(p)
            BY <5>1, <5>4, <5>6, <5>7, <6>3
            DEF Acquire, Resolve, Reuse, FetchProof, LeaseAgain, FetchPackage
          <6>4. CASE WritePin(p)
            BY <3>4, <5>1, <5>2, <5>4, <6>4
            DEF WritePin, LockProject, ComparePin, ReplacePin
          <6>5. QED
            BY <6>1, <6>2, <6>3, <6>4
      <4>3. QED
        BY <2>1, <3>2, <4>1, <4>2
    <3>5. QED
      BY <3>3, <3>4
  <2>3. CASE \E p \in Procs : Approve(p)
    <3>1. PICK p \in Procs : Approve(p)
      BY <2>3
    <3>2. pin' = pin
      BY <3>1 DEF Approve
    <3>3. OwnCall(p)
      BY <1>2, <3>1, ProfileStepIsOwn DEF ContentInv, Approve
    <3>4. \A q \in Users : q # p => want'[q].base = want[q].base
      <4>1. SUFFICES ASSUME NEW q \in Users, q # p PROVE want'[q].base = want[q].base
        OBVIOUS
      <4>2. call'[q] = call[q] /\ want'[q] = IF call'[q].stage = "idle" THEN Nothing ELSE want[q]
        BY <3>1, <3>3, <4>1 DEF OwnCall, Procs, Approve
      <4>3. call[q].stage = "idle" => want[q].base = {}
        BY <1>2 DEF ContentInv, UserHolds, PinAt
      <4>4. QED
        BY <4>2, <4>3, NothingWanted
    <3>5. CASE p \in Users
      <4>1. want'[p].base \in {{}, {pin}, want[p].base}
        BY <3>1, <3>5, NothingWanted DEF Approve
      <4>2. QED
        BY <2>1, <3>2, <3>4, <3>5, <4>1
    <3>6. CASE p \notin Users
      <4>1. bases' = bases
        BY <3>4, <3>6
      <4>2. QED
        BY <3>2, <4>1
    <3>7. QED
      BY <3>5, <3>6
  <2>4. CASE \E p \in Procs : Crash(p)
    <3>1. PICK p \in Procs : Crash(p)
      BY <2>4
    <3>2. /\ pin' = pin
          /\ \A q \in Users : want'[q] = IF q = p THEN Nothing ELSE want[q]
      BY <3>1 DEF Crash
    <3>3. CASE p \in Users
      BY <2>1, <3>2, <3>3, NothingWanted
    <3>4. CASE p \notin Users
      <4>1. bases' = bases
        BY <3>2, <3>4
      <4>2. QED
        BY <3>2, <4>1
    <3>5. QED
      BY <3>3, <3>4
  <2>5. CASE UNCHANGED <<pin, want>>
    BY <2>5
  <2>6. QED
    BY <1>2, <2>2, <2>3, <2>4, <2>5
    DEF Next, UserStep, Evict, Republish, Tick, contentVars, vars
<1>3. QED
  BY <1>1, <1>2, ContentCorrect, PTL DEF Spec, PinIsRegister, Register!Spec

-------------------------------------------------------------------------------
(* What one operator leaves of the record, when no other works on it.      *)

(* A reader has found the parts to agree that it has read.                 *)
ReadSoFar(p) ==
  /\ call[p].stage \in {"policy", "root", "recheck"} =>
       Has(Current, "profile") /\ call[p].seen = {dirs[Current]["profile"]}
  /\ call[p].stage \in {"root", "recheck"} =>
       Has(Current, "policy") /\ dirs[Current]["policy"] = dirs[Current]["profile"]
  /\ call[p].stage = "recheck" => Whole(Current)

(* A record that is written has the files that are not left to write, all  *)
(* for the same approval.                                                  *)
WrittenBut(left) ==
  CASE left = <<"policy", "root", "profile">> -> {}
    [] left = <<"root", "profile">> -> {"policy"}
    [] left = <<"profile">> -> {"policy", "root"}

WrittenSoFar(p) ==
  call[p].stage = "write" =>
    /\ There(call[p].at) /\ DOMAIN dirs[call[p].at] = WrittenBut(call[p].left)
    /\ \A file \in DOMAIN dirs[call[p].at] : dirs[call[p].at][file] = The(call[p].given)

(* A renewal starts from a whole record, and has one aside until it is     *)
(* over.                                                                   *)
RenewedSoFar(p) ==
  /\ \/ call[p].stage \in {"match", "swap"}
     \/ call[p].stage \in {"create", "write"} /\ call[p].at = New(p)
     => Whole(Current)
  /\ call[p].stage \in {"swap", "install"} => Whole(New(p))
  /\ \/ call[p].stage \in {"install", "rollback"}
     \/ call[p].stage \in Reading /\ call[p].then = "renewed"
     \/ call[p].stage = "discard" /\ call[p].then = "rollback"
     => Whole(Previous(p))
  /\ call[p].outcome = "kept" =>
       /\ Whole(Current)
       /\ \/ call[p].stage \in {"cleanup", "emptied"}
          \/ call[p].stage = "discard" /\ call[p].at = New(p)

(* The profile goes first.                                                 *)
TakenSoFar(p) ==
  /\ /\ call[p].stage = "discard" /\ call[p].at = Current
     /\ call[p].left # <<"profile", "root", "policy">> /\ "unlink" \notin faults
     => ~Has(Current, "profile")
  /\ call[p].stage = "unlink" /\ call[p].left # <<"profile", "policy", "root">> =>
       ~Has(Current, "profile")

SoFar(p) == ReadSoFar(p) /\ WrittenSoFar(p) /\ RenewedSoFar(p) /\ TakenSoFar(p)

RecordInv == ProfileVouches /\ \A p \in Operators : SoFar(p)

(* What a step does not touch stays as it is.                              *)
SameAt(place) ==
  /\ place \in DOMAIN dirs' <=> place \in DOMAIN dirs
  /\ place \in DOMAIN dirs => dirs'[place] = dirs[place]

LEMMA SameStays ==
  ASSUME NEW place, SameAt(place)
  PROVE  /\ Whole(place)' <=> Whole(place)
         /\ \A file : Has(place, file)' <=> Has(place, file)
         /\ There(place)' <=> There(place)
BY DEF SameAt, Whole, Has, There

LEMMA MadeSame ==
  ASSUME NEW place, NEW value, dirs' = Plus(dirs, place, value)
  PROVE  /\ \A q : q # place => SameAt(q)
         /\ place \in DOMAIN dirs' /\ dirs'[place] = value
BY DEF Plus, SameAt

LEMMA ChangedSame ==
  ASSUME NEW place, NEW value, dirs' = [dirs EXCEPT ![place] = value]
  PROVE  /\ \A q : q # place => SameAt(q)
         /\ place \in DOMAIN dirs => place \in DOMAIN dirs' /\ dirs'[place] = value
BY DEF SameAt

LEMMA RestrictedSame ==
  ASSUME NEW S, dirs' = Restrict(dirs, DOMAIN dirs \ S)
  PROVE  /\ \A q : q \notin S => SameAt(q)
         /\ \A q \in S : q \notin DOMAIN dirs'
BY DEF SameAt, Restrict

LEMMA MovedSame ==
  ASSUME NEW from \in DOMAIN dirs, NEW to, from # to, dirs' = Moved(from, to)
  PROVE  /\ \A q : q \notin {from, to} => SameAt(q)
         /\ from \notin DOMAIN dirs'
         /\ to \in DOMAIN dirs' /\ dirs'[to] = dirs[from]
         /\ Whole(to)' <=> Whole(from)
<1> DEFINE rest == Restrict(dirs, DOMAIN dirs \ {from, to})
<1>1. /\ DOMAIN rest = DOMAIN dirs \ {from, to}
      /\ \A q \in DOMAIN rest : rest[q] = dirs[q]
  BY DEF Restrict
<1>2. dirs' = Plus(rest, to, dirs[from])
  BY DEF Moved
<1> HIDE DEF rest
<1>3. /\ DOMAIN dirs' = DOMAIN rest \cup {to}
      /\ \A q \in DOMAIN rest : q # to => dirs'[q] = rest[q]
      /\ dirs'[to] = dirs[from]
  BY <1>2 DEF Plus
<1>4. QED
  BY <1>1, <1>3 DEF SameAt, Whole, There

LEMMA TheOne == \A x : The({x}) = x
BY DEF The

(* At most stages nothing is asked of what a command has done.             *)
LEMMA Settles ==
  ASSUME NEW p \in Operators, call'[p].outcome # "kept",
         \/ call'[p].stage \in {"idle", "found", "given", "compare", "refused", "cleanup", "emptied"}
         \/ call'[p].stage = "profile" /\ call'[p].then # "renewed"
         \/ call'[p].stage = "create" /\ call'[p].at = Current
  PROVE  SoFar(p)'
<1>1. Current # New(p)
  BY PlacesDiffer
<1>2. QED
  BY <1>1
  DEF SoFar, ReadSoFar, WrittenSoFar, RenewedSoFar, TakenSoFar, Reading

(* What it does is not done yet when it keeps what it found.               *)
LEMMA NotKept ==
  ASSUME NEW p \in Operators, SoFar(p),
         call[p].stage \notin {"cleanup", "emptied"}, call[p].stage = "discard" => call[p].at # New(p)
  PROVE  call[p].outcome # "kept"
BY DEF SoFar, RenewedSoFar

(* A record that cannot be read is withdrawn when the command wrote it.    *)
LEMMA ReadFailsSoFar ==
  ASSUME Shape, NEW p \in Operators, SoFar(p), call[p].stage \in Reading, ReadFails(p),
         UNCHANGED dirs
  PROVE  SoFar(p)'
<1>1. p \in Procs /\ call[p].outcome # "kept"
  BY NotKept DEF Procs, Reading
<1>2. CASE Returns(p)
  BY <1>1, <1>2, ReturnsTakes, Settles
<1>3. CASE ~Returns(p)
  <2> DEFINE goal == IF call[p].then = "written" THEN "refused" ELSE "rollback"
  <2>1. /\ Goes(p, [stage |-> "discard", at |-> Current, left |-> <<"profile", "root", "policy">>,
                    then |-> goal])
        /\ goal = "rollback" => call[p].then = "renewed"
    BY <1>3 DEF ReadFails
  <2> HIDE DEF goal
  <2>2. /\ call'[p].stage = "discard" /\ call'[p].at = Current
        /\ call'[p].left = <<"profile", "root", "policy">>
        /\ call'[p].then = goal /\ call'[p].outcome = call[p].outcome
    BY <1>1, <2>1, GoesTakes, SMT DEF CallFields
  <2>3. goal = "rollback" => Whole(Previous(p))'
    <3>1. SameAt(Previous(p))
      BY DEF SameAt
    <3>2. QED
      BY <2>1, <3>1, SameStays DEF SoFar, RenewedSoFar
  <2>4. RenewedSoFar(p)'
    BY <1>1, <2>2, <2>3 DEF RenewedSoFar, Reading
  <2>5. ReadSoFar(p)' /\ WrittenSoFar(p)' /\ TakenSoFar(p)'
    BY <2>2 DEF ReadSoFar, WrittenSoFar, TakenSoFar
  <2>6. QED
    BY <2>4, <2>5 DEF SoFar
<1>4. QED
  BY <1>2, <1>3

(* A reader finds what it reads to agree, or fails.                        *)
LEMMA ReaderSoFar ==
  ASSUME Shape, FilesAre, NEW p \in Operators, OperatorAt(p), SoFar(p), ReadSource(p)
  PROVE  SoFar(p)' /\ UNCHANGED <<dirs, faults>>
<1>1. /\ call[p].stage \in Reading /\ UNCHANGED <<dirs, faults>>
      /\ call[p].outcome # "kept" /\ p \in Procs
  BY NotKept
  DEF ReadSource, ReadProfile, ReadPolicy, ReadRoot, LoadPolicy, OnlyCall, NoFault, At, Reading,
      Procs
<1>2. CASE ReadFails(p)
  BY <1>1, <1>2, ReadFailsSoFar
<1>3. CASE Returns(p)
  BY <1>1, <1>3, ReturnsTakes, Settles
<1>4. SameAt(Current) /\ SameAt(Previous(p))
  BY <1>1 DEF SameAt
<1>5. /\ Whole(Current)' <=> Whole(Current)
      /\ Whole(Previous(p))' <=> Whole(Previous(p))
      /\ \A file : Has(Current, file)' <=> Has(Current, file)
  BY <1>4, SameStays
<1>6. CASE ~ReadFails(p) /\ (ReadProfile(p) \/ ReadPolicy(p) \/ ReadRoot(p))
  <2>1. /\ call'[p].then = call[p].then /\ call'[p].outcome = call[p].outcome
        /\ \/ call'[p].stage = "policy" /\ Has(Current, "profile")
              /\ call'[p].seen = {dirs[Current]["profile"]}
           \/ /\ call'[p].stage = "root" /\ call'[p].seen = call[p].seen
              /\ call[p].stage = "policy"
              /\ Has(Current, "policy") /\ {dirs[Current]["policy"]} = call[p].seen
           \/ /\ call'[p].stage = "recheck" /\ call'[p].seen = call[p].seen
              /\ call[p].stage = "root"
              /\ Has(Current, "root") /\ dirs[Current]["root"].root = The(call[p].seen).root
    <3>1. CASE ReadProfile(p)
      <4>1. Goes(p, [stage |-> "policy", seen |-> {dirs[Current]["profile"]}])
            /\ Has(Current, "profile")
        BY <1>6, <3>1 DEF ReadProfile
      <4>2. /\ call'[p].then = call[p].then /\ call'[p].outcome = call[p].outcome
            /\ call'[p].stage = "policy" /\ call'[p].seen = {dirs[Current]["profile"]}
        BY <1>1, <4>1, GoesTakes, SMT DEF CallFields
      <4>3. QED
        BY <4>1, <4>2
    <3>2. CASE ReadPolicy(p)
      <4>1. /\ Goes(p, [stage |-> "root"]) /\ call[p].stage = "policy"
            /\ Has(Current, "policy") /\ {dirs[Current]["policy"]} = call[p].seen
        BY <1>6, <3>2 DEF ReadPolicy, GoesTo, At
      <4>2. QED
        BY <1>1, <4>1, MovesOn DEF CallFields
    <3>3. CASE ReadRoot(p)
      <4>1. /\ Goes(p, [stage |-> "recheck"]) /\ call[p].stage = "root"
            /\ Has(Current, "root") /\ dirs[Current]["root"].root = The(call[p].seen).root
        BY <1>6, <3>3 DEF ReadRoot, GoesTo, At
      <4>2. QED
        BY <1>1, <4>1, MovesOn DEF CallFields
    <3>4. QED
      BY <1>6, <3>1, <3>2, <3>3
  <2>2. call'[p].stage = "recheck" => Whole(Current)
    <3>1. SUFFICES ASSUME call'[p].stage = "recheck" PROVE Whole(Current)
      OBVIOUS
    <3>2. /\ Has(Current, "profile") /\ Has(Current, "policy") /\ Has(Current, "root")
          /\ call[p].seen = {dirs[Current]["profile"]}
          /\ dirs[Current]["policy"] = dirs[Current]["profile"]
          /\ dirs[Current]["root"].root = The(call[p].seen).root
      BY <2>1, <3>1 DEF SoFar, ReadSoFar
    <3>3. DOMAIN dirs[Current] = Files
      BY <3>2 DEF FilesAre, Has, There, Files
    <3>4. QED
      BY <3>2, <3>3, TheOne DEF Whole, Has
  <2>3. ReadSoFar(p)'
    BY <1>1, <1>5, <2>1, <2>2 DEF SoFar, ReadSoFar
  <2>4. RenewedSoFar(p)'
    BY <1>1, <1>5, <2>1 DEF SoFar, RenewedSoFar, Reading
  <2>5. WrittenSoFar(p)' /\ TakenSoFar(p)'
    BY <2>1 DEF WrittenSoFar, TakenSoFar
  <2>6. QED
    BY <1>1, <2>3, <2>4, <2>5 DEF SoFar
<1>7. CASE ~ReadFails(p) /\ ~Returns(p) /\ LoadPolicy(p)
  <2>1. Continues(p) /\ call[p].stage = "recheck"
    BY <1>7 DEF LoadPolicy, At
  <2>2. CASE call[p].then = "renewed"
    <3>1. Goes(p, [stage |-> "discard", at |-> Previous(p),
                   left |-> <<"profile", "root", "policy">>, then |-> "renewal"])
      BY <2>1, <2>2 DEF Continues
    <3>2. /\ call'[p].stage = "discard" /\ call'[p].then = "renewal"
          /\ call'[p].outcome = call[p].outcome
          /\ call'[p].at = Previous(p)
      BY <1>1, <3>1, GoesTakes, SMT DEF CallFields
    <3>3. QED
      BY <1>1, <3>2, PlacesDiffer
      DEF SoFar, ReadSoFar, WrittenSoFar, RenewedSoFar, TakenSoFar, Reading
  <2>3. CASE call[p].then # "renewed"
    <3>1. Goes(p, [stage |-> call[p].then]) /\ call[p].then \in {"found", "compare", "match"}
      BY <1>1, <1>7, <2>1, <2>3 DEF Continues, GoesTo, OperatorAt
    <3>2. /\ call'[p].stage = call[p].then /\ call'[p].outcome = call[p].outcome
      BY <1>1, <3>1, MovesOn DEF CallFields
    <3>3. Whole(Current)'
      BY <1>5, <2>1 DEF SoFar, ReadSoFar
    <3>4. QED
      BY <1>1, <3>1, <3>2, <3>3
      DEF SoFar, ReadSoFar, WrittenSoFar, RenewedSoFar, TakenSoFar, Reading
  <2>4. QED
    BY <1>1, <2>2, <2>3
<1>8. QED
  BY <1>1, <1>2, <1>3, <1>6, <1>7 DEF ReadSource

LEMMA VouchesStays ==
  ASSUME ProfileVouches, SameAt(Current), faults \subseteq faults'
  PROVE  ProfileVouches'
BY SameStays DEF ProfileVouches

(* An operator that begins or is given a policy has written nothing.       *)
LEMMA EnrollSoFar ==
  ASSUME Shape, NEW p \in Operators, OperatorAt(p), SoFar(p),
         \/ Enroll(p) \/ GivePolicy(p) \/ FindExisting(p) \/ CompareExisting(p)
         \/ MatchExisting(p) \/ Remove(p) \/ Refuse(p)
  PROVE  SoFar(p)' /\ UNCHANGED <<dirs, faults>>
<1>1. p \in Procs /\ UNCHANGED <<dirs, faults>>
  BY DEF Enroll, GivePolicy, FindExisting, CompareExisting, MatchExisting, Remove, Refuse,
         OnlyCall, NoFault, Procs
<1>2. CASE Returns(p)
  BY <1>1, <1>2, ReturnsTakes, Settles
<1>3. CASE Enroll(p)
  <2>1. PICK command, to :
          /\ to \in {"profile", "found"}
          /\ Goes(p, [command |-> command, then |-> "found", runs |-> call[p].runs + 1,
                      stage |-> to, outcome |-> "none"])
    BY <1>3 DEF Enroll
  <2>2. call'[p].stage = to /\ call'[p].then = "found" /\ call'[p].outcome = "none"
    BY <1>1, <2>1, GoesTakes, SMT DEF CallFields
  <2>3. QED
    BY <1>1, <2>1, <2>2, Settles
<1>4. CASE GivePolicy(p)
  <2>1. PICK a : /\ call[p].stage = "found"
                 /\ Goes(p, [stage |-> "given", seen |-> {}, given |-> a])
    BY <1>4 DEF GivePolicy, At
  <2>2. call'[p].stage = "given" /\ call'[p].outcome = call[p].outcome
    BY <1>1, <2>1, GoesTakes, SMT DEF CallFields
  <2>3. QED
    BY <1>1, <2>1, <2>2, NotKept, Settles
<1>5. CASE FindExisting(p)
  <2>1. call[p].stage = "given" /\ call[p].outcome # "kept"
    BY <1>5, NotKept DEF FindExisting, At
  <2>2. \/ \E then \in {"match", "compare"} : Goes(p, [stage |-> "profile", then |-> then])
        \/ Goes(p, [command |-> "custom"])
        \/ Goes(p, [stage |-> "create", at |-> Current, then |-> "written"])
    <3>1. CASE There(Current)
      BY <1>5, <3>1 DEF FindExisting
    <3>2. CASE ~There(Current)
      BY <1>5, <3>2 DEF FindExisting
    <3>3. QED
      BY <3>1, <3>2
  <2>3. CASE \E then \in {"match", "compare"} : Goes(p, [stage |-> "profile", then |-> then])
    <3>1. PICK then \in {"match", "compare"} : Goes(p, [stage |-> "profile", then |-> then])
      BY <2>3
    <3>2. /\ call'[p].stage = "profile" /\ call'[p].then = then
          /\ call'[p].outcome = call[p].outcome
      BY <1>1, <3>1, GoesTakes, SMT DEF CallFields
    <3>3. QED
      BY <1>1, <2>1, <3>2, Settles
  <2>4. CASE Goes(p, [command |-> "custom"])
    <3>1. call'[p].stage = "given" /\ call'[p].outcome = call[p].outcome
      BY <1>1, <2>1, <2>4, GoesTakes, SMT DEF CallFields
    <3>2. QED
      BY <1>1, <2>1, <3>1, Settles
  <2>5. CASE Goes(p, [stage |-> "create", at |-> Current, then |-> "written"])
    <3>1. /\ call'[p].stage = "create" /\ call'[p].at = Current
          /\ call'[p].outcome = call[p].outcome
      BY <1>1, <2>5, GoesTakes, SMT DEF CallFields
    <3>2. QED
      BY <1>1, <2>1, <3>1, Settles
  <2>6. QED
    BY <2>2, <2>3, <2>4, <2>5
<1>6. CASE MatchExisting(p) /\ ~Returns(p)
  <2>1. /\ call[p].stage = "match" /\ call[p].outcome # "kept"
        /\ Goes(p, [stage |-> "create", at |-> New(p), then |-> "swap"])
    BY <1>6, NotKept DEF MatchExisting, At
  <2>2. /\ call'[p].stage = "create" /\ call'[p].outcome = call[p].outcome
    BY <1>1, <2>1, GoesTakes, SMT DEF CallFields
  <2>3. Whole(Current)'
    <3>1. SameAt(Current)
      BY <1>1 DEF SameAt
    <3>2. QED
      BY <2>1, <3>1, SameStays DEF SoFar, RenewedSoFar
  <2>4. QED
    BY <1>1, <2>1, <2>2, <2>3
    DEF SoFar, ReadSoFar, WrittenSoFar, RenewedSoFar, TakenSoFar, Reading
<1>7. CASE Remove(p)
  <2>1. PICK to, left :
          /\ \/ to = "unlink" /\ left = <<"profile", "policy", "root">>
             \/ to = "refused"
          /\ Goes(p, [runs |-> call[p].runs + 1, command |-> "remove", outcome |-> "none",
                      stage |-> to, left |-> left])
    <3> DEFINE whole == There(Current) /\ DOMAIN dirs[Current] = Files
    <3>1. CASE whole
      BY <1>7, <3>1 DEF Remove
    <3>2. CASE ~whole
      BY <1>7, <3>2 DEF Remove
    <3>3. QED
      BY <3>1, <3>2
  <2>2. call'[p].stage = to /\ call'[p].left = left /\ call'[p].outcome = "none"
    BY <1>1, <2>1, GoesTakes, SMT DEF CallFields
  <2>3. QED
    BY <1>1, <2>1, <2>2
    DEF SoFar, ReadSoFar, WrittenSoFar, RenewedSoFar, TakenSoFar, Reading
<1>8. QED
  BY <1>1, <1>2, <1>3, <1>4, <1>5, <1>6, <1>7 DEF CompareExisting, Refuse

(* A record is made where there was none.                                  *)
LEMMA CreateSoFar ==
  ASSUME Shape, NEW p \in Operators, OperatorAt(p), SoFar(p), ProfileVouches, CreateRecord(p)
  PROVE  SoFar(p)' /\ ProfileVouches'
<1>1. /\ p \in Procs /\ call[p].stage = "create" /\ call[p].outcome # "kept"
      /\ faults' = faults
  BY NotKept DEF CreateRecord, At, NoFault, Procs
<1>2. CASE Returns(p) /\ UNCHANGED dirs
  <2>1. SoFar(p)'
    BY <1>1, <1>2, ReturnsTakes, Settles
  <2>2. SameAt(Current)
    BY <1>2 DEF SameAt
  <2>3. QED
    BY <1>1, <2>1, <2>2, VouchesStays
<1>3. CASE ~(Returns(p) /\ UNCHANGED dirs)
  <2>1. PICK place :
          /\ place = call[p].at /\ place \in {Current, New(p)}
          /\ place \notin DOMAIN dirs
          /\ dirs' = Plus(dirs, place, <<>>)
          /\ Goes(p, [stage |-> "write", left |-> <<"policy", "root", "profile">>])
    BY <1>1, <1>3 DEF CreateRecord, OperatorAt, There
  <2>2. /\ call'[p].stage = "write" /\ call'[p].left = <<"policy", "root", "profile">>
        /\ call'[p].at = place /\ call'[p].outcome = call[p].outcome
    BY <1>1, <2>1, GoesTakes, SMT DEF CallFields
  <2>3. /\ place \in DOMAIN dirs' /\ dirs'[place] = <<>>
        /\ \A q : q # place => SameAt(q)
    BY <2>1, MadeSame
  <2>4. DOMAIN dirs'[place] = {}
    BY <2>3, SMT
  <2>5. place = New(p) => Whole(Current)'
    BY <1>1, <2>1, <2>3, PlacesDiffer, SameStays DEF SoFar, RenewedSoFar
  <2>6. ProfileVouches'
    <3>1. CASE place = Current
      BY <2>4, <3>1 DEF ProfileVouches, Has
    <3>2. CASE place # Current
      BY <1>1, <2>3, <3>2, VouchesStays
    <3>3. QED
      BY <3>1, <3>2
  <2>7. WrittenSoFar(p)'
    BY <2>2, <2>3, <2>4 DEF WrittenSoFar, WrittenBut, There
  <2>8. QED
    BY <1>1, <2>2, <2>5, <2>6, <2>7 DEF SoFar, ReadSoFar, RenewedSoFar, TakenSoFar, Reading
<1>4. QED
  BY <1>2, <1>3

(* A record that could not be written is discarded.                        *)
LEMMA WriteFailsSoFar ==
  ASSUME Shape, NEW p \in Operators, SoFar(p), call[p].stage = "write", WriteFails(p)
  PROVE  SoFar(p)'
<1>1. p \in Procs /\ call[p].outcome # "kept"
  BY NotKept DEF Procs
<1> DEFINE goal == IF call[p].then = "swap" THEN "cleanup" ELSE "refused"
<1>2. /\ Goes(p, [stage |-> "discard", left |-> <<"profile", "root", "policy">>, then |-> goal])
      /\ goal # "rollback"
  BY DEF WriteFails
<1> HIDE DEF goal
<1>3. /\ call'[p].stage = "discard" /\ call'[p].left = <<"profile", "root", "policy">>
      /\ call'[p].then = goal /\ call'[p].outcome = call[p].outcome
  BY <1>1, <1>2, GoesTakes, SMT DEF CallFields
<1>4. QED
  BY <1>1, <1>2, <1>3 DEF SoFar, ReadSoFar, WrittenSoFar, RenewedSoFar, TakenSoFar, Reading

(* What is written once the next file is.                                  *)
LEMMA WrittenNext ==
  \A left \in Unwritten :
    /\ Head(left) # "profile" =>
         /\ Tail(left) \in Unwritten /\ WrittenBut(Tail(left)) = WrittenBut(left) \cup {Head(left)}
         /\ "profile" \notin WrittenBut(Tail(left))
    /\ Head(left) = "profile" => WrittenBut(left) \cup {Head(left)} = Files
<1> DEFINE l3 == <<"policy", "root", "profile">>
<1> DEFINE l2 == <<"root", "profile">>
<1> DEFINE l1 == <<"profile">>
<1>1. /\ Head(l3) = "policy" /\ Tail(l3) = l2 /\ Head(l2) = "root" /\ Tail(l2) = l1
      /\ Head(l1) = "profile"
  BY SMT
<1>2. l3 # l2 /\ l3 # l1 /\ l2 # l1
  BY SMT
<1>3. Unwritten = {l3, l2, l1}
  BY DEF Unwritten
<1>4. WrittenBut(l3) = {} /\ WrittenBut(l2) = {"policy"} /\ WrittenBut(l1) = {"policy", "root"}
  BY <1>2 DEF WrittenBut
<1> HIDE DEF l3, l2, l1
<1>5. QED
  BY <1>1, <1>3, <1>4 DEF Files

(* It is whole when its profile is written, the last of the three.         *)
LEMMA WriteSoFar ==
  ASSUME Shape, NEW p \in Operators, OperatorAt(p), SoFar(p), ProfileVouches, WriteFile(p)
  PROVE  SoFar(p)' /\ ProfileVouches'
<1>1. /\ p \in Procs /\ call[p].stage = "write" /\ call[p].outcome # "kept"
      /\ faults \subseteq faults'
  BY NotKept DEF WriteFile, At, NoFault, Fault, Procs
<1>2. CASE WriteFails(p) /\ UNCHANGED dirs
  <2>1. SameAt(Current)
    BY <1>2 DEF SameAt
  <2>2. QED
    BY <1>1, <1>2, <2>1, WriteFailsSoFar, VouchesStays
<1>3. CASE ~(WriteFails(p) /\ UNCHANGED dirs)
  <2> DEFINE a == The(call[p].given)
  <2>0. /\ There(call[p].at) /\ ~Has(call[p].at, Head(call[p].left))
        /\ dirs' = [dirs EXCEPT ![call[p].at] = Plus(@, Head(call[p].left), a)]
        /\ Goes(p, IF Head(call[p].left) # "profile" THEN [left |-> Tail(call[p].left)]
                   ELSE IF call[p].then = "swap" THEN [stage |-> "swap", left |-> <<>>]
                   ELSE [stage |-> "profile", left |-> <<>>])
    BY <1>3 DEF WriteFile
  <2>1. PICK place, file, old, left :
          /\ place = call[p].at /\ place \in {Current, New(p)}
          /\ place \in DOMAIN dirs /\ old = dirs[place] /\ file \notin DOMAIN old
          /\ left = call[p].left /\ file = Head(left) /\ left \in Unwritten
          /\ DOMAIN old = WrittenBut(left)
          /\ \A f \in DOMAIN old : old[f] = a
          /\ dirs' = [dirs EXCEPT ![place] = Plus(old, file, a)]
          /\ Goes(p, IF file # "profile" THEN [left |-> Tail(left)]
                     ELSE IF call[p].then = "swap" THEN [stage |-> "swap", left |-> <<>>]
                     ELSE [stage |-> "profile", left |-> <<>>])
    <3>1. /\ call[p].at \in {Current, New(p)} /\ call[p].left \in Unwritten
          /\ DOMAIN dirs[call[p].at] = WrittenBut(call[p].left)
          /\ \A f \in DOMAIN dirs[call[p].at] : dirs[call[p].at][f] = a
      BY <1>1 DEF OperatorAt, SoFar, WrittenSoFar
    <3> HIDE DEF a
    <3>2. call[p].at \in DOMAIN dirs /\ Head(call[p].left) \notin DOMAIN dirs[call[p].at]
      BY <2>0 DEF There, Has
    <3>3. QED
      BY <2>0, <3>1, <3>2
  <2>2. /\ \A q : q # place => SameAt(q)
        /\ place \in DOMAIN dirs' /\ dirs'[place] = Plus(old, file, a)
    BY <2>1, ChangedSame
  <2>3. /\ DOMAIN dirs'[place] = DOMAIN old \cup {file}
        /\ \A f \in DOMAIN dirs'[place] : dirs'[place][f] = a
    BY <2>1, <2>2 DEF Plus
  <2>4. place = New(p) => Whole(Current)'
    BY <1>1, <2>1, <2>2, PlacesDiffer, SameStays DEF SoFar, RenewedSoFar
  <2>5. CASE file # "profile"
    <3>1. /\ Goes(p, [left |-> Tail(left)])
          /\ Tail(left) \in Unwritten /\ WrittenBut(Tail(left)) = WrittenBut(left) \cup {file}
          /\ "profile" \notin WrittenBut(Tail(left))
      BY <2>1, <2>5, WrittenNext
    <3>2. /\ call'[p].stage = "write" /\ call'[p].left = Tail(left) /\ call'[p].at = place
          /\ call'[p].given = call[p].given /\ call'[p].outcome = call[p].outcome
      <4> DEFINE rest == Tail(left)
      <4>1. Goes(p, [left |-> rest]) /\ call[p].at = place
        BY <2>1, <3>1
      <4> HIDE DEF rest
      <4>2. /\ call'[p].left = rest /\ call'[p].stage = call[p].stage /\ call'[p].at = call[p].at
            /\ call'[p].given = call[p].given /\ call'[p].outcome = call[p].outcome
        BY <1>1, <4>1, GoesTakes, SMT DEF CallFields
      <4>3. QED
        BY <1>1, <4>1, <4>2 DEF rest
    <3>3. WrittenSoFar(p)'
      <4>1. The(call'[p].given) = a
        BY <3>2
      <4>2. /\ DOMAIN dirs'[place] = WrittenBut(Tail(left)) /\ place \in DOMAIN dirs'
            /\ \A f \in DOMAIN dirs'[place] : dirs'[place][f] = a
        BY <2>1, <2>2, <2>3, <3>1
      <4> HIDE DEF a
      <4>3. QED
        BY <3>2, <4>1, <4>2 DEF WrittenSoFar, There
    <3>4. ProfileVouches'
      <4>1. CASE place = Current
        BY <2>1, <2>3, <3>1, <4>1 DEF ProfileVouches, Has
      <4>2. CASE place # Current
        BY <1>1, <2>2, <4>2, VouchesStays
      <4>3. QED
        BY <4>1, <4>2
    <3>5. QED
      BY <1>1, <2>4, <3>2, <3>3, <3>4 DEF SoFar, ReadSoFar, RenewedSoFar, TakenSoFar, Reading
  <2>6. CASE file = "profile"
    <3>1. Whole(place)'
      <4>1. DOMAIN dirs'[place] = Files
        BY <2>1, <2>3, <2>6, WrittenNext
      <4>2. QED
        BY <2>2, <2>3, <4>1 DEF Whole, There, Files
    <3>2. ProfileVouches'
      <4>1. CASE place = Current
        BY <3>1, <4>1 DEF ProfileVouches
      <4>2. CASE place # Current
        BY <1>1, <2>2, <4>2, VouchesStays
      <4>3. QED
        BY <4>1, <4>2
    <3>3. CASE call[p].then = "swap"
      <4>1. Goes(p, [stage |-> "swap", left |-> <<>>])
        BY <2>1, <2>6, <3>3
      <4>2. call'[p].stage = "swap" /\ call'[p].outcome = call[p].outcome
        BY <1>1, <4>1, GoesTakes, SMT DEF CallFields
      <4>3. place = New(p)
        BY <1>1, <2>1, <3>3 DEF OperatorAt
      <4>4. QED
        BY <1>1, <2>4, <3>1, <3>2, <4>2, <4>3
        DEF SoFar, ReadSoFar, WrittenSoFar, RenewedSoFar, TakenSoFar, Reading
    <3>4. CASE call[p].then # "swap"
      <4>1. Goes(p, [stage |-> "profile", left |-> <<>>]) /\ call[p].then = "written"
        BY <1>1, <2>1, <2>6, <3>4 DEF OperatorAt
      <4>2. /\ call'[p].stage = "profile" /\ call'[p].outcome = call[p].outcome
            /\ call'[p].then = "written"
        BY <1>1, <4>1, GoesTakes, SMT DEF CallFields
      <4>3. QED
        BY <1>1, <3>2, <4>2, Settles
    <3>5. QED
      BY <3>3, <3>4
  <2>7. QED
    BY <2>5, <2>6
<1>4. QED
  BY <1>2, <1>3

(* A file that is unlinked is gone, and the others stay.                   *)
LEMMA UnlinkedIs ==
  ASSUME NEW place, NEW file, Has(place, file),
         dirs' = [dirs EXCEPT ![place] = Restrict(@, DOMAIN @ \ {file})]
  PROVE  /\ \A q : q # place => SameAt(q)
         /\ ~Has(place, file)'
         /\ \A other : Has(place, other)' => Has(place, other)
<1>1. place \in DOMAIN dirs
  BY DEF Has, There
<1>2. dirs'[place] = Restrict(dirs[place], DOMAIN dirs[place] \ {file})
  BY <1>1
<1>3. DOMAIN dirs'[place] = DOMAIN dirs[place] \ {file}
  BY <1>2 DEF Restrict
<1>4. QED
  BY <1>1, <1>3 DEF Has, There, SameAt

(* A record is discarded with its profile first, which may fail.           *)
LEMMA DiscardSoFar ==
  ASSUME Shape, NEW p \in Operators, OperatorAt(p), SoFar(p), ProfileVouches, DiscardFile(p)
  PROVE  SoFar(p)' /\ ProfileVouches'
<1> DEFINE rest == Tail(call[p].left)
<1>1. /\ p \in Procs /\ call[p].stage = "discard" /\ call[p].left # <<>>
      /\ Goes(p, [left |-> rest])
  BY DEF DiscardFile, At, Procs
<1>2. PICK place, file, left :
        /\ place = call[p].at /\ left = call[p].left /\ file = Head(left)
        /\ left \in Undiscarded /\ left # <<>>
        /\ \/ UNCHANGED dirs /\ faults' = faults /\ ~Has(place, file)
           \/ UNCHANGED dirs /\ faults' = faults \cup {"unlink"}
           \/ /\ Has(place, file) /\ faults' = faults
              /\ dirs' = [dirs EXCEPT ![place] = Restrict(@, DOMAIN @ \ {file})]
  BY <1>1 DEF DiscardFile, OperatorAt, NoFault, Fault
<1>3. /\ \A q : q # place => SameAt(q)
      /\ "unlink" \notin faults' => ~Has(place, file)'
      /\ \A other : Has(place, other)' => Has(place, other)
      /\ faults \subseteq faults'
  <2>1. CASE /\ Has(place, file) /\ faults' = faults
             /\ dirs' = [dirs EXCEPT ![place] = Restrict(@, DOMAIN @ \ {file})]
    BY <2>1, UnlinkedIs
  <2>2. CASE /\ UNCHANGED dirs
             /\ \/ faults' = faults /\ ~Has(place, file)
                \/ faults' = faults \cup {"unlink"}
    <3>1. SameAt(place) /\ \A q : SameAt(q)
      BY <2>2 DEF SameAt
    <3>2. \A other : Has(place, other)' <=> Has(place, other)
      BY <3>1, SameStays
    <3>3. QED
      BY <2>2, <3>1, <3>2
  <2>3. QED
    BY <1>2, <2>1, <2>2
<1> HIDE DEF rest
<1>4. /\ call'[p].stage = "discard" /\ call'[p].at = place /\ call'[p].left = rest
      /\ call'[p].then = call[p].then /\ call'[p].outcome = call[p].outcome
  BY <1>1, <1>2, GoesTakes, SMT DEF CallFields
<1>5. place = Current /\ "unlink" \notin faults' => ~Has(Current, "profile")'
  <2>1. CASE left = <<"profile", "root", "policy">>
    <3>1. file = "profile"
      BY <1>2, <2>1, SMT
    <3>2. QED
      BY <1>3, <3>1
  <2>2. CASE left # <<"profile", "root", "policy">>
    BY <1>1, <1>2, <1>3, <2>2 DEF SoFar, TakenSoFar
  <2>3. QED
    BY <2>1, <2>2
<1>6. ProfileVouches'
  <2>1. CASE place = Current
    BY <1>5, <2>1 DEF ProfileVouches
  <2>2. CASE place # Current
    BY <1>3, <2>2, VouchesStays
  <2>3. QED
    BY <2>1, <2>2
<1>7. RenewedSoFar(p)'
  <2>1. call[p].then = "rollback" => Whole(Previous(p))'
    <3>1. call[p].then = "rollback" => place # Previous(p)
      BY <1>1, <1>2, PlacesDiffer DEF OperatorAt
    <3>2. QED
      BY <1>1, <1>3, <3>1, SameStays DEF SoFar, RenewedSoFar
  <2>2. call[p].outcome = "kept" => Whole(Current)' /\ place = New(p)
    <3>1. call[p].outcome = "kept" => place = New(p) /\ place # Current
      BY <1>1, <1>2, PlacesDiffer DEF SoFar, RenewedSoFar
    <3>2. QED
      BY <1>1, <1>3, <3>1, SameStays DEF SoFar, RenewedSoFar
  <2>3. QED
    BY <1>4, <2>1, <2>2 DEF RenewedSoFar, Reading
<1>8. ReadSoFar(p)' /\ WrittenSoFar(p)' /\ TakenSoFar(p)'
  BY <1>4, <1>5 DEF ReadSoFar, WrittenSoFar, TakenSoFar
<1>9. QED
  BY <1>6, <1>7, <1>8 DEF SoFar

(* Its directory is removed when it is empty.                              *)
LEMMA DiscardedSoFar ==
  ASSUME Shape, NEW p \in Operators, OperatorAt(p), SoFar(p), ProfileVouches,
         DiscardDirectory(p)
  PROVE  SoFar(p)' /\ ProfileVouches'
<1>1. p \in Procs /\ call[p].stage = "discard" /\ faults' = faults
  BY DEF DiscardDirectory, At, NoFault, Procs
<1>2. PICK place :
        /\ place = call[p].at
        /\ dirs' = dirs \/ dirs' = Restrict(dirs, DOMAIN dirs \ {place})
  BY DEF DiscardDirectory, Without
<1>3. /\ \A q : q # place => SameAt(q)
      /\ SameAt(place) \/ place \notin DOMAIN dirs'
  BY <1>2, RestrictedSame DEF SameAt
<1>4. ProfileVouches'
  <2>1. CASE SameAt(Current)
    BY <1>1, <2>1, VouchesStays
  <2>2. CASE ~SameAt(Current)
    BY <1>3, <2>2 DEF ProfileVouches, Has, There
  <2>3. QED
    BY <2>1, <2>2
<1>5. CASE call[p].then = "renewal"
  <2>1. Goes(p, [stage |-> "cleanup", outcome |-> "renewed"])
    BY <1>5 DEF DiscardDirectory
  <2>2. call'[p].stage = "cleanup" /\ call'[p].outcome = "renewed"
    BY <1>1, <2>1, GoesTakes, SMT DEF CallFields
  <2>3. QED
    BY <1>4, <2>2, Settles
<1>6. CASE call[p].then # "renewal"
  <2>1. Goes(p, [stage |-> call[p].then])
    BY <1>6 DEF DiscardDirectory, GoesTo
  <2>2. call'[p].stage = call[p].then /\ call'[p].outcome = call[p].outcome
    BY <1>1, <2>1, MovesOn DEF CallFields
  <2>3. CASE place = Current
    <3>1. call[p].then \in {"refused", "rollback"} /\ call[p].outcome # "kept"
      BY <1>1, <1>2, <1>6, <2>3, PlacesDiffer DEF OperatorAt, SoFar, RenewedSoFar
    <3>2. call[p].then = "rollback" => Whole(Previous(p))'
      BY <1>1, <1>3, <2>3, PlacesDiffer, SameStays DEF SoFar, RenewedSoFar
    <3>3. QED
      BY <1>4, <2>2, <3>1, <3>2
      DEF SoFar, ReadSoFar, WrittenSoFar, RenewedSoFar, TakenSoFar, Reading
  <2>4. CASE place # Current
    <3>1. call[p].then \in {"cleanup", "emptied"}
      BY <1>1, <1>2, <1>6, <2>4 DEF OperatorAt
    <3>2. call[p].outcome = "kept" => Whole(Current)'
      BY <1>3, <2>4, SameStays DEF SoFar, RenewedSoFar
    <3>3. QED
      BY <1>4, <2>2, <3>1, <3>2
      DEF SoFar, ReadSoFar, WrittenSoFar, RenewedSoFar, TakenSoFar, Reading
  <2>5. QED
    BY <2>3, <2>4
<1>7. QED
  BY <1>5, <1>6

(* A swap moves whole records, and a failed one leaves them where they are.*)
LEMMA SwapSoFar ==
  ASSUME Shape, NEW p \in Operators, SoFar(p), ProfileVouches,
         SetAside(p) \/ InstallNew(p) \/ RestorePrevious(p)
  PROVE  SoFar(p)' /\ ProfileVouches'
<1>1. /\ p \in Procs /\ call[p].stage \in {"swap", "install", "rollback"}
      /\ call[p].outcome # "kept"
      /\ faults \subseteq faults'
      /\ call[p].stage = "swap" <=> SetAside(p)
      /\ call[p].stage = "install" <=> InstallNew(p)
      /\ call[p].stage = "rollback" <=> RestorePrevious(p)
  BY NotKept
  DEF SetAside, InstallNew, RestorePrevious, Renames, At, NoFault, Fault, Procs
<1>2. ASSUME UNCHANGED dirs PROVE ProfileVouches' /\ \A q : SameAt(q)
  <2>1. SameAt(Current) /\ \A q : SameAt(q)
    BY <1>2 DEF SameAt
  <2>2. QED
    BY <1>1, <2>1, VouchesStays
<1>3. CASE UNCHANGED dirs /\ Goes(p, [stage |-> "cleanup", outcome |-> "inspect"])
  <2>1. call'[p].stage = "cleanup" /\ call'[p].outcome = "inspect"
    BY <1>1, <1>3, GoesTakes, SMT DEF CallFields
  <2>2. QED
    BY <1>2, <1>3, <2>1, Settles
<1>4. CASE SetAside(p) /\ ~(UNCHANGED dirs /\ Goes(p, [stage |-> "cleanup", outcome |-> "inspect"]))
  <2>1. /\ There(Current) /\ dirs' = Moved(Current, Previous(p))
        /\ Goes(p, [stage |-> "install"])
    BY <1>4 DEF SetAside, Renames
  <2>2. /\ Current \notin DOMAIN dirs' /\ SameAt(New(p))
        /\ Whole(Previous(p))' <=> Whole(Current)
    BY <2>1, PlacesDiffer, MovedSame DEF There
  <2>3. Whole(New(p))' /\ Whole(Previous(p))'
    BY <1>1, <1>4, <2>2, SameStays DEF SoFar, RenewedSoFar
  <2>4. call'[p].stage = "install" /\ call'[p].outcome = call[p].outcome
    BY <1>1, <2>1, MovesOn DEF CallFields
  <2>5. ProfileVouches'
    BY <2>2 DEF ProfileVouches, Has, There
  <2>6. QED
    BY <1>1, <2>3, <2>4, <2>5
    DEF SoFar, ReadSoFar, WrittenSoFar, RenewedSoFar, TakenSoFar, Reading
<1>5. CASE InstallNew(p)
  <2>1. CASE UNCHANGED dirs /\ Goes(p, [stage |-> "rollback"])
    <3>1. call'[p].stage = "rollback" /\ call'[p].outcome = call[p].outcome
      BY <1>1, <2>1, MovesOn DEF CallFields
    <3>2. ProfileVouches' /\ Whole(Previous(p))'
      BY <1>1, <1>2, <1>5, <2>1, SameStays DEF SoFar, RenewedSoFar
    <3>3. QED
      BY <1>1, <3>1, <3>2
      DEF SoFar, ReadSoFar, WrittenSoFar, RenewedSoFar, TakenSoFar, Reading
  <2>2. CASE ~(UNCHANGED dirs /\ Goes(p, [stage |-> "rollback"]))
    <3>1. /\ There(New(p)) /\ dirs' = Moved(New(p), Current)
          /\ Goes(p, [stage |-> "profile", then |-> "renewed"])
      BY <1>5, <2>2 DEF InstallNew, Renames
    <3>2. /\ SameAt(Previous(p))
          /\ Whole(Current)' <=> Whole(New(p))
      BY <3>1, PlacesDiffer, MovedSame DEF There
    <3>3. Whole(Current)' /\ Whole(Previous(p))'
      BY <1>1, <1>5, <3>2, SameStays DEF SoFar, RenewedSoFar
    <3>4. /\ call'[p].stage = "profile" /\ call'[p].then = "renewed"
          /\ call'[p].outcome = call[p].outcome
      BY <1>1, <3>1, GoesTakes, SMT DEF CallFields
    <3>5. QED
      BY <1>1, <3>3, <3>4
      DEF SoFar, ReadSoFar, WrittenSoFar, RenewedSoFar, TakenSoFar, Reading, ProfileVouches
  <2>3. QED
    BY <2>1, <2>2
<1>6. CASE /\ RestorePrevious(p)
           /\ ~(UNCHANGED dirs /\ Goes(p, [stage |-> "cleanup", outcome |-> "inspect"]))
  <2>1. /\ There(Previous(p)) /\ dirs' = Moved(Previous(p), Current)
        /\ Goes(p, [stage |-> "cleanup", outcome |-> "kept"])
    BY <1>6 DEF RestorePrevious, Renames
  <2>2. Whole(Current)'
    <3>1. Whole(Current)' <=> Whole(Previous(p))
      BY <2>1, PlacesDiffer, MovedSame DEF There
    <3>2. QED
      BY <1>1, <1>6, <3>1 DEF SoFar, RenewedSoFar
  <2>3. call'[p].stage = "cleanup" /\ call'[p].outcome = "kept"
    BY <1>1, <2>1, GoesTakes, SMT DEF CallFields
  <2>4. QED
    BY <2>2, <2>3
    DEF SoFar, ReadSoFar, WrittenSoFar, RenewedSoFar, TakenSoFar, Reading, ProfileVouches
<1>7. QED
  BY <1>3, <1>4, <1>5, <1>6

(* The holding directory goes with what is in it, and nothing else does.   *)
LEMMA CleanSoFar ==
  ASSUME Shape, NEW p \in Operators, SoFar(p), ProfileVouches, CleanUp(p) \/ Emptied(p)
  PROVE  SoFar(p)' /\ ProfileVouches'
<1>1. /\ p \in Procs /\ call[p].stage \in {"cleanup", "emptied"} /\ faults' = faults
      /\ \/ dirs' = dirs
         \/ dirs' = Restrict(dirs, DOMAIN dirs \ {Previous(p)})
         \/ dirs' = Restrict(dirs, DOMAIN dirs \ {New(p), Previous(p)})
  BY DEF CleanUp, Emptied, At, NoFault, Without, Procs
<1>2. SameAt(Current)
  <2>1. Current \notin {Previous(p)} /\ Current \notin {New(p), Previous(p)}
    BY PlacesDiffer
  <2>2. QED
    BY <1>1, <2>1, RestrictedSame DEF SameAt
<1>3. ProfileVouches'
  BY <1>1, <1>2, VouchesStays
<1>4. CASE Returns(p)
  BY <1>1, <1>3, <1>4, ReturnsTakes, Settles
<1>5. CASE ~Returns(p)
  <2>1. Goes(p, [stage |-> "discard", at |-> New(p), left |-> <<"profile", "root", "policy">>,
                 then |-> "emptied"])
    BY <1>5 DEF CleanUp, Emptied
  <2>2. /\ call'[p].stage = "discard" /\ call'[p].at = New(p) /\ call'[p].then = "emptied"
        /\ call'[p].outcome = call[p].outcome
    BY <1>1, <2>1, GoesTakes, SMT DEF CallFields
  <2>3. call[p].outcome = "kept" => Whole(Current)'
    BY <1>2, SameStays DEF SoFar, RenewedSoFar
  <2>4. QED
    BY <1>3, <2>2, <2>3, PlacesDiffer
    DEF SoFar, ReadSoFar, WrittenSoFar, RenewedSoFar, TakenSoFar, Reading
<1>6. QED
  BY <1>4, <1>5

(* Removal takes the profile first.                                        *)
LEMMA RemoveSoFar ==
  ASSUME Shape, NEW p \in Operators, OperatorAt(p), SoFar(p), ProfileVouches,
         UnlinkFile(p) \/ RemoveDirectory(p)
  PROVE  SoFar(p)' /\ ProfileVouches'
<1>1. /\ p \in Procs /\ call[p].stage = "unlink" /\ call[p].outcome # "kept"
      /\ faults \subseteq faults'
  BY NotKept DEF UnlinkFile, RemoveDirectory, At, NoFault, Fault, Procs
<1>2. CASE UNCHANGED dirs /\ (Goes(p, [stage |-> "refused"]) \/ Returns(p))
  <2>1. SameAt(Current)
    BY <1>2 DEF SameAt
  <2>2. /\ call'[p].stage \in {"refused", "idle"}
        /\ call'[p].outcome # "kept"
    BY <1>1, <1>2, MovesOn, ReturnsTakes DEF CallFields
  <2>3. QED
    BY <1>1, <2>1, <2>2, VouchesStays, Settles
<1>3. CASE RemoveDirectory(p)
  <2>1. SameAt(Current) \/ Current \notin DOMAIN dirs'
    BY <1>3, RestrictedSame DEF RemoveDirectory, Without, SameAt
  <2>2. ProfileVouches'
    BY <1>1, <2>1, VouchesStays DEF ProfileVouches, Has, There
  <2>3. QED
    BY <1>1, <1>3, <2>2, ReturnsTakes, Settles DEF RemoveDirectory
<1>4. CASE UnlinkFile(p) /\ ~(UNCHANGED dirs /\ Goes(p, [stage |-> "refused"]))
  <2> DEFINE rest == Tail(call[p].left)
  <2>1. /\ call[p].left # <<>> /\ Goes(p, [left |-> rest])
        /\ Has(Current, Head(call[p].left))
        /\ dirs' = [dirs EXCEPT ![Current] = Restrict(@, DOMAIN @ \ {Head(call[p].left)})]
    BY <1>4 DEF UnlinkFile, GoesTo
  <2>2. PICK file, left :
          /\ left = call[p].left /\ file = Head(left) /\ Has(Current, file)
          /\ dirs' = [dirs EXCEPT ![Current] = Restrict(@, DOMAIN @ \ {file})]
    BY <2>1
  <2>3. /\ ~Has(Current, file)'
        /\ \A other : Has(Current, other)' => Has(Current, other)
    BY <2>2, UnlinkedIs
  <2> HIDE DEF rest
  <2>4. /\ call'[p].stage = "unlink" /\ call'[p].left = rest
        /\ call'[p].outcome = call[p].outcome
    BY <1>1, <2>1, GoesTakes, SMT DEF CallFields
  <2>5. ~Has(Current, "profile")'
    <3>1. CASE left = <<"profile", "policy", "root">>
      <4>1. file = "profile"
        BY <2>2, <3>1, SMT
      <4>2. QED
        BY <2>3, <4>1
    <3>2. CASE left # <<"profile", "policy", "root">>
      BY <1>1, <2>2, <2>3, <3>2 DEF SoFar, TakenSoFar
    <3>3. QED
      BY <3>1, <3>2
  <2>6. QED
    BY <1>1, <2>4, <2>5
    DEF SoFar, ReadSoFar, WrittenSoFar, RenewedSoFar, TakenSoFar, Reading, ProfileVouches
<1>5. QED
  BY <1>2, <1>3, <1>4

(* So a step of the only operator leaves the record as it should be.       *)
LEMMA OperatorSoFar ==
  ASSUME Shape, FilesAre, NEW p \in Operators, OperatorAt(p), SoFar(p), ProfileVouches,
         ProfileStep(p)
  PROVE  SoFar(p)' /\ ProfileVouches'
<1>1. ASSUME UNCHANGED <<dirs, faults>> PROVE ProfileVouches'
  BY <1>1 DEF ProfileVouches, Has, There, Whole
<1>2. CASE ReadSource(p)
  BY <1>1, <1>2, ReaderSoFar
<1>3. CASE \/ Enroll(p) \/ GivePolicy(p) \/ FindExisting(p) \/ CompareExisting(p)
           \/ MatchExisting(p) \/ Remove(p) \/ Refuse(p)
  BY <1>1, <1>3, EnrollSoFar
<1>4. CASE CreateRecord(p)
  BY <1>4, CreateSoFar
<1>5. CASE WriteFile(p)
  BY <1>5, WriteSoFar
<1>6. CASE DiscardFile(p)
  BY <1>6, DiscardSoFar
<1>7. CASE DiscardDirectory(p)
  BY <1>7, DiscardedSoFar
<1>8. CASE SetAside(p) \/ InstallNew(p) \/ RestorePrevious(p)
  BY <1>8, SwapSoFar
<1>9. CASE CleanUp(p) \/ Emptied(p)
  BY <1>9, CleanSoFar
<1>10. CASE UnlinkFile(p) \/ RemoveDirectory(p)
  BY <1>10, RemoveSoFar
<1>11. QED
  BY <1>2, <1>3, <1>4, <1>5, <1>6, <1>7, <1>8, <1>9, <1>10
  DEF ProfileStep, EnrollSource, ReplaceSource, RemoveSource

(* A step of another process leaves an operator's places alone.            *)
LEMMA OtherSoFar ==
  ASSUME NEW p \in Operators, OperatorAt(p), SoFar(p), call'[p] = call[p],
         SameAt(Current), SameAt(New(p)), SameAt(Previous(p)), faults \subseteq faults'
  PROVE  SoFar(p)'
<1>1. /\ \A place \in {Current, New(p), Previous(p)} : Whole(place)' <=> Whole(place)
      /\ \A file : Has(Current, file)' <=> Has(Current, file)
  BY SameStays
<1>2. Has(Current, "profile") => dirs'[Current] = dirs[Current]
  BY DEF Has, There, SameAt
<1>3. ReadSoFar(p)'
  BY <1>1, <1>2 DEF SoFar, ReadSoFar
<1>4. WrittenSoFar(p)'
  BY DEF SoFar, WrittenSoFar, OperatorAt, SameAt, There
<1>5. RenewedSoFar(p)' /\ TakenSoFar(p)'
  BY <1>1 DEF SoFar, RenewedSoFar, TakenSoFar, Reading
<1>6. QED
  BY <1>3, <1>4, <1>5 DEF SoFar

LEMMA RecordStep ==
  ASSUME \A p, q \in Operators : p = q, ContentInv, RecordInv, [Next]_vars
  PROVE  RecordInv'
<1>1. ASSUME UNCHANGED dirs, faults \subseteq faults',
             \A p \in Operators : call'[p] = call[p]
      PROVE  RecordInv'
  <2>1. \A place : SameAt(place)
    BY <1>1 DEF SameAt
  <2>2. QED
    BY <1>1, <2>1, OtherSoFar, VouchesStays DEF RecordInv, ContentInv
<1>2. ASSUME NEW p \in Procs, Approve(p) PROVE RecordInv'
  <2>1. CASE p \in Operators
    <3>1. SoFar(p)' /\ ProfileVouches'
      BY <1>2, <2>1, OperatorSoFar DEF RecordInv, ContentInv, Approve
    <3>2. QED
      BY <2>1, <3>1 DEF RecordInv
  <2>2. CASE p \in Users
    <3>1. UNCHANGED dirs /\ faults' = faults
      <4>1. p \notin Operators /\ UserAt(p)
        BY <2>2, ProfilesAssumption DEF ProfilesAssumption, ContentInv, UserHolds
      <4>2. ReadSource(p) \/ Refuse(p)
        BY <1>2, <4>1
        DEF Approve, UserAt, Reading, Holding, Checked, ProfileStep, EnrollSource, Enroll,
            GivePolicy, FindExisting, CompareExisting, MatchExisting, CreateRecord, WriteFile,
            DiscardFile, DiscardDirectory, ReplaceSource, SetAside, InstallNew,
            RestorePrevious, CleanUp, Emptied, RemoveSource, Remove, UnlinkFile,
            RemoveDirectory, At
      <4>3. QED
        BY <4>2
        DEF ReadSource, ReadProfile, ReadPolicy, ReadRoot, LoadPolicy, Refuse, OnlyCall, NoFault
    <3>2. \A q \in Operators : call'[q] = call[q]
      BY <1>2, <2>2, ProfileStepIsOwn, ProfilesAssumption
      DEF ProfilesAssumption, ContentInv, Approve, OwnCall, Procs
    <3>3. QED
      BY <1>1, <3>1, <3>2
  <2>3. QED
    BY <2>1, <2>2 DEF Procs
<1>3. ASSUME NEW p \in Procs, Crash(p) PROVE RecordInv'
  <2>1. /\ dirs' = Restrict(dirs, DOMAIN dirs \ {New(p), Previous(p)})
        /\ faults \subseteq faults' /\ Returns(p)
    BY <1>3 DEF Crash, Fault
  <2>2. SameAt(Current) /\ \A q : q # p => SameAt(New(q)) /\ SameAt(Previous(q))
    <3>1. Current \notin {New(p), Previous(p)}
      BY PlacesDiffer
    <3>2. \A q : q # p => New(q) \notin {New(p), Previous(p)} /\ Previous(q) \notin {New(p), Previous(p)}
      BY PlacesDiffer
    <3>3. QED
      BY <2>1, <3>1, <3>2, RestrictedSame
  <2>3. ProfileVouches'
    BY <2>1, <2>2, VouchesStays DEF RecordInv
  <2>4. ASSUME NEW q \in Operators PROVE SoFar(q)'
    <3>1. CASE q = p
      BY <2>1, <2>4, <3>1, ReturnsTakes, Settles DEF ContentInv, Procs
    <3>2. CASE q # p
      <4>1. call'[q] = call[q]
        BY <2>1, <3>2, ReturnsTakes DEF ContentInv, Procs
      <4>2. QED
        BY <2>1, <2>2, <2>4, <3>2, <4>1, OtherSoFar DEF ContentInv, RecordInv
    <3>3. QED
      BY <3>1, <3>2
  <2>5. QED
    BY <2>3, <2>4 DEF RecordInv
<1>4. ASSUME NEW p \in Users, UserStep(p) PROVE RecordInv'
  <2>1. OwnCall(p) /\ UNCHANGED dirs
    BY <1>4, UserStepIsOwn DEF ContentInv
  <2>2. faults \subseteq faults'
    BY <1>4
    DEF UserStep, Deploy, Acquire, WritePin, StartDeploy, BindApproval, Lease, StartVerify,
        Attest, Revalidate, CheckReceipt, CheckRoot, Execute, Resolve, Reuse, FetchProof,
        LeaseAgain, FetchPackage, StartPin, LockProject, ComparePin, ReplacePin, Quiet,
        OnlyCall, NoFault, Fault
  <2>3. QED
    BY <1>1, <2>1, <2>2, ProfilesAssumption DEF ProfilesAssumption, OwnCall, Procs
<1>5. CASE UNCHANGED <<dirs, call, faults>>
  BY <1>1, <1>5
<1>6. QED
  BY <1>2, <1>3, <1>4, <1>5
  DEF Next, UserStep, Evict, Republish, Tick, profileVars, vars

(* When one operator at a time works on a record (there is no lock, and    *)
(* two can lose one), a profile in place vouches for the whole of it, and  *)
(* a failed renewal keeps the one it found, whatever else fails, dies or   *)
(* reads (source_profiles.py, _write_record and _replace_source).          *)
THEOREM RecordsSurvive ==
  ASSUME \A p, q \in Operators : p = q
  PROVE  Spec => []ApprovalSurvives
<1>1. Init => RecordInv
  <2> SUFFICES ASSUME Init PROVE RecordInv
    OBVIOUS
  <2>1. \A p \in Procs : call[p].stage = "idle" /\ call[p].outcome = "none"
    BY SMT DEF Init, ProfilesInit, Idle
  <2>2. \A p \in Operators : SoFar(p)
    BY <2>1 DEF Procs, SoFar, ReadSoFar, WrittenSoFar, RenewedSoFar, TakenSoFar, Reading
  <2>3. ProfileVouches
    <3>1. CASE dirs = <<>>
      <4>1. DOMAIN dirs = {}
        BY <3>1, SMT
      <4>2. QED
        BY <4>1 DEF ProfileVouches, Has, There
    <3>2. CASE \E a \in Approval : dirs = [place \in {Current} |-> Record(a)]
      <4>1. PICK a \in Approval : dirs = [place \in {Current} |-> Record(a)]
        BY <3>2
      <4>2. Current \in DOMAIN dirs /\ dirs[Current] = [file \in Files |-> a]
        BY <4>1 DEF Record
      <4>3. QED
        BY <4>2 DEF ProfileVouches, Whole, There, Files
    <3>3. QED
      BY <3>1, <3>2 DEF Init, ProfilesInit
  <2>4. QED
    BY <2>2, <2>3 DEF RecordInv
<1>2. RecordInv => ApprovalSurvives
  BY DEF RecordInv, SoFar, RenewedSoFar, ApprovalSurvives, FailedRenewalKeeps
<1>3. ContentInv /\ RecordInv /\ [Next]_vars => RecordInv'
  BY RecordStep
<1>4. QED
  BY <1>1, <1>2, <1>3, ContentCorrect, PTL DEF Spec
=================================================================================
