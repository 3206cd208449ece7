----------------------------- MODULE PinnedContent -----------------------------
(***************************************************************************)
(* Commands that pin a release (`project pin`) and that use the pinned one *)
(* (`plan`, `deploy`), beside commands that change the approval both rely  *)
(* on: project.py, command_context.py, github_workspace_acquisition.py and *)
(* workspace_acquisition.py over the approvals of SourceProfiles.          *)
(*                                                                         *)
(* The package cache is what CacheStore shows it to be: a package or proof *)
(* is there or not, a lease keeps it, and its bytes are verified under the *)
(* lease.  A release is known by what it resolves to; its publisher may    *)
(* publish it anew.  A download gives the identified bytes or fails, which *)
(* AssetTransfer shows.                                                    *)
(***************************************************************************)
EXTENDS SourceProfiles

CONSTANTS
  Releases,      \* what the release of the project's source may resolve to
  Source,        \* the publisher of them
  NoPin,
  MaxChanges     \* bound on what the publisher and `cache remove` change

ASSUME ContentAssumption ==
  Source \in Publishers /\ NoPin \notin Releases /\ MaxChanges \in Nat

VARIABLES
  pin,        \* the workspace pin of the project
  published,  \* what the release resolves to at its source
  cached,     \* the packages and proofs in the cache
  want,       \* each user: the release it selected, the pin it read, what it missed
  pinLock,    \* the process that holds project.lock
  inEffect,   \* history: policies seen in place since a revalidation began
  changes

contentVars == <<pin, published, cached, want, pinLock, inEffect, changes>>
vars == <<profileVars, contentVars>>

Nothing == [release |-> {}, base |-> {}, missing |-> "none", restored |-> FALSE, asked |-> 0]

Init ==
  /\ ProfilesInit
  /\ pin \in Releases \cup {NoPin} /\ published \in Releases /\ cached = {}
  /\ want = [p \in Users |-> Nothing]
  /\ pinLock = {} /\ inEffect = [p \in Users |-> {}] /\ changes = 0

------------------------------------------------------------------------------
(* Helpers *)

Selected(p) == CHOOSE r \in want[p].release : TRUE
Package(r) == <<"package", r>>
Proof(r) == <<"proof", r>>

InPlace == IF Has(Current, "policy") THEN {dirs[Current]["policy"]} ELSE {}

\* The policy file as the verifier finds it: for this source, in force, with its root.
PolicyInForce ==
  {a \in InPlace : /\ a.publisher = Source /\ a.until > now
                   /\ Has(Current, "root") /\ dirs[Current]["root"].root = a.root}

Quiet == OnlyCall /\ UNCHANGED inEffect
KeepPin == UNCHANGED <<pin, pinLock>>
KeepSource == UNCHANGED <<published, changes>>
Want(p, fields) == want' = [want EXCEPT ![p] = Changed(@, fields)]

\* An error ends the command; the leases and the lock go with it.
Fails(p) ==
  /\ Returns(p)
  /\ want' = [want EXCEPT ![p] = Nothing]

------------------------------------------------------------------------------
(* The commands *)

\* `deploy` starts from the pin, `project pin` from the approval.
StartDeploy(p) ==
  /\ p \in Users /\ MayStart(p, MaxUses) /\ pin # NoPin
  /\ call' = [call EXCEPT ![p] =
       [Idle EXCEPT !.runs = call[p].runs + 1, !.command = "deploy", !.then = "bound",
                    !.stage = IF There(Current) THEN "profile" ELSE "refused"]]
  /\ want' = [want EXCEPT ![p] = [Nothing EXCEPT !.release = {pin}]]
  /\ Quiet /\ KeepPin /\ KeepSource /\ UNCHANGED cached

StartPin(p) ==
  /\ p \in Users /\ MayStart(p, MaxUses)
  /\ call' = [call EXCEPT ![p] =
       [Idle EXCEPT !.runs = call[p].runs + 1, !.command = "pin", !.then = "bound",
                    !.stage = IF There(Current) THEN "profile" ELSE "refused"]]
  /\ want' = [want EXCEPT ![p] = Nothing]
  /\ Quiet /\ KeepPin /\ KeepSource /\ UNCHANGED cached

\* The approval must be for the source; `project pin` then reads the pin it may replace.
BindApproval(p) ==
  /\ At(p, "bound")
  /\ IF The(call[p].seen).publisher # Source THEN Fails(p)
     ELSE IF call[p].command = "deploy"
       THEN Goes(p, [stage |-> "lease", seen |-> {}]) /\ UNCHANGED want
       ELSE Goes(p, [stage |-> "resolve", seen |-> {}]) /\ Want(p, [base |-> {pin}])
  /\ Quiet /\ KeepPin /\ KeepSource /\ UNCHANGED cached

------------------------------------------------------------------------------
(* Leasing and verifying a package *)

\* What the cache answers before it verifies.
Misses(r) ==
  IF Package(r) \notin cached THEN "package"
  ELSE IF Proof(r) \notin cached THEN "proof" ELSE "none"

\* A miss is answered by one acquisition, and only the first time.
Lease(p) ==
  /\ At(p, "lease")
  /\ LET missing == Misses(Selected(p)) IN
     IF missing = "none" THEN Goes(p, [stage |-> "verify", then |-> "used"]) /\ UNCHANGED want
     ELSE IF want[p].restored THEN Fails(p)
     ELSE GoesTo(p, "resolve") /\ Want(p, [restored |-> TRUE])
  /\ Quiet /\ KeepPin /\ KeepSource /\ UNCHANGED cached

\* The verifier reads the policy, verifies under a lease of the proof, and reads the
\* policy again: a receipt is for one policy.
StartVerify(p) ==
  /\ At(p, "verify")
  /\ IF PolicyInForce = {} \/ Proof(Selected(p)) \notin cached THEN Fails(p)
     ELSE Goes(p, [stage |-> "attest", receipt |-> PolicyInForce]) /\ UNCHANGED want
  /\ Quiet /\ KeepPin /\ KeepSource /\ UNCHANGED cached

\* The attestation may be refused.  A publication stores the package afterwards.
Attest(p) ==
  /\ At(p, "attest")
  /\ \/ Fails(p) /\ UNCHANGED cached
     \/ /\ PolicyInForce = call[p].receipt
        /\ GoesTo(p, IF call[p].then = "used" THEN "prepare"
                     ELSE IF call[p].command = "pin" THEN "lock" ELSE "lease")
        /\ cached' = IF call[p].then = "published"
                       THEN cached \cup {Package(Selected(p))} ELSE cached
        /\ UNCHANGED want
  /\ Quiet /\ KeepPin /\ KeepSource

------------------------------------------------------------------------------
(* acquire: resolve the release again and fetch what is missing *)

\* A release that no longer resolves to the pin is never fetched for it.
Resolve(p) ==
  /\ At(p, "resolve")
  /\ \/ Fails(p)
     \/ /\ PolicyInForce # {}
        /\ want[p].release \in {{}, {published}}
        /\ GoesTo(p, "reuse")
        /\ Want(p, [release |-> {published}])
  /\ Quiet /\ KeepPin /\ KeepSource /\ UNCHANGED cached

\* What is cached already is leased; what is missing decides what is downloaded.
Reuse(p) ==
  /\ At(p, "reuse")
  /\ LET missing == Misses(Selected(p)) IN
     /\ Want(p, [missing |-> missing])
     /\ IF missing = "none" THEN Goes(p, [stage |-> "verify", then |-> "acquired"])
                            ELSE GoesTo(p, "proof")
  /\ Quiet /\ KeepPin /\ KeepSource /\ UNCHANGED cached

\* The proof comes first, for a package is not published without one.
FetchProof(p) ==
  /\ At(p, "proof")
  /\ \/ Proof(Selected(p)) \notin cached /\ Fails(p) /\ UNCHANGED cached
     \/ /\ cached' = cached \cup {Proof(Selected(p))}
        /\ IF want[p].missing = "proof" THEN GoesTo(p, "again") ELSE GoesTo(p, "package")
        /\ UNCHANGED want
  /\ Quiet /\ KeepPin /\ KeepSource

LeaseAgain(p) ==
  /\ At(p, "again")
  /\ IF Misses(Selected(p)) = "none"
       THEN Goes(p, [stage |-> "verify", then |-> "acquired"]) /\ UNCHANGED want
       ELSE Fails(p)
  /\ Quiet /\ KeepPin /\ KeepSource /\ UNCHANGED cached

FetchPackage(p) ==
  /\ At(p, "package")
  /\ \/ Fails(p)
     \/ /\ Proof(Selected(p)) \in cached
        /\ Goes(p, [stage |-> "verify", then |-> "published"])
        /\ UNCHANGED want
  /\ Quiet /\ KeepPin /\ KeepSource /\ UNCHANGED cached

------------------------------------------------------------------------------
(* revalidate: a plan is executed under the approval it was reviewed under *)

\* The plan has been prepared and confirmed, after however long.
Revalidate(p) ==
  /\ At(p, "prepare")
  /\ Goes(p, [stage |-> IF There(Current) THEN "profile" ELSE "refused", then |-> "receipt",
              seen |-> {}])
  /\ Want(p, [asked |-> now])
  /\ inEffect' = [inEffect EXCEPT ![p] = InPlace]
  /\ OnlyCall /\ KeepPin /\ KeepSource /\ UNCHANGED cached

\* Mutant: the approval need only be readable and the receipt in force.
CheckUnhashed(p) ==
  /\ At(p, "receipt")
  /\ IF /\ The(call[p].seen).publisher = Source
        /\ The(call[p].receipt).until > now
       THEN GoesTo(p, "root hash") /\ UNCHANGED want
       ELSE Fails(p)
  /\ Quiet /\ KeepPin /\ KeepSource /\ UNCHANGED cached

\* The receipt is still in force, and for the policy that is in place now.
CheckReceipt(p) ==
  /\ At(p, "receipt")
  /\ IF /\ The(call[p].seen).publisher = Source
        /\ The(call[p].receipt).until > now
        /\ InPlace = call[p].receipt
       THEN GoesTo(p, "root hash") /\ UNCHANGED want
       ELSE Fails(p)
  /\ Quiet /\ KeepPin /\ KeepSource /\ UNCHANGED cached

CheckRoot(p) ==
  /\ At(p, "root hash")
  /\ IF Has(Current, "root") /\ dirs[Current]["root"].root = The(call[p].receipt).root
       THEN GoesTo(p, "execute") /\ UNCHANGED want
       ELSE Fails(p)
  /\ Quiet /\ KeepPin /\ KeepSource /\ UNCHANGED cached

Execute(p) ==
  /\ At(p, "execute")
  /\ Returns(p)
  /\ Want(p, Nothing)
  /\ inEffect' = [inEffect EXCEPT ![p] = {}]
  /\ OnlyCall /\ KeepPin /\ KeepSource /\ UNCHANGED cached

------------------------------------------------------------------------------
(* write_pin: compare and set under project.lock *)

\* The lock is waited for no longer than its timeout.
LockProject(p) ==
  /\ At(p, "lock")
  /\ \/ pinLock = {} /\ pinLock' = {p} /\ GoesTo(p, "read pin") /\ UNCHANGED want
     \/ pinLock # {} /\ Fails(p) /\ UNCHANGED pinLock
  /\ Quiet /\ KeepSource /\ UNCHANGED <<pin, cached>>

\* Mutant: the pin is not read again under the lock.
TrustBase(p) ==
  /\ At(p, "read pin")
  /\ GoesTo(p, "replace pin") /\ UNCHANGED <<want, pinLock>>
  /\ Quiet /\ KeepSource /\ UNCHANGED <<pin, cached>>

ComparePin(p) ==
  /\ At(p, "read pin")
  /\ \/ want[p].base = {pin} /\ GoesTo(p, "replace pin") /\ UNCHANGED <<want, pinLock>>
     \/ want[p].base # {pin} /\ Fails(p) /\ pinLock' = {}
  /\ Quiet /\ KeepSource /\ UNCHANGED <<pin, cached>>

\* The new pin is written aside and renamed over the old one, or a file operation fails.
ReplacePin(p) ==
  /\ At(p, "replace pin")
  /\ \/ /\ pin' = Selected(p)
        /\ Returns(p) /\ Want(p, Nothing)
        /\ NoFault
     \/ /\ Fault("rename") /\ Fails(p) /\ UNCHANGED pin
  /\ pinLock' = {}
  /\ KeepTime /\ KeepSource /\ UNCHANGED <<dirs, cached, inEffect>>

------------------------------------------------------------------------------
(* The world around the commands *)

\* A package is leased while it is verified and used, a proof while it is verified.
Leased ==
  {Package(Selected(p)) : p \in {q \in Users : call[q].stage \in
      {"verify", "attest", "prepare", "receipt", "root hash", "execute"}
      \/ (call[q].then = "receipt" /\ call[q].stage # "idle")}}
  \cup {Proof(Selected(p)) : p \in {q \in Users : At(q, "attest")}}

\* `cache remove` takes what no command leases, and the publisher may publish anew.
Evict(item) ==
  /\ changes < MaxChanges /\ changes' = changes + 1
  /\ item \in cached \ Leased
  /\ cached' = cached \ {item}
  /\ UNCHANGED <<profileVars, pin, published, want, pinLock, inEffect>>

Republish ==
  /\ changes < MaxChanges /\ changes' = changes + 1
  /\ published' \in Releases \ {published}
  /\ UNCHANGED <<profileVars, pin, cached, want, pinLock, inEffect>>

\* A process dies; the system drops its lock, and its holding directory stays behind,
\* under a name that no later command uses.  A user that dies without the lock leaves
\* what its failure leaves.
Crash(p) ==
  /\ Fault("crash")
  /\ p \in Operators \cup pinLock /\ ~At(p, "idle")
  /\ Returns(p)
  /\ dirs' = Restrict(dirs, DOMAIN dirs \ {New(p), Previous(p)})
  /\ pinLock' = pinLock \ {p}
  /\ want' = [q \in Users |-> IF q = p THEN Nothing ELSE want[q]]
  /\ UNCHANGED <<now, pin, cached, inEffect>> /\ KeepSource

\* What an operator does is seen by every revalidation under way.
Witnessed ==
  inEffect' = [p \in Users |->
    IF call[p].then = "receipt" /\ ~At(p, "idle") THEN inEffect[p] \cup InPlace'
                                                  ELSE inEffect[p]]

\* A command that cannot read its approval ends.
Approve(p) ==
  /\ ProfileStep(p) /\ Witnessed
  /\ want' = [q \in Users |-> IF call'[q].stage = "idle" THEN Nothing ELSE want[q]]
  /\ UNCHANGED <<pin, published, cached, pinLock, changes>>

Deploy(p) ==
  StartDeploy(p) \/ BindApproval(p) \/ Lease(p) \/ StartVerify(p) \/ Attest(p)
  \/ Revalidate(p) \/ CheckReceipt(p) \/ CheckRoot(p) \/ Execute(p)
Acquire(p) == Resolve(p) \/ Reuse(p) \/ FetchProof(p) \/ LeaseAgain(p) \/ FetchPackage(p)
WritePin(p) == StartPin(p) \/ LockProject(p) \/ ComparePin(p) \/ ReplacePin(p)

Next ==
  \/ \E p \in Procs : Approve(p) \/ Crash(p)
  \/ \E p \in Users : Deploy(p) \/ Acquire(p) \/ WritePin(p)
  \/ \E item \in cached : Evict(item)
  \/ Republish
  \/ Tick /\ UNCHANGED contentVars

Spec == Init /\ [][Next]_vars

------------------------------------------------------------------------------
(* Properties *)

\* A profile in place vouches for a whole record: enrollment writes it last, removal and
\* clean-up take it first, and a swap moves the three files together.  So a reader that
\* finds a profile has found an approval somebody enrolled, at whatever step the command
\* that changes it is or dies.  A clean-up goes on when it cannot unlink the profile, and
\* then leaves it with nothing to vouch for.
ProfileVouches == Has(Current, "profile") /\ "unlink" \notin faults => Whole(Current)

\* A renewal that ends with "the previous enrollment remains in effect" has left a whole
\* approval in place, after any of its file operations failed.
FailedRenewalKeeps ==
  \A p \in Operators : call[p].outcome = "kept" /\ ~At(p, "idle") => Whole(Current)

ApprovalSurvives == ProfileVouches /\ FailedRenewalKeeps

\* What is executed was verified under a policy that was still in force, and in place,
\* after the plan was prepared: an approval renewed, replaced, withdrawn or expired
\* during the preparation is not executed under.
ExecutesUnderApproval ==
  \A p \in Users : At(p, "execute") =>
    /\ call[p].receipt \subseteq inEffect[p]
    /\ The(call[p].receipt).until > want[p].asked

\* Two `project pin` commands never lose an update: the pin changes only under a process
\* for which it is still the pin it read before its acquisition.
Register == INSTANCE PinRegister WITH base <- [p \in Users |-> want[p].base]
PinIsRegister == Register!Spec

==============================================================================
