----------------------------- MODULE AssetTransfer -----------------------------
(***************************************************************************)
(* One download of an identified asset: a parent that polls a worker       *)
(* process until a deadline, and the worker that follows redirects and     *)
(* writes the file (siteops/asset_transfer.py, _http_asset_worker.py).     *)
(*                                                                         *)
(* The worker is another process: it may hang, die, ignore the request to  *)
(* end and even survive its kill.  The deadline may pass at any moment.    *)
(* Request syntax, headers and encodings are one way to fail.              *)
(***************************************************************************)
EXTENDS Naturals

CONSTANTS MaxRedirects   \* MAX_REDIRECTS

ASSUME TransferAssumption == MaxRedirects \in Nat

VARIABLES
  parent,    \* where download_https_asset is
  failure,   \* the reason it will report, or "none"
  worker,    \* where the worker process is
  hops,      \* the redirects it followed
  served,    \* whether the response under way is the expected bytes
  staging,   \* whether the directory of the transfer exists
  file,      \* asset.bin in it
  late       \* whether the deadline has passed

transferVars == <<parent, failure, worker, hops, served, staging, file, late>>

Exited == {"none", "ok", "failed", "died"}

TransferInit ==
  /\ parent = "idle" /\ failure = "none"
  /\ worker = "none" /\ hops = 0 /\ served = FALSE
  /\ staging = FALSE /\ file = "none" /\ late = FALSE

keepWorker == UNCHANGED <<worker, hops, served, file>>

Fail(reason, stage) == parent' = stage /\ failure' = reason

------------------------------------------------------------------------------
(* The parent *)

BeginTransfer ==
  /\ parent \in {"idle", "returned"} /\ worker \in Exited
  /\ parent' = "make" /\ failure' = "none" /\ late' = FALSE
  /\ worker' = "none" /\ hops' = 0 /\ served' = FALSE /\ file' = "none"
  /\ UNCHANGED staging

MakeStaging ==
  /\ parent = "make"
  /\ \/ staging' = TRUE /\ parent' = "spawn" /\ UNCHANGED failure
     \/ Fail("io", "returned") /\ UNCHANGED staging
  /\ keepWorker /\ UNCHANGED late

SpawnWorker ==
  /\ parent = "spawn"
  /\ \/ worker' = "connecting" /\ parent' = "poll" /\ UNCHANGED failure
     \/ Fail("worker", "clean") /\ UNCHANGED worker
  /\ UNCHANGED <<hops, served, file, staging, late>>

\* Mutant: a worker is waited for until it has exited.
PollForever ==
  /\ parent = "poll"
  /\ \/ worker \in Exited /\ ~late /\ parent' = "result" /\ UNCHANGED failure
     \/ worker \in Exited /\ late /\ Fail("timeout", "terminate")
     \/ worker = "flooding" /\ Fail("worker", "terminate")
  /\ keepWorker /\ UNCHANGED <<staging, late>>

\* A worker that exits as the deadline passes is too late all the same.
Poll ==
  /\ parent = "poll"
  /\ \/ worker \in Exited /\ ~late /\ parent' = "result" /\ UNCHANGED failure
     \/ late /\ Fail("timeout", "terminate")
     \/ worker = "flooding" /\ Fail("worker", "terminate")
  /\ keepWorker /\ UNCHANGED <<staging, late>>

\* _stop_worker asks, waits, kills, waits; what has not exited then may still be writing.
Terminate ==
  /\ parent = "terminate"
  /\ \/ worker \in Exited /\ parent' = "clean" /\ UNCHANGED worker
     \/ worker \notin Exited /\ worker' = "died" /\ parent' = "clean"
     \/ worker \notin Exited /\ parent' = "kill" /\ UNCHANGED worker
  /\ UNCHANGED <<failure, hops, served, staging, file, late>>

\* Mutant: a worker that was killed is taken for gone.
KillAndForget ==
  /\ parent = "kill"
  /\ \/ worker \notin Exited /\ worker' = "died" /\ parent' = "clean"
     \/ parent' = "clean" /\ UNCHANGED worker
  /\ UNCHANGED <<failure, hops, served, staging, file, late>>

Kill ==
  /\ parent = "kill"
  /\ \/ worker \in Exited /\ parent' = "clean" /\ UNCHANGED <<worker, failure>>
     \/ worker \notin Exited /\ worker' = "died" /\ parent' = "clean" /\ UNCHANGED failure
     \/ worker \notin Exited /\ Fail("worker", "returned") /\ UNCHANGED worker
  /\ UNCHANGED <<hops, served, staging, file, late>>

\* Mutant: the parent believes the worker's status.
BelieveStatus ==
  /\ parent = "result"
  /\ \/ worker = "ok" /\ parent' = "yield" /\ UNCHANGED failure
     \/ worker # "ok" /\ Fail("worker", "clean")
  /\ keepWorker /\ UNCHANGED <<staging, late>>

\* _check_result: only the status of a whole and matching file is accepted.
CheckResult ==
  /\ parent = "result"
  /\ \/ worker = "ok" /\ parent' = "hash" /\ UNCHANGED failure
     \/ worker # "ok" /\ Fail("worker", "clean")
  /\ keepWorker /\ UNCHANGED <<staging, late>>

\* The parent hashes the file itself before its caller sees it.
HashAsset ==
  /\ parent = "hash"
  /\ \/ file = "expected" /\ parent' = "yield" /\ UNCHANGED failure
     \/ file # "expected" /\ Fail("identity", "clean")
  /\ keepWorker /\ UNCHANGED <<staging, late>>

\* The caller is done with the bytes.
LeaveContext ==
  /\ parent = "yield"
  /\ parent' = "clean"
  /\ keepWorker /\ UNCHANGED <<failure, staging, late>>

\* The directory is removed; a removal that fails is logged.
RemoveStaging ==
  /\ parent = "clean"
  /\ parent' = "returned"
  /\ staging' \in {FALSE, staging}
  /\ file' = IF staging' THEN file ELSE "none"
  /\ UNCHANGED <<failure, worker, hops, served, late>>

------------------------------------------------------------------------------
(* The worker, and time *)

DeadlinePasses ==
  /\ parent \in {"poll", "result", "terminate"} /\ ~late
  /\ late' = TRUE
  /\ UNCHANGED <<parent, failure, worker, hops, served, staging, file>>

\* A redirect is followed to an approved origin, and only so often.
Redirect ==
  /\ worker = "connecting"
  /\ \/ hops < MaxRedirects /\ hops' = hops + 1 /\ UNCHANGED worker
     \/ worker' = "failed" /\ UNCHANGED hops
  /\ UNCHANGED <<parent, failure, served, staging, file, late>>

\* The response begins: what the server has now may not be the expected asset.
Respond(matches) ==
  /\ worker = "connecting"
  /\ worker' = "copying" /\ served' = matches /\ file' = "partial"
  /\ UNCHANGED <<parent, failure, hops, staging, late>>

\* The copy ends whole, ends different, or breaks off.  The worker's digest is of what it
\* read; what the disk has kept is another matter.
CopyEnds ==
  /\ worker = "copying"
  /\ \/ served /\ worker' = "ok" /\ file' \in {"expected", "other"}
     \/ ~served /\ worker' = "failed" /\ file' = "other"
     \/ worker' = "failed" /\ UNCHANGED file
  /\ UNCHANGED <<parent, failure, hops, served, staging, late>>

\* The worker reports more than its parent takes.
Flood ==
  /\ worker \in {"connecting", "copying"}
  /\ worker' = "flooding"
  /\ UNCHANGED <<parent, failure, hops, served, staging, file, late>>

WorkerDies ==
  /\ worker \notin Exited
  /\ worker' = "died"
  /\ UNCHANGED <<parent, failure, hops, served, staging, file, late>>

Parent ==
  \/ MakeStaging \/ SpawnWorker \/ Poll \/ Terminate \/ Kill \/ CheckResult \/ HashAsset
  \/ LeaveContext \/ RemoveStaging

Worker == Redirect \/ CopyEnds \/ Flood \/ WorkerDies \/ \E matches \in BOOLEAN : Respond(matches)

------------------------------------------------------------------------------
(* Properties *)

\* The caller is given the expected bytes whole, and nobody is left who could change them
\* while it reads: not a worker that was late, was asked to end or survived its kill.  The
\* directory of a transfer is removed only after its worker has exited, so that one that
\* survives has a place of its own to write to.
YieldedIsFinal ==
  /\ parent = "yield" => file = "expected" /\ worker \in Exited
  /\ worker \notin Exited => staging

==============================================================================
