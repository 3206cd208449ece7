---------------------------- MODULE ReleaseSnapshot ----------------------------
(***************************************************************************)
(* How GitHubClient.resolve_release observes a published release that its  *)
(* publisher may be changing (siteops/github_source.py).  GitHub answers   *)
(* one request at a time: the repository, the release, its tag, and each   *)
(* page of its assets.  Everything is then read once more, the repository  *)
(* last, and any difference fails the resolution.                          *)
(*                                                                         *)
(* What a part of the release says is a version that its publisher counts  *)
(* up.  A publisher that takes a change back while the release is read is  *)
(* outside the model; identifiers, timestamps and digests differ.          *)
(***************************************************************************)
EXTENDS Naturals, Sequences

CONSTANTS
  Assets,      \* the pages of the asset inventory, in order
  MaxVersion   \* bound on the versions of a part

ASSUME SnapshotAssumption ==
  /\ Assets \in Seq(STRING)
  /\ MaxVersion \in Nat

Pages == {Assets[i] : i \in DOMAIN Assets}
Parts == {"repository", "release", "tag"} \cup Pages

\* The order of the requests, the first time and the second.
FirstReads == <<"repository", "release", "tag">> \o Assets
SecondReads == <<"release", "tag">> \o Assets \o <<"repository">>

VARIABLES
  source,    \* the version of each part at GitHub
  seen,      \* the version of each part read first; 0 before
  reads,     \* how many requests were answered
  resolving, \* where the resolution is
  witness    \* history: the source when the first round of reads ended

snapshotVars == <<source, seen, reads, resolving, witness>>

Unread == [part \in Parts |-> 0]

SnapshotInit ==
  /\ source = [part \in Parts |-> 1]
  /\ seen = Unread /\ witness = Unread
  /\ reads = 0 /\ resolving = "idle"

\* The publisher changes one part: moves the tag, edits the release, replaces an asset.
Publish(part) ==
  /\ source[part] < MaxVersion
  /\ source' = [source EXCEPT ![part] = @ + 1]
  /\ UNCHANGED <<seen, reads, resolving, witness>>

StartResolving ==
  /\ resolving = "idle"
  /\ resolving' = "first" /\ seen' = Unread /\ reads' = 0
  /\ UNCHANGED <<source, witness>>

ReadFirst ==
  /\ resolving = "first" /\ reads < Len(FirstReads)
  /\ seen' = [seen EXCEPT ![FirstReads[reads + 1]] = source[FirstReads[reads + 1]]]
  /\ reads' = reads + 1
  /\ UNCHANGED <<source, resolving, witness>>

\* Everything was read once.
TurnBack ==
  /\ resolving = "first" /\ reads = Len(FirstReads)
  /\ resolving' = "second" /\ reads' = 0
  /\ witness' = source
  /\ UNCHANGED <<source, seen>>

\* Mutant: a part that changed is taken as it is now.
RereadLoosely ==
  /\ resolving = "second" /\ reads < Len(SecondReads)
  /\ seen' = [seen EXCEPT ![SecondReads[reads + 1]] = source[SecondReads[reads + 1]]]
  /\ reads' = reads + 1
  /\ UNCHANGED <<source, resolving, witness>>

\* A part that changed ends the resolution with github.source-changed.
ReadSecond ==
  /\ resolving = "second" /\ reads < Len(SecondReads)
  /\ LET part == SecondReads[reads + 1] IN
     IF source[part] = seen[part]
       THEN reads' = reads + 1 /\ UNCHANGED resolving
       ELSE resolving' = "failed" /\ UNCHANGED reads
  /\ UNCHANGED <<source, seen, witness>>

Resolved ==
  /\ resolving = "second" /\ reads = Len(SecondReads)
  /\ resolving' = "resolved"
  /\ UNCHANGED <<source, seen, reads, witness>>

\* A request may fail, time out or be limited at any point.
RequestFails ==
  /\ resolving \in {"first", "second"}
  /\ resolving' = "failed"
  /\ UNCHANGED <<source, seen, reads, witness>>

Resolve == ReadFirst \/ TurnBack \/ ReadSecond \/ Resolved \/ RequestFails

SnapshotNext == (\E part \in Parts : Publish(part)) \/ StartResolving \/ Resolve

SnapshotSpec == SnapshotInit /\ [][SnapshotNext]_snapshotVars

\* What is returned as one release was one release: the repository, the release, the tag
\* and every asset were as reported at the same moment, although each was read at
\* another.
SnapshotIsAtomic == resolving = "resolved" => seen = witness
==============================================================================
