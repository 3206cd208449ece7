------------------------------ MODULE GitHubReads ------------------------------
(***************************************************************************)
(* The commands that read from GitHub while a publisher changes what is    *)
(* there: an acquisition that resolves a release, downloads its descriptor *)
(* and then the package the descriptor names (ReleaseSnapshot,             *)
(* AssetTransfer and github_workspace_source.py), and commands that browse *)
(* a branch through the metadata cache (SourceMetadata).                   *)
(*                                                                         *)
(* The release's assets are a descriptor and a package; the proof is       *)
(* downloaded as the package is.  An asset is fetched by tag and name, so  *)
(* its server sends whatever is there at the time.  Acquisition and        *)
(* browsing share no state, so a behaviour has one or the other.            *)
(***************************************************************************)
EXTENDS ReleaseSnapshot, AssetTransfer, SourceMetadata

VARIABLES
  asset,    \* the asset being transferred
  routes    \* the package version each version of the descriptor names

acquireVars == <<snapshotVars, transferVars, asset, routes>>
vars == <<acquireVars, metadataVars>>

Descriptor == "descriptor"
Package == "package"

Init ==
  /\ SnapshotInit /\ TransferInit /\ MetadataInit
  /\ asset = "none"
  /\ routes = [v \in 1 .. MaxVersion |-> 1]

Browsing == elapsed > 0 \/ head > 1 \/ \E b \in Browsers : ~Stage(b, "idle")
Acquiring == resolving # "idle" \/ parent # "idle"

\* A new descriptor names the package that is there; either may change on its own.
PublisherActs ==
  /\ \E part \in Parts :
       /\ Publish(part)
       /\ routes' = IF part = Descriptor
                      THEN [routes EXCEPT ![source'[part]] = source[Package]] ELSE routes
  /\ Acquiring
  /\ UNCHANGED <<transferVars, asset, metadataVars>>

Acquire ==
  /\ \/ StartResolving /\ ~Browsing /\ \A key \in Keys : records[key] = {}
     \/ Resolve
  /\ UNCHANGED <<transferVars, asset, routes, metadataVars>>

\* The descriptor is downloaded first, by the identity that was observed.
DownloadDescriptor ==
  /\ resolving = "resolved" /\ parent = "idle"
  /\ BeginTransfer
  /\ asset' = Descriptor
  /\ UNCHANGED <<snapshotVars, routes, metadataVars>>

\* bind_workspace_release: the package it names must be the one in the inventory.
BindDescriptor ==
  /\ asset = Descriptor /\ parent = "returned" /\ failure = "none"
  /\ routes[seen[Descriptor]] = seen[Package]
  /\ BeginTransfer
  /\ asset' = Package
  /\ UNCHANGED <<snapshotVars, routes, metadataVars>>

Transfer ==
  /\ \/ Parent \/ DeadlinePasses \/ Redirect \/ CopyEnds \/ Flood \/ WorkerDies
     \/ Respond(source[asset] = seen[asset])
  /\ UNCHANGED <<snapshotVars, asset, routes, metadataVars>>

Browse ==
  /\ \/ \E b \in Browsers :
          \/ StartBrowse(b) /\ ~Acquiring
          \/ LockBranch(b) \/ ReadBranch(b) \/ FetchBranch(b) \/ WriteBranch(b)
          \/ LockCommit(b) \/ BindCommit(b) \/ Browsed(b)
     \/ ~Acquiring /\ (MoveBranch \/ TickClock \/ SetClockBack)
  /\ UNCHANGED acquireVars

Next == PublisherActs \/ Acquire \/ DownloadDescriptor \/ BindDescriptor \/ Transfer \/ Browse

\* The parent's steps are a program's; time passes.  Nothing is assumed of the worker, the
\* server or the publisher.
Fairness ==
  /\ WF_vars(Parent /\ UNCHANGED <<snapshotVars, asset, routes, metadataVars>>)
  /\ WF_vars(DeadlinePasses /\ UNCHANGED <<snapshotVars, asset, routes, metadataVars>>)

Spec == Init /\ [][Next]_vars /\ Fairness

------------------------------------------------------------------------------
(* Properties *)

\* A transfer ends, whatever its worker and the server do, or leave undone.
TransferReturns == parent = "poll" ~> parent \in {"returned", "yield"}

==============================================================================
