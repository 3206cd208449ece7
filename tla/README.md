# Site Ops: formal models

Site Ops (`src/siteops`) prepares one manifest for a fleet of Sites, runs it with a pool
of threads through the Azure CLI and `kubectl`, and reports one outcome for every
operation. It gets what it deploys from pinned, attested packages in a cache that several
processes share, and its own releases are accepted in Azure resource groups that scripts
create and remove. This directory holds TLA+ models of these parts, TLC configurations
that check them on small instances, and TLAPS proofs of the safety properties that matter
most, for every instance.

The questions behind it:

- **Does the report tell the truth?** After crashes of a worker, a Ctrl-C at any moment,
  lost answers and retries, is what a run says of an operation what really happened?
- **Is what is deployed what was approved and verified?** Any process may die between two
  file operations on the cache, the pin or an approval; a publisher may change a release
  while it is read; an approval may be withdrawn while a plan is prepared.
- **Is a plan what its files say?** Sites, manifests, composed parameters and typed answers
  come from many files that may be edited while a command reads them.
- **Does cleanup remove what it owns, and nothing else?**

## Inventory

| Component | State | Operations | Talks to |
|---|---|---|---|
| Fleet execution (`orchestrator.py`: `execute_plan`, `_run_prepared_targets`, `_TargetExecutionState`) | plan, futures, one execution state per target, results, outputs, stop event | run a phase, take a future, begin, record, snapshot, collect, cancel, close | executor, terminal |
| Outcome vocabulary (`results.py`) | none | classify, aggregate, exit code | fleet execution, reporting |
| Executor calls and resources (`executor.py`) | scratch directory, Arc port slots of the process | deploy, kubectl apply, wait, close | `az`, `kubectl`, Azure |
| Plan preparation (`planning.py`, `orchestrator.py`: `build_plan`) | prepared operations, references, capabilities | validate, describe targets, compose, prepare | all below |
| Template compilation (`compilation.py`) | compiled templates of a session | acquire, compile, check inputs | Bicep, files |
| Manifests, composition (`models.py`, `composition.py`) | none | flatten includes; merge contracts; compose resource sets | files |
| Sites and targeting (`orchestrator.py`) | three indexes (path, file name, name), Site caches, provenance | find, load, inherit, overlay, select | files |
| Guided inputs (`guided_inputs.py`, `arm_resources.py`, `cli.py`) | answers, resources read | accept a contract, bind, read, build and save a Site | files, Azure |
| Workspace package cache (`workspace_cache.py`, `cache_*.py`) | directories, locks, receipts | initialize, publish, lease, list, remove | other processes |
| Source metadata cache (`source_metadata_cache.py`, `github_metadata_cache.py`) | dated records | get or fetch, remember | GitHub, other processes |
| GitHub releases, asset transfer (`github_source.py`, `asset_transfer.py`, `_http_asset_worker.py`) | worker process, staging file | resolve, transfer, stop at a deadline | GitHub |
| Project pin (`project.py`), approved sources (`source_profiles.py`) | small files | compare and set; enroll, renew, remove | other processes |
| Acquisition, attestation, package format | bytes and digests | acquire, verify, revalidate, unpack | GitHub, the cache |
| Command line and reporting (`cli.py`, `reporting.py`, ...) | stop event, output | install the stop handler, render | everything |
| Release and fleet scripts (`scripts/`) | receipts, run artifacts | reserve, retain, create, clean up, reconcile | GitHub, Azure |

What is hard in it:

- *Concurrency.* The main thread, the pool's workers and the signal handler share a stop
  event, futures and one execution state per target, and each looks at the stop at moments
  of its own.
- *Doubt.* Azure acts in its own time. A tool that timed out may have submitted; a submission
  may be refused, taken, or taken late; a deletion may take long or fail after it was accepted.
- *Partial failure.* A worker may raise inside a call; any file operation may fail, that of
  a cleanup too; a target may fail after producing outputs that another phase reads.
- *Shared, bounded resources.* Arc proxies share ten port slots; retries hold more than
  one; a proxy may survive its kill.
- *Between processes.* Cache, pin, approvals and metadata are shared files, and the
  processes that change them may die anywhere.
- *Reading what changes.* Releases, branches, Site files, templates and resources change
  between two reads of one command.

`PROJECT.json` lists the hazards one by one, each with its line and the properties that
would show it going wrong.

## Modules

| Module | Models | Lines of the code |
|---|---|---|
| `Outcomes` | statuses, reasons, aggregation, exit code (operators) | `results.py`, `orchestrator.py` 564-643 |
| `PlanShape` | what every prepared plan looks like (operators) | `planning.py` 1020-1322, `orchestrator.py` 4183-4960 |
| `FleetRun` | a run of a prepared plan: main thread, pool, workers, stop | `orchestrator.py` 603-835, 5830-6552 |
| `ProviderCall` | abstract: what any provider call may report | `executor.py` 832-910 |
| `Deployment` | one ARM deployment: submit with retries, poll with graces | `executor.py` 1603-2238 |
| `KubectlApply` | the kubectl steps of several Sites over shared proxy slots | `executor.py` 492-521, 674-803, 1251-1601, 2339-2437 |
| `WaitCondition` | one wait step: poll a tag, breaker, deadline | `executor.py` 2440-2671 |
| `ExecutorSteps` | composes the three calls | `orchestrator.py` 5576-5830 |
| `CacheLayout` | the root of the cache, set up by several processes | `cache_layout.py` 30-299 |
| `PackageStore` | abstract: what the cache promises of its entries | |
| `CacheStore` | packages and proofs under locks: publish, lease, list, remove | `workspace_cache.py` 108-328, `cache_management.py` 19-284 |
| `PackageCache` | composes layout and store | `workspace_cache.py` 94-110 |
| `SourceProfiles` | the approval of a source, file operation by file operation | `source_profiles.py` 45-438, `cli.py` 387-497 |
| `PinRegister` | abstract: the pin is never overwritten unread | |
| `PinnedContent` | pin, plan and deploy over approvals and cache | `project.py`, `command_context.py`, `github_workspace_acquisition.py`, `workspace_acquisition.py` |
| `ReleaseSnapshot` | the two rounds of reads of a release | `github_source.py` 331-844 |
| `AssetTransfer` | parent and worker process of one download | `asset_transfer.py` 60-254, `_http_asset_worker.py` 145-287 |
| `SourceMetadata` | the cache of branches and commits, with a clock that may be set back | `source_metadata_cache.py` 54-259, `github_metadata_cache.py` |
| `GitHubReads` | composes the three: acquire a release, browse a branch | `github_workspace_source.py` 69-188, `cli.py` 576-607 |
| `SiteInventory` | finding, loading and selecting configured Sites | `orchestrator.py` 853-3300 (selected), `models.py` 635-1098 |
| `InputContract` | input contracts, answers, and the Site they make (operators) | `guided_inputs.py` 240-1360, `arm_resources.py` 141-214 |
| `GuidedInputs` | a command that makes its Site from typed answers | `cli.py` 842-1239, `guided_inputs.py` 626-1402 |
| `InputCases` | contracts, answers and worlds for TLC | |
| `CommandSites` | composes the two ways a command comes by its Sites | `cli.py` 842-885, `orchestrator.py` 3250-3300 |
| `ManifestSource` | a tree of included files made flat (operators) | `models.py` 466-2125 |
| `ContractFile` | contracts of composed parameters, what is read in entries (operators) | `composition.py` 19-721, 1026-1097 |
| `Composition` | composing resource sets (operators) | `composition.py` 776-1229 |
| `TemplateSession` | reading and compiling templates that are being edited | `compilation.py` 412-1542 |
| `Preparation` | from a manifest to an executable, blocked or invalid plan | `planning.py` 375-1358, `orchestrator.py` (`build_plan`, `validate`) |
| `ReleaseFleet` | ownership and cleanup of acceptance groups | `release_fleet.py` 29-800, `coordinate-release-fleet.py` 241-339, `manage-release-fleet.py` 50-135 |

Each `MC` module instantiates one of these for TLC. Each `_proofs` module holds the
theorems about the module it is named for: `FleetRun_proofs` about a
run, `ExecutorSteps_proofs`, `PackageCache_proofs`, `GitHubReads_proofs`, `PinnedContent_proofs`,
`ReleaseFleet_proofs` and `CommandSites_proofs` about those compositions and their parts, and
`Preparation_proofs` about a session of template compilation and about the plan.

How they compose:

- `FleetRun` abstracts a provider call to: begun, contacted, returned with one of five
  outcomes. `ProviderCall` states that contract, and `ExecutorSteps` shows that all three calls
  implement it (`CallSpec`), a kubectl step for every Site. So `FleetRun` stays small enough to
  check with three targets, and the protocols below it are checked in full apart.
- `FleetRun` starts from any plan that is `WellFormed` (`PlanShape`); what `build_plan` calls
  executable is, by the theorem `ExecutablesAreRunnable` of `Preparation_proofs`, which names the same operators.
- `CacheStore` starts from a root that is set up, which is what `CacheLayout` gives
  every process before it uses it, and implements `PackageStore`. `PinnedContent` uses the
  cache as `PackageStore` promises it.
- `PinnedContent` extends `SourceProfiles` with the commands that use an approval, and its pin
  implements `PinRegister`.
- `GitHubReads` hands the release that `ReleaseSnapshot` resolved to `AssetTransfer`, the
  descriptor first and then the package it names. `PinnedContent` takes from it that a download
  gives the identified bytes or fails.
- `ExecutorSteps`, `PackageCache`, `GitHubReads` and `CommandSites` compose parts that in a
  process follow each other or exclude each other; a behaviour of theirs is of one kind.

### FleetRun

Targets and steps are numbers in plan order. A plan gives each target its kind (at
subscription level or in a resource group), its subscription, the disposition of each
operation and the operations whose outputs it reads. There is one action per step of a
thread at which another thread can see the difference:

- *main thread*: `RefusePlan`, `RejectDuplicates`, `StartRun`, `PollStop` (top of the wait
  loop), `HarvestResults` and `HarvestInterrupted` (the completed futures, with a raw
  `KeyboardInterrupt` out of `result()`), `InterruptWait`, `CancelFuture`, `FinishCollected`
  and `FinishInterrupted` (after `shutdown`), `CancelSecondPhase`, `StartSecondPhase`,
  `ReturnRun`;
- *worker*: `TakeFuture`, `StopBeforeOperation` (both checks), `RecordNonExecutable`,
  `AnnounceOperation`, `BeginOperation`, `ContactProvider`, `CallReturns` (five results, or
  an exception that ends the future), `FinishTarget`;
- *terminal*: `RequestStop`.

`contacted` is no variable of the program: it is what an observer at Azure would know, and the
properties compare the report with it. Outputs are reduced to whether a finished
operation holds everything that later inputs read. `abandoned` is kept although it never
matters to a running worker: `RunningIsNotAbandoned` is exactly the statement that the
refusals of `begin` and `record` are unreachable, so no observation is dropped.

### Deployment, KubectlApply, WaitCondition

`Deployment` puts the submit and poll loops of the engine against an Azure that may take, refuse
or lose each PUT, take one late after its tool was killed, accept a second PUT of the same
deployment once the first ended, hide a deployment for a while, and never finish. `history`
records the states the deployment has been in. Time is a count of poll intervals, and a
poll may itself take one. After a failed state the code makes one more tool call
(`ExplainFailure`), which changes wording only.

`KubectlApply` has a set of Sites in one process. Slots are numbers; a port may be held by
another program, or by a proxy that survived its kill (`taken`). Allocation takes the lowest free
slot, as the loop in the code does; the lock around it is held for one step, so it is the atomicity of the action.
`WaitCondition` polls a tag that changes at any time; `blind` counts, from outside, the
polls since one told anything.

### CacheLayout and CacheStore

In `CacheLayout` processes create or complete the root, inspect it, build a namespace in it and
start to use it, one action per file operation. One that finds no root builds it
aside and renames it into place; one that finds a root without a marker lists it, scans what it
listed, makes what is missing and puts the marker last. `replaces` is the platform: a rename
replaces a file on POSIX and is refused on Windows. A process may die anywhere, and a file
operation may fail anywhere, that of a cleanup too. An operator who creates the empty root between a
process's `lstat` and its rename is outside the model.

In `CacheStore` the files of an entry are a set of nodes: its object directory with what is in
it, and for a package the directory of receipts. Publication looks for the object under an
exclusive lock, verifies one that is there, or builds a candidate, records a receipt and
renames the candidate. A lease takes the lock shared, verifies, and writes a receipt for a package,
beside other leases that do the same. Removal takes the lock exclusively, takes the inventory and
deletes node by node in reverse. `Fail` stands for every refusal and failing file
operation, `Crash` for the death of the process at any stage: the system releases its lock,
its temporary receipt and candidate stay. Whether bytes are right is the verifier's answer
and may be either at any time; other programs that change bytes in place are what verification is
for, and `docs/cache.md` puts them out of scope of a lease.

### SourceProfiles and PinnedContent

An approval is three files in one directory. `SourceProfiles` makes each call into the
file system an action: reading a record (profile, policy, root, the policy once more), writing
one (profile last), renewing it aside and swapping it in with two renames, undoing that, and removing
it (profile first). `faults` bounds what fails: a write, a rename, an unlink, a death. There is
no lock in the code. Two operators who change one name at once can lose or wedge its record, and
the model has them, but the instance TLC checks has one.

`PinnedContent` adds `project pin` (approve, resolve, acquire, verify, compare and set) and `deploy`
(lease, restore what is missing, verify, prepare, revalidate, execute) beside the operator, `cache
remove` and a publisher who publishes anew. `inEffect` is a history: the policies in place at
some moment since a revalidation began. The creation of `.siteops` and its `.gitignore` is left out.

### ReleaseSnapshot, AssetTransfer, SourceMetadata

What a part of a release says is a version its publisher counts up; the resolution reads
everything twice, the repository last. `AssetTransfer` has a worker that may hang, die,
flood its output, ignore a request to end and survive its kill; the deadline may pass at any
moment. `SourceMetadata` has records with a wall clock that may be set back and a history (`age`)
of the time that really passed. A failing write ends the command, and what was fetched is not recorded. Trees and blobs, which only have immutable keys, are left out.

### SiteInventory, GuidedInputs

A Site file is at a place, and what it sets is a set of paths of leaves; the value of a leaf is
the file and revision it was read from, so that two readings can be told apart. Files are
edited between two reads. What the workspace may hold at first is a constant, `Workspaces`, so that a
proof is about any of them and TLC takes every small one. A chain of templates is read from the Site up, one
file per step, and merged from the root down, one file per step (`UnwindTemplate`, then `UnwindBase`), which is
the way back out of `_load_inherited_data`, where each level caches what it has merged. A name of a selector that no
Site has is skipped after a sweep, unless it is that of a template (`NamesTemplate`), which fails. `GuidedInputs` binds typed answers under a contract, reads the
resources they name and those they lead to while Azure changes, and builds, matches and saves the
Site (`Named`: one without a name is matched and saved as `guided-site`). Names are compared case-insensitively (`Fold`). Cancellation counts as refusal (its
exit code differs), and describing a contract is left out. Saving is an identity check and then an exclusive
write; that no other command saves the same identity between the two is not claimed.

### Preparation and what it uses

`build_plan` is one action per stage: load the manifest, validate, describe the targets, probe
the tools, acquire templates, compose, prepare the operations of the subscription level and
then the others. Templates may be saved while they are acquired (`SaveMeanwhile`). What other files say is read
once and cached, but every operation looks again whether its step parameter files are there: `gone` holds those
that are not, per operation, and `MoveStepFile` removes one or puts it back. One with a fixed path is left out then, one
that the Site selects is a defect (`Lost`, `_require_selected_parameter_file`). `Merged` is `_merge_known_parameters`: every collection
that the contract governs is a parameter, an empty array when no file writes it, so a template may require it;
coverage (`Covered`) asks a deployment only for collections that have entries (`written`). `ManifestSource`, `ContractFile` and `Composition`
are recursive operators that compute what `models.py` and `composition.py` do;
a file may be included too deep, and the collections a source declares are in the order it names them, as two
entries for one file with different orders are refused. A blank value is neither an identity nor a binding; one with an unresolved
`{{` is refused as an identity only. `LoadedAsWritten` and `ComposedAsContracted` (in `SourcesAreRespected`) compare
them with direct definitions. `TemplateSession` keeps what was read and how it ended under a key.

### ReleaseFleet

An attempt of a workflow run observes its slots, retains a receipt, creates what is missing,
works, and cleans up. Azure carries out deletions and deployments in its own time, any call may fail before or
after it took effect, and a job may be cancelled anywhere. A later run may reconcile an
attempt, beside the next attempt in a persistent group. Time is counted in units of
`CREATION_CLOCK_TOLERANCE`; the completion time that ARM reports differs from the creation time by at most
one unit. The deadline of a cleanup is a bound on its rounds, and `retry_after` a re-request at
any time. A create that ARM accepted takes effect at once or never.

## Runs

| Run | Instance | Shows |
|---|---|---|
| `FleetRun_parallel` | 3 targets, 2 steps, 2 workers, raw interrupts, 5 plans | the safety properties of a run |
| `FleetRun_sequential` | 2 targets, 2 steps, 1 worker, stop handler installed, 3 plans, fair | nothing new starts after a stop; the run returns |
| `FleetRun_stop_race` | 2 targets, 2 steps, unlimited workers | expected violation, see below |
| `ExecutorSteps` | 3 attempts, graces 1 and 2, deadline 5; 3 Sites, 2 slots, 2 attempts; timeout 4, breaker 3; fair | what the three calls report is true, their contract, slot discipline, termination |
| `Deployment_ambiguous` | the same deployment | expected violation |
| `PinnedContent` | 2 users, 1 operator, 2 releases, 2 roots, one failure, 2 ticks of validity | an approval survives its renewal, what is executed is approved, no pin is lost |
| `PackageCache` | 2 processes set up a root and 1 inspects, one crash, one fault, both platforms; 3 processes, a package and a proof of one digest | a marked root is whole and nobody is refused; entries have evidence, leases are kept |
| `GitHubReads` | 2 assets, 1 redirect, 2 browsers, 2 revisions, the clock set back once; fair | a release is resolved as it was, bytes handed out are final, cached answers are fresh |
| `Sites` | every small workspace of 2 directories with overlays, one edit; a family of contracts with answers, Azure changing once | Sites are what their layers say, a selection is whole, a typed Site is as answered and as seen |
| `Sites_names` | the same workspaces with templates that set a name | expected violation |
| `Preparation` | some hundred curated workspaces, 3 Sites, includes up to 2 deep, one save or one step parameter file moved | an executable plan can be run, and what is blocked is blocked for cause |
| `ReleaseFleet` | four scenarios, two attempts, one reconciliation, 3 instants | cleanup removes its own and no more, and *complete* means gone |

The properties, by the question they ask:

- *The report is true:* `UnstartedMeansUntouched`, `ObservationsRetained`, `ExitCodeHonest`
  (FleetRun), `ReportsAreTrue`, `VerdictWasSeen` (ExecutorSteps), `CompleteMeansGone`
  (ReleaseFleet).
- *Order:* `EarlierStepsSucceeded`, `InputsWereProduced`, `SubscriptionPhaseFirst`,
  `AfterStopNothingNew`, `RetainedBeforeWritten`.
- *Resources:* `ScratchOutlivesCalls`, `RunningIsNotAbandoned`, `ProxyWithinSlot`, `RootIsSound`,
  `StoreIsAccounted`, `OnlyOwnIsRemoved`.
- *Contract:* `CallSpec`, `LeasesAreKept`, `PinIsRegister`: refinements of `ProviderCall`,
  `PackageStore` and `PinRegister`.
- *What was read is what is used:* `ApprovalSurvives`, `ExecutesUnderApproval`,
  `SnapshotIsAtomic`, `YieldedIsFinal`, `FreshUnlessOffline`, `KeysAreTrue`.
- *What the files say:* `SitesAreAsWritten`, `IdentifierMeansOneSite`, `SelectionIsWhole`,
  `SiteIsAsAnswered`, `PrerequisitesHeld`, `KnownIsFinal`, `ReadsStayNear`,
  `SourcesAreRespected`, `ExecutableIsRunnable`, `BlockedOnlyForCause`.
- *Progress:* `RunReturns`, `StepsReturn`, `TransferReturns`.

Why the bounds are enough to be interesting. Three targets and two workers leave one target
queued while two run, so cancelling, taking and collecting race; two steps are the least for
"the rest of the target"; the plans have two phases with and without work after the first
on the subscription target, one phase, a refused and a rejected plan. Three attempts give a
first, a middle and a last one, so two PUTs can be on their way at once; graces and
deadline keep the order they have in the code, and each can expire. Three Sites and two slots make
slots run out both by number and by retries; the instance starts with no port taken by others, but a proxy that
outlives its kill takes one. In the cache two processes race for each rename while a
third reads in the middle; one crash leaves something half done and one fault defeats a
cleanup, and more of either only leave the same litter; a marker is replaced at most once by
each process, so the five reads of the code (`_MARKER_READS`) serve any five that open the cache at once. An operator and two users interleave any
renewal with a revalidation and two compare-and-sets of the pin. Two edits of
one file would only be one later edit to a reader that reads each file once or twice.
The three instants of `ReleaseFleet` are the least that tell "before", "within the
tolerance" and "after" apart. What these instances cannot show for larger ones is what the
proofs are for.

`AfterStopNothingNew` excludes a target whose call had begun: the executor checks the stop
itself before it launches a tool, but between that check and the launch a stop may arrive.
That target may contact the provider for the operation it has begun and for no other.

A cleanup of a persistent group in its own run waits neither for hosts nor for running
deployments, so `CompleteMeansGone` claims nothing of one that began while work was going
on (`docs/e2e-testing.md:68`). The workflow's concurrency group makes attempts follow each other; the
scenarios say which attempts may be followed by another while they are reconciled.

### Fairness

Weak fairness of the main thread's and each worker's next step: threads are scheduled, and
every provider call returns because each tool invocation has a timeout
(`DEFAULT_AZ_TIMEOUT_SECONDS` and the per-poll timeouts) and each loop a bound, which
`StepsReturn` shows. Of a transfer only the parent's next step and the passing of its deadline
are fair. Nothing is assumed of Azure, GitHub, a tag, or anyone
requesting a stop. The liveness run of `FleetRun` has the stop handler installed: without it an
endless series of raw interrupts can keep `shutdown` from returning, as in the code. The other
modules have safety properties only; a wait for a lock ends at its deadline, by nobody's
progress.

### Disagreements between code and documentation

- `FleetRun_stop_race`. `docs/run-output.md:130` says a cancelled operation "was still queued when the
  run was asked to stop". A stop that arrives while the main loop waits for the last
  subscription target is seen by the worker only. The loop ends because nothing is
  pending, not because of the stop, and a resource group target that was still queued is
  reported `not-run` for an unavailable dependency. The exit code is 130 all the same.
- `Deployment_ambiguous`. `docs/run-output.md:136` says that `unknown` "includes ambiguous
  submission". An attempt that answers with a transient error after ARM took its PUT is
  retried, and a permanent error of the retry makes the deployment `failed` while the first
  PUT's deployment runs or has succeeded.
- `Sites_names`. A comment (`orchestrator.py:1946`) says the default name of a Site is unique "by
  invariant". A Site file without a name that inherits one from a template is indexed by its file
  name but cached under the inherited one, where it answers for another Site.

Met while modelling, and not the subject of a run:

- `-l name=a,name=dir/a` selects one Site twice (`orchestrator.py:3227-3236`), though the
  docstring (3199-3203) and `docs/targeting.md:95` promise otherwise; planning then refuses the pair
  (`planning.py:1202`).
- `docs/manifest-includes.md:59` and `:96` say a fragment may be shared by two siblings, but its
  step names then occur twice, which is refused (`models.py:2115-2125`).
- The message of `_allocate_arc_port_slot` (`executor.py:507-512`) says that only more Sites than
  slots run out of them; retries hold their failed slots, so fewer Sites can.
- A reconciliation whose bound is extended by a late deployment can remove what another attempt
  created meanwhile in the same persistent group; `docs/releasing.md:796` says it removes
  "only what the original attempt created", `docs/e2e-testing.md:148-154` describes the bound. `OnlyOwnIsRemoved`
  is stated with that bound.
- An opener reads a marker five times while others replace it (`cache_layout.py:34`, `:112-124`). On POSIX
  six processes that initialize one empty root at once can replace it five times under one
  reader, which then reports the cache as unsupported. The proof of `RootsAreSound` needs exactly this
  bound; no document promises more.
- The check in `guided_inputs.py` that a derived value would write one Site path twice cannot
  fail: input paths already must not overlap.

## Proofs

What TLC shows of a small instance, these theorems show for every value of the constants: any
number of targets, steps, threads, processes, Sites, releases, attempts and failures. The assumptions
on the constants are named where the constants are declared; they give types to numbers, and

- `FleetAssumption` of `FleetRun` says that every plan is `WellFormed`, which is what
  `build_plan` makes of a manifest: `ExecutablesAreRunnable` proves it of `Preparation`, so that the two
  components rest on each other by theorems and not by a common belief;
- `FleetAssumption` of `ReleaseFleet` says that an attempt has at least one slot
  (`release_fleet.py:154-158` accepts the fleet's slots or exactly one);
- `ProfilesAssumption` says that a process is an operator or a user, not both: a process runs one command;
- `LayoutAssumption` that the processes that open a cache are finitely many;
- `SiteAssumption` says what a place and a Site file are: every place is in a trusted directory or in `sites.local`, no
  directory is trusted twice (`_normalize_extra_sites_dirs`), a file sets no path twice and none
  below another one, as a YAML mapping cannot;
- `InputAssumption` says that a contract lists its inputs and that what is optional is there once, which is
  what `_parse_fields` returns. It does not say that the contract is acceptable: that is `Accepted`.

Four theorems need more, and say so in their statements:

- `RootsAreSound` holds when no more processes open the cache than the reads a marker is given. With two
  reads and three openers TLC finds an opener that is refused, so the bound is exact.
- `RecordsSurvive` holds when one operator at a time works on the record. Nothing in the code locks
  it, and with two operators TLC finds a renewal that loses the record of the other.
- `OneSiteIsMeant` and `SelectionsAreWhole` hold when no Site takes its name from a template (`~InheritedNames`).
  With one that does, `Sites_names` is the counterexample to the first.
- `OneSiteIsMeant` also asks that no name has a slash (`PlainNames`). The code does not forbid one, and
  `_find_trusted_site_file` (`orchestrator.py:1104-1130`) looks for an identifier with a slash among
  the paths only: such a name finds nothing until its Site was loaded by another identifier, and
  from then on the Site's cache, which a manifest asks first, answers to it.

| Module | Theorem | Property |
|---|---|---|
| `FleetRun_proofs` | `TypeCorrect` | `TypeOK` |
| | `ScratchIsSafe` | `ScratchOutlivesCalls` |
| | `RunningIsIntact` | `RunningIsNotAbandoned` |
| | `PhasesAreOrdered` | `SubscriptionPhaseFirst` |
| | `StepsAreOrdered` | `EarlierStepsSucceeded` |
| | `RecordsAreReported` | `ObservationsRetained` |
| | `UnstartedIsUntouched` | `UnstartedMeansUntouched` |
| | `InputsAreProduced` | `InputsWereProduced` |
| | `ExitCodeIsHonest` | `ExitCodeHonest` |
| | `StopIsFinal` | `AfterStopNothingNew` |
| `ExecutorSteps_proofs` | `ReportsHappened` | `ReportsAreTrue` |
| | `ProxiesKeepToSlots` | `ProxyWithinSlot` |
| | `WaitsSeeTheirVerdict` | `VerdictWasSeen` |
| | `CallsAreProviderCalls` | `CallSpec` (refines `ProviderCall`) |
| `PackageCache_proofs` | `RootsAreSound` | `RootIsSound` |
| | `StoreAccounts` | `StoreIsAccounted` |
| | `CacheImplementsStore` | `LeasesAreKept` (refines `PackageStore`) |
| | `CachePromises` | the last two, of the composition |
| `GitHubReads_proofs` | `SnapshotsAreAtomic` | `SnapshotIsAtomic` |
| | `YieldsAreFinal` | `YieldedIsFinal` |
| | `ReusedIsFresh` | `FreshUnlessOffline` |
| `PinnedContent_proofs` | `ExecutesApproved` | `ExecutesUnderApproval` |
| | `PinImplementsRegister` | `PinIsRegister` (refines `PinRegister`) |
| | `RecordsSurvive` | `ApprovalSurvives` |
| `ReleaseFleet_proofs` | `RetainedFirst` | `RetainedBeforeWritten` |
| | `RemovesOnlyOwn` | `OnlyOwnIsRemoved` |
| | `CompleteIsGone` | `CompleteMeansGone` |
| `CommandSites_proofs` | `SitesAreTheirFiles` | `SitesAreAsWritten` |
| | `OneSiteIsMeant` | `IdentifierMeansOneSite` |
| | `SelectionsAreWhole` | `SelectionIsWhole` |
| | `SitesAreAsAnswered` | `SiteIsAsAnswered` |
| | `PrerequisitesAreMet` | `PrerequisitesHeld` |
| | `KnownIdentityIsFinal` | `KnownIsFinal` |
| | `ReadsAreNear` | `ReadsStayNear` |
| `Preparation_proofs` | `SessionKeysAreTrue` | `KeysAreTrue`, of a session by itself |
| | `PlanKeysAreTrue` | `KeysAreTrue`, within `build_plan` |
| | `ExecutablesAreRunnable` | `ExecutableIsRunnable` |
| | `PlansAreBlockedForCause` | `BlockedOnlyForCause` |

Hardly any of these properties is inductive. What carries them:

**A run** (`FleetRun_proofs`). Each invariant rests on the one before.
`PoolInv`: a queued or running future belongs to the current batch, only a running future
has a worker, a future that is done has its target's result, and a target whose future has not ended was
neither snapshotted nor finished. Without it, `Drained`, a statement about the batch, would not
imply that no worker is left when `close` runs. `WorkInv` relates a target's position to
its records: what is before the position is recorded, nothing but the begun operation is
contacted without a record, and what was contacted has only successful or excluded operations
before it. `SiteInv`: every finished Site and every result repeats what was recorded, and gives
`skipped`, `not-run` or `cancelled` only to what was not contacted.
`InputInv` adds that outputs come only from recorded successes, and that what the second
phase inherits is what the first one holds. `ReportInv` adds that a success in a record, a finished Site or a result was
earned at the provider and that a Site's status is that of its operations (*Reported*), that whoever is not in
the current batch has a result, and everyone has once the phases are over (*Covered*), and that a run
was interrupted only by a stop and then returns as interrupted (*StopIsSeen*).
That a stop is final needs no more than that to have stopped short is kept by every step (`StaysShort`).

**The calls** (`ExecutorSteps_proofs`). `CallsInv` has a part for each. Of a deployment: until the
first tool is launched, and after a cancellation, nothing of it is at ARM or on its way, and a success is one of
the states it went through. Of the kubectl steps: no slot has two holders, a proxy's slot is held by its
own Site, and an attempt holds one slot for each that was tried before it (`SlotsOf`); what was launched and what is
said of it agree (`SaidBy`). Of a wait: the program's count of errors is the number of polls in a row that told
nothing, and the breaker opens when that number is reached. Every step then is a step of
`ProviderCall` or is not seen by it.

**The cache** (`PackageCache_proofs`). `StoreInv` of the store: *Locked* (two processes hold
locks of one entry only if both lease it, as the two functions that build lock names agree, `OneLockPerEntry`),
*Knows* (what each process takes for granted of its entry where it stands) and *Tree* (a node
is there only with its directory, a package only with its receipt). A step of one process
hurts what another knows only through a common entry, which the locks rule out
where it matters (`OthersKnow`). For the refinement every step but two leaves the objects alone
(`LeaseStep`, `QuietStep`); the rename is `Publish`, a deletion `Damage`, `Discard` or not seen.
`Opened` of the layout: the root only grows, and a root with an entry, a namespace or one under
construction is marked, so whatever makes the scan give up is in a marked root (*RootAt*); an opener knows
which directories it has made (*OpenerAt*); and once there is a marker nobody new sets out
to replace it, so that reads done plus replacements to come never exceed the number of openers
(*ReadsOn*). There is no lock here: `StillAt` shows that nothing one opener relies on can be
taken away by another.

**GitHub** (`GitHubReads_proofs`). `SnapshotInv` has a witness, the source as it was when the second round
began: what was seen of a part the first time is not newer than the witness, nor the witness than the source,
so a part that reads the same the second time was so at the witness, and all of them were so at one moment. `TransferInv` says that whoever checks a result, hashes or cleans up has
seen the worker exit, and that a parent yields only a file it found to be the expected one. `MetadataInv` says that while the clock was never set back,
the true age of a branch's record plus the time it was observed at do not exceed the clock.

**Pin and approval** (`PinnedContent_proofs`). `ContentInv` says where each process is and what it holds
there: the base a `project pin` read under the lock it still has, and, from the start of a revalidation on,
that every policy in place since was seen, and that a receipt that was checked names one of them that was still in
force after the plan was prepared. In the refinement `BindApproval` is `Read`, `ReplacePin` is `Replace`, and a failure, return or death gives up. `RecordInv` is about
one operator's files: how far a record is written, read, taken away or swapped, at every file
operation, and that the profile comes last and goes first.

**Release acceptance** (`ReleaseFleet_proofs`). First, whatever the action, what one step may do to
an attempt, a resource, a group and a deployment (`Moves`), and to a cleanup (`CleanMoves`). Then `FleetInv`,
mostly from the moves alone: receipts precede what they admit (*Receipts*), who created what and
when (*Things*, *Times*), what a cleanup has asked Azure to remove was its attempt's
or lies within its work (*Asking*), and what it found gone stays gone (*EphemeralGone*, *PersistentGone*). The bound of a cleanup is a
maximum over what it considers; `BoundedHasMax` gives what is needed of it.

**Configured Sites** (`CommandSites_proofs`). An edit changes what a file sets and inherits, not where
files are, their kinds and names (`Steady`), and the indexes are functions of just that: once
built, they stay the indexes of the workspace (*IndexInv*). `Moves` lists what one step may do to a
load, whoever asked for it, and `LoadInv` follows it with one lemma per move. A load is of the file that its
identifier means (*LoadingInv*); its layers are templates until the base, and files of one path from there
on (*ChainInv*); its data is what these layers decide, and its origins are those of its data. The last two
rest on two lemmas about merging: adding a layer to layers that decide their leaves gives layers that decide theirs, whatever
replaces whatever, and `MergeOrigins` has an origin for exactly what `DeepMerge` leaves. What one Site
reads of a template is what all do: a merge goes into the cache the moment it is made, a load stops at the
first template that is cached, and what it has read by then is not cached and stays uncached until it is
unwound (*ReadInv*, *InheritedInv*). A Site in the cache is there by all that the indexes find it by
(*CacheInv*), so it is never loaded again, and an answer is the cached Site (`AnswersInv`). Of a selection, what the sweep has
loaded is what is neither waiting nor skipped (*SweepInv*), and a manifest takes what is not
chosen yet (*ManifestInv*).

**Typed Sites** (`CommandSites_proofs`). First the contract: if `Accepted`, an input is the only one at its path, the
inputs that take facts are no controllers and take one fact each, and what is read before an input is declared before it. Then the answers: what
`Binds` accepts gives every value its one source. `TypedInv` says that what the command holds while it reads are
the values and the reads of its answers, that every observation is of the ID that an answer or an earlier observation leads to
and was accepted (*ReadsAreFollowed*), and that what is asked for is near an answer. A Site that is built therefore is
`BuiltSite` of answers and observations that are `Ready`, and the three properties of it are lemmas about the operators.

**A session** (`Preparation_proofs`). Versions only grow. The compiler saw a source no older than the
one that was read, and no newer than the one on disk now (*CompiledBetween*); if the second read finds the
first one's version again, all three are the same. The proof is first of a session by itself, from any templates
(`SessionSpec`), and the same lemmas then serve for the steps `Preparation` takes of it.

**A plan** (`Preparation_proofs`). `PlanInv` says what is known at each stage of `build_plan`: of the steps once
they are validated, of what was composed, of the operations that miss a tool (*CapabilitiesAreReported*), of
the Sites whose collections are covered (*CoverageIsReported*), and, of every operation that has been prepared,
that those whose outputs it reads were prepared before it and that it is to execute exactly
when it can be carried out with the step parameter files that were there (*HandledAreRight*, `CanRun`; `MoveIsRight`: moving a file changes nothing for the operations already prepared). What one operation does to `ops` cannot hurt
what is known of the others, as nothing that was prepared reads an operation that was not (`SourcesComeBefore`,
`OperationIsRight`). `CanRun` still refers to what else is to execute; `CarriedOut` does not. That they agree is a least
counterexample: the operations to execute solve the recursion that defines `CarriedOut`, steps refer to earlier
ones only, so the solution is unique (`CarriedOutIs`). What a manifest and its contracts are made of
is left open: the proofs take what `Load` and `ComposeSources` return as it comes, and use only
what `validate` has accepted.

Where an invariant was in doubt, TLC checked it first on the instance of its run (`Opened`, `ContentInv` and
`RecordInv`, for example), which is also how the hypotheses above were found to be needed.

### Only model-checked

- Liveness, which TLAPS does not prove: `RunReturns`, `StepsReturn`, `TransferReturns`.
- `SourcesAreRespected` of `Preparation`: that the flat list of steps is the one the files describe, and that a
  composition is accepted exactly when its files agree. Both compare a recursion over data with a direct definition.
- What a recursive function computes for every input: folds of composition and of manifests are
  compared with direct definitions on the instances only.
- Termination of a load: a chain of templates is finite because a file met twice fails, which is a liveness
  argument.

## What is abstracted

- Bytes, digests, certificates and JSON are identities: equal or not, verified or not.
- Time is a count of the units that decisions are made in. A tool call ends by answering, failing or
  timing out, whatever the reason.
- Every loop that is bounded in the code keeps its bound as a constant. Bounds that are
  not the code's are named `Max...` and stand in a guard: `MaxFaults`, `MaxCrashes`, `MaxTime`,
  `MaxClock`, `MaxVersion`, `MaxRevision`, `MaxChanges`, `MaxCommands`, `MaxUses`, `MaxActive`,
  `MaxRounds`, `MaxReconciles`, `MaxSaves`.
- *Sites*: contracts are like those of `secretsync/inputs.yaml`, with 17 single changes and 14 pairs.
  A value in `siteDefaults` above an input's path is accepted when the contract is loaded and refused when the Site is built.
- *Preparation*: the worlds are curated, one file is saved, removed or put back once; `MaxIncludeDepth` is the code's
  `MAX_INCLUDE_DEPTH`, 2 in the instance, with one file included deeper than that; contracts of composed parameters
  are one sound contract, 11 with one fault, and a second one. A subscription-level
  Site with composed resources and no step that accepts them makes the plan invalid.
- *Pin and approval*: between the two renames of a renewal there is no usable record, and
  an unlink that fails in `_discard` leaves a profile that vouches for nothing; both are in the model.

## Not modelled

- Fleet execution: preview mode and dry runs (no provider is contacted), an empty plan, a
  `KeyboardInterrupt` while futures are being submitted, progress callbacks and the lock around them.
- Wording, rendering, redaction, and the parsing of the shapes of single fields.
- Cache: entries of the metadata namespace in the store, ownership and access control, the report of `list`,
  the comparison of a lock file's identity.
- Templates: a file changed and changed back during a compilation, the modules a Bicep file imports
  when only compiled output is asked for; a parameter file created between `validate`'s
  composition check and its own check of the step.
- Composition: `_siteops` nesting, plain parameters in nested form, YAML shapes, aliases of default identities, the kinds of
  kubectl paths beyond local, `https`, `http`, outside, and chosen by the Site.
- Release acceptance: more than one cluster and one deployment product per attempt; strangers who take an
  ephemeral name after the attempt created its group; `operation_exit`; a vault bound from another group;
  per-slot details of a persistent environment; a collision of fixed snapshot names; the order of
  the workflow's jobs (`wait_for_job_state`, `FleetBudget`). A parameters file or kubeconfig that cannot be
  removed has no effect, as `close` sweeps the scratch directory.
- The components `PROJECT.json` lists as `not_modelled`, with their reasons: the package format (bytes and archives),
  workspaces, documentation, plugins and tests.

## Plan

Done: every component above has its modules, and the safety properties of the run, the calls, the cache, GitHub, pin and
approval, release acceptance, Sites, typed answers, template sessions and plans are proved, all but
`SourcesAreRespected`.
