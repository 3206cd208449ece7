----------------------------- MODULE Preparation -----------------------------
(***************************************************************************)
(* Orchestrator.build_plan: a manifest and the Sites it was resolved for   *)
(* become a plan in which every step of every Site is to execute, to be    *)
(* skipped, or blocked for a stated reason.  The manifest is loaded        *)
(* (ManifestSource), everything is validated, each Site's resource sets    *)
(* are composed (Composition), the tools are looked for, the templates are *)
(* acquired (TemplateSession) and the operations are prepared one by one,  *)
(* those of the subscription level first.                                  *)
(*                                                                         *)
(* A step is [name, kind, scope, when, template, files, reads]: reads are  *)
(* the steps whose outputs its own strings name (kubectl and wait steps),  *)
(* files the step parameter files of a deployment or what kubectl applies. *)
(* A parameter file maps names to the steps whose outputs the values read. *)
(* A Site is                                                               *)
(* [subscription, group, labels, parameters, selects, picks]: selects is   *)
(* {} or the list a `forEach` source expands over, picks {} or the file a  *)
(* step path that is chosen by the Site resolves to.                       *)
(* Governed collections are parameters of their own name.                  *)
(***************************************************************************)
EXTENDS ManifestSource, Composition, TemplateSession

CONSTANTS
  Worlds,         \* the workspaces a plan may be built for
  NumTargets,     \* Sites in each of them
  Subscriptions

VARIABLES
  world,        \* the workspace, fixed
  intent,       \* "describe" or "executable"
  stage,        \* where build_plan is
  manifest,     \* the manifest it loaded
  composed,     \* per target: the composition of its resource sets
  ops,          \* per target and step: the prepared operation
  tools,        \* the tools that are missing
  incapable,    \* operations that need one of them
  failedTargets,\* targets with diagnostics of their own
  handled,      \* operations that have been prepared, or left as they are
  gone,         \* per operation: step parameter files not there when it is prepared
  diagnostics,  \* what is reported, as <<target, step, code>>; 0 is all of them
  result        \* {} or the PlanBuildResult

planVars == <<manifest, composed, ops, tools, incapable, failedTargets, handled,
              diagnostics, result>>
vars == <<world, intent, stage, planVars, gone, compilationVars>>

Targets == 1 .. NumTargets
Steps == 1 .. Len(manifest.steps)
Operations == Targets \X Steps

SiteOf(t) == world.sites[t]
StepOf(s) == manifest.steps[s]

NoFile == "none"

IsDeployment(s) == StepOf(s).kind = "deployment"

AtSubscription(site) == ~site.group

(* _evaluate_condition: a step without a condition always applies.         *)
Holds(when, site) == when = {} \/ when \cap site.labels # {}

(* _check_step_site_compatibility                                          *)
Compatible(step, site) ==
  step.kind = "deployment" => (step.scope = "subscription") = AtSubscription(site)

(* _static_step_skip_reason                                                *)
Selected(step, site) == Compatible(step, site) /\ Holds(step.when, site)

-----------------------------------------------------------------------------
(* Manifest parameters.                                                    *)

(* _expand_manifest_parameter_source: a source on a property the Site does *)
(* not have selects nothing.                                               *)
Expand(source, site) ==
  LET Attached(path) == [path |-> path, collections |-> source.collections]
  IN  IF ~source.forEach THEN <<Attached(source.path)>>
      ELSE IF site.selects = {} THEN <<>>
      ELSE [i \in DOMAIN (CHOOSE q \in site.selects : TRUE) |->
              Attached((CHOOSE q \in site.selects : TRUE)[i])]

Expanded(m, site) ==
  FoldLeft(LAMBDA acc, source : acc \o Expand(source, site), <<>>, m.parameters)

(* _require_selected_parameter_file and the refusal of a file that is      *)
(* selected twice.                                                         *)
SelectionIsSound(m, site, files) ==
  LET all == Expanded(m, site)
  IN  /\ \A i \in DOMAIN all : all[i].path \in DOMAIN files
      /\ \A i, j \in DOMAIN all : all[i].path = all[j].path => i = j

(* The files a deployment step reads for a Site; a path the Site chooses   *)
(* and has no value for stays unresolved.                                  *)
StepFile(path, site) == IF path = "picked" THEN site.picks ELSE {path}

(* _validate_composition_lower_tiers: only manifest sources may write a    *)
(* governed collection.                                                    *)
LowerTiersKeepOut(m, site, governed, stepFiles) ==
  /\ DOMAIN site.parameters \cap governed = {}
  /\ \A step \in {x \in Elements(m.steps) : x.kind = "deployment"} :
       \A path \in UNION {StepFile(p, site) : p \in Elements(step.files)} \cap DOMAIN stepFiles :
         DOMAIN stepFiles[path] \cap governed = {}

Refusal ==
  [ok |-> FALSE, governed |-> {}, plain |-> << >>, written |-> {}, providers |-> {}]

(* _load_composition_contract                                              *)
Contract(m) ==
  MergeContracts([i \in DOMAIN m.compositions |-> world.contracts[m.compositions[i]]])

Chosen(m, site) ==
  LET expanded == Expanded(m, site)
  IN  [i \in DOMAIN expanded |->
         [path        |-> expanded[i].path,
          collections |-> expanded[i].collections,
          file        |-> world.paramFiles[expanded[i].path]]]

Composable(m, site) ==
  SelectionIsSound(m, site, world.paramFiles) /\ Contract(m).ok

(* _resolve_manifest_parameters                                            *)
ResolveManifestParameters(m, site) ==
  LET contract == Contract(m)
      governed == DOMAIN contract.collections
      acc == ComposeSources(contract, Chosen(m, site))
  IN  IF /\ Composable(m, site)
         /\ acc.ok
         /\ LowerTiersKeepOut(m, site, governed, world.stepFiles)
      THEN [ok        |-> TRUE,
            governed  |-> governed,
            plain     |-> acc.plain,
            written   |-> Written(acc, contract),
            providers |-> Providers(acc, contract)]
      ELSE Refusal

-----------------------------------------------------------------------------
(* validate                                                                *)

(* _validate_output_references: a deployment may name itself, since the    *)
(* parameter may not be one its template has.                              *)
MayName(m, s, name) ==
  \E p \in DOMAIN m.steps : m.steps[p].name = name /\ p <= s

StepFilesAreSound(m, s, site) ==
  \A p \in Elements(m.steps[s].files) :
    /\ StepFile(p, site) # {}
    /\ \A path \in StepFile(p, site) :
         /\ path \in DOMAIN world.stepFiles
         /\ \A key \in DOMAIN world.stepFiles[path] :
              \A name \in world.stepFiles[path][key] : MayName(m, s, name)

(* _kubectl_file_security_error                                            *)
Confined(path) == path \notin {"http", "outside"}

(* _kubectl_file_validation_error: a file over https is not looked for.    *)
KubectlFileIsSound(path) ==
  Confined(path) /\ (path = "https" \/ path \in DOMAIN world.stepFiles)

(* A path the Site chooses counts where the step is selected.              *)
KubectlFilesAreSound(step) ==
  \A p \in Elements(step.files) :
    IF p # "picked" THEN KubectlFileIsSound(p)
    ELSE \A t \in {u \in Targets : Selected(step, SiteOf(u))} :
           \E path \in StepFile(p, SiteOf(t)) : KubectlFileIsSound(path)

StepIsSound(m, s) ==
  CASE m.steps[s].kind = "deployment" ->
         /\ m.steps[s].template \in Templates /\ disk[m.steps[s].template] # 0
         /\ \A t \in Targets : StepFilesAreSound(m, s, SiteOf(t))
    [] m.steps[s].kind = "wait" ->
         \A name \in m.steps[s].reads : s > 1 /\ MayName(m, s - 1, name)
    [] OTHER -> KubectlFilesAreSound(m.steps[s])

SubscriptionLevel(subscription) ==
  {t \in Targets : AtSubscription(SiteOf(t)) /\ SiteOf(t).subscription = subscription}

GroupLevel(subscription) ==
  {t \in Targets : ~AtSubscription(SiteOf(t)) /\ SiteOf(t).subscription = subscription}

(* _any_subscription_step_would_execute                                    *)
AnyWouldExecute(scoped, sub) ==
  \E step \in scoped, t \in GroupLevel(sub) : Holds(step.when, SiteOf(t))

(* Each subscription has one Site at its level when a step is scoped to it *)
(* and would run.                                                          *)
SubscriptionSitesAreSound(m) ==
  LET scoped == {x \in Elements(m.steps) : x.kind = "deployment" /\ x.scope = "subscription"}
  IN  scoped = {} \/
      \A sub \in Subscriptions :
        /\ Cardinality(SubscriptionLevel(sub)) <= 1
        /\ SubscriptionLevel(sub) # {} \/ ~AnyWouldExecute(scoped, sub)

IsValid(m) ==
  /\ m.steps # <<>>
  /\ \A t \in Targets : ResolveManifestParameters(m, SiteOf(t)).ok
  /\ \A s \in 1 .. Len(m.steps) : StepIsSound(m, s)
  /\ SubscriptionSitesAreSound(m)

-----------------------------------------------------------------------------
NoOperation ==
  [disposition |-> "execute", reason |-> "none", prepared |-> FALSE,
   unit |-> {}, references |-> {}]

Init ==
  /\ world \in Worlds
  /\ intent \in {"describe", "executable"}
  /\ stage = "load"
  /\ manifest = Refused
  /\ composed = [t \in Targets |-> Refusal]
  /\ ops = << >>
  /\ tools = {} /\ incapable = {} /\ failedTargets = {} /\ handled = {}
  /\ gone = << >>
  /\ diagnostics = {}
  /\ result = {}
  /\ SessionInit(world.templates)

Invalid(code) ==
  /\ result' = {[status |-> "invalid", executable |-> FALSE, plan |-> FALSE]}
  /\ diagnostics' = {<<0, 0, code>>}
  /\ stage' = "done"

LoadManifest ==
  /\ stage = "load"
  /\ LET m == Load(world.manifests, world.root)
     IN  IF m.ok
           THEN /\ manifest' = m /\ stage' = "validate"
                /\ UNCHANGED <<diagnostics, result>>
           ELSE Invalid("validation.failed") /\ UNCHANGED manifest
  /\ UNCHANGED <<world, intent, composed, ops, tools, incapable, failedTargets, handled, gone,
                 compilationVars>>

Validate ==
  /\ stage = "validate"
  /\ IF IsValid(manifest) THEN stage' = "targets" /\ UNCHANGED <<diagnostics, result>>
                          ELSE Invalid("validation.failed")
  /\ UNCHANGED <<world, intent, manifest, composed, ops, tools, incapable, failedTargets, handled,
                 gone, compilationVars>>

(* The operations of a plan that only describes stay as they are here.     *)
DescribeTargets ==
  /\ stage = "targets"
  /\ composed' = [t \in Targets |-> ResolveManifestParameters(manifest, SiteOf(t))]
  /\ ops' = [op \in Operations |->
               IF Selected(StepOf(op[2]), SiteOf(op[1])) THEN NoOperation
               ELSE [NoOperation EXCEPT !.disposition = "skip", !.reason = "not-selected"]]
  /\ gone' = [op \in Operations |-> {}]
  /\ IF intent = "describe"
       THEN /\ stage' = "done"
            /\ result' = {[status |-> "planned", executable |-> FALSE, plan |-> TRUE]}
       ELSE stage' = "capabilities" /\ UNCHANGED result
  /\ UNCHANGED <<world, intent, manifest, tools, incapable, failedTargets, handled, diagnostics,
                 compilationVars>>

-----------------------------------------------------------------------------
(* Capabilities.                                                           *)

Executing == {op \in Operations : ops[op].disposition = "execute"}

IsBicep(op) == IsDeployment(op[2]) /\ Suffix(StepOf(op[2]).template) = "bicep"

(* required_capability_kinds                                               *)
Requires(op) ==
  CASE IsBicep(op) -> {"arm-control-plane", "bicep-compiler"}
    [] StepOf(op[2]).kind = "kubectl" -> {"kubectl", "arc-proxy"}
    [] OTHER -> {"arm-control-plane"}

(* What each capability needs: Bicep is run by the Azure CLI, and the Arc  *)
(* proxy is an extension of it.                                            *)
Lacking(kind, missing) ==
  CASE kind = "kubectl" -> "kubectl" \in missing
    [] kind = "arc-proxy" -> missing \cap {"az", "connectedk8s"} # {}
    [] OTHER -> "az" \in missing

RequiredKinds == UNION {Requires(op) : op \in Executing}

(* A missing compiler is not reported beside the CLI that runs it.         *)
ReportedKinds(missing) ==
  {kind \in RequiredKinds :
     /\ Lacking(kind, missing)
     /\ kind = "bicep-compiler" => ~("arm-control-plane" \in RequiredKinds)}

(* Tools no operation needs are not looked for.                            *)
Probed ==
  (IF RequiredKinds = {} THEN {} ELSE {"az"})
    \cup (IF "kubectl" \in RequiredKinds THEN {"kubectl", "connectedk8s"} ELSE {})

(* _resolve_plan_capabilities.  An extension that cannot be looked for is  *)
(* not missing.                                                            *)
ResolveCapabilities ==
  /\ stage = "capabilities"
  /\ \E missing \in SUBSET Probed :
       /\ tools' = missing
       /\ incapable' = {op \in Executing : \E kind \in Requires(op) : Lacking(kind, missing)}
       /\ diagnostics' = {<<0, 0, kind>> : kind \in ReportedKinds(missing)}
  /\ stage' = "acquire"
  /\ UNCHANGED <<world, intent, manifest, composed, ops, failedTargets, handled, gone, result,
                 compilationVars>>

-----------------------------------------------------------------------------
(* Templates.                                                              *)

Acquirable(op) ==
  /\ Selected(StepOf(op[2]), SiteOf(op[1])) /\ IsDeployment(op[2])
  /\ ~(IsBicep(op) /\ op \in incapable /\ Lacking("bicep-compiler", tools))

Earlier(op, other) ==
  op[1] < other[1] \/ (op[1] = other[1] /\ op[2] < other[2])

Unbound == {op \in Operations : Acquirable(op) /\ ~Acquired(StepOf(op[2]).template)}

(* _acquire_plan_templates asks for one template after another.            *)
AcquireTemplates ==
  /\ stage = "acquire"
  /\ \E op \in Unbound :
       /\ \A other \in Unbound : ~Earlier(other, op)
       /\ Acquire(StepOf(op[2]).template)
  /\ UNCHANGED <<world, intent, stage, planVars, gone>>

Unit(op) ==
  IF Acquirable(op) THEN {o \in Cached(StepOf(op[2]).template) : o.ok} ELSE {}

TemplateFailed(op) == Acquirable(op) /\ Unit(op) = {}

Accepts(op) == UNION {Says(o.key.template, x.source).accepts :
                        x \in UNION {u.output : u \in Unit(op)}, o \in Unit(op)}

NeededParameters(op) == UNION {Says(o.key.template, x.source).required :
                                 x \in UNION {u.output : u \in Unit(op)}, o \in Unit(op)}

-----------------------------------------------------------------------------
(* _validate_composition_step_coverage                                     *)

DeploymentsOf(t) == {s \in Steps : IsDeployment(s) /\ Selected(StepOf(s), SiteOf(t))}

Accepting(t, c) == {s \in DeploymentsOf(t) : c \in Accepts(<<t, s>>)}

FirstOf(set) == CHOOSE s \in set : \A r \in set : s <= r

(* Mutant: a collection that two steps accept is left to the first.        *)
CoveredByFirst(t) ==
  \A c \in composed[t].written : Accepting(t, c) # {}

Covered(t) ==
  /\ \A c \in composed[t].written : \E s \in Steps : Accepting(t, c) = {s}
  /\ \A pair \in composed[t].providers :
       \/ Accepting(t, pair[1]) = {} \/ Accepting(t, pair[2]) = {}
       \/ FirstOf(Accepting(t, pair[1])) <= FirstOf(Accepting(t, pair[2]))

(* A target one of whose templates has no schema is not looked at.         *)
ValidateCoverage ==
  /\ stage = "acquire" /\ job = NoJob /\ Unbound = {}
  /\ failedTargets' =
       {t \in Targets : /\ composed[t].governed # {}
                        /\ \A s \in DeploymentsOf(t) : Unit(<<t, s>>) # {}
                        /\ ~Covered(t)}
  /\ diagnostics' = diagnostics
       \cup {<<t, 0, "composition.invalid">> : t \in failedTargets'}
       \cup {<<0, 0, "compilation">> : op \in {x \in Operations : TemplateFailed(x)}}
  /\ stage' = "prepare"
  /\ UNCHANGED <<world, intent, manifest, composed, ops, tools, incapable, handled, gone, result,
                 compilationVars>>

-----------------------------------------------------------------------------
(* _prepare_plan_targets, one operation after another.                     *)

OwnTarget(op) == AtSubscription(SiteOf(op[1]))

(* Mutant: targets are prepared in the order of the plan.                  *)
AsGiven(op, other) == Earlier(op, other)

(* A target's operations read outputs of the one at subscription level.    *)
ComesBefore(op, other) ==
  IF OwnTarget(op) # OwnTarget(other) THEN OwnTarget(op) ELSE Earlier(op, other)

Turn(op) ==
  /\ stage = "prepare"
  /\ op \in Operations \ handled
  /\ \A other \in Operations \ handled : ~ComesBefore(other, op)

(* _merge_known_parameters: every governed collection is a parameter, an   *)
(* empty array when no file writes it, and nothing below the manifest      *)
(* writes one.  A step file that is not there any more is left out with a  *)
(* warning.                                                                *)
Merged(site, composition, files, present) ==
  LET Over(params, file) ==
        LET here == StepFile(file, site) \cap DOMAIN present
        IN  IF here = {} THEN params ELSE present[CHOOSE path \in here : TRUE] @@ params
  IN  FoldLeft(Over,
               site.parameters @@ [c \in composition.governed |-> {}] @@ composition.plain,
               files)

KnownParameters(op) ==
  Merged(SiteOf(op[1]), composed[op[1]], StepOf(op[2]).files,
         Restrict(world.stepFiles, DOMAIN world.stepFiles \ gone[op]))

(* _require_selected_parameter_file: the file the Site chooses has to be   *)
(* there, before anything else is looked at.                               *)
Lost(op) ==
  /\ IsDeployment(op[2])
  /\ "picked" \in Elements(StepOf(op[2]).files)
  /\ SiteOf(op[1]).picks \cap gone[op] # {}

Given(op) == DOMAIN KnownParameters(op) \cap Accepts(op)

(* The names of the steps whose outputs the inputs of op read.             *)
Reads(op) ==
  IF IsDeployment(op[2]) THEN UNION {KnownParameters(op)[k] : k \in Given(op)}
                         ELSE StepOf(op[2]).reads

(* _plan_reference_sources: the operation a name stands for, if any.       *)
SourceTargets(t, step) ==
  CASE step.scope = "subscription" /\ AtSubscription(SiteOf(t)) -> {t}
    [] step.scope = "subscription" /\ ~AtSubscription(SiteOf(t)) ->
         SubscriptionLevel(SiteOf(t).subscription)
    [] OTHER -> IF AtSubscription(SiteOf(t)) THEN {} ELSE {t}

Sources(op, name) ==
  UNION {SourceTargets(op[1], StepOf(p)) \X {p} :
           p \in {q \in Steps : q < op[2] /\ StepOf(q).name = name /\ IsDeployment(q)}}

Available(op, name) ==
  {source \in Sources(op, name) :
     ops[source].disposition = "execute" /\ ops[source].prepared}

Unavailable(op) == {name \in Reads(op) : Available(op, name) = {}}

MissingParameters(op) ==
  IF IsDeployment(op[2]) THEN NeededParameters(op) \ Given(op) ELSE {}

Settle(op, operation, news) ==
  /\ ops' = [ops EXCEPT ![op] = operation]
  /\ handled' = handled \cup {op}
  /\ diagnostics' = diagnostics \cup {<<op[1], op[2], code>> : code \in news}
  /\ UNCHANGED <<world, intent, stage, manifest, composed, tools, incapable, failedTargets,
                 gone, result, compilationVars>>

(* _bind_deployment_unit *)
Bound(op) == [ops[op] EXCEPT !.unit = Unit(op)]

Blocked(op, reason) == [Bound(op) EXCEPT !.disposition = "blocked", !.reason = reason]

KeepSkipped(op) ==
  /\ Turn(op)
  /\ op \notin Executing
  /\ Settle(op, ops[op], {})

BlockWithTarget(op) ==
  /\ Turn(op) /\ op \in Executing
  /\ op[1] \in failedTargets
  /\ Settle(op, Blocked(op, "target-preparation-failed"), {})

BlockWithoutUnit(op) ==
  /\ Turn(op) /\ op \in Executing
  /\ op[1] \notin failedTargets
  /\ IsDeployment(op[2]) /\ Unit(op) = {}
  /\ Settle(op, Blocked(op, IF TemplateFailed(op) THEN "compilation-failed"
                                                 ELSE "capability-unavailable"), {})

MayPrepare(op) ==
  /\ Turn(op) /\ op \in Executing
  /\ op[1] \notin failedTargets
  /\ IsDeployment(op[2]) => Unit(op) # {}

(* classify_plan_value stops at the first name it cannot bind.             *)
BlockOnSource(op) ==
  /\ MayPrepare(op) /\ ~Lost(op)
  /\ \E name \in Unavailable(op) : \E source \in Sources(op, name) :
       Settle(op,
              [Blocked(op, "dependency-blocked") EXCEPT !.references = {source}],
              IF ops[source].disposition = "skip" THEN {"dependency-blocked"} ELSE {})

RefuseOperation(op) ==
  /\ MayPrepare(op)
  /\ \/ Lost(op)
     \/ \E name \in Unavailable(op) : Sources(op, name) = {}
     \/ Unavailable(op) = {} /\ MissingParameters(op) # {}
  /\ Settle(op, Blocked(op, "target-preparation-failed"), {"operation-preparation.invalid"})

(* An operation that needs a missing tool is described all the same.       *)
PrepareOperation(op) ==
  /\ MayPrepare(op) /\ ~Lost(op)
  /\ Unavailable(op) = {}
  /\ MissingParameters(op) = {}
  /\ LET prepared == [Bound(op) EXCEPT !.prepared = TRUE,
                        !.references = UNION {Available(op, name) : name \in Reads(op)}]
     IN  Settle(op,
                IF op \in incapable
                  THEN [prepared EXCEPT !.disposition = "blocked",
                                        !.reason = "capability-unavailable"]
                  ELSE prepared,
                {})

BlockedOperations == {op \in Operations : ops[op].disposition = "blocked"}

BuildResult ==
  /\ stage = "prepare" /\ handled = Operations
  /\ LET sound == diagnostics = {} /\ BlockedOperations = {}
     IN  result' = {[status |-> IF sound THEN "planned" ELSE "invalid",
                     executable |-> sound, plan |-> TRUE]}
  /\ stage' = "done"
  /\ UNCHANGED <<world, intent, manifest, composed, ops, tools, incapable, failedTargets,
                 handled, gone, diagnostics, compilationVars>>

(* Templates are saved while build_plan acquires them.                     *)
SaveMeanwhile ==
  stage = "acquire" /\ Save /\ UNCHANGED <<world, intent, stage, planVars, gone>>

(* What the other files say is read once, but step parameter files are     *)
(* looked for again with every operation: one is removed, or put back.     *)
(* (Earlier is the same to the operations as before the first of them.)    *)
MoveStepFile ==
  /\ stage = "prepare" /\ saves < MaxSaves
  /\ saves' = saves + 1
  /\ \E path \in DOMAIN world.stepFiles :
       gone' = [op \in Operations |-> IF op \in handled THEN gone[op]
                                     ELSE SymDiff(gone[op], {path})]
  /\ UNCHANGED <<world, intent, stage, planVars, bodyVars, disk, configuration, sessionVars>>

PrepareOne(op) ==
  \/ KeepSkipped(op) \/ BlockWithTarget(op) \/ BlockWithoutUnit(op)
  \/ BlockOnSource(op) \/ RefuseOperation(op) \/ PrepareOperation(op)

Next ==
  \/ LoadManifest \/ Validate \/ DescribeTargets \/ ResolveCapabilities
  \/ AcquireTemplates \/ ValidateCoverage \/ BuildResult \/ SaveMeanwhile
  \/ MoveStepFile
  \/ \E op \in Operations : PrepareOne(op)

Spec == Init /\ [][Next]_vars

-----------------------------------------------------------------------------
(* What is composed for a Site is what its files say together: refused     *)
(* exactly when they contradict each other, in whatever order they are.    *)
ComposedAsContracted ==
  stage = "validate" =>
    \A t \in Targets :
      Composable(manifest, SiteOf(t)) =>
        LET contract == Contract(manifest)
            chosen == Chosen(manifest, SiteOf(t))
        IN  ComposeSources(contract, chosen).ok <=> Coherent(contract, chosen)

(* A manifest that loads has the steps its files have, in their order, and *)
(* each runs under the condition written on its way.                       *)
LoadedAsWritten ==
  stage = "validate" => AsWritten(world.manifests, world.root, manifest)

SourcesAreRespected == LoadedAsWritten /\ ComposedAsContracted

Run == INSTANCE PlanShape WITH NumSteps <- Len(manifest.steps)

(* The plan as execute_plan takes it.                                      *)
Shape ==
  [kind         |-> [t \in Targets |-> IF AtSubscription(SiteOf(t)) THEN "subscription"
                                       ELSE "resource-group"],
   subscription |-> [t \in Targets |-> SiteOf(t).subscription],
   scope        |-> [s \in Steps |-> IF IsDeployment(s) THEN StepOf(s).scope ELSE "any"],
   disp         |-> [t \in Targets |-> [s \in Steps |-> ops[<<t, s>>].disposition]],
   refs         |-> [t \in Targets |-> [s \in Steps |-> ops[<<t, s>>].references]]]

Planned == stage = "done" /\ \E r \in result : r.plan
Executable == stage = "done" /\ \E r \in result : r.executable

(* What execute_plan relies on: every operation of an executable plan has  *)
(* a template that compiled, with every parameter it requires, or files,   *)
(* the tools it needs, reads only what runs before it, and each collection *)
(* that is written goes to one deployment, that of what it refers to no    *)
(* later.                                                                  *)
ExecutableIsRunnable ==
  Executable =>
    /\ Run!WellFormed(Shape)
    /\ BlockedOperations = {}
    /\ \A op \in Executing :
         /\ ops[op].prepared
         /\ IsDeployment(op[2]) => /\ \E unit \in ops[op].unit : unit.ok
                                  /\ ~Lost(op) /\ MissingParameters(op) = {}
         /\ \A kind \in Requires(op) : ~Lacking(kind, tools)
         /\ StepOf(op[2]).kind = "kubectl" =>
              \A p \in Elements(StepOf(op[2]).files) :
                \E path \in StepFile(p, SiteOf(op[1])) : KubectlFileIsSound(path)
    /\ \A t \in Targets :
         /\ \A c \in composed[t].written : \E s \in Steps : Accepting(t, c) = {s}
         /\ \A pair \in composed[t].providers :
              \A provider \in Accepting(t, pair[1]), consumer \in Accepting(t, pair[2]) :
                provider <= consumer

(* Whether an operation can be carried out depends on the workspace, not   *)
(* on the order in which operations are prepared: it, and every operation  *)
(* whose outputs it reads, is selected, compiles, and has its tools, its   *)
(* parameters and the file its Site chooses.                               *)
CarriedOut[s \in Steps] ==
  {t \in Targets :
     /\ Selected(StepOf(s), SiteOf(t))
     /\ t \notin failedTargets
     /\ <<t, s>> \notin incapable
     /\ IsDeployment(s) => Unit(<<t, s>>) # {} /\ MissingParameters(<<t, s>>) = {}
     /\ ~Lost(<<t, s>>)
     /\ \A name \in Reads(<<t, s>>) :
          \E source \in Sources(<<t, s>>, name) : source[1] \in CarriedOut[source[2]]}

Sound == {op \in Operations : op[1] \in CarriedOut[op[2]]}

PlannedWhenSound ==
  Planned /\ intent = "executable" => Executing = Sound

(* A plan with a blocked operation says why: each is reported, or one whose*)
(* outputs it reads is.                                                    *)
Explained(op) ==
  LET Because(reason) == ops[op].reason = reason
      Reported(target, step, codes) ==
        \E d \in diagnostics : d[1] = target /\ d[2] = step /\ d[3] \in codes
  IN  \/ Because("compilation-failed") /\ Reported(0, 0, {"compilation"})
      \/ /\ Because("capability-unavailable")
         /\ \E kind \in Requires(op) : Lacking(kind, tools) /\ Reported(0, 0, {kind})
      \/ /\ Because("target-preparation-failed")
         /\ \/ Reported(op[1], 0, {"composition.invalid"})
            \/ Reported(op[1], op[2], {"operation-preparation.invalid"})
      \/ /\ Because("dependency-blocked")
         /\ \/ Reported(op[1], op[2], {"dependency-blocked"})
            \/ \E source \in ops[op].references : source \in BlockedOperations

BlockedIsExplained == Planned => \A op \in BlockedOperations : Explained(op)

BlockedOnlyForCause == PlannedWhenSound /\ BlockedIsExplained
=============================================================================
