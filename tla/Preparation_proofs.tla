-------------------------- MODULE Preparation_proofs --------------------------
(***************************************************************************)
(* Proofs about build_plan.                                                *)
(*                                                                         *)
(* A session of template compilation: what its keys say is true            *)
(* (KeysAreTrue), for any templates, any number of saves and any order of  *)
(* saves, reads and compilations.                                          *)
(*                                                                         *)
(* The plan: an operation that has been prepared is to execute exactly     *)
(* when it can be carried out (CanRun), for it is its turn only after the  *)
(* operations whose outputs it reads, and one that is blocked says why     *)
(* (HandledAreRight).  From it follow what execute_plan relies on          *)
(* (ExecutableIsRunnable) and that nothing is blocked for the order it was *)
(* prepared in (BlockedOnlyForCause), for any workspace and any number of  *)
(* Sites, steps and saves.                                                 *)
(***************************************************************************)
EXTENDS Preparation, FiniteSetTheorems, TLAPS

JobStages == {"idle", "reading", "parsing", "configuring", "compiling", "checking"}
Outputs == [source : Nat, configuration : Nat]

SessionShape ==
  /\ disk \in [Templates -> Nat]
  /\ configuration \in Nat
  /\ sources \in [Templates -> SUBSET (Nat \ {0})]
  /\ configurations \in [Templates -> SUBSET Nat]
  /\ job \in [template : Templates \cup {"none"}, at : JobStages, output : SUBSET Outputs]
  /\ job.at = "idle" => job = NoJob
  /\ job.at # "idle" => job.template \in Templates

(* An outcome is of what was read of its template.                         *)
OutcomesAreKept ==
  \A o \in outcomes : o.key.template \in Templates /\ o.key \in KeysOf(o.key.template)

(* Nothing is known yet of the template that is being acquired.            *)
JobIsNew ==
  job.at # "idle" =>
    /\ job.template \notin pathFailures
    /\ \A o \in outcomes : o.key.template # job.template

(* What was read of it was on disk then: a version is never on disk again  *)
(* after a later one.                                                      *)
ReadBefore ==
  job.at \in {"parsing", "configuring", "compiling", "checking"} =>
    \E v \in Nat \ {0} :
      sources[job.template] = {v} /\ (disk[job.template] = 0 \/ v <= disk[job.template])

ConfiguredBefore ==
  job.at \in {"compiling", "checking"} =>
    \E c \in Nat : configurations[job.template] = {c} /\ c <= configuration

(* The compiler saw what was read or a later version.                      *)
CompiledBetween ==
  job.at = "checking" =>
    \A o \in job.output :
      /\ job.output = {o}
      /\ \A v \in sources[job.template] : v <= o.source
      /\ disk[job.template] = 0 \/ o.source <= disk[job.template]
      /\ \A c \in configurations[job.template] : c <= o.configuration
      /\ o.configuration <= configuration

OnlyBicepIsCompiled ==
  job.at \in {"configuring", "compiling", "checking"} => Suffix(job.template) # "json"

SessionInv ==
  /\ SessionShape /\ OutcomesAreKept /\ JobIsNew /\ ReadBefore /\ ConfiguredBefore
  /\ CompiledBetween /\ OnlyBicepIsCompiled /\ KeysAreTrue

-------------------------------------------------------------------------------
LEMMA SessionStarts ==
  ASSUME NEW templates, SessionInit(templates)
  PROVE  SessionInv
BY SMT DEF SessionInit, SessionInv, SessionShape, OutcomesAreKept, JobIsNew, ReadBefore,
       ConfiguredBefore, CompiledBetween, OnlyBicepIsCompiled, KeysAreTrue, NoJob, JobStages, Outputs

(* A key of a template names the template.                                 *)
LEMMA KeysName ==
  ASSUME NEW t, NEW key \in KeysOf(t)
  PROVE  key.template = t
BY DEF KeysOf, Key

(* A template with an outcome is acquired.                                 *)
LEMMA AcquiredIsKept ==
  ASSUME SessionInv, NEW t \in Templates, ~Acquired(t)
  PROVE  t \notin pathFailures /\ \A o \in outcomes : o.key.template # t
BY DEF SessionInv, OutcomesAreKept, Acquired, Cached

(* A save leaves what was read and compiled in the past.                   *)
LEMMA SaveIsLater ==
  ASSUME SessionInv, Save
  PROVE  SessionInv'
<1> USE DEF SessionInv
<1>1. UNCHANGED <<body, sources, configurations, pathFailures, outcomes, job>>
  BY DEF Save, bodyVars, sessionVars
<1>2. /\ disk' \in [Templates -> Nat] /\ configuration' \in Nat
      /\ configuration <= configuration'
      /\ \A t \in Templates : disk'[t] = 0 \/ (disk[t] # 0 /\ disk[t] <= disk'[t]) \/ disk'[t] = disk[t]
  <2>1. ASSUME NEW t \in Templates, disk[t] # 0,
               disk' = [disk EXCEPT ![t] = IF @ < Len(body[t].versions) THEN @ + 1 ELSE 0],
               UNCHANGED configuration
        PROVE  <1>2!1 /\ <1>2!2 /\ <1>2!3
    <3>1. disk'[t] = 0 \/ disk'[t] = disk[t] + 1
      BY <2>1 DEF SessionShape
    <3>2. QED
      BY <2>1, <3>1, SMT DEF SessionShape
  <2>2. CASE configuration' = configuration + 1 /\ UNCHANGED disk
    BY <2>2, SMT DEF SessionShape
  <2>3. QED
    BY <2>1, <2>2 DEF Save
<1>3. SessionShape' /\ OutcomesAreKept' /\ JobIsNew' /\ OnlyBicepIsCompiled' /\ KeysAreTrue'
  BY <1>1, <1>2 DEF SessionShape, OutcomesAreKept, JobIsNew, OnlyBicepIsCompiled, KeysAreTrue, KeysOf,
     Key, Suffix, NoJob
<1>4. ReadBefore' /\ ConfiguredBefore'
  BY <1>1, <1>2, SMT DEF SessionShape, ReadBefore, ConfiguredBefore
<1>5. CompiledBetween'
  <2>1. SUFFICES ASSUME job.at = "checking", NEW o \in job.output
                 PROVE  /\ disk'[job.template] = 0 \/ o.source <= disk'[job.template]
                        /\ o.configuration <= configuration'
    BY <1>1 DEF CompiledBetween
  <2>2. job.template \in Templates /\ o \in Outputs
    BY <2>1 DEF SessionShape
  <2>3. o.source \in Nat /\ o.configuration \in Nat
    BY <2>2 DEF Outputs
  <2>4. disk[job.template] \in Nat /\ disk'[job.template] \in Nat
    BY <1>2, <2>2 DEF SessionShape
  <2>5. QED
    BY <1>2, <2>1, <2>2, <2>3, <2>4, SMT DEF CompiledBetween, SessionShape
<1>6. QED
  BY <1>3, <1>4, <1>5

-------------------------------------------------------------------------------
(* An outcome is added for the template of the job, and is true.           *)
LEMMA OutcomeIsTrue ==
  ASSUME SessionInv, NEW t \in Templates, job.template = t, job.at # "idle",
         NEW v \in sources[t], NEW c \in configurations[t] \cup {0}, NEW output,
         Finish(Outcome(t, v, c, output)),
         UNCHANGED <<body, disk, configuration, sources, configurations, pathFailures>>,
         output # {} =>
           output = {[source |-> v, configuration |-> IF Suffix(t) = "json" THEN 0 ELSE c]}
  PROVE  SessionInv'
<1> USE DEF SessionInv
<1> DEFINE new == Outcome(t, v, c, output)
<1>1. outcomes' = outcomes \cup {new} /\ job' = NoJob
  BY DEF Finish
<1>2. /\ new.key = Key(t, v, c) /\ new.key.template = t /\ new.key \in KeysOf(t)
      /\ new.key.source = v /\ new.output = output
      /\ new.key.configuration = IF Suffix(t) = "json" THEN 0 ELSE c
  <2>1. new.key = Key(t, v, c) /\ new.output = output
    BY DEF Outcome
  <2>2. Key(t, v, c) \in KeysOf(t)
    BY DEF KeysOf
  <2>3. QED
    BY <2>1, <2>2 DEF Key
<1>3. new.ok => output # {}
  BY DEF Outcome
<1> HIDE DEF new
<1>4. SessionShape'
  BY <1>1, SMT DEF SessionShape, NoJob, JobStages
<1>5. OutcomesAreKept'
  <2>1. \A s \in Templates : KeysOf(s)' = KeysOf(s)
    BY DEF KeysOf, Key, Suffix
  <2>2. QED
    BY <1>1, <1>2, <2>1 DEF OutcomesAreKept
<1>6. JobIsNew' /\ ReadBefore' /\ ConfiguredBefore' /\ CompiledBetween' /\ OnlyBicepIsCompiled'
  BY <1>1 DEF NoJob, JobIsNew, ReadBefore, ConfiguredBefore, CompiledBetween, OnlyBicepIsCompiled
<1>7. KeysAreTrue'
  <2>1. t \notin pathFailures /\ \A o \in outcomes : o.key.template # t
    BY DEF JobIsNew
  <2>2. new.ok => new.output = {[source |-> new.key.source, configuration |-> new.key.configuration]}
    BY <1>2, <1>3
  <2>3. QED
    BY <1>1, <1>2, <2>1, <2>2 DEF KeysAreTrue
<1>8. QED
  BY <1>4, <1>5, <1>6, <1>7

(* The job goes on, or its template could not be read.                     *)
LEMMA FailureIsNew ==
  ASSUME SessionInv, NEW t \in Templates, job.template = t, job.at # "idle",
         pathFailures' = pathFailures \cup {t}, job' = NoJob,
         UNCHANGED <<body, disk, configuration, sources, configurations, outcomes>>
  PROVE  SessionInv'
<1> USE DEF SessionInv
<1>1. SessionShape'
  BY SMT DEF SessionShape, NoJob, JobStages
<1>2. OutcomesAreKept'
  BY DEF OutcomesAreKept, KeysOf, Key, Suffix
<1>3. JobIsNew' /\ ReadBefore' /\ ConfiguredBefore' /\ CompiledBetween' /\ OnlyBicepIsCompiled'
  BY DEF NoJob, JobIsNew, ReadBefore, ConfiguredBefore, CompiledBetween, OnlyBicepIsCompiled
<1>4. KeysAreTrue'
  BY DEF JobIsNew, KeysAreTrue
<1>5. QED
  BY <1>1, <1>2, <1>3, <1>4

LEMMA AcquireIsTrue ==
  ASSUME SessionInv, NEW t \in Templates, Acquire(t)
  PROVE  SessionInv'
<1> USE DEF SessionInv, bodyVars, diskVars
<1>1. CASE StartAcquiring(t)
  <2>1. t \notin pathFailures /\ \A o \in outcomes : o.key.template # t
    BY <1>1, AcquiredIsKept DEF StartAcquiring
  <2>2. job' = [template |-> t, at |-> "reading", output |-> {}]
    BY <1>1 DEF StartAcquiring, NoJob
  <2>3. UNCHANGED <<body, disk, configuration, sources, configurations, pathFailures, outcomes>>
    BY <1>1 DEF StartAcquiring
  <2>4. SessionShape'
    BY <2>2, <2>3, SMT DEF SessionShape, JobStages
  <2>5. OutcomesAreKept'
    BY <2>3 DEF OutcomesAreKept, KeysOf, Key, Suffix
  <2>6. JobIsNew' /\ ReadBefore' /\ ConfiguredBefore' /\ CompiledBetween' /\ OnlyBicepIsCompiled'
    BY <2>1, <2>2, <2>3 DEF JobIsNew, ReadBefore, ConfiguredBefore, CompiledBetween,
                            OnlyBicepIsCompiled
  <2>7. KeysAreTrue'
    BY <2>3 DEF KeysAreTrue
  <2>8. QED
    BY <2>4, <2>5, <2>6, <2>7
<1>2. CASE ReadSource(t)
  <2> DEFINE at == IF Suffix(t) = "json" THEN "parsing" ELSE "configuring"
  <2>1. /\ job.template = t /\ job.at = "reading" /\ disk[t] # 0
        /\ sources' = [sources EXCEPT ![t] = {disk[t]}]
        /\ job' = [job EXCEPT !.at = at]
        /\ UNCHANGED <<body, disk, configuration, configurations, pathFailures, outcomes>>
    BY <1>2 DEF ReadSource, Step
  <2>2. /\ job'.template = t /\ job'.at = at /\ job'.output = job.output
        /\ job' \in [template : Templates \cup {"none"}, at : JobStages, output : SUBSET Outputs]
    BY <2>1 DEF SessionShape, JobStages
  <2>3. /\ sources'[t] = {disk[t]} /\ disk[t] \in Nat \ {0}
        /\ \A s \in Templates : s # t => sources'[s] = sources[s]
        /\ sources' \in [Templates -> SUBSET (Nat \ {0})]
    BY <2>1 DEF SessionShape
  <2>4. t \notin pathFailures /\ \A o \in outcomes : o.key.template # t
    BY <2>1 DEF JobIsNew
  <2>5. SessionShape'
    BY <2>1, <2>2, <2>3 DEF SessionShape
  <2>6. OutcomesAreKept'
    <3>1. \A s \in Templates : s # t => KeysOf(s)' = KeysOf(s)
      BY <2>1, <2>3 DEF KeysOf, Key, Suffix
    <3>2. QED
      BY <2>1, <2>4, <3>1 DEF OutcomesAreKept
  <2>7. JobIsNew' /\ ConfiguredBefore' /\ CompiledBetween' /\ OnlyBicepIsCompiled'
    BY <2>1, <2>2, <2>4 DEF JobIsNew, ConfiguredBefore, CompiledBetween, OnlyBicepIsCompiled, Suffix
  <2>8. ReadBefore'
    BY <2>1, <2>2, <2>3, SMT DEF ReadBefore
  <2>9. KeysAreTrue'
    BY <2>1 DEF KeysAreTrue
  <2>10. QED
    BY <2>5, <2>6, <2>7, <2>8, <2>9
<1>3. CASE SourceUnreadable(t) \/ ConfigurationUnreadable(t)
  BY <1>3, FailureIsNew DEF SourceUnreadable, ConfigurationUnreadable, Step
<1>4. CASE ParseTemplate(t)
  <2>1. /\ job.template = t /\ job.at = "parsing"
        /\ UNCHANGED <<body, disk, configuration, sources, configurations, pathFailures>>
    BY <1>4 DEF ParseTemplate, Step
  <2>2. PICK v \in sources[t] :
          Finish(Outcome(t, v, 0, {[source |-> v, configuration |-> 0]}))
    BY <1>4 DEF ParseTemplate
  <2>3. QED
    BY <2>1, <2>2, OutcomeIsTrue
<1>5. CASE FindConfiguration(t)
  <2>1. /\ job.template = t /\ job.at = "configuring"
        /\ configurations' = [configurations EXCEPT ![t] = {configuration}]
        /\ job' = [job EXCEPT !.at = "compiling"]
        /\ UNCHANGED <<body, disk, configuration, sources, pathFailures, outcomes>>
    BY <1>5 DEF FindConfiguration, Step
  <2>2. /\ job'.template = t /\ job'.at = "compiling" /\ job'.output = job.output
        /\ job' \in [template : Templates \cup {"none"}, at : JobStages, output : SUBSET Outputs]
    BY <2>1 DEF SessionShape, JobStages
  <2>3. /\ configurations'[t] = {configuration}
        /\ \A s \in Templates : s # t => configurations'[s] = configurations[s]
        /\ configurations' \in [Templates -> SUBSET Nat]
    BY <2>1 DEF SessionShape
  <2>4. t \notin pathFailures /\ \A o \in outcomes : o.key.template # t
    BY <2>1 DEF JobIsNew
  <2>5. SessionShape'
    BY <2>1, <2>2, <2>3 DEF SessionShape
  <2>6. OutcomesAreKept'
    <3>1. \A s \in Templates : s # t => KeysOf(s)' = KeysOf(s)
      BY <2>1, <2>3 DEF KeysOf, Key, Suffix
    <3>2. QED
      BY <2>1, <2>4, <3>1 DEF OutcomesAreKept
  <2>7. JobIsNew' /\ CompiledBetween' /\ OnlyBicepIsCompiled' /\ ReadBefore'
    BY <2>1, <2>2, <2>4 DEF JobIsNew, CompiledBetween, OnlyBicepIsCompiled, Suffix, ReadBefore
  <2>8. ConfiguredBefore'
    BY <2>1, <2>2, <2>3, SMT DEF ConfiguredBefore, SessionShape
  <2>9. KeysAreTrue'
    BY <2>1 DEF KeysAreTrue
  <2>10. QED
    BY <2>5, <2>6, <2>7, <2>8, <2>9
<1>6. CASE Compile(t)
  <2> DEFINE output == IF disk[t] = 0 THEN {}
                       ELSE {[source |-> disk[t], configuration |-> configuration]}
  <2>1. /\ job.template = t /\ job.at = "compiling"
        /\ job' = [job EXCEPT !.at = "checking", !.output = output]
        /\ UNCHANGED <<body, disk, configuration, sources, configurations, pathFailures, outcomes>>
    BY <1>6 DEF Compile, Step
  <2>2. output \in SUBSET Outputs
    BY DEF SessionShape, Outputs
  <2>3. /\ job'.template = t /\ job'.at = "checking" /\ job'.output = output
        /\ job' \in [template : Templates \cup {"none"}, at : JobStages, output : SUBSET Outputs]
    BY <2>1, <2>2 DEF SessionShape, JobStages
  <2>4. SessionShape'
    BY <2>1, <2>3 DEF SessionShape
  <2>5. OutcomesAreKept' /\ KeysAreTrue'
    BY <2>1 DEF OutcomesAreKept, KeysOf, Key, Suffix, KeysAreTrue
  <2>6. JobIsNew' /\ OnlyBicepIsCompiled' /\ ReadBefore' /\ ConfiguredBefore'
    BY <2>1, <2>3 DEF JobIsNew, OnlyBicepIsCompiled, Suffix, ReadBefore, ConfiguredBefore
  <2>7. CompiledBetween'
    <3>1. PICK v \in Nat \ {0} : sources[t] = {v} /\ (disk[t] = 0 \/ v <= disk[t])
      BY <2>1 DEF ReadBefore
    <3>2. PICK c \in Nat : configurations[t] = {c} /\ c <= configuration
      BY <2>1 DEF ConfiguredBefore
    <3>3. disk[t] \in Nat /\ configuration \in Nat
      BY DEF SessionShape
    <3>4. QED
      BY <2>1, <2>3, <3>1, <3>2, <3>3, SMT DEF CompiledBetween
  <2>8. QED
    BY <2>4, <2>5, <2>6, <2>7
<1>7. CASE CompileNeverEnds(t)
  <2>1. /\ job.template = t /\ job.at = "compiling"
        /\ UNCHANGED <<body, disk, configuration, sources, configurations, pathFailures>>
    BY <1>7 DEF CompileNeverEnds, Step
  <2>2. PICK v \in sources[t], c \in configurations[t] : Finish(Outcome(t, v, c, {}))
    BY <1>7 DEF CompileNeverEnds
  <2>3. QED
    BY <2>1, <2>2, OutcomeIsTrue
<1>8. CASE CheckInputs(t)
  <2>1. /\ job.template = t /\ job.at = "checking" /\ Suffix(t) # "json"
        /\ UNCHANGED <<body, disk, configuration, sources, configurations, pathFailures>>
    BY <1>8 DEF CheckInputs, Step, OnlyBicepIsCompiled
  <2>2. PICK v \in sources[t], c \in configurations[t] :
          Finish(Outcome(t, v, c, IF Unchanged(t) THEN job.output ELSE {}))
    BY <1>8 DEF CheckInputs
  <2>3. Unchanged(t) /\ job.output # {} => job.output = {[source |-> v, configuration |-> c]}
    <3>1. SUFFICES ASSUME Unchanged(t), NEW o \in job.output
                   PROVE  job.output = {[source |-> v, configuration |-> c]}
      OBVIOUS
    <3>2. /\ sources[t] = {v} /\ disk[t] = v /\ v # 0
      BY <2>1, <2>2, <3>1 DEF ReadBefore, Unchanged
    <3>3. configurations[t] = {c} /\ configuration = c
      BY <2>1, <2>2, <3>1 DEF ConfiguredBefore, Unchanged
    <3>4. o \in Outputs /\ v \in Nat /\ c \in Nat
      BY <2>2, <3>1 DEF SessionShape
    <3>5. /\ job.output = {o} /\ v <= o.source /\ o.source <= v
          /\ c <= o.configuration /\ o.configuration <= c
      BY <2>1, <3>1, <3>2, <3>3 DEF CompiledBetween
    <3>6. o.source = v /\ o.configuration = c
      BY <3>4, <3>5, SMT DEF Outputs
    <3>7. QED
      BY <3>4, <3>5, <3>6 DEF Outputs
  <2>4. QED
    BY <2>1, <2>2, <2>3, OutcomeIsTrue
<1>9. QED
  BY <1>1, <1>2, <1>3, <1>4, <1>5, <1>6, <1>7, <1>8 DEF Acquire

-------------------------------------------------------------------------------
(* What a session says a template compiles to was made from the source and *)
(* the configuration it names, and a template has one outcome              *)
(* (TemplateCompilationSession.acquire), whenever its author saves.        *)
THEOREM SessionKeysAreTrue ==
  ASSUME NEW templates
  PROVE  SessionSpec(templates) => []KeysAreTrue
<1>1. SessionInit(templates) => SessionInv
  BY SessionStarts
<1>2. SessionInv /\ [SessionNext]_compilationVars => SessionInv'
  <2>1. ASSUME SessionInv, SessionNext PROVE SessionInv'
    BY <2>1, SaveIsLater, AcquireIsTrue DEF SessionNext
  <2>2. ASSUME SessionInv, UNCHANGED compilationVars PROVE SessionInv'
    <3>1. UNCHANGED <<body, disk, configuration, sources, configurations, pathFailures,
                      outcomes, job>>
      BY <2>2 DEF compilationVars, bodyVars, diskVars, sessionVars
    <3>2. QED
      BY <2>2, <3>1 DEF SessionInv, SessionShape, OutcomesAreKept, JobIsNew, ReadBefore,
         ConfiguredBefore, CompiledBetween, OnlyBicepIsCompiled, KeysAreTrue, KeysOf, Key,
         Suffix, NoJob
  <2>3. QED
    BY <2>1, <2>2
<1>3. SessionInv => KeysAreTrue
  BY DEF SessionInv
<1>4. QED
  BY <1>1, <1>2, <1>3, PTL DEF SessionSpec

-------------------------------------------------------------------------------
(* The plan.  What is known of it depends on how far build_plan has come.  *)

Made == stage \in {"capabilities", "acquire", "prepare"} \/ Planned
ToExecute == Planned /\ intent = "executable"

(* What validation established of the steps.                               *)
StepsAreValid ==
  \A s \in Steps :
    /\ IsDeployment(s) => StepOf(s).template \in Templates
    /\ StepOf(s).kind = "kubectl" => KubectlFilesAreSound(StepOf(s))

Resolvable == \A t \in Targets : ResolveManifestParameters(manifest, SiteOf(t)).ok

ComposedAreClosed ==
  \A t \in Targets :
    /\ composed[t].written \subseteq composed[t].governed
    /\ composed[t].providers \subseteq composed[t].written \X composed[t].written

Reasons == {"none", "not-selected", "compilation-failed", "capability-unavailable",
            "target-preparation-failed", "dependency-blocked"}

OperationType ==
  [disposition : {"execute", "skip", "blocked"}, reason : Reasons, prepared : BOOLEAN,
   unit : SUBSET outcomes, references : SUBSET Operations]

OpsAreTyped == ops \in [Operations -> OperationType]

IsSelected(op) == Selected(StepOf(op[2]), SiteOf(op[1]))

Untouched(op) ==
  IF IsSelected(op) THEN NoOperation
  ELSE [NoOperation EXCEPT !.disposition = "skip", !.reason = "not-selected"]

OthersAreUntouched == \A op \in Operations \ handled : ops[op] = Untouched(op)

Reported(target, step, code) == <<target, step, code>> \in diagnostics

(* Operations that miss a tool, and why.                                   *)
CapabilitiesAreReported ==
  /\ incapable = {op \in Operations : /\ IsSelected(op)
                                      /\ \E kind \in Requires(op) : Lacking(kind, tools)}
  /\ \A op \in incapable :
       \E kind \in Requires(op) : Lacking(kind, tools) /\ Reported(0, 0, kind)

CoverageIsReported ==
  /\ \A t \in Targets \ failedTargets :
       \/ composed[t].governed = {}
       \/ \E s \in DeploymentsOf(t) : Unit(<<t, s>>) = {}
       \/ Covered(t)
  /\ \A t \in failedTargets : Reported(t, 0, "composition.invalid")
  /\ \A op \in Operations : TemplateFailed(op) => Reported(0, 0, "compilation")

(* Whether an operation can be carried out, given which others are to be.  *)
CanRun(op) ==
  /\ IsSelected(op) /\ ~Lost(op)
  /\ op[1] \notin failedTargets
  /\ op \notin incapable
  /\ IsDeployment(op[2]) => Unit(op) # {} /\ MissingParameters(op) = {}
  /\ \A name \in Reads(op) : \E source \in Sources(op, name) : source \in Executing

(* An operation that has been prepared comes after those it reads, and is  *)
(* to execute when it can be carried out.                                  *)
SourcesAreHandled(op) == \A name \in Reads(op) : Sources(op, name) \subseteq handled

References(op) == UNION {Sources(op, name) \cap Executing : name \in Reads(op)}

IsRight(op) ==
  /\ op \in Executing <=> CanRun(op)
  /\ op \in Executing =>
       /\ ops[op].prepared
       /\ ops[op].unit = Unit(op)
       /\ ops[op].references = References(op)
  /\ op \in BlockedOperations => Explained(op)
  /\ ops[op].disposition = "skip" => ops[op].references = {} /\ ~IsSelected(op)

HandledAreRight ==
  \A op \in handled : op \in Operations /\ SourcesAreHandled(op) /\ IsRight(op)

ResultIsRight ==
  /\ intent \in {"describe", "executable"}
  /\ stage # "done" => result = {}
  /\ stage \notin {"prepare", "done"} => handled = {}
  /\ stage \in {"capabilities", "acquire", "prepare"} => intent = "executable"
  /\ Planned /\ intent # "executable" => handled = {}
  /\ ToExecute => handled = Operations
  /\ Executable => ToExecute /\ diagnostics = {} /\ BlockedOperations = {}

PlanInv ==
  /\ ResultIsRight
  /\ stage = "targets" => Resolvable
  /\ stage = "targets" \/ Made => StepsAreValid
  /\ Made => ComposedAreClosed /\ OpsAreTyped /\ OthersAreUntouched
  /\ stage \in {"acquire", "prepare"} \/ ToExecute => CapabilitiesAreReported
  /\ stage = "prepare" \/ ToExecute => CoverageIsReported
  /\ HandledAreRight

-------------------------------------------------------------------------------
(* What the operations of a plan are.                                      *)

LEMMA LackingIs ==
  ASSUME NEW missing
  PROVE  Lacking("bicep-compiler", missing) <=> Lacking("arm-control-plane", missing)
BY DEF Lacking

LEMMA RequiresIs ==
  ASSUME NEW op, NEW kind \in Requires(op), kind = "bicep-compiler"
  PROVE  "arm-control-plane" \in Requires(op)
BY DEF Requires

(* A source of an operation is prepared before it.                         *)
LEMMA SourcesComeBefore ==
  ASSUME NEW op \in Operations, NEW name, NEW source \in Sources(op, name)
  PROVE  /\ source \in Operations
         /\ IsDeployment(source[2]) /\ source[2] < op[2]
         /\ ComesBefore(source, op)
         /\ IF StepOf(source[2]).scope = "subscription"
              THEN /\ AtSubscription(SiteOf(source[1]))
                   /\ SiteOf(source[1]).subscription = SiteOf(op[1]).subscription
                   /\ source[1] = op[1] \/ ~AtSubscription(SiteOf(op[1]))
              ELSE source[1] = op[1] /\ ~AtSubscription(SiteOf(op[1]))
<1>1. PICK p \in Steps : /\ p < op[2] /\ IsDeployment(p)
                         /\ source \in SourceTargets(op[1], StepOf(p)) \X {p}
  BY DEF Sources
<1>2. source = <<source[1], p>> /\ source[2] = p /\ source[1] \in SourceTargets(op[1], StepOf(p))
  BY <1>1
<1>3. op[1] \in Targets /\ op[2] \in Steps /\ op = <<op[1], op[2]>>
  BY DEF Operations
<1>4. /\ source[1] \in Targets
      /\ IF StepOf(p).scope = "subscription"
           THEN /\ AtSubscription(SiteOf(source[1]))
                /\ SiteOf(source[1]).subscription = SiteOf(op[1]).subscription
                /\ source[1] = op[1] \/ ~AtSubscription(SiteOf(op[1]))
           ELSE source[1] = op[1] /\ ~AtSubscription(SiteOf(op[1]))
  <2>1. CASE StepOf(p).scope = "subscription" /\ AtSubscription(SiteOf(op[1]))
    <3>1. source[1] = op[1]
      BY <1>2, <2>1 DEF SourceTargets
    <3>2. QED
      BY <1>3, <2>1, <3>1
  <2>2. CASE StepOf(p).scope = "subscription" /\ ~AtSubscription(SiteOf(op[1]))
    <3>1. source[1] \in SubscriptionLevel(SiteOf(op[1]).subscription)
      BY <1>2, <2>2 DEF SourceTargets
    <3>2. QED
      BY <2>2, <3>1 DEF SubscriptionLevel
  <2>3. CASE StepOf(p).scope # "subscription"
    <3>1. source[1] \in IF AtSubscription(SiteOf(op[1])) THEN {} ELSE {op[1]}
      BY <1>2, <2>3 DEF SourceTargets
    <3>2. QED
      BY <1>3, <2>3, <3>1
  <2>4. QED
    BY <2>1, <2>2, <2>3
<1>5. ComesBefore(source, op)
  <2>1. CASE source[1] = op[1]
    BY <1>1, <1>2, <2>1 DEF ComesBefore, OwnTarget, Earlier
  <2>2. CASE source[1] # op[1]
    BY <1>2, <1>4, <2>2 DEF ComesBefore, OwnTarget
  <2>3. QED
    BY <2>1, <2>2
<1>6. QED
  BY <1>1, <1>2, <1>4, <1>5 DEF Operations

-------------------------------------------------------------------------------
(* What a plan is read from stays as it is while it is prepared.           *)

(* A manifest and its workspace say the same as long as they are the same. *)
LEMMA ManifestStays ==
  ASSUME UNCHANGED <<world, manifest>>
  PROVE  /\ Operations' = Operations /\ Targets' = Targets /\ Steps' = Steps
         /\ \A op : (IsSelected(op)' <=> IsSelected(op)) /\ Untouched(op)' = Untouched(op)
         /\ StepsAreValid' <=> StepsAreValid
         /\ Resolvable' <=> Resolvable
<1>1. \A s : (IsDeployment(s)' <=> IsDeployment(s)) /\ StepOf(s)' = StepOf(s) /\ SiteOf(s)' = SiteOf(s)
  BY DEF IsDeployment, StepOf, SiteOf
<1>2. Operations' = Operations /\ Targets' = Targets /\ Steps' = Steps
  BY DEF Operations, Targets, Steps
<1>3. \A op : IsSelected(op)' <=> IsSelected(op)
  BY <1>1 DEF IsSelected, Selected, Compatible, AtSubscription, Holds
<1>4. \A op : Untouched(op)' = Untouched(op)
  BY <1>3 DEF Untouched, NoOperation
<1>5. \A step : KubectlFilesAreSound(step)' <=> KubectlFilesAreSound(step)
  BY <1>1, <1>2 DEF KubectlFilesAreSound, KubectlFileIsSound, Selected, Compatible, AtSubscription,
                    Holds
<1>6. StepsAreValid' <=> StepsAreValid
  BY <1>1, <1>2, <1>5 DEF StepsAreValid
<1>7. \A m, site : ResolveManifestParameters(m, site)' = ResolveManifestParameters(m, site)
  BY DEF ResolveManifestParameters, Contract, Chosen, Composable, Refusal
<1>8. Resolvable' <=> Resolvable
  BY <1>1, <1>2, <1>7 DEF Resolvable
<1>9. QED
  BY <1>2, <1>3, <1>4, <1>6, <1>8

LEMMA UntouchedIs ==
  ASSUME NEW op
  PROVE  /\ IsSelected(op) => Untouched(op) = NoOperation
         /\ ~IsSelected(op) => Untouched(op) = [disposition |-> "skip", reason |-> "not-selected",
                                  prepared |-> FALSE, unit |-> {}, references |-> {}]
BY DEF Untouched, NoOperation

planInputs == <<world, manifest, composed, tools, incapable, failedTargets, bodyVars, sessionVars>>

(* So does what is known of an operation, while its step files stay.       *)
LEMMA InputsStay ==
  ASSUME UNCHANGED planInputs
  PROVE  /\ Operations' = Operations /\ Targets' = Targets /\ Steps' = Steps
         /\ \A op : /\ IsSelected(op)' <=> IsSelected(op)
                    /\ Untouched(op)' = Untouched(op)
                    /\ Unit(op)' = Unit(op)
                    /\ TemplateFailed(op)' <=> TemplateFailed(op)
                    /\ gone'[op] = gone[op] =>
                         /\ Reads(op)' = Reads(op)
                         /\ MissingParameters(op)' = MissingParameters(op)
                         /\ Lost(op)' <=> Lost(op)
                    /\ Requires(op)' = Requires(op)
                    /\ \A name : Sources(op, name)' = Sources(op, name)
         /\ \A s : /\ IsDeployment(s)' <=> IsDeployment(s)
         /\ \A t : /\ DeploymentsOf(t)' = DeploymentsOf(t)
                   /\ Covered(t)' <=> Covered(t)
<1>1. UNCHANGED <<world, manifest, composed, tools, incapable, failedTargets, body,
                  sources, configurations, pathFailures, outcomes>>
  BY DEF planInputs, bodyVars, sessionVars
<1>2. Operations' = Operations /\ Targets' = Targets /\ Steps' = Steps
  BY <1>1 DEF Operations, Targets, Steps
<1>3. \A s : /\ IsDeployment(s)' <=> IsDeployment(s)
             /\ StepOf(s)' = StepOf(s) /\ SiteOf(s)' = SiteOf(s)
  BY <1>1 DEF IsDeployment, StepOf, SiteOf
<1>4. \A op : (IsSelected(op)' <=> IsSelected(op)) /\ Untouched(op)' = Untouched(op)
  BY <1>1, ManifestStays
<1>5. \A op : IsBicep(op)' <=> IsBicep(op)
  BY <1>1 DEF IsBicep, IsDeployment, StepOf, Suffix
<1>6. \A op : Requires(op)' = Requires(op)
  BY <1>3, <1>5 DEF Requires
<1>7. \A op : Acquirable(op)' <=> Acquirable(op)
  BY <1>1, <1>3, <1>4, <1>5 DEF Acquirable, Lacking, IsSelected
<1>8. \A op : Unit(op)' = Unit(op)
  BY <1>1, <1>7 DEF Unit, Cached, KeysOf, Key, Suffix, StepOf
<1>9. \A op : TemplateFailed(op)' <=> TemplateFailed(op)
  BY <1>7, <1>8 DEF TemplateFailed
<1>10. \A op : Accepts(op)' = Accepts(op) /\ NeededParameters(op)' = NeededParameters(op)
  BY <1>1, <1>8 DEF Accepts, NeededParameters, Says
<1>11. \A op : gone'[op] = gone[op] => KnownParameters(op)' = KnownParameters(op)
  BY <1>1 DEF KnownParameters, StepOf, SiteOf
<1>12. \A op : gone'[op] = gone[op] => Given(op)' = Given(op)
  BY <1>10, <1>11 DEF Given
<1>13. ASSUME NEW op, gone'[op] = gone[op]
       PROVE  /\ Reads(op)' = Reads(op)
              /\ MissingParameters(op)' = MissingParameters(op)
              /\ Lost(op)' <=> Lost(op)
  <2>1. Reads(op)' = Reads(op)
    <3>1. KnownParameters(op)' = KnownParameters(op) /\ Given(op)' = Given(op)
      BY <1>11, <1>12, <1>13
    <3>2. QED
      BY <1>3, <3>1, SMTT(30) DEF Reads
  <2>2. MissingParameters(op)' = MissingParameters(op)
    BY <1>3, <1>10, <1>12, <1>13 DEF MissingParameters
  <2>3. Lost(op)' <=> Lost(op)
    BY <1>3, <1>13 DEF Lost
  <2>4. QED
    BY <2>1, <2>2, <2>3
<1>14. \A op, name : Sources(op, name)' = Sources(op, name)
  <2>1. \A t, step : SourceTargets(t, step)' = SourceTargets(t, step)
    BY <1>1 DEF SourceTargets, AtSubscription, SiteOf, SubscriptionLevel, Targets
  <2>2. QED
    BY <1>2, <1>3, <2>1 DEF Sources
<1>15. \A t : DeploymentsOf(t)' = DeploymentsOf(t)
  BY <1>1 DEF DeploymentsOf, Steps, IsDeployment, Selected, Compatible, AtSubscription, Holds,
              StepOf, SiteOf
<1>16. \A t, c : Accepting(t, c)' = Accepting(t, c)
  BY <1>10, <1>15 DEF Accepting
<1>17. \A t : Covered(t)' <=> Covered(t)
  BY <1>1, <1>2, <1>16 DEF Covered
<1>18. QED
  BY <1>2, <1>3, <1>4, <1>6, <1>8, <1>9, <1>13, <1>14, <1>15, <1>17

(* What is known of the operations stays too, while none is prepared and   *)
(* what those that are found stays.                                        *)
LEMMA PlanStays ==
  ASSUME UNCHANGED planInputs, UNCHANGED <<ops, handled, diagnostics>>,
         \A op \in handled : gone'[op] = gone[op]
  PROVE  /\ StepsAreValid' <=> StepsAreValid
         /\ ComposedAreClosed' <=> ComposedAreClosed
         /\ OpsAreTyped' <=> OpsAreTyped
         /\ OthersAreUntouched' <=> OthersAreUntouched
         /\ CapabilitiesAreReported' <=> CapabilitiesAreReported
         /\ CoverageIsReported' <=> CoverageIsReported
         /\ HandledAreRight' <=> HandledAreRight
         /\ BlockedOperations' = BlockedOperations
<1>1. UNCHANGED <<world, manifest, composed, tools, incapable, failedTargets, outcomes>>
  BY DEF planInputs, sessionVars
<1>2. Operations' = Operations /\ Targets' = Targets /\ Steps' = Steps
  BY InputsStay
<1>3. StepsAreValid' <=> StepsAreValid
  BY <1>1, ManifestStays
<1>4. ComposedAreClosed' <=> ComposedAreClosed
  BY <1>1 DEF ComposedAreClosed, Targets
<1>5. OpsAreTyped' <=> OpsAreTyped
  BY <1>1, <1>2 DEF OpsAreTyped, OperationType
<1>6. OthersAreUntouched' <=> OthersAreUntouched
  BY <1>2, InputsStay DEF OthersAreUntouched
<1>7. CapabilitiesAreReported' <=> CapabilitiesAreReported
  BY <1>1, <1>2, InputsStay DEF CapabilitiesAreReported, Reported
<1>8. CoverageIsReported' <=> CoverageIsReported
  BY <1>1, <1>2, InputsStay DEF CoverageIsReported, Reported
<1>9. Executing' = Executing /\ BlockedOperations' = BlockedOperations
  BY <1>2 DEF Executing, BlockedOperations
<1>10. \A op \in handled : CanRun(op)' <=> CanRun(op)
  BY <1>1, <1>9, InputsStay DEF CanRun
<1>11. \A op \in handled : References(op)' = References(op)
                          /\ (SourcesAreHandled(op)' <=> SourcesAreHandled(op))
  BY <1>9, InputsStay DEF References, SourcesAreHandled
<1>12. \A op : Explained(op)' <=> Explained(op)
  BY <1>1, <1>9, InputsStay DEF Explained
<1>13. \A op \in handled : IsRight(op)' <=> IsRight(op)
  BY <1>9, <1>10, <1>11, <1>12, InputsStay DEF IsRight
<1>14. HandledAreRight' <=> HandledAreRight
  BY <1>2, <1>11, <1>13 DEF HandledAreRight
<1>15. QED
  BY <1>3, <1>4, <1>5, <1>6, <1>7, <1>8, <1>9, <1>14

-------------------------------------------------------------------------------
(* Before the operations are prepared.                                     *)

LEMMA PlanStarts == Init => PlanInv
BY DEF Init, PlanInv, ResultIsRight, Planned, ToExecute, Executable, Made, HandledAreRight

LEMMA InvalidIsRight ==
  ASSUME PlanInv, NEW code, Invalid(code), handled = {}, UNCHANGED <<handled, intent>>
  PROVE  PlanInv'
<1>1. ~Planned' /\ ~Executable' /\ ~ToExecute' /\ stage' = "done"
  BY DEF Invalid, Planned, Executable, ToExecute
<1>2. QED
  BY <1>1 DEF PlanInv, ResultIsRight, Made, HandledAreRight

LEMMA ValidateIsRight ==
  ASSUME PlanInv, LoadManifest \/ Validate
  PROVE  PlanInv'
<1>1. stage \in {"load", "validate"} /\ handled = {} /\ result = {}
  BY DEF LoadManifest, Validate, PlanInv, ResultIsRight
<1>2. UNCHANGED <<world, intent, handled>>
  BY DEF LoadManifest, Validate
<1>3. CASE \E code : Invalid(code)
  BY <1>1, <1>2, <1>3, InvalidIsRight
<1>4. CASE stage' = "validate" /\ UNCHANGED result
  BY <1>1, <1>2, <1>4 DEF PlanInv, ResultIsRight, Made, HandledAreRight, Planned, ToExecute,
                          Executable
<1>5. CASE Validate /\ IsValid(manifest) /\ stage' = "targets"
  <2>1. UNCHANGED <<manifest, result>>
    BY <1>5 DEF Validate
  <2>2. \A s \in Steps : StepIsSound(manifest, s)
    BY <1>5 DEF IsValid, Steps
  <2>3. StepsAreValid
    BY <2>2 DEF StepsAreValid, StepIsSound, IsDeployment, StepOf
  <2>4. StepsAreValid'
    BY <1>2, <2>1, <2>3, ManifestStays
  <2>5. Resolvable'
    BY <1>2, <1>5, <2>1, ManifestStays DEF Resolvable, IsValid
  <2>6. QED
    BY <1>1, <1>2, <1>5, <2>1, <2>4, <2>5
       DEF PlanInv, ResultIsRight, Made, HandledAreRight, Planned, ToExecute, Executable
<1>6. QED
  BY <1>3, <1>4, <1>5 DEF LoadManifest, Validate

LEMMA ResolvedIsClosed ==
  ASSUME NEW m, NEW site, ResolveManifestParameters(m, site).ok
  PROVE  LET r == ResolveManifestParameters(m, site)
         IN  r.written \subseteq r.governed /\ r.providers \subseteq r.written \X r.written
<1> DEFINE contract == Contract(m)
           acc == ComposeSources(contract, Chosen(m, site))
           r == ResolveManifestParameters(m, site)
<1>1. r.ok => /\ r.governed = DOMAIN contract.collections
              /\ r.written = Written(acc, contract)
              /\ r.providers = Providers(acc, contract)
  BY DEF ResolveManifestParameters, Refusal
<1>2. QED
  BY <1>1 DEF Written, Providers

LEMMA DescribeIsRight ==
  ASSUME PlanInv, DescribeTargets
  PROVE  PlanInv'
<1>1. stage = "targets" /\ handled = {} /\ result = {} /\ Resolvable /\ StepsAreValid
  BY DEF DescribeTargets, PlanInv, ResultIsRight
<1>2. UNCHANGED <<world, intent, manifest, handled>>
  BY DEF DescribeTargets
<1>3. StepsAreValid'
  BY <1>1, <1>2, ManifestStays
<1>4. ComposedAreClosed'
  <2>1. \A t \in Targets : composed'[t] = ResolveManifestParameters(manifest, SiteOf(t))
    BY DEF DescribeTargets
  <2>2. Targets' = Targets
    BY DEF Targets
  <2>3. QED
    BY <1>1, <2>1, <2>2, ResolvedIsClosed DEF ComposedAreClosed, Resolvable
<1>5. Operations' = Operations
  BY <1>2 DEF Operations, Targets, Steps
<1>6. /\ DOMAIN ops' = Operations
      /\ ops' = [op \in Operations |-> Untouched(op)]
  BY DEF DescribeTargets, Untouched, IsSelected
<1>7. OpsAreTyped'
  <2>1. ASSUME NEW op
        PROVE  Untouched(op) \in OperationType'
    <3>1. CASE IsSelected(op)
      <4>1. Untouched(op) = [disposition |-> "execute", reason |-> "none", prepared |-> FALSE,
                             unit |-> {}, references |-> {}]
        BY <3>1, UntouchedIs DEF NoOperation
      <4>2. QED
        BY <4>1 DEF OperationType, Reasons
    <3>2. CASE ~IsSelected(op)
      <4>1. Untouched(op) = [disposition |-> "skip", reason |-> "not-selected",
                             prepared |-> FALSE, unit |-> {}, references |-> {}]
        BY <3>2, UntouchedIs
      <4>2. QED
        BY <4>1 DEF OperationType, Reasons
    <3>3. QED
      BY <3>1, <3>2
  <2>2. QED
    BY <1>5, <1>6, <2>1 DEF OpsAreTyped
<1>8. OthersAreUntouched'
  <2>1. \A op : Untouched(op)' = Untouched(op)
    BY <1>2, ManifestStays
  <2>2. QED
    BY <1>5, <1>6, <2>1 DEF OthersAreUntouched
<1>9. /\ stage' # "done" => stage' = "capabilities" /\ intent = "executable" /\ result' = {}
      /\ stage' = "done" => intent # "executable"
      /\ ~Executable'
      /\ stage' # "targets"
  <2>1. CASE intent = "describe"
    <3>1. stage' = "done" /\ result' = {[status |-> "planned", executable |-> FALSE, plan |-> TRUE]}
      BY <2>1 DEF DescribeTargets
    <3>2. QED
      BY <2>1, <3>1 DEF Executable
  <2>2. CASE intent # "describe"
    <3>1. stage' = "capabilities" /\ UNCHANGED result
      BY <2>2 DEF DescribeTargets
    <3>2. QED
      BY <1>1, <2>2, <3>1 DEF Executable, PlanInv, ResultIsRight
  <2>3. QED
    BY <2>1, <2>2
<1>10. QED
  BY <1>1, <1>2, <1>3, <1>4, <1>7, <1>8, <1>9
     DEF PlanInv, ResultIsRight, Made, HandledAreRight, Planned, ToExecute, DescribeTargets

LEMMA CapabilitiesAreRight ==
  ASSUME PlanInv, ResolveCapabilities
  PROVE  PlanInv'
<1>1. /\ stage = "capabilities" /\ stage' = "acquire" /\ handled = {} /\ result = {}
      /\ intent = "executable" /\ StepsAreValid /\ ComposedAreClosed /\ OpsAreTyped
      /\ OthersAreUntouched
  BY DEF ResolveCapabilities, PlanInv, ResultIsRight, Made
<1>2. UNCHANGED <<world, intent, manifest, composed, ops, handled, result, compilationVars>>
  BY DEF ResolveCapabilities
<1>3. Executing = {op \in Operations : IsSelected(op)}
  BY <1>1, UntouchedIs DEF Executing, OthersAreUntouched, NoOperation
<1>4. Operations' = Operations /\ Steps' = Steps /\ Targets' = Targets
  BY <1>2 DEF Operations, Steps, Targets
<1>5. \A op : /\ IsSelected(op)' <=> IsSelected(op)
              /\ Untouched(op)' = Untouched(op)
              /\ Requires(op)' = Requires(op)
  BY <1>2, ManifestStays DEF Requires, IsBicep, IsDeployment, StepOf, Suffix, compilationVars, bodyVars
<1>6. CapabilitiesAreReported'
  <2>1. PICK missing :
          /\ tools' = missing
          /\ incapable' = {op \in Executing : \E kind \in Requires(op) : Lacking(kind, missing)}
          /\ diagnostics' = {<<0, 0, kind>> : kind \in ReportedKinds(missing)}
    BY DEF ResolveCapabilities
  <2>2. ASSUME NEW op \in incapable'
        PROVE  \E kind \in Requires(op) : Lacking(kind, missing) /\ kind \in ReportedKinds(missing)
    <3>1. PICK kind \in Requires(op) : Lacking(kind, missing)
      BY <2>1, <2>2
    <3>2. PICK other \in Requires(op) : Lacking(other, missing) /\ other # "bicep-compiler"
      BY <3>1, LackingIs, RequiresIs
    <3>3. other \in RequiredKinds
      BY <2>1, <2>2 DEF RequiredKinds
    <3>4. QED
      BY <3>2, <3>3 DEF ReportedKinds
  <2>3. QED
    BY <1>3, <1>4, <1>5, <2>1, <2>2 DEF CapabilitiesAreReported, Reported
<1>7. /\ StepsAreValid' /\ ComposedAreClosed' /\ OpsAreTyped' /\ OthersAreUntouched'
  <2>1. StepsAreValid'
    BY <1>1, <1>2, ManifestStays
  <2>2. ComposedAreClosed'
    BY <1>1, <1>2, <1>4 DEF ComposedAreClosed
  <2>3. OpsAreTyped'
    BY <1>1, <1>2, <1>4 DEF OpsAreTyped, OperationType, compilationVars, sessionVars
  <2>4. OthersAreUntouched'
    BY <1>1, <1>2, <1>4, <1>5 DEF OthersAreUntouched
  <2>5. QED
    BY <2>1, <2>2, <2>3, <2>4
<1>8. QED
  BY <1>1, <1>2, <1>6, <1>7
     DEF PlanInv, ResultIsRight, Made, HandledAreRight, Planned, ToExecute, Executable

LEMMA OutcomesGrow ==
  ASSUME NEW t, Acquire(t) \/ Save
  PROVE  body' = body /\ outcomes \subseteq outcomes'
BY DEF Acquire, Save, StartAcquiring, ReadSource, SourceUnreadable, ParseTemplate,
       FindConfiguration, ConfigurationUnreadable, Compile, CompileNeverEnds, CheckInputs, Finish,
       bodyVars, sessionVars

(* Templates are acquired before anything is said of them.                 *)
LEMMA AcquiringIsRight ==
  ASSUME PlanInv, stage = "acquire", UNCHANGED <<world, intent, stage, planVars>>,
         body' = body, outcomes \subseteq outcomes'
  PROVE  PlanInv'
<1>1. UNCHANGED <<manifest, composed, ops, tools, incapable, failedTargets, handled, diagnostics,
                  result>>
  BY DEF planVars
<1>2. /\ handled = {} /\ result = {} /\ intent = "executable" /\ StepsAreValid
      /\ ComposedAreClosed /\ OpsAreTyped /\ OthersAreUntouched /\ CapabilitiesAreReported
  BY DEF PlanInv, ResultIsRight, Made
<1>3. /\ Operations' = Operations /\ Targets' = Targets /\ StepsAreValid'
      /\ \A op : (IsSelected(op)' <=> IsSelected(op)) /\ Untouched(op)' = Untouched(op)
  BY <1>1, <1>2, ManifestStays
<1>4. \A op : Requires(op)' = Requires(op)
  BY <1>1 DEF Requires, IsBicep, IsDeployment, StepOf, Suffix
<1>5. ComposedAreClosed'
  BY <1>1, <1>2, <1>3 DEF ComposedAreClosed
<1>6. OpsAreTyped'
  <2>1. OperationType \subseteq OperationType'
    BY <1>3 DEF OperationType
  <2>2. QED
    BY <1>1, <1>2, <1>3, <2>1 DEF OpsAreTyped
<1>7. OthersAreUntouched'
  BY <1>1, <1>2, <1>3 DEF OthersAreUntouched
<1>8. CapabilitiesAreReported'
  BY <1>1, <1>2, <1>3, <1>4 DEF CapabilitiesAreReported, Reported
<1>9. QED
  BY <1>1, <1>2, <1>3, <1>5, <1>6, <1>7, <1>8
     DEF PlanInv, ResultIsRight, Made, HandledAreRight, Planned, ToExecute, Executable

LEMMA CoverageIsRight ==
  ASSUME PlanInv, ValidateCoverage
  PROVE  PlanInv'
<1>1. /\ stage = "acquire" /\ stage' = "prepare"
      /\ UNCHANGED <<world, intent, manifest, composed, ops, tools, incapable, handled, result,
                     compilationVars>>
  BY DEF ValidateCoverage
<1>2. /\ handled = {} /\ result = {} /\ intent = "executable" /\ StepsAreValid
      /\ ComposedAreClosed /\ OpsAreTyped /\ OthersAreUntouched /\ CapabilitiesAreReported
  BY <1>1 DEF PlanInv, ResultIsRight, Made
<1>3. /\ Operations' = Operations /\ Targets' = Targets /\ StepsAreValid'
      /\ \A op : (IsSelected(op)' <=> IsSelected(op)) /\ Untouched(op)' = Untouched(op)
  BY <1>1, <1>2, ManifestStays
<1>4. UNCHANGED <<body, outcomes, sources, configurations>>
  BY <1>1 DEF compilationVars, bodyVars, sessionVars
<1>5. \A op : IsBicep(op)' <=> IsBicep(op)
  BY <1>1, <1>4 DEF IsBicep, IsDeployment, StepOf, Suffix
<1>6. \A op : Requires(op)' = Requires(op)
  BY <1>1, <1>5 DEF Requires, StepOf
<1>7. \A op : Unit(op)' = Unit(op) /\ (TemplateFailed(op)' <=> TemplateFailed(op))
  <2>1. \A op : Acquirable(op)' <=> Acquirable(op)
    BY <1>1, <1>3, <1>5 DEF Acquirable, Lacking, IsSelected, IsDeployment, StepOf
  <2>2. \A op : Unit(op)' = Unit(op)
    BY <1>1, <1>4, <2>1 DEF Unit, Cached, KeysOf, Key, Suffix, StepOf
  <2>3. QED
    BY <2>1, <2>2 DEF TemplateFailed
<1>8. \A t : DeploymentsOf(t)' = DeploymentsOf(t)
  BY <1>1 DEF DeploymentsOf, Steps, IsDeployment, Selected, Compatible, AtSubscription, Holds,
              StepOf, SiteOf
<1>9. \A t : Covered(t)' <=> Covered(t)
  <2>1. \A op : Accepts(op)' = Accepts(op)
    BY <1>4, <1>7 DEF Accepts, Says
  <2>2. \A t, c : Accepting(t, c)' = Accepting(t, c)
    BY <1>8, <2>1 DEF Accepting
  <2>3. Steps' = Steps
    BY <1>1 DEF Steps
  <2>4. QED
    BY <1>1, <2>2, <2>3 DEF Covered
<1>10. diagnostics \subseteq diagnostics'
  BY DEF ValidateCoverage
<1>11. CapabilitiesAreReported'
  BY <1>1, <1>2, <1>3, <1>6, <1>10 DEF CapabilitiesAreReported, Reported
<1>12. CoverageIsReported'
  <2>1. failedTargets' = {t \in Targets : /\ composed[t].governed # {}
                                          /\ \A s \in DeploymentsOf(t) : Unit(<<t, s>>) # {}
                                          /\ ~Covered(t)}
    BY DEF ValidateCoverage
  <2>2. \A t \in failedTargets' : <<t, 0, "composition.invalid">> \in diagnostics'
    BY DEF ValidateCoverage
  <2>3. \A op \in Operations : TemplateFailed(op) => <<0, 0, "compilation">> \in diagnostics'
    BY DEF ValidateCoverage
  <2>4. QED
    BY <1>1, <1>3, <1>7, <1>8, <1>9, <2>1, <2>2, <2>3 DEF CoverageIsReported, Reported
<1>13. ComposedAreClosed' /\ OpsAreTyped' /\ OthersAreUntouched'
  BY <1>1, <1>2, <1>3, <1>4 DEF ComposedAreClosed, OpsAreTyped, OperationType, OthersAreUntouched
<1>14. QED
  BY <1>1, <1>2, <1>3, <1>11, <1>12, <1>13
     DEF PlanInv, ResultIsRight, Made, HandledAreRight, Planned, ToExecute, Executable

-------------------------------------------------------------------------------
(* One operation is prepared.                                              *)

Prepared ==
  /\ stage = "prepare" /\ result = {} /\ intent = "executable"
  /\ StepsAreValid /\ ComposedAreClosed /\ OpsAreTyped /\ OthersAreUntouched
  /\ CapabilitiesAreReported /\ CoverageIsReported /\ HandledAreRight

LEMMA TurnsComeInOrder ==
  ASSUME PlanInv, NEW op, Turn(op)
  PROVE  /\ Prepared /\ op \in Operations /\ op \notin handled
         /\ ops[op] = Untouched(op)
         /\ op \in Executing <=> IsSelected(op)
         /\ \A name : Sources(op, name) \subseteq handled
<1>1. Prepared /\ op \in Operations \ handled
  BY DEF Turn, PlanInv, Prepared, ResultIsRight, Made
<1>2. ops[op] = Untouched(op)
  BY <1>1 DEF Prepared, OthersAreUntouched
<1>3. op \in Executing <=> IsSelected(op)
  BY <1>1, <1>2, UntouchedIs DEF Executing, NoOperation
<1>4. \A name : Sources(op, name) \subseteq handled
  BY <1>1, SourcesComeBefore DEF Turn
<1>5. QED
  BY <1>1, <1>2, <1>3, <1>4

(* Outputs are available from the sources that execute.                    *)
LEMMA AvailableIs ==
  ASSUME PlanInv, NEW op, Turn(op)
  PROVE  \A name : Available(op, name) = Sources(op, name) \cap Executing
<1>1. Prepared /\ op \in Operations /\ \A name : Sources(op, name) \subseteq handled
  BY TurnsComeInOrder
<1>2. \A x \in handled : x \in Operations /\ (x \in Executing => ops[x].prepared)
  BY <1>1 DEF Prepared, HandledAreRight, IsRight
<1>3. QED
  BY <1>1, <1>2 DEF Available, Executing

LEMMA OperationIsRight ==
  ASSUME PlanInv, NEW op, Turn(op), NEW news, NEW operation, Settle(op, operation, news),
         operation \in OperationType,
         operation.disposition = "execute" <=> CanRun(op),
         operation.disposition = "execute" =>
           operation.prepared /\ operation.unit = Unit(op) /\ operation.references = References(op),
         operation.disposition = "skip" => operation.references = {} /\ ~IsSelected(op),
         operation.disposition = "blocked" => Explained(op)'
  PROVE  PlanInv'
<1>1. /\ Prepared /\ op \in Operations /\ op \notin handled
      /\ \A name : Sources(op, name) \subseteq handled
  BY TurnsComeInOrder
<1>2. /\ ops' = [ops EXCEPT ![op] = operation] /\ handled' = handled \cup {op}
      /\ diagnostics \subseteq diagnostics'
      /\ UNCHANGED <<world, intent, stage, manifest, composed, tools, incapable, failedTargets,
                     gone, result, compilationVars>>
  BY DEF Settle
<1>3. UNCHANGED planInputs
  BY <1>2 DEF planInputs, compilationVars
<1>4. UNCHANGED <<outcomes, body>>
  BY <1>2 DEF compilationVars, sessionVars, bodyVars
<1>5. Operations' = Operations /\ Targets' = Targets /\ StepsAreValid'
  BY <1>1, <1>2, ManifestStays DEF Prepared
<1>6. OpsAreTyped'
  BY <1>1, <1>2, <1>4, <1>5 DEF Prepared, OpsAreTyped, OperationType
<1>7. ops'[op] = operation /\ \A x \in Operations : x # op => ops'[x] = ops[x]
  BY <1>1, <1>2 DEF Prepared, OpsAreTyped
<1>8. OthersAreUntouched'
  BY <1>1, <1>2, <1>3, <1>5, <1>7, InputsStay DEF Prepared, OthersAreUntouched
<1>9. ComposedAreClosed'
  BY <1>1, <1>2, <1>5 DEF Prepared, ComposedAreClosed
<1>10. CapabilitiesAreReported'
  BY <1>1, <1>2, <1>3, <1>5, InputsStay DEF Prepared, CapabilitiesAreReported, Reported
<1>11. CoverageIsReported'
  BY <1>1, <1>2, <1>3, <1>5, InputsStay DEF Prepared, CoverageIsReported, Reported
<1>12. \A x \in Operations : x # op => /\ x \in Executing' <=> x \in Executing
                                       /\ x \in BlockedOperations' <=> x \in BlockedOperations
  BY <1>5, <1>7 DEF Executing, BlockedOperations
<1>13. \A x \in handled \cup {op} : x \in Operations /\ SourcesAreHandled(x)
  BY <1>1 DEF Prepared, HandledAreRight, SourcesAreHandled
<1>14. ASSUME NEW x \in handled \cup {op}
       PROVE  /\ CanRun(x)' <=> CanRun(x)
              /\ References(x)' = References(x)
              /\ SourcesAreHandled(x)'
  <2>1. \A name \in Reads(x) : \A source \in Sources(x, name) :
          source \in handled /\ source \in Operations /\ source # op
    BY <1>1, <1>13, SourcesComeBefore DEF SourcesAreHandled
  <2>2. Reads(x)' = Reads(x) /\ \A name : Sources(x, name)' = Sources(x, name)
    BY <1>2, <1>3, InputsStay
  <2>3. \A name \in Reads(x) : \A source \in Sources(x, name) :
          source \in Executing' <=> source \in Executing
    BY <1>12, <2>1
  <2>4. CanRun(x)' <=> CanRun(x)
    BY <1>2, <1>3, <2>2, <2>3, InputsStay DEF CanRun
  <2>5. \A name \in Reads(x) :
          Sources(x, name)' \cap Executing' = Sources(x, name) \cap Executing
    BY <2>2, <2>3
  <2>6. References(x)' = References(x)
    BY <2>2, <2>5 DEF References
  <2>7. SourcesAreHandled(x)'
    BY <1>2, <2>1, <2>2 DEF SourcesAreHandled
  <2>8. QED
    BY <2>4, <2>6, <2>7
<1>15. ASSUME NEW x \in handled
       PROVE  IsRight(x)'
  <2>1. x \in Operations /\ x # op /\ IsRight(x)
    BY <1>1 DEF Prepared, HandledAreRight
  <2>2. ops'[x] = ops[x] /\ Unit(x)' = Unit(x) /\ (IsSelected(x)' <=> IsSelected(x))
    BY <1>3, <1>7, <2>1, InputsStay
  <2>3. Explained(x) => Explained(x)'
    <3>1. ops[x].references \in SUBSET Operations
      BY <1>1, <2>1 DEF Prepared, OpsAreTyped, OperationType
    <3>2. \A y \in BlockedOperations : y \in BlockedOperations'
      <4>1. \A y \in BlockedOperations : y \in Operations /\ y # op
        <5>1. ops[op].disposition # "blocked"
          BY TurnsComeInOrder, UntouchedIs DEF NoOperation
        <5>2. QED
          BY <5>1 DEF BlockedOperations
      <4>2. QED
        BY <1>12, <4>1
    <3>3. Requires(x)' = Requires(x)
      BY <1>3, InputsStay
    <3>4. QED
      BY <1>2, <2>2, <3>2, <3>3 DEF Explained
  <2>4. QED
    BY <1>12, <1>14, <2>1, <2>2, <2>3 DEF IsRight
<1>16. IsRight(op)'
  <2>1. /\ op \in Executing' <=> operation.disposition = "execute"
        /\ op \in BlockedOperations' <=> operation.disposition = "blocked"
    BY <1>1, <1>5, <1>7 DEF Executing, BlockedOperations
  <2>2. Unit(op)' = Unit(op) /\ (IsSelected(op)' <=> IsSelected(op))
    BY <1>3, InputsStay
  <2>3. QED
    BY <1>7, <1>14, <2>1, <2>2 DEF IsRight
<1>17. HandledAreRight'
  BY <1>2, <1>5, <1>13, <1>14, <1>15, <1>16 DEF HandledAreRight
<1>18. QED
  BY <1>1, <1>2, <1>5, <1>6, <1>8, <1>9, <1>10, <1>11, <1>17
     DEF Prepared, PlanInv, ResultIsRight, Made, Planned, ToExecute, Executable

LEMMA UnitIsKept ==
  ASSUME NEW op
  PROVE  Unit(op) \subseteq outcomes /\ \A o \in Unit(op) : o.ok
BY DEF Unit, Cached

LEMMA BoundIs ==
  ASSUME PlanInv, NEW op, Turn(op), op \in Executing
  PROVE  /\ Bound(op) \in OperationType
         /\ Bound(op).disposition = "execute" /\ Bound(op).reason = "none"
         /\ ~Bound(op).prepared /\ Bound(op).unit = Unit(op) /\ Bound(op).references = {}
<1>1. ops[op] = NoOperation /\ ops[op] \in OperationType
  BY TurnsComeInOrder, UntouchedIs DEF Prepared, OpsAreTyped
<1>2. /\ ops[op].disposition = "execute" /\ ops[op].reason = "none"
      /\ ~ops[op].prepared /\ ops[op].references = {}
  BY <1>1 DEF NoOperation
<1>3. QED
  BY <1>1, <1>2, UnitIsKept DEF Bound, OperationType

LEMMA BlockedIs ==
  ASSUME PlanInv, NEW op, Turn(op), op \in Executing, NEW reason \in Reasons
  PROVE  /\ Blocked(op, reason) \in OperationType
         /\ Blocked(op, reason).disposition = "blocked"
         /\ Blocked(op, reason).reason = reason
         /\ Blocked(op, reason).references = {}
BY BoundIs DEF Blocked, OperationType

LEMMA KeepSkippedIsRight ==
  ASSUME PlanInv, NEW op, KeepSkipped(op)
  PROVE  PlanInv'
<1>1. Turn(op) /\ op \notin Executing /\ Settle(op, ops[op], {})
  BY DEF KeepSkipped
<1>2. /\ op \in Operations /\ OpsAreTyped /\ ~IsSelected(op)
      /\ ops[op] = Untouched(op)
  BY <1>1, TurnsComeInOrder DEF Prepared
<1>3. ops[op].disposition = "skip" /\ ops[op].references = {}
  BY <1>2, UntouchedIs
<1>4. ~CanRun(op)
  BY <1>2 DEF CanRun
<1>5. ops[op] \in OperationType
  BY <1>2 DEF OpsAreTyped
<1>6. QED
  BY <1>1, <1>2, <1>3, <1>4, <1>5, OperationIsRight

(* An operation is blocked when it cannot be carried out, and says why.    *)
LEMMA BlockingIsRight ==
  ASSUME PlanInv, NEW op, Turn(op), op \in Executing, ~CanRun(op),
         NEW reason \in Reasons, NEW references \in SUBSET Operations, NEW news,
         Settle(op, [Blocked(op, reason) EXCEPT !.references = references], news),
         ops'[op].reason = reason /\ ops'[op].references = references => Explained(op)'
  PROVE  PlanInv'
<1> DEFINE operation == [Blocked(op, reason) EXCEPT !.references = references]
<1>1. /\ operation \in OperationType /\ operation.disposition = "blocked"
      /\ operation.reason = reason /\ operation.references = references
  BY BlockedIs DEF OperationType
<1>2. Settle(op, operation, news)
  OBVIOUS
<1>3. ops' = [ops EXCEPT ![op] = operation] /\ op \in Operations /\ OpsAreTyped
  BY TurnsComeInOrder DEF Settle, Prepared
<1>4. ops'[op] = operation
  BY <1>3 DEF OpsAreTyped
<1> HIDE DEF operation
<1>5. Explained(op)'
  BY <1>1, <1>4
<1>6. QED
  BY <1>1, <1>2, <1>5, OperationIsRight

(* Without references, as most are.                                        *)
LEMMA BlockedAlone ==
  ASSUME PlanInv, NEW op, Turn(op), op \in Executing, NEW reason \in Reasons
  PROVE  Blocked(op, reason) = [Blocked(op, reason) EXCEPT !.references = {}]
BY BlockedIs DEF OperationType

LEMMA BlockingAloneIsRight ==
  ASSUME PlanInv, NEW op, Turn(op), op \in Executing, ~CanRun(op),
         NEW reason \in Reasons, NEW news, Settle(op, Blocked(op, reason), news),
         ops'[op].reason = reason => Explained(op)'
  PROVE  PlanInv'
<1> DEFINE operation == [Blocked(op, reason) EXCEPT !.references = {}]
<1>1. Blocked(op, reason) = operation
  BY BlockedAlone
<1>2. Settle(op, operation, news)
  BY <1>1
<1>3. {} \in SUBSET Operations
  OBVIOUS
<1>4. QED
  BY <1>2, <1>3, BlockingIsRight

LEMMA BlockWithTargetIsRight ==
  ASSUME PlanInv, NEW op, BlockWithTarget(op)
  PROVE  PlanInv'
<1> DEFINE reason == "target-preparation-failed"
<1>1. /\ Turn(op) /\ op \in Executing /\ op[1] \in failedTargets
      /\ Settle(op, Blocked(op, reason), {})
  BY DEF BlockWithTarget
<1>2. reason \in Reasons
  BY DEF Reasons
<1>3. ~CanRun(op)
  BY <1>1 DEF CanRun
<1>4. <<op[1], 0, "composition.invalid">> \in diagnostics'
  BY <1>1, TurnsComeInOrder DEF Prepared, CoverageIsReported, Reported, Settle
<1>5. ops'[op].reason = reason => Explained(op)'
  BY <1>4 DEF Explained
<1>6. QED
  BY <1>1, <1>2, <1>3, <1>5, BlockingAloneIsRight

LEMMA BlockWithoutUnitIsRight ==
  ASSUME PlanInv, NEW op, BlockWithoutUnit(op)
  PROVE  PlanInv'
<1> DEFINE reason == IF TemplateFailed(op) THEN "compilation-failed" ELSE "capability-unavailable"
<1>1. /\ Turn(op) /\ op \in Executing /\ IsDeployment(op[2]) /\ Unit(op) = {}
      /\ Settle(op, Blocked(op, reason), {})
  BY DEF BlockWithoutUnit
<1>2. reason \in Reasons
  BY DEF Reasons
<1>3. ~CanRun(op)
  BY <1>1 DEF CanRun
<1>4. /\ CapabilitiesAreReported /\ CoverageIsReported /\ op \in Operations /\ IsSelected(op)
      /\ diagnostics \subseteq diagnostics' /\ UNCHANGED <<tools, planInputs>>
  BY <1>1, TurnsComeInOrder DEF Prepared, Settle, planInputs, compilationVars
<1>5. ops'[op].reason = reason => Explained(op)'
  <2>1. CASE TemplateFailed(op)
    <3>1. <<0, 0, "compilation">> \in diagnostics'
      BY <1>4, <2>1 DEF CoverageIsReported, Reported
    <3>2. QED
      BY <2>1, <3>1 DEF Explained
  <2>2. CASE ~TemplateFailed(op)
    <3>1. op \in incapable
      BY <1>1, <1>4, <2>2 DEF TemplateFailed, Acquirable, IsSelected
    <3>2. PICK kind \in Requires(op) : Lacking(kind, tools) /\ <<0, 0, kind>> \in diagnostics'
      BY <1>4, <3>1 DEF CapabilitiesAreReported, Reported
    <3>3. Requires(op)' = Requires(op) /\ Lacking(kind, tools)'
      BY <1>4, <3>2, InputsStay
    <3>4. QED
      BY <2>2, <3>2, <3>3 DEF Explained
  <2>3. QED
    BY <2>1, <2>2
<1> HIDE DEF reason
<1>6. QED
  BY <1>1, <1>2, <1>3, <1>5, BlockingAloneIsRight

LEMMA BlockOnSourceIsRight ==
  ASSUME PlanInv, NEW op, BlockOnSource(op)
  PROVE  PlanInv'
<1>1. Turn(op) /\ op \in Executing
  BY DEF BlockOnSource, MayPrepare
<1>2. PICK name \in Unavailable(op) : \E source \in Sources(op, name) :
        Settle(op, [Blocked(op, "dependency-blocked") EXCEPT !.references = {source}],
               IF ops[source].disposition = "skip" THEN {"dependency-blocked"} ELSE {})
  BY DEF BlockOnSource
<1>3. PICK source \in Sources(op, name) :
        Settle(op, [Blocked(op, "dependency-blocked") EXCEPT !.references = {source}],
               IF ops[source].disposition = "skip" THEN {"dependency-blocked"} ELSE {})
  BY <1>2
<1>4. name \in Reads(op) /\ Sources(op, name) \cap Executing = {}
  BY <1>1, <1>2, AvailableIs DEF Unavailable
<1>5. ~CanRun(op)
  BY <1>4 DEF CanRun
<1>6. /\ op \in Operations /\ OpsAreTyped /\ op \notin handled
      /\ source \in handled /\ source \in Operations
  BY <1>1, <1>3, TurnsComeInOrder, SourcesComeBefore DEF Prepared
<1>7. "dependency-blocked" \in Reasons
  BY DEF Reasons
<1>8. ops'[op].reason = "dependency-blocked" /\ ops'[op].references = {source} => Explained(op)'
  <2>1. CASE ops[source].disposition = "skip"
    <3>1. <<op[1], op[2], "dependency-blocked">> \in diagnostics'
      BY <1>3, <2>1 DEF Settle
    <3>2. QED
      BY <3>1 DEF Explained
  <2>2. CASE ops[source].disposition # "skip"
    <3>1. source \in BlockedOperations
      BY <1>3, <1>4, <1>6, <2>2 DEF OpsAreTyped, OperationType, Executing, BlockedOperations
    <3>2. ops'[source] = ops[source] /\ Operations' = Operations
      BY <1>3, <1>6, ManifestStays DEF Settle, OpsAreTyped
    <3>3. source \in BlockedOperations'
      BY <3>1, <3>2 DEF BlockedOperations
    <3>4. QED
      BY <3>3 DEF Explained
  <2>3. QED
    BY <2>1, <2>2
<1>9. {source} \in SUBSET Operations
  BY <1>6
<1>10. QED
  BY <1>1, <1>3, <1>5, <1>7, <1>8, <1>9, BlockingIsRight

LEMMA RefuseOperationIsRight ==
  ASSUME PlanInv, NEW op, RefuseOperation(op)
  PROVE  PlanInv'
<1> DEFINE reason == "target-preparation-failed"
<1>1. /\ Turn(op) /\ op \in Executing
      /\ Settle(op, Blocked(op, reason), {"operation-preparation.invalid"})
  BY DEF RefuseOperation, MayPrepare
<1>2. reason \in Reasons
  BY DEF Reasons
<1>3. ~CanRun(op)
  <2>1. \/ Lost(op)
        \/ \E name \in Unavailable(op) : Sources(op, name) = {}
        \/ MissingParameters(op) # {}
    BY DEF RefuseOperation
  <2>2. CASE \E name \in Unavailable(op) : Sources(op, name) = {}
    BY <2>2 DEF CanRun, Unavailable
  <2>3. CASE MissingParameters(op) # {}
    BY <2>3 DEF CanRun, MissingParameters
  <2>4. QED
    BY <2>1, <2>2, <2>3 DEF CanRun
<1>4. <<op[1], op[2], "operation-preparation.invalid">> \in diagnostics'
  BY <1>1 DEF Settle
<1>5. ops'[op].reason = reason => Explained(op)'
  BY <1>4 DEF Explained
<1> HIDE DEF reason
<1>6. QED
  BY <1>1, <1>2, <1>3, <1>5, BlockingAloneIsRight

LEMMA PrepareOperationIsRight ==
  ASSUME PlanInv, NEW op, PrepareOperation(op)
  PROVE  PlanInv'
<1> DEFINE references == UNION {Available(op, name) : name \in Reads(op)}
           prepared == [Bound(op) EXCEPT !.prepared = TRUE, !.references = references]
           operation == IF op \in incapable
                          THEN [prepared EXCEPT !.disposition = "blocked",
                                                !.reason = "capability-unavailable"]
                          ELSE prepared
<1>1. /\ Turn(op) /\ op \in Executing /\ op[1] \notin failedTargets
      /\ IsDeployment(op[2]) => Unit(op) # {}
      /\ ~Lost(op) /\ Unavailable(op) = {} /\ MissingParameters(op) = {}
      /\ Settle(op, operation, {})
  BY DEF PrepareOperation, MayPrepare
<1>2. /\ op \in Operations /\ OpsAreTyped /\ IsSelected(op) /\ CapabilitiesAreReported
      /\ diagnostics \subseteq diagnostics' /\ UNCHANGED <<tools, planInputs>>
  BY <1>1, TurnsComeInOrder DEF Prepared, Settle, planInputs, compilationVars
<1>3. references = References(op) /\ references \in SUBSET Operations
  <2>1. \A name : Available(op, name) = Sources(op, name) \cap Executing
    BY <1>1, AvailableIs
  <2>2. QED
    BY <2>1 DEF References, Executing
<1>4. CanRun(op) <=> op \notin incapable
  BY <1>1, <1>2, AvailableIs DEF CanRun, Unavailable
<1>5. /\ Bound(op) \in OperationType
      /\ Bound(op).disposition = "execute" /\ Bound(op).unit = Unit(op)
  BY <1>1, BoundIs
<1>6. /\ prepared \in OperationType /\ prepared.disposition = "execute" /\ prepared.prepared
      /\ prepared.unit = Unit(op) /\ prepared.references = references
  <2> HIDE DEF references
  <2>1. QED
    BY <1>3, <1>5 DEF OperationType
<1>7. /\ operation \in OperationType
      /\ op \notin incapable => operation = prepared
      /\ op \in incapable =>
           operation.disposition = "blocked" /\ operation.reason = "capability-unavailable"
  <2> HIDE DEF prepared
  <2>1. "capability-unavailable" \in Reasons
    BY DEF Reasons
  <2>2. QED
    BY <1>6, <2>1 DEF OperationType
<1>8. ops'[op] = operation
  BY <1>1, <1>2 DEF Settle, OpsAreTyped
<1> HIDE DEF operation, prepared, references
<1>9. op \in incapable => Explained(op)'
  <2>1. SUFFICES ASSUME op \in incapable PROVE Explained(op)'
    OBVIOUS
  <2>2. PICK kind \in Requires(op) : Lacking(kind, tools) /\ <<0, 0, kind>> \in diagnostics'
    BY <1>2, <2>1 DEF CapabilitiesAreReported, Reported
  <2>3. Requires(op)' = Requires(op) /\ Lacking(kind, tools)'
    BY <1>2, <2>2, InputsStay
  <2>4. ops'[op].reason = "capability-unavailable"
    BY <1>7, <1>8, <2>1
  <2>5. QED
    BY <2>2, <2>3, <2>4 DEF Explained
<1>10. /\ operation.disposition = "execute" <=> CanRun(op)
       /\ operation.disposition = "execute" =>
            operation.prepared /\ operation.unit = Unit(op) /\ operation.references = References(op)
       /\ operation.disposition # "skip"
       /\ operation.disposition = "blocked" => op \in incapable
  BY <1>3, <1>4, <1>6, <1>7
<1>11. QED
  BY <1>1, <1>7, <1>9, <1>10, OperationIsRight

(* A step file that comes or goes concerns the operations to come.         *)
LEMMA MoveIsRight ==
  ASSUME PlanInv, MoveStepFile
  PROVE  PlanInv'
<1>1. /\ stage = "prepare"
      /\ UNCHANGED <<world, intent, stage, manifest, composed, ops, tools, incapable,
                     failedTargets, handled, diagnostics, result>>
      /\ UNCHANGED planInputs
  BY DEF MoveStepFile, planVars, planInputs
<1>2. Made /\ HandledAreRight
  BY <1>1 DEF PlanInv, Made
<1>3. \A op \in handled : gone'[op] = gone[op]
  BY <1>2 DEF MoveStepFile, HandledAreRight
<1>4. /\ StepsAreValid' <=> StepsAreValid
      /\ ComposedAreClosed' <=> ComposedAreClosed
      /\ OpsAreTyped' <=> OpsAreTyped
      /\ OthersAreUntouched' <=> OthersAreUntouched
      /\ CapabilitiesAreReported' <=> CapabilitiesAreReported
      /\ CoverageIsReported' <=> CoverageIsReported
      /\ HandledAreRight' <=> HandledAreRight
      /\ BlockedOperations' = BlockedOperations /\ Operations' = Operations
      /\ Resolvable' <=> Resolvable
  BY <1>1, <1>3, PlanStays, InputsStay, ManifestStays
<1>5. QED
  BY <1>1, <1>4 DEF PlanInv, ResultIsRight, Made, ToExecute, Planned, Executable

LEMMA ResultIsMade ==
  ASSUME PlanInv, BuildResult
  PROVE  PlanInv'
<1>1. /\ stage = "prepare" /\ stage' = "done" /\ handled = Operations
      /\ result' = {[status |-> IF diagnostics = {} /\ BlockedOperations = {}
                                  THEN "planned" ELSE "invalid",
                     executable |-> diagnostics = {} /\ BlockedOperations = {}, plan |-> TRUE]}
      /\ UNCHANGED <<world, intent, manifest, composed, ops, tools, incapable, failedTargets,
                     handled, gone, diagnostics, compilationVars>>
  BY DEF BuildResult
<1>2. /\ intent = "executable" /\ StepsAreValid /\ ComposedAreClosed /\ OpsAreTyped
      /\ OthersAreUntouched /\ CapabilitiesAreReported /\ CoverageIsReported /\ HandledAreRight
  BY <1>1 DEF PlanInv, ResultIsRight, Made
<1>3. /\ StepsAreValid' /\ ComposedAreClosed' /\ OpsAreTyped' /\ OthersAreUntouched'
      /\ CapabilitiesAreReported' /\ CoverageIsReported' /\ HandledAreRight'
      /\ BlockedOperations' = BlockedOperations /\ Operations' = Operations
  BY <1>1, <1>2, PlanStays, InputsStay DEF planInputs, compilationVars
<1>4. /\ Planned'
      /\ Executable' => diagnostics' = {} /\ BlockedOperations' = {}
  <2> DEFINE sound == diagnostics = {} /\ BlockedOperations = {}
             r == [status |-> IF sound THEN "planned" ELSE "invalid",
                   executable |-> sound, plan |-> TRUE]
  <2>1. result' = {r} /\ r.plan /\ (r.executable <=> sound)
    BY <1>1
  <2> HIDE DEF r
  <2>2. QED
    BY <1>1, <1>3, <2>1 DEF Planned, Executable
<1>5. QED
  BY <1>1, <1>2, <1>3, <1>4 DEF PlanInv, ResultIsRight, Made, ToExecute

-------------------------------------------------------------------------------
(* Every step.                                                             *)

PreparationInv == SessionInv /\ PlanInv

LEMMA SessionStays ==
  ASSUME SessionInv, UNCHANGED <<bodyVars, disk, configuration, sessionVars>>
  PROVE  SessionInv'
<1>1. UNCHANGED <<body, disk, configuration, sources, configurations, pathFailures, outcomes, job>>
  BY DEF bodyVars, sessionVars
<1>2. QED
  BY <1>1 DEF SessionInv, SessionShape, OutcomesAreKept, JobIsNew, ReadBefore, ConfiguredBefore,
     CompiledBetween, OnlyBicepIsCompiled, KeysAreTrue, KeysOf, Key, Suffix, NoJob

LEMMA PreparationStarts == Init => PreparationInv
BY PlanStarts, SessionStarts DEF Init, PreparationInv

LEMMA PreparationGoesOn == PreparationInv /\ [Next]_vars => PreparationInv'
<1> SUFFICES ASSUME PreparationInv, [Next]_vars PROVE PreparationInv'
  OBVIOUS
<1>1. SessionInv /\ PlanInv
  BY DEF PreparationInv
<1>2. CASE LoadManifest \/ Validate
  BY <1>1, <1>2, ValidateIsRight, SessionStays
  DEF PreparationInv, LoadManifest, Validate, compilationVars, diskVars
<1>3. CASE DescribeTargets
  BY <1>1, <1>3, DescribeIsRight, SessionStays
  DEF PreparationInv, DescribeTargets, compilationVars, diskVars
<1>4. CASE ResolveCapabilities
  BY <1>1, <1>4, CapabilitiesAreRight, SessionStays
  DEF PreparationInv, ResolveCapabilities, compilationVars, diskVars
<1>5. CASE AcquireTemplates
  <2>1. stage = "acquire" /\ UNCHANGED <<world, intent, stage, planVars>>
    BY <1>5 DEF AcquireTemplates
  <2>2. PICK op \in Unbound : Acquire(StepOf(op[2]).template)
    BY <1>5 DEF AcquireTemplates
  <2>3. StepOf(op[2]).template \in Templates
    <3>1. op[2] \in Steps /\ IsDeployment(op[2])
      BY <2>2 DEF Unbound, Acquirable, Operations
    <3>2. StepsAreValid
      BY <1>1, <2>1 DEF PlanInv, Made
    <3>3. QED
      BY <3>1, <3>2 DEF StepsAreValid
  <2>4. SessionInv'
    BY <1>1, <2>2, <2>3, AcquireIsTrue
  <2>5. PlanInv'
    BY <1>1, <2>1, <2>2, OutcomesGrow, AcquiringIsRight
  <2>6. QED
    BY <2>4, <2>5 DEF PreparationInv
<1>6. CASE SaveMeanwhile
  <2>1. stage = "acquire" /\ Save /\ UNCHANGED <<world, intent, stage, planVars>>
    BY <1>6 DEF SaveMeanwhile
  <2>2. SessionInv'
    BY <1>1, <2>1, SaveIsLater
  <2>3. PlanInv'
    BY <1>1, <2>1, OutcomesGrow, AcquiringIsRight
  <2>4. QED
    BY <2>2, <2>3 DEF PreparationInv
<1>7. CASE ValidateCoverage
  BY <1>1, <1>7, CoverageIsRight, SessionStays
  DEF PreparationInv, ValidateCoverage, compilationVars, diskVars
<1>8. CASE BuildResult
  BY <1>1, <1>8, ResultIsMade, SessionStays
  DEF PreparationInv, BuildResult, compilationVars, diskVars
<1>9. ASSUME NEW op \in Operations, PrepareOne(op)
      PROVE  PreparationInv'
  <2>1. UNCHANGED compilationVars
    BY <1>9 DEF PrepareOne, KeepSkipped, BlockWithTarget, BlockWithoutUnit, BlockOnSource,
                RefuseOperation, PrepareOperation, Settle
  <2>2. PlanInv'
    BY <1>1, <1>9, KeepSkippedIsRight, BlockWithTargetIsRight, BlockWithoutUnitIsRight,
       BlockOnSourceIsRight, RefuseOperationIsRight, PrepareOperationIsRight DEF PrepareOne
  <2>3. QED
    BY <1>1, <2>1, <2>2, SessionStays DEF PreparationInv, compilationVars, diskVars
<1>10. CASE UNCHANGED vars
  <2>1. UNCHANGED planInputs
        /\ UNCHANGED <<intent, stage, ops, handled, gone, diagnostics, result, world, manifest,
                       compilationVars>>
    BY <1>10 DEF vars, planVars, planInputs, compilationVars
  <2>2. /\ StepsAreValid' <=> StepsAreValid
        /\ ComposedAreClosed' <=> ComposedAreClosed
        /\ OpsAreTyped' <=> OpsAreTyped
        /\ OthersAreUntouched' <=> OthersAreUntouched
        /\ CapabilitiesAreReported' <=> CapabilitiesAreReported
        /\ CoverageIsReported' <=> CoverageIsReported
        /\ HandledAreRight' <=> HandledAreRight
        /\ BlockedOperations' = BlockedOperations /\ Operations' = Operations
        /\ Resolvable' <=> Resolvable
    BY <2>1, PlanStays, InputsStay, ManifestStays
  <2>3. PlanInv'
    BY <1>1, <2>1, <2>2 DEF PlanInv, ResultIsRight, Made, ToExecute, Planned, Executable
  <2>4. QED
    BY <1>1, <2>1, <2>3, SessionStays DEF PreparationInv, compilationVars, diskVars
<1>11. CASE MoveStepFile
  <2>1. UNCHANGED <<bodyVars, disk, configuration, sessionVars>>
    BY <1>11 DEF MoveStepFile
  <2>2. PlanInv'
    BY <1>1, <1>11, MoveIsRight
  <2>3. QED
    BY <1>1, <2>1, <2>2, SessionStays DEF PreparationInv
<1>12. QED
  BY <1>2, <1>3, <1>4, <1>5, <1>6, <1>7, <1>8, <1>9, <1>10, <1>11 DEF Next

LEMMA PreparationHolds == Spec => []PreparationInv
<1>1. QED
  BY PreparationStarts, PreparationGoesOn, PTL DEF Spec

(* build_plan's session, with its other work and the author's saves in     *)
(* between (_acquire_plan_templates), keeps what its keys say true.        *)
THEOREM PlanKeysAreTrue == Spec => []KeysAreTrue
<1>1. PreparationInv => KeysAreTrue
  BY DEF PreparationInv, SessionInv
<1>2. QED
  BY <1>1, PreparationHolds, PTL

-------------------------------------------------------------------------------
(* A plan that may be executed can be.                                     *)

LEMMA FirstOfOne ==
  ASSUME NEW s \in Int
  PROVE  FirstOf({s}) = s
BY DEF FirstOf

LEMMA RunnableHolds == PlanInv => ExecutableIsRunnable
<1> SUFFICES ASSUME PlanInv, Executable PROVE ExecutableIsRunnable
  BY DEF ExecutableIsRunnable
<1>1. /\ diagnostics = {} /\ BlockedOperations = {} /\ handled = Operations /\ StepsAreValid
      /\ ComposedAreClosed /\ OpsAreTyped /\ CapabilitiesAreReported /\ CoverageIsReported
  BY DEF PlanInv, ResultIsRight, ToExecute, Made
<1>2. \A op \in Operations : IsRight(op)
  BY <1>1 DEF PlanInv, HandledAreRight
<1>3. \A op \in Operations : op \notin Executing => ops[op].references = {} /\ ~IsSelected(op)
  <2>1. SUFFICES ASSUME NEW op \in Operations, op \notin Executing
                 PROVE  ops[op].disposition = "skip"
    BY <1>2 DEF IsRight
  <2>2. ops[op].disposition \in {"execute", "skip", "blocked"}
    BY <1>1 DEF OpsAreTyped, OperationType
  <2>3. QED
    BY <1>1, <2>1, <2>2 DEF Executing, BlockedOperations
<1>4. \A op \in Executing : op \in Operations /\ CanRun(op) /\ ops[op].prepared
                            /\ ops[op].unit = Unit(op) /\ ops[op].references = References(op)
  BY <1>2 DEF IsRight, Executing
<1>5. Run!WellFormed(Shape)
  <2>1. /\ Run!Targets = Targets /\ Run!Steps = Steps
    BY DEF Run!Targets, Run!Steps, Targets, Steps
  <2>2. \A t \in Targets, s \in Steps :
          /\ Shape.kind[t] = IF AtSubscription(SiteOf(t)) THEN "subscription" ELSE "resource-group"
          /\ Shape.subscription[t] = SiteOf(t).subscription
          /\ Shape.scope[s] = IF IsDeployment(s) THEN StepOf(s).scope ELSE "any"
          /\ Shape.disp[t][s] = ops[<<t, s>>].disposition
          /\ Shape.refs[t][s] = ops[<<t, s>>].references
    BY DEF Shape
  <2>3. ASSUME NEW t \in Targets, NEW s \in Steps, NEW source \in Shape.refs[t][s]
        PROVE  source \in Run!MayRead(Shape, t, s)
    <3> DEFINE op == <<t, s>>
    <3>1. op \in Operations /\ op[1] = t /\ op[2] = s /\ source \in ops[op].references
      BY <2>2, <2>3 DEF Operations
    <3> HIDE DEF op
    <3>2. op \in Executing
      BY <1>3, <3>1
    <3>3. PICK name \in Reads(op) : source \in Sources(op, name) /\ source \in Executing
      BY <1>4, <3>1, <3>2 DEF References
    <3>4. /\ source \in Operations /\ IsDeployment(source[2]) /\ source[2] < s
          /\ IF StepOf(source[2]).scope = "subscription"
               THEN /\ AtSubscription(SiteOf(source[1]))
                    /\ SiteOf(source[1]).subscription = SiteOf(t).subscription
                    /\ source[1] = t \/ ~AtSubscription(SiteOf(t))
               ELSE source[1] = t /\ ~AtSubscription(SiteOf(t))
      BY <3>1, <3>3, SourcesComeBefore
    <3>5. source[1] \in Targets /\ source[2] \in Steps /\ source = <<source[1], source[2]>>
      BY <3>4 DEF Operations
    <3>6. Shape.disp[source[1]][source[2]] = "execute"
      BY <2>2, <3>3, <3>5 DEF Executing
    <3>7. Shape.scope[source[2]] = StepOf(source[2]).scope
      BY <2>2, <3>4, <3>5
    <3> HIDE DEF Shape
    <3>8. QED
      BY <2>1, <2>2, <3>4, <3>5, <3>6, <3>7 DEF Run!MayRead
  <2>4. ASSUME NEW t \in Targets, NEW s \in Steps, Shape.kind[t] = "resource-group",
               Shape.scope[s] = "subscription"
        PROVE  Shape.disp[t][s] # "execute"
    <3>1. ~AtSubscription(SiteOf(t)) /\ IsDeployment(s) /\ StepOf(s).scope = "subscription"
      BY <2>2, <2>4
    <3>2. ~IsSelected(<<t, s>>)
      BY <3>1 DEF IsSelected, Selected, Compatible, IsDeployment
    <3>3. <<t, s>> \in Operations
      BY DEF Operations
    <3>4. <<t, s>> \notin Executing
      BY <1>4, <3>2 DEF CanRun
    <3>5. QED
      BY <2>2, <3>3, <3>4 DEF Executing
  <2> HIDE DEF Shape
  <2>5. QED
    BY <2>1, <2>3, <2>4 DEF Run!WellFormed
<1>6. ASSUME NEW op \in Executing
      PROVE  /\ ops[op].prepared
             /\ IsDeployment(op[2]) => /\ \E unit \in ops[op].unit : unit.ok
                                      /\ ~Lost(op) /\ MissingParameters(op) = {}
             /\ \A kind \in Requires(op) : ~Lacking(kind, tools)
             /\ StepOf(op[2]).kind = "kubectl" =>
                  \A p \in Elements(StepOf(op[2]).files) :
                    \E path \in StepFile(p, SiteOf(op[1])) : KubectlFileIsSound(path)
  <2>1. op \in Operations /\ CanRun(op) /\ ops[op].prepared /\ ops[op].unit = Unit(op)
    BY <1>4
  <2>2. IsDeployment(op[2]) => /\ \E unit \in ops[op].unit : unit.ok
                               /\ ~Lost(op) /\ MissingParameters(op) = {}
    BY <2>1, UnitIsKept DEF CanRun
  <2>3. \A kind \in Requires(op) : ~Lacking(kind, tools)
    BY <1>1, <2>1 DEF CanRun, CapabilitiesAreReported
  <2>4. ASSUME StepOf(op[2]).kind = "kubectl", NEW p \in Elements(StepOf(op[2]).files)
        PROVE  \E path \in StepFile(p, SiteOf(op[1])) : KubectlFileIsSound(path)
    <3>1. op[1] \in Targets /\ op[2] \in Steps
      BY <2>1 DEF Operations
    <3>2. KubectlFilesAreSound(StepOf(op[2]))
      BY <1>1, <2>4, <3>1 DEF StepsAreValid
    <3>3. Selected(StepOf(op[2]), SiteOf(op[1]))
      BY <2>1 DEF CanRun, IsSelected
    <3>4. QED
      BY <2>4, <3>1, <3>2, <3>3 DEF KubectlFilesAreSound, StepFile
  <2>5. QED
    BY <2>1, <2>2, <2>3, <2>4
<1>7. ASSUME NEW t \in Targets
      PROVE  /\ \A c \in composed[t].written : \E s \in Steps : Accepting(t, c) = {s}
             /\ \A pair \in composed[t].providers :
                  \A provider \in Accepting(t, pair[1]), consumer \in Accepting(t, pair[2]) :
                    provider <= consumer
  <2>1. t \notin failedTargets
    BY <1>1 DEF CoverageIsReported, Reported
  <2>2. \A s \in DeploymentsOf(t) : Unit(<<t, s>>) # {}
    <3>1. SUFFICES ASSUME NEW s \in DeploymentsOf(t) PROVE Unit(<<t, s>>) # {}
      OBVIOUS
    <3>2. <<t, s>> \in Operations /\ IsSelected(<<t, s>>) /\ IsDeployment(s)
      BY <3>1 DEF DeploymentsOf, Operations, IsSelected
    <3>3. <<t, s>> \in Executing
      BY <1>3, <3>2
    <3>4. CanRun(<<t, s>>)
      BY <1>4, <3>3
    <3>5. QED
      BY <3>2, <3>4 DEF CanRun
  <2>3. composed[t].governed = {} \/ Covered(t)
    BY <1>1, <2>1, <2>2 DEF CoverageIsReported
  <2>4. /\ composed[t].written \subseteq composed[t].governed
        /\ composed[t].providers \subseteq composed[t].written \X composed[t].written
    BY <1>1 DEF ComposedAreClosed
  <2>5. \A c \in composed[t].written : \E s \in Steps : Accepting(t, c) = {s}
    BY <2>3, <2>4 DEF Covered
  <2>6. ASSUME NEW pair \in composed[t].providers, NEW provider \in Accepting(t, pair[1]),
               NEW consumer \in Accepting(t, pair[2])
        PROVE  provider <= consumer
    <3>1. pair[1] \in composed[t].written /\ pair[2] \in composed[t].written
      BY <2>4
    <3>2. /\ Accepting(t, pair[1]) = {provider} /\ Accepting(t, pair[2]) = {consumer}
          /\ provider \in Steps /\ consumer \in Steps
      BY <2>5, <3>1
    <3>3. provider \in Int /\ consumer \in Int
      BY <3>2 DEF Steps
    <3>4. FirstOf({provider}) = provider /\ FirstOf({consumer}) = consumer
      BY <3>3, FirstOfOne
    <3>5. FirstOf(Accepting(t, pair[1])) <= FirstOf(Accepting(t, pair[2]))
      BY <2>3, <2>4, <3>1, <3>2 DEF Covered
    <3>6. QED
      BY <3>2, <3>4, <3>5
  <2>7. QED
    BY <2>5, <2>6
<1>8. QED
  BY <1>1, <1>5, <1>6, <1>7 DEF ExecutableIsRunnable

(* A plan that build_plan calls executable is one that execute_plan can    *)
(* carry out: its operations are prepared, compiled and have their tools,  *)
(* read only what runs before them, and each composed collection goes to   *)
(* one deployment (_prepare_plan_targets, FleetRun's assumption).          *)
THEOREM ExecutablesAreRunnable == Spec => []ExecutableIsRunnable
<1>1. PreparationInv => ExecutableIsRunnable
  BY RunnableHolds DEF PreparationInv
<1>2. QED
  BY <1>1, PreparationHolds, PTL

-------------------------------------------------------------------------------
(* Nothing is blocked for the order in which operations are prepared.      *)

LEMMA NatHasLeast ==
  ASSUME NEW S \in SUBSET Nat, S # {}
  PROVE  \E x \in S : \A y \in S : x <= y
<1>1. PICK x \in S : \A y \in S : ~(<<y, x>> \in OpToRel(<, Nat))
  BY NatLessThanWellFounded, WFMin
<1>2. OpToRel(<, Nat) = {pair \in Nat \X Nat : pair[1] < pair[2]}
  BY DEF OpToRel
<1>3. \A y \in S : ~(y < x)
  <2>1. TAKE y \in S
  <2>2. <<y, x>> \in Nat \X Nat /\ <<y, x>>[1] = y /\ <<y, x>>[2] = x
    OBVIOUS
  <2>3. QED
    BY <1>1, <1>2, <2>2
<1>4. QED
  BY <1>3, SMT

(* CarriedOut is what its definition says: the operations that are to      *)
(* execute are a solution of it, and there is one only, for a step refers  *)
(* to earlier ones.                                                        *)
LEMMA CarriedOutIs ==
  ASSUME PlanInv, ToExecute, NEW op \in Operations
  PROVE  op[1] \in CarriedOut[op[2]] <=> op \in Executing
<1> DEFINE Allows(f, t, s) ==
             /\ Selected(StepOf(s), SiteOf(t))
             /\ t \notin failedTargets
             /\ <<t, s>> \notin incapable
             /\ IsDeployment(s) => Unit(<<t, s>>) # {} /\ MissingParameters(<<t, s>>) = {}
             /\ ~Lost(<<t, s>>)
             /\ \A name \in Reads(<<t, s>>) :
                  \E source \in Sources(<<t, s>>, name) : source[1] \in f[source[2]]
           Again(f) == [s \in Steps |-> {t \in Targets : Allows(f, t, s)}]
           executed == [s \in Steps |-> {t \in Targets : <<t, s>> \in Executing}]
<1>1. CarriedOut = CHOOSE f : f = Again(f)
  BY DEF CarriedOut
<1>2. handled = Operations /\ \A x \in Operations : IsRight(x)
  BY DEF PlanInv, ResultIsRight, HandledAreRight
<1>3. \A x \in Operations : x = <<x[1], x[2]>> /\ x[1] \in Targets /\ x[2] \in Steps
  BY DEF Operations
<1>4. \A x \in Operations : x \in Executing <=> x[1] \in executed[x[2]]
  BY <1>3
<1>5. ASSUME NEW t \in Targets, NEW s \in Steps
      PROVE  <<t, s>> \in Executing <=> Allows(executed, t, s)
  <2>1. <<t, s>> \in Operations
    BY DEF Operations
  <2>2. \A name : \A source \in Sources(<<t, s>>, name) :
          source \in Executing <=> source[1] \in executed[source[2]]
    BY <1>4, <2>1, SourcesComeBefore
  <2>3. <<t, s>> \in Executing <=> CanRun(<<t, s>>)
    BY <1>2, <2>1 DEF IsRight
  <2> HIDE DEF executed
  <2>4. CanRun(<<t, s>>) <=> Allows(executed, t, s)
    BY <2>2 DEF CanRun, IsSelected
  <2>5. QED
    BY <2>3, <2>4
<1>6. executed = Again(executed)
  BY <1>5
<1>7. CarriedOut = Again(CarriedOut)
  <2> HIDE DEF Again, executed
  <2>1. QED
    BY <1>1, <1>6
<1>8. \A s \in Steps : CarriedOut[s] = executed[s]
  <2> DEFINE wrong == {s \in Steps : CarriedOut[s] # executed[s]}
  <2>1. SUFFICES ASSUME wrong # {} PROVE FALSE
    OBVIOUS
  <2>2. wrong \in SUBSET Nat
    BY DEF Steps
  <2> HIDE DEF executed
  <2>3. PICK s \in wrong : \A r \in wrong : s <= r
    BY <2>1, <2>2, NatHasLeast
  <2>4. s \in Steps /\ CarriedOut[s] # executed[s]
    BY <2>3
  <2>5. \A t \in Targets : Allows(CarriedOut, t, s) <=> Allows(executed, t, s)
    <3>1. TAKE t \in Targets
    <3>2. ASSUME NEW name, NEW source \in Sources(<<t, s>>, name)
          PROVE  CarriedOut[source[2]] = executed[source[2]]
      <4>1. source[2] \in Steps /\ source[2] < s
        <5>1. <<t, s>> \in Operations /\ <<t, s>>[2] = s
          BY <2>4 DEF Operations
        <5>2. QED
          BY <1>3, <3>2, <5>1, SourcesComeBefore
      <4>2. source[2] \notin wrong
        BY <2>2, <2>3, <4>1
      <4>3. QED
        BY <4>1, <4>2
    <3>3. QED
      BY <3>2
  <2> HIDE DEF Allows
  <2>6. CarriedOut[s] = {t \in Targets : Allows(CarriedOut, t, s)}
    BY <1>7, <2>4
  <2>7. executed[s] = {t \in Targets : Allows(executed, t, s)}
    BY <1>6, <2>4
  <2>8. QED
    BY <2>4, <2>5, <2>6, <2>7
<1>9. QED
  BY <1>3, <1>4, <1>8

LEMMA CauseHolds == PlanInv => BlockedOnlyForCause
<1> SUFFICES ASSUME PlanInv PROVE BlockedOnlyForCause
  OBVIOUS
<1>1. PlannedWhenSound
  <2>1. SUFFICES ASSUME ToExecute PROVE Executing = Sound
    BY DEF PlannedWhenSound, ToExecute
  <2>2. QED
    BY <2>1, CarriedOutIs DEF Sound, Executing
<1>2. BlockedIsExplained
  <2>1. SUFFICES ASSUME Planned, NEW op \in BlockedOperations PROVE Explained(op)
    BY DEF BlockedIsExplained
  <2>2. op \in Operations /\ ops[op].disposition = "blocked"
    BY <2>1 DEF BlockedOperations
  <2>3. OthersAreUntouched
    BY <2>1 DEF PlanInv, Made
  <2>4. op \in handled
    BY <2>2, <2>3, UntouchedIs DEF OthersAreUntouched, NoOperation
  <2>5. QED
    BY <2>1, <2>4 DEF PlanInv, HandledAreRight, IsRight
<1>3. QED
  BY <1>1, <1>2 DEF BlockedOnlyForCause

(* An operation of a plan is to execute exactly when it, and every         *)
(* operation whose outputs it reads, can be carried out, whatever the order*)
(* of Sites and steps, and a blocked one has its cause reported            *)
(* (_prepare_plan_targets).                                                *)
THEOREM PlansAreBlockedForCause == Spec => []BlockedOnlyForCause
<1>1. PreparationInv => BlockedOnlyForCause
  BY CauseHolds DEF PreparationInv
<1>2. QED
  BY <1>1, PreparationHolds, PTL
===============================================================================
