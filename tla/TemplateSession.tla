-------------------------- MODULE TemplateSession --------------------------
(***************************************************************************)
(* TemplateCompilationSession of compilation.py: templates are read, and   *)
(* Bicep ones compiled by a tool that opens the file itself, while their   *)
(* author may save them.  What was read, and how it ended, is kept for the *)
(* session.                                                                *)
(*                                                                         *)
(* A file's content is its version; a saved file gets a new one, so one    *)
(* that is changed and changed back within a compilation is not modelled.  *)
(* Version 0 is no file.  `body` gives what a version of a template says:  *)
(* [valid, accepts, required].                                             *)
(***************************************************************************)
EXTENDS Integers, Sequences, FiniteSets

CONSTANTS
  Templates,
  MaxSaves      \* how often an author saves or removes a file in a behaviour

NoOutcome == [ok |-> FALSE, key |-> << >>, output |-> << >>]

VARIABLES
  body,           \* what each version of each template says, fixed
  disk,           \* the version of each template that is on disk
  configuration,  \* the version of bicepconfig.json they share
  saves,
  sources,        \* _sources: the version that was read, {} before
  configurations, \* _configurations: the version found for a template, {} before
  pathFailures,   \* _path_failures: templates that could not be read
  outcomes,       \* _outcomes: a set of [ok, key, output]
  job             \* the acquisition in progress: [template, at, output]

bodyVars == <<body>>
diskVars == <<disk, configuration, saves>>
sessionVars == <<sources, configurations, pathFailures, outcomes, job>>
compilationVars == <<bodyVars, diskVars, sessionVars>>

NoJob == [template |-> "none", at |-> "idle", output |-> {}]

Suffix(t) == body[t].suffix

Says(t, version) == body[t].versions[version]

SessionInit(templates) ==
  /\ body = templates
  /\ disk = [t \in Templates |-> 1]
  /\ configuration = 1
  /\ saves = 0
  /\ sources = [t \in Templates |-> {}]
  /\ configurations = [t \in Templates |-> {}]
  /\ pathFailures = {}
  /\ outcomes = {}
  /\ job = NoJob

Save ==
  /\ saves < MaxSaves
  /\ saves' = saves + 1
  /\ \/ \E t \in Templates :
          /\ disk[t] # 0
          /\ disk' = [disk EXCEPT ![t] = IF @ < Len(body[t].versions) THEN @ + 1 ELSE 0]
          /\ UNCHANGED configuration
     \/ configuration' = configuration + 1 /\ UNCHANGED disk
  /\ UNCHANGED <<bodyVars, sessionVars>>

(* A compilation key: everything the output of the compiler is said to be  *)
(* a function of.  The tools are found once, so they do not vary.          *)
Key(t, v, c) ==
  [template |-> t, source |-> v,
   configuration |-> IF Suffix(t) = "json" THEN 0 ELSE c]

KeysOf(t) ==
  {Key(t, v, c) : v \in sources[t], c \in configurations[t] \cup {0}}

Cached(t) == {o \in outcomes : o.key \in KeysOf(t)}

Acquired(t) == t \in pathFailures \/ Cached(t) # {}

Step(t, at) == job.template = t /\ job.at = at

StartAcquiring(t) ==
  /\ job = NoJob /\ ~Acquired(t)
  /\ job' = [NoJob EXCEPT !.template = t, !.at = "reading"]
  /\ UNCHANGED <<bodyVars, diskVars, sources, configurations, pathFailures, outcomes>>

Finish(outcome) ==
  /\ outcomes' = outcomes \cup {outcome}
  /\ job' = NoJob

ReadSource(t) ==
  /\ Step(t, "reading")
  /\ disk[t] # 0
  /\ sources' = [sources EXCEPT ![t] = {disk[t]}]
  /\ job' = [job EXCEPT !.at = IF Suffix(t) = "json" THEN "parsing" ELSE "configuring"]
  /\ UNCHANGED <<bodyVars, diskVars, configurations, pathFailures, outcomes>>

SourceUnreadable(t) ==
  /\ Step(t, "reading")
  /\ disk[t] = 0
  /\ pathFailures' = pathFailures \cup {t}
  /\ job' = NoJob
  /\ UNCHANGED <<bodyVars, diskVars, sources, configurations, outcomes>>

Outcome(t, v, c, output) ==
  [ok     |-> output # {} /\ \A o \in output : Says(t, o.source).valid,
   key    |-> Key(t, v, c),
   output |-> output]

(* An ARM JSON template is its own output: the bytes that were read.       *)
ParseTemplate(t) ==
  /\ Step(t, "parsing")
  /\ \E v \in sources[t] :
       Finish(Outcome(t, v, 0, {[source |-> v, configuration |-> 0]}))
  /\ UNCHANGED <<bodyVars, diskVars, sources, configurations, pathFailures>>

FindConfiguration(t) ==
  /\ Step(t, "configuring")
  /\ configurations' = [configurations EXCEPT ![t] = {configuration}]
  /\ job' = [job EXCEPT !.at = "compiling"]
  /\ UNCHANGED <<bodyVars, diskVars, sources, pathFailures, outcomes>>

ConfigurationUnreadable(t) ==
  /\ Step(t, "configuring")
  /\ pathFailures' = pathFailures \cup {t}
  /\ job' = NoJob
  /\ UNCHANGED <<bodyVars, diskVars, sources, configurations, outcomes>>

(* The compiler opens the files by path, whatever they hold by now.        *)
Compile(t) ==
  /\ Step(t, "compiling")
  /\ job' = [job EXCEPT !.at = "checking",
                        !.output = IF disk[t] = 0 THEN {}
                                   ELSE {[source |-> disk[t], configuration |-> configuration]}]
  /\ UNCHANGED <<bodyVars, diskVars, sources, configurations, pathFailures, outcomes>>

(* A timeout, or a compiler that cannot be started, ends it at once.       *)
CompileNeverEnds(t) ==
  /\ Step(t, "compiling")
  /\ \E v \in sources[t], c \in configurations[t] : Finish(Outcome(t, v, c, {}))
  /\ UNCHANGED <<bodyVars, diskVars, sources, configurations, pathFailures>>

Unchanged(t) == disk[t] \in sources[t] /\ configuration \in configurations[t]

(* Mutant: the output is accepted as it is.                                *)
CheckNothing(t) ==
  /\ Step(t, "checking")
  /\ \E v \in sources[t], c \in configurations[t] : Finish(Outcome(t, v, c, job.output))
  /\ UNCHANGED <<bodyVars, diskVars, sources, configurations, pathFailures>>

(* Both inputs are read again before the output is believed.               *)
CheckInputs(t) ==
  /\ Step(t, "checking")
  /\ \E v \in sources[t], c \in configurations[t] :
       Finish(Outcome(t, v, c, IF Unchanged(t) THEN job.output ELSE {}))
  /\ UNCHANGED <<bodyVars, diskVars, sources, configurations, pathFailures>>

Acquire(t) ==
  \/ StartAcquiring(t) \/ ReadSource(t) \/ SourceUnreadable(t)
  \/ ParseTemplate(t) \/ FindConfiguration(t) \/ ConfigurationUnreadable(t)
  \/ Compile(t) \/ CompileNeverEnds(t) \/ CheckInputs(t)

(* A session by itself, from any templates; Preparation takes its steps.   *)
SessionNext == Save \/ \E t \in Templates : Acquire(t)

SessionSpec(templates) == SessionInit(templates) /\ [][SessionNext]_compilationVars

-----------------------------------------------------------------------------
(* The output a key names was made from the source and the configuration   *)
(* in the key, and a session never has two outputs for one template, nor a *)
(* failure beside an output.                                               *)
KeysAreTrue ==
  /\ \A o \in outcomes :
       o.ok => o.output = {[source |-> o.key.source, configuration |-> o.key.configuration]}
  /\ \A o, p \in outcomes : o.key.template = p.key.template => o = p
  /\ \A o \in outcomes : o.key.template \notin pathFailures
=============================================================================
