----------------------------- MODULE GuidedInputs -----------------------------
(***************************************************************************)
(* A command that gets its Site from typed answers (siteops/cli.py:        *)
(* _explicit_site, _resolve_typed_site, cmd_inputs): it loads the          *)
(* contract, binds the answers, reads the resources they name and those    *)
(* they lead to one after another, while what is in Azure may change, and  *)
(* builds the Site; the inputs command may save it.  A Site file stands    *)
(* for the answers where one is given: its Site always has a name, that of *)
(* the file when it says none.                                             *)
(*                                                                         *)
(* A world is what Azure says of each resource: its location, its facts    *)
(* and its references; one that is not in the world is not found.  The     *)
(* validation and the planning that follow are Preparation's.              *)
(***************************************************************************)
EXTENDS InputContract

CONSTANTS
  Contracts,   \* the contract of each manifest
  AnswerSets,  \* the answers that may be given
  Options,     \* for each manifest the rest of command lines: [command, read, siteFile, label, save]
  Worlds,      \* what Azure may say
  MaxChanges   \* how often it may change meanwhile

ASSUME InputAssumption ==
  /\ \A m \in DOMAIN Contracts : Declared(Contracts[m])
  /\ \A a \in AnswerSets : \A n \in DOMAIN a.file : Single(a.file[n])

VARIABLES
  line,   \* the command line: options, manifest and answers
  world,     \* what Azure says now, once it is to be read
  changes,
  stage,     \* where the command is
  reads,     \* the names of the resources to read
  bound,     \* the values the answers gave
  observed,  \* the observation of each resource read
  asked,     \* the IDs Azure was asked for
  site,      \* the Site, once built
  names,     \* the names and places configured Sites have
  saved      \* the saved other commands have made, and ours

inputVars == <<line, world, changes, stage, reads, bound, observed, asked, site, names, saved>>

Contract == Contracts[line.manifest]
Answers == line.answers
HasAnswers == DOMAIN Answers.file \cup DOMAIN Answers.inline # {}
Step(next) == stage' = next
Kept == <<line, names, saved>>

Started ==
  /\ world = NoValues /\ changes = 0
  /\ stage = "start"
  /\ reads = {} /\ bound = NoValues /\ observed = NoValues /\ asked = {} /\ site = {}

InputInit ==
  /\ \E m \in DOMAIN Contracts, a \in AnswerSets : \E options \in Options[m] :
       line = Over([manifest |-> m, answers |-> a], options)
  /\ Started
  /\ names \in {{}, {"plant"}} /\ saved \in {{}, {"saved"}}
  /\ ~line.save => names = {} /\ saved = {}

------------------------------------------------------------------------------
(* _explicit_site and cmd_inputs: what may be asked for together *)

Compatible ==
  /\ line.siteFile # {} => ~HasAnswers /\ ~line.read /\ line.command # "inputs"
  /\ line.read => HasAnswers /\ line.label = {}
  /\ line.save => line.command = "inputs"

\* The contract is loaded once the command line makes sense.  Without answers the command
\* describes the contract, or takes the configured Sites.
StartCommand ==
  /\ stage = "start"
  /\ Step(IF ~Compatible THEN "refused"
          ELSE IF line.siteFile # {} THEN "file"
          ELSE IF ~HasAnswers /\ ~line.save THEN "done"
          ELSE IF Accepted(Contract) THEN "bind" ELSE "refused")
  /\ UNCHANGED <<Kept, world, changes, reads, bound, observed, asked, site>>

\* load_direct_site: a complete Site, without a parent to inherit from.
ReadSiteFile ==
  /\ stage = "file"
  /\ \E document \in line.siteFile :
       \/ /\ document.inherits /\ Step("refused") /\ UNCHANGED site
       \/ /\ ~document.inherits /\ Step("match") /\ site' = {document.site}
  /\ UNCHANGED <<Kept, world, changes, reads, bound, observed, asked>>

------------------------------------------------------------------------------
(* _resolve_typed_site *)

\* _require_site_match, of a Site or of what is known of it early: a name that is not known
\* is not compared.
MatchesLabel(values, pending) ==
  \A term \in line.label :
    IF term.key \in DOMAIN values /\ term.key \notin pending
      THEN values[term.key] \in term.values
      ELSE term.key = SiteName \/ term.key \in pending

MayRead == line.command \in {"plan", "deploy"} \/ line.read

MatchesEarly ==
  LET known == KnownIdentity(Contract, Answers)
  IN  MatchesLabel(known.values, known.pending)

\* Without a resource the Site is built at once.
BindAnswers ==
  /\ stage = "bind"
  /\ IF Binds(Contract, Answers)
       THEN /\ bound' = BoundValues(Contract, Answers)
            /\ reads' = Reads(Contract, Answers)
            /\ Step(IF reads' = {} THEN IF line.read THEN "refused" ELSE "build"
                    ELSE IF MayRead /\ (line.label # {} => MatchesEarly) THEN "manifest"
                    ELSE "refused")
       ELSE Step("refused") /\ UNCHANGED <<bound, reads>>
  /\ UNCHANGED <<Kept, world, changes, observed, asked, site>>

\* The manifest is loaded, and the reader of Azure is there.
LoadManifest ==
  /\ stage = "manifest"
  /\ \/ Step("read") /\ world' \in Worlds
     \/ Step("refused") /\ UNCHANGED world
  /\ UNCHANGED <<Kept, changes, reads, bound, observed, asked, site>>

Unread == reads \ DOMAIN observed
AllRead == Unread = {}

\* reference_fields: only what a resource still to be read needs.
Wanted(n) ==
  {link.field : link \in {link \in UNION {Binding(Contract, m).from : m \in reads} : link.input = n}}

Observation(id) ==
  [id |-> id, location |-> world[id].location, facts |-> world[id].facts,
   references |-> world[id].references]

\* One resource is read, whole, at one moment, in the order they are declared.  The read may
\* fail, be stopped by its deadline or by the operator; what it says must name the resource
\* and have what is wanted.
ReadResource ==
  /\ stage = "read"
  /\ \E n \in Unread :
       /\ Earlier(Contract, n) \cap Unread = {}
       /\ LET id == Target(Contract, n, bound, observed) IN
          IF ~RequestAccepted(Contract, n, bound, observed)
            THEN Step("refused") /\ UNCHANGED <<observed, asked>>
            ELSE /\ asked' = asked \cup {id}
                 /\ \/ /\ id \in DOMAIN world
                       /\ Wanted(n) \subseteq DOMAIN world[id].references
                       /\ ObservationAccepted(Contract, n, bound, world[id])
                       /\ observed' = Over([m \in {n} |-> Observation(id)], observed)
                       /\ UNCHANGED stage
                    \/ Step("refused") /\ UNCHANGED observed
  /\ UNCHANGED <<Kept, world, changes, reads, bound, site>>

LastRead ==
  /\ stage = "read" /\ AllRead
  /\ Step("build")
  /\ UNCHANGED <<Kept, world, changes, reads, bound, observed, asked, site>>

Build ==
  /\ stage = "build"
  /\ IF Builds(Contract, reads, bound, observed)
       THEN /\ site' = {BuiltSite(Contract, reads, bound, observed)}
            /\ Step("match")
       ELSE Step("refused") /\ UNCHANGED site
  /\ UNCHANGED <<Kept, world, changes, reads, bound, observed, asked>>

\* What matching and saving see of a Site: one whose answers give no name has this one.
Named(s) == Over(s, [n \in {SiteName} |-> "guided-site"])

\* The whole Site must match as well; the inputs command validates the manifest with it.
MatchSite ==
  /\ stage = "match"
  /\ \E s \in site :
       \/ Step(IF ~MatchesLabel(Named(s), {}) THEN "refused"
               ELSE IF line.save THEN "identity" ELSE "done")
       \/ line.command = "inputs" /\ Step("refused")
  /\ UNCHANGED <<Kept, world, changes, reads, bound, observed, asked, site>>

------------------------------------------------------------------------------
(* --save-site *)

SavedName == Named(CHOOSE s \in site : TRUE)[SiteName]

\* ensure_new_site_identity: no configured Site has the name yet.  It says nothing of a
\* file that is there; the write does.
CheckIdentity ==
  /\ stage = "identity"
  /\ Step(IF "saved" \notin saved /\ SavedName \in names THEN "refused" ELSE "write")
  /\ UNCHANGED <<Kept, world, changes, reads, bound, observed, asked, site>>

\* write_yaml_exclusive
WriteSite ==
  /\ stage = "write"
  /\ IF "saved" \in saved
       THEN Step("refused") /\ UNCHANGED <<saved, names>>
       ELSE saved' = saved \cup {"saved"} /\ names' = names \cup {SavedName} /\ Step("done")
  /\ UNCHANGED <<line, world, changes, reads, bound, observed, asked, site>>

\* Another command saves a Site at the same place.
AnotherSaves ==
  /\ stage \in {"identity", "write"} /\ "saved" \notin saved
  /\ saved' = saved \cup {"saved"} /\ names' = names \cup {"other"}
  /\ UNCHANGED <<line, world, changes, stage, reads, bound, observed, asked, site>>

\* Something in Azure changes between two reads.
AzureChanges ==
  /\ stage = "read" /\ observed # NoValues /\ changes < MaxChanges
  /\ world' \in Worlds \ {world} /\ changes' = changes + 1
  /\ UNCHANGED <<Kept, stage, reads, bound, observed, asked, site>>

Command ==
  \/ StartCommand \/ ReadSiteFile \/ BindAnswers \/ LoadManifest \/ ReadResource \/ LastRead
  \/ Build \/ MatchSite \/ CheckIdentity \/ WriteSite

InputNext == Command \/ AnotherSaves \/ AzureChanges

InputSpec == InputInit /\ [][InputNext]_inputVars

------------------------------------------------------------------------------
(* Properties *)

Resolved == site # {} /\ line.siteFile = {}
TheSite == CHOOSE s \in site : TRUE

\* The Site is what was asked for: every answer is in it, none left out or overruled in
\* silence; what a resource supplies, and an answer to the same input, is what that
\* resource said; and a scoped resource is in the Site's subscription.
SiteIsAsAnswered ==
  Resolved =>
    LET c == Contract
        built == TheSite
    IN
    /\ \A n \in Inputs(c) : Supplied(Answers, n) =>
         \A v \in Given(c, Answers, n) :
           IF n \in Roles(c)
             THEN n \in DOMAIN observed /\ observed[n].id = v
             ELSE \A p \in c.fields[n].path :
                    (c.fields[n].kind = "map" => DOMAIN v # {}) => p \in DOMAIN built /\ built[p] = v
    /\ \A n \in reads :
         /\ \A fact \in DOMAIN Derive(c, n) : \A p \in c.fields[Derive(c, n)[fact]].path :
              p \in DOMAIN built /\ Same(built[p], FactOf(observed[n], fact))
         /\ Binding(c, n).scoped =>
              Same(built[Subscription], Parts[observed[n].id].subscription)

\* A Site whose values ask for a prerequisite was built from a resource that was seen to
\* meet it, whoever supplied those values and however the resource was reached.  A value
\* that siteDefaults gives where no input does asks for nothing.
PrerequisitesHeld ==
  Resolved =>
    LET c == Contract
        built == TheSite
    IN
    \A n \in Roles(c) : \A check \in Binding(c, n).requires :
      (\A when \in c.fields[n].when \cup check.when : \A p \in c.fields[when.input].path :
         /\ p \in DOMAIN built /\ built[p] = when.equals
         /\ p \in DOMAIN c.defaults => when.input \in DOMAIN bound)
      => /\ n \in DOMAIN observed
         /\ check.fact \in DOMAIN observed[n].facts
         /\ observed[n].facts[check.fact]

\* What a selector is matched against before the first read is what the Site has: a name
\* or label that is known then does not change, and one that is missing then and not
\* pending stays missing.
KnownIsFinal ==
  Resolved =>
    LET known == KnownIdentity(Contract, Answers) IN
    /\ \A p \in DOMAIN known.values \ known.pending : p \in DOMAIN TheSite /\ TheSite[p] = known.values[p]
    /\ \A p \in DOMAIN TheSite :
         IsIdentity(p) => p \in DOMAIN known.values \cup known.pending

\* Azure is asked only for what an answer names, and for what that resource leads to
\* within its own subscription and group, whatever the references say by then.
ReadsStayNear ==
  asked # {} =>
    LET c == Contract
        roots == UNION {Given(c, Answers, n) : n \in Roles(c)}
    IN \A id \in asked : \E root \in roots :
         /\ Same(Parts[id].subscription, Parts[root].subscription)
         /\ Same(Parts[id].resourceGroup, Parts[root].resourceGroup)

==============================================================================
