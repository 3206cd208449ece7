---------------------------- MODULE InputContract ----------------------------
(***************************************************************************)
(* Which input contracts a manifest may carry, and how the answers to one  *)
(* and the resources read for it make a Site (siteops/guided_inputs.py).   *)
(*                                                                         *)
(* A contract is [order, fields, defaults, nameFrom]: the names of its     *)
(* inputs in order, the inputs, what siteDefaults sets at which path, and  *)
(* nameFromResource.  An input is [kind, path, required, default, when,    *)
(* resource, format].  What is optional is a set of at most one member: a  *)
(* condition in when is [input, equals], a binding in resource is [type,   *)
(* derive, scoped, requires, from], where derive maps a fact to the input  *)
(* that takes it, requires holds [fact, when] and from holds [input,       *)
(* field].                                                                 *)
(*                                                                         *)
(* Answers are [file, inline]; an input the file sets to null has {}       *)
(* there.  A path is a sequence of names.  The messages, the sizes of      *)
(* texts and the spelling of identifiers, types and API versions are left  *)
(* out, and so is the origin of each value, which only messages use.       *)
(***************************************************************************)
EXTENDS Naturals, Sequences, SequencesExt, FiniteSets

CONSTANTS
  Parts,       \* the subscription, group, type and name of each resource ID
  Fold,        \* str.casefold, on the names of resources
  DnsLabels,   \* the texts that are DNS labels
  MapEntries,  \* _MAP_ENTRIES
  MaxRoles     \* resource inputs of a contract at most

Facts(type) == IF type = "cluster" THEN {"workloadIdentity", "oidcIssuer"} ELSE {}
References(type) ==
  {"extendedLocation"} \cup (IF type = "customLocation" THEN {"hostResourceId"} ELSE {})

Overlap(p, q) == IsPrefix(p, q) \/ IsPrefix(q, p)
Same(s, t) == Fold[s] = Fold[t]
NoValues == [n \in {} |-> n]

\* What f gives, and what g gives of the rest.
Over(f, g) == [n \in DOMAIN f \cup DOMAIN g |-> IF n \in DOMAIN f THEN f[n] ELSE g[n]]

Inputs(c) == DOMAIN c.fields
Roles(c) == {n \in Inputs(c) : c.fields[n].resource # {}}
Binding(c, n) == CHOOSE r \in c.fields[n].resource : TRUE
Derive(c, n) == Binding(c, n).derive
DerivedBy(c, n) == {Derive(c, n)[fact] : fact \in DOMAIN Derive(c, n)}
At(c, path) == {n \in Inputs(c) : c.fields[n].path = {path}}
Subscription == <<"subscription">>
SiteName == <<"name">>

\* What the parsing of a contract and of an input file sees to: an input is listed, and what
\* is optional is there once.
Single(set) == \A x, y \in set : x = y

Declared(c) ==
  /\ c.order \in Seq(Inputs(c)) /\ ToSet(c.order) = Inputs(c)
  /\ \A n \in Inputs(c) :
       /\ \A p \in c.fields[n].path : p \in Seq(STRING)
       /\ Single(c.fields[n].path) /\ Single(c.fields[n].default)
       /\ Single(c.fields[n].when) /\ Single(c.fields[n].resource)
       /\ \A r \in c.fields[n].resource : Single(r.from)
  /\ Single(c.nameFrom)

------------------------------------------------------------------------------
(* Which contracts are accepted *)

\* InputField.validate.  The texts the instances use are shorter than every maxLength.
Valid(f, v) ==
  CASE f.kind = "map"      -> Cardinality(DOMAIN v) <= MapEntries
    [] f.kind = "flag"     -> v \in {"true", "false"}
    [] f.kind = "resource" -> v # ""
    [] f.kind = "string"   -> /\ f.required => v # ""
                              /\ f.format = "dnsLabel" => v \in DnsLabels

\* The inputs declared before one.
Earlier(c, n) ==
  LET place == CHOOSE i \in DOMAIN c.order : c.order[i] = n
  IN  {c.order[i] : i \in 1 .. place - 1}

\* A condition refers to an earlier input that is there in any case.
ConditionAccepted(c, n, when) ==
  /\ when.input \in Earlier(c, n)
  /\ c.fields[when.input].when = {}
  /\ c.fields[when.input].kind \in {"string", "flag"}

BindingAccepted(c, n, r) ==
  /\ \A link \in r.from :
       /\ link.input \in Earlier(c, n)
       /\ c.fields[link.input].when = c.fields[n].when
       /\ \E source \in c.fields[link.input].resource : link.field \in References(source.type)
  /\ r.scoped => "subscription" \notin DOMAIN r.derive
  /\ \A check \in r.requires :
       /\ check.fact \in Facts(r.type)
       /\ \A when \in check.when : ConditionAccepted(c, n, when)
       /\ \A other \in r.requires \ {check} : other.fact # check.fact

FieldAccepted(c, n) ==
  LET f == c.fields[n] IN
  /\ \A other \in Earlier(c, n) :
       \A p \in f.path, q \in c.fields[other].path : ~Overlap(p, q)
  /\ (f.kind = "resource") <=> (f.resource # {})
  /\ f.kind # "resource" => f.path # {}
  /\ f.kind \in {"resource", "map"} =>
       f.default = {} /\ \A p \in f.path : Head(p) \in {"parameters", "properties"}
  /\ \A v \in f.default : Valid(f, v)
  /\ \A when \in f.when : ConditionAccepted(c, n, when)
  /\ \A r \in f.resource :
       /\ BindingAccepted(c, n, r)
       /\ f.path # {} \/ DOMAIN r.derive # {} \/ r.from # {}
       /\ r.from # {} => ~f.required

Controllers(c) ==
  LET checks == UNION {Binding(c, n).requires : n \in Roles(c)}
  IN  {when.input : when \in (UNION {c.fields[n].when : n \in Inputs(c)})
                              \cup (UNION {check.when : check \in checks})}

\* An input that takes a fact is a plain one, that no condition reads, under the same
\* condition, and takes no other fact.
DeriveAccepted(c, n, fact) ==
  LET target == Derive(c, n)[fact] IN
  /\ target \in Inputs(c)
  /\ c.fields[target].kind = "string" /\ c.fields[target].default = {}
  /\ c.fields[target].when = c.fields[n].when
  /\ target \notin Controllers(c)
  /\ \A m \in Roles(c) : \A other \in DOMAIN Derive(c, m) :
       Derive(c, m)[other] = target => m = n /\ other = fact

RolesAccepted(c) ==
  /\ Cardinality(Roles(c)) <= MaxRoles
  /\ (\E n \in Roles(c) : Binding(c, n).scoped) => At(c, Subscription) # {}
  /\ \A n \in Roles(c) :
       /\ \/ c.fields[n].path # {} \/ DOMAIN Derive(c, n) # {} \/ Binding(c, n).requires # {}
          \/ \E m \in Roles(c) : \E link \in Binding(c, m).from : link.input = n
       /\ \A fact \in DOMAIN Derive(c, n) : DeriveAccepted(c, n, fact)

\* No input replaces a mapping of siteDefaults; a map shares nothing with it.
DefaultsAccepted(c) ==
  \A n \in Inputs(c) : \A p \in c.fields[n].path, q \in DOMAIN c.defaults :
    IF c.fields[n].kind = "map" THEN ~Overlap(p, q) ELSE IsPrefix(p, q) => p = q

\* InputContract.__post_init__
NameAccepted(c) ==
  \A n \in c.nameFrom :
    /\ n \in Roles(c) /\ c.fields[n].when = {}
    /\ \E name \in At(c, SiteName) :
         /\ c.fields[name].kind = "string" /\ c.fields[name].when = {}
         /\ c.fields[name].required /\ c.fields[name].default = {}
         /\ name \notin Controllers(c) \cup (UNION {DerivedBy(c, m) : m \in Roles(c)})

Accepted(c) ==
  /\ \A n \in Inputs(c) : FieldAccepted(c, n)
  /\ RolesAccepted(c) /\ DefaultsAccepted(c) /\ NameAccepted(c)

------------------------------------------------------------------------------
(* bind: what the answers say *)

\* An inline answer comes before the file's and that before the default; entries of a map
\* come before those of the same key.
Answer(c, a, n) ==
  IF n \in DOMAIN a.inline
    THEN IF c.fields[n].kind = "map" /\ n \in DOMAIN a.file /\ a.file[n] # {}
           THEN {Over(a.inline[n], entries) : entries \in a.file[n]}
           ELSE {a.inline[n]}
  ELSE IF n \in DOMAIN a.file THEN a.file[n] ELSE c.fields[n].default

Given(c, a, n) ==
  {v \in Answer(c, a, n) : c.fields[n].kind = "map" /\ c.fields[n].required => DOMAIN v # {}}
Supplied(a, n) == n \in DOMAIN a.file \cup DOMAIN a.inline

Related(c, n) == Binding(c, n).from # {}

\* Each answer by itself.  A null stands for no answer where one is required, and for a
\* resource that is asked for in any case.
AnswersAccepted(c, a) ==
  /\ DOMAIN a.file \cup DOMAIN a.inline \subseteq Inputs(c)
  /\ \A n \in Roles(c) : Supplied(a, n) => ~Related(c, n)
  /\ \A n \in DOMAIN a.inline : Valid(c.fields[n], a.inline[n])
  /\ \A n \in DOMAIN a.file :
       /\ a.file[n] = {} => c.fields[n].required \/ (n \in Roles(c) /\ c.fields[n].when = {})
       /\ \A v \in a.file[n] : Valid(c.fields[n], v)
  /\ \A n \in Inputs(c) : c.fields[n].kind = "map" => \A v \in Answer(c, a, n) : Valid(c.fields[n], v)

\* A conditional input whose condition is not answered, and one whose condition holds.
Undecided(c, a, n) == \E when \in c.fields[n].when : Given(c, a, when.input) = {}
Applies(c, a, n) == \A when \in c.fields[n].when : when.equals \in Given(c, a, when.input)

Active(c, a) == {n \in Inputs(c) : Applies(c, a, n) /\ Given(c, a, n) # {}}
ActiveRoles(c, a) == Active(c, a) \cap Roles(c)
Chosen(c, a, n) == CHOOSE v \in Given(c, a, n) : TRUE

\* What an ID says of its resource, without a read.
Stated(id, fact) == IF fact = "id" THEN id ELSE Parts[id][fact]
StatedFacts(c, n) == DOMAIN Derive(c, n) \ {"location"}

\* The answers, and what the supplied IDs state of inputs nobody answered.
BoundValues(c, a) ==
  LET active == ActiveRoles(c, a)
      states(role, n) == {fact \in StatedFacts(c, role) : Derive(c, role)[fact] = n}
      by(n) == {role \in active : states(role, n) # {}}
      stated == [n \in {n \in Inputs(c) : by(n) # {}} |->
                   LET role == CHOOSE role \in by(n) : TRUE
                   IN  Stated(Chosen(c, a, role), CHOOSE fact \in states(role, n) : TRUE)]
  IN  Over([n \in Active(c, a) |-> Chosen(c, a, n)], stated)

\* resource_fields: the resources supplied and those read through them: of the sets that
\* hold the supplied ones, and with a resource all that lead on from it, the least.
Selected(c, supplied) ==
  LET roles == Roles(c)
      whole(s) == /\ supplied \subseteq s
                  /\ \A n \in roles : (\E link \in Binding(c, n).from : link.input \in s) => n \in s
      sets == {s \in SUBSET roles : whole(s)}
  IN  {n \in roles : \A s \in sets : n \in s}

Reads(c, a) == Selected(c, ActiveRoles(c, a))

\* What the reads will supply: facts, and the name of the Site.
Derivable(c, reads) ==
  (UNION {DerivedBy(c, n) : n \in reads})
    \cup (IF c.nameFrom \cap reads # {} THEN At(c, SiteName) ELSE {})

Says(values, when) == when.input \in DOMAIN values /\ values[when.input] = when.equals

\* The facts that must be seen to hold.
Checks(c, n, values) ==
  {check.fact : check \in {check \in Binding(c, n).requires : \A when \in check.when : Says(values, when)}}

\* _require_resource_scope
InScope(c, n, id, values) ==
  Binding(c, n).scoped =>
    \E site \in At(c, Subscription) : site \in DOMAIN values /\ Same(values[site], Parts[id].subscription)

\* Every answer is used: one whose condition does not hold is refused, and so is a
\* condition on an input that nobody answered.
EachIsUsed(c, a) ==
  \A n \in Inputs(c) :
    IF Undecided(c, a, n)
      THEN \A when \in c.fields[n].when : c.fields[when.input].required
      ELSE Applies(c, a, n) \/ ~Supplied(a, n)

\* A supplied ID is of the type declared and in scope, and what it states agrees with the
\* answers.
IdsAgree(c, a, values) ==
  \A n \in ActiveRoles(c, a) :
    LET id == Chosen(c, a, n) IN
    /\ id \in DOMAIN Parts /\ Parts[id].type = Binding(c, n).type
    /\ \A fact \in StatedFacts(c, n) : Same(values[Derive(c, n)[fact]], Stated(id, fact))
    /\ InScope(c, n, id, values)

NoneMissing(c, a, values) ==
  \A n \in Inputs(c) :
    Applies(c, a, n) /\ Given(c, a, n) = {} /\ c.fields[n].required =>
      n \in DOMAIN values \cup Derivable(c, Reads(c, a))

\* Mutant: a prerequisite is checked if its resource happens to be read.
ChecksIfRead(c, a, values) == TRUE

\* A resource with a prerequisite in force is read.
ChecksAreRead(c, a, values) ==
  \A n \in Roles(c) :
    /\ Checks(c, n, values) # {}
    /\ \A when \in c.fields[n].when : Says(values, when)
    => n \in Reads(c, a)

Binds(c, a) ==
  LET values == BoundValues(c, a) IN
  /\ AnswersAccepted(c, a) /\ EachIsUsed(c, a)
  /\ IdsAgree(c, a, values) /\ NoneMissing(c, a, values) /\ ChecksAreRead(c, a, values)

------------------------------------------------------------------------------
(* resource_request and build_site: what the resources say *)

Link(c, n) == CHOOSE link \in Binding(c, n).from : TRUE

\* The ID to read for a resource: the one supplied, or the one its source refers to.
Target(c, n, bound, observed) ==
  IF Related(c, n) THEN observed[Link(c, n).input].references[Link(c, n).field] ELSE bound[n]

\* Mutant: a related resource may be anywhere.
RequestAnywhere(c, n, bound, observed) ==
  LET id == Target(c, n, bound, observed) IN
  Related(c, n) => id \in DOMAIN Parts /\ Parts[id].type = Binding(c, n).type /\ InScope(c, n, id, bound)

\* A related resource has the type declared, and is in the subscription and the group of
\* its source.
RequestAccepted(c, n, bound, observed) ==
  LET id == Target(c, n, bound, observed) IN
  Related(c, n) =>
    /\ id \in DOMAIN Parts /\ Parts[id].type = Binding(c, n).type
    /\ LET source == observed[Link(c, n).input].id IN
         /\ Same(Parts[id].subscription, Parts[source].subscription)
         /\ Same(Parts[id].resourceGroup, Parts[source].resourceGroup)
    /\ InScope(c, n, id, bound)

\* validate_resource_observation: every prerequisite in force was seen to hold.
ObservationAccepted(c, n, bound, observation) ==
  \A fact \in Checks(c, n, bound) : fact \in DOMAIN observation.facts /\ observation.facts[fact]

FactOf(observation, fact) ==
  IF fact = "location" THEN observation.location ELSE Stated(observation.id, fact)

\* What the observations say of the inputs that take a fact.
ObservedValues(c, reads, observed) ==
  UNION {{<<Derive(c, n)[fact], FactOf(observed[n], fact)>> : fact \in DOMAIN Derive(c, n)} : n \in reads}

\* The answers come first; then what was observed; then the name of a resource, in
\* lower case, for the Site's.
SiteValues(c, reads, bound, observed) ==
  LET seen == ObservedValues(c, reads, observed)
      derived == [n \in {pair[1] : pair \in seen} |-> (CHOOSE pair \in seen : pair[1] = n)[2]]
      name == [n \in IF c.nameFrom \cap reads = {} THEN {} ELSE At(c, SiteName) |->
                 Fold[Parts[observed[CHOOSE m \in c.nameFrom : TRUE].id].name]]
  IN  Over(bound, Over(derived, name))

\* _assign: it replaces a value, and what a value stands in the way of fails.
Assignable(site, path) == \A p \in DOMAIN site : IsPrefix(p, path) => p = path

\* The inputs that are written to the Site: an empty map is not.
Written(c, reads, values) ==
  {n \in Inputs(c) \ Roles(c) : n \in DOMAIN values /\ (c.fields[n].kind = "map" => DOMAIN values[n] # {})}
    \cup {n \in reads : c.fields[n].path # {}}

\* Mutant: an input keeps its answer, whatever the resource says.
AgreesIfMissing(c, reads, values, observed) == TRUE

AgreesWithSeen(c, reads, values, observed) ==
  \A pair \in ObservedValues(c, reads, observed) : Same(values[pair[1]], pair[2])

Builds(c, reads, bound, observed) ==
  LET values == SiteValues(c, reads, bound, observed) IN
  /\ AgreesWithSeen(c, reads, values, observed)
  /\ \A n \in Inputs(c) \ Roles(c) :
       IF n \in DOMAIN values
         THEN /\ Valid(c.fields[n], values[n])
              /\ c.fields[n].kind = "map" /\ c.fields[n].required => DOMAIN values[n] # {}
         ELSE ~c.fields[n].required \/ \E when \in c.fields[n].when : ~Says(values, when)
  /\ \A n \in Written(c, reads, values) : \A p \in c.fields[n].path : Assignable(c.defaults, p)

\* The Site: what stands at each path.
BuiltSite(c, reads, bound, observed) ==
  LET values == SiteValues(c, reads, bound, observed)
      written == Written(c, reads, values)
      filled == [p \in UNION {c.fields[n].path : n \in written} |->
                   LET n == CHOOSE n \in written : c.fields[n].path = {p}
                   IN  IF n \in Roles(c) THEN observed[n].id ELSE values[n]]
  IN  Over(filled, c.defaults)

------------------------------------------------------------------------------
(* known_identity: what of the name and the labels is fixed before a read *)

IsIdentity(p) == Head(p) \in {"name", "labels"}
Identities(c) == {n \in Inputs(c) \ Roles(c) : \A p \in c.fields[n].path : IsIdentity(p)}

\* The names and labels of siteDefaults and of the answers.
KnownValues(c, a, known) ==
  LET values == BoundValues(c, a) IN
  Over([p \in UNION {c.fields[n].path : n \in known} |->
          values[CHOOSE n \in known : c.fields[n].path = {p}]],
       [p \in {p \in DOMAIN c.defaults : IsIdentity(p)} |-> c.defaults[p]])

\* Mutant: a label that will be read is taken for one that is missing.
NothingPending(c, a) ==
  [values |-> KnownValues(c, a, Identities(c) \cap DOMAIN BoundValues(c, a)), pending |-> {}]

KnownIdentity(c, a) ==
  LET known == Identities(c) \cap DOMAIN BoundValues(c, a)
      pending == (Identities(c) \ known) \cap Derivable(c, Reads(c, a))
  IN  [values |-> KnownValues(c, a, known),
       pending |-> UNION {c.fields[n].path : n \in pending}]

==============================================================================
