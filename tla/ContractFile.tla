---------------------------- MODULE ContractFile ----------------------------
(***************************************************************************)
(* Contracts of composed parameters: what load_contract accepts of a       *)
(* ParameterComposition document, and what its identities and its          *)
(* reference rules read in the entries of a parameter file.                *)
(*                                                                         *)
(* A document is [collections, references].  A collection is [path,        *)
(* identity, seeds, members]: its path is a sequence of segments, its      *)
(* identity maps each component to a field, its seeds are a sequence of    *)
(* mappings and its members the names of maps in its entries.  A reference *)
(* rule is [id, source, select, bind, target, unverified]: select is {} or *)
(* {a list of the entry}, bind a sequence of named fields, target {} or    *)
(* {[collection, match, member]}, match maps components to bindings and    *)
(* member is {} or {[name, match]}.                                        *)
(*                                                                         *)
(* A mapping is a function from paths to values, and a field is [path,     *)
(* default], default being {} or {a value}; a named field is also [name,   *)
(* optional].  An entry is [fields, lists, members].                       *)
(***************************************************************************)
EXTENDS Integers, SequencesExt, FiniteSetsExt, Functions

(* A blank or padded value, and one with a template variable that nothing  *)
(* has resolved, which only an identity refuses.                           *)
Blank == " "
Unresolved == "{{unresolved}}"

Read(field, mapping) ==
  IF field.path \in DOMAIN mapping THEN {mapping[field.path]} ELSE field.default

Present(field, mapping) == Read(field, mapping) \ {Blank} # {}

ValueOf(field, mapping) == CHOOSE value \in Read(field, mapping) : TRUE

(* _identity: a component that is left out has its default.                *)
Identified(spec, mapping) ==
  \A k \in DOMAIN spec.identity :
    Read(spec.identity[k], mapping) \ {Blank, Unresolved} # {}

Identity(spec, mapping) ==
  [k \in DOMAIN spec.identity |-> ValueOf(spec.identity[k], mapping)]

SeedIds(spec) == {Identity(spec, spec.seeds[i]) : i \in DOMAIN spec.seeds}

-----------------------------------------------------------------------------
(* _parse_identity, _parse_members and _parse_collections: a collection    *)
(* governs one top-level parameter, alone, and names each seed once.       *)
CollectionIsSound(spec) ==
  /\ Len(spec.path) = 1
  /\ DOMAIN spec.identity # {}
  /\ \A i \in DOMAIN spec.seeds : Identified(spec, spec.seeds[i])
  /\ Cardinality(SeedIds(spec)) = Len(spec.seeds)

CollectionsAreSound(specs) ==
  /\ DOMAIN specs # {}
  /\ \A c \in DOMAIN specs : CollectionIsSound(specs[c])
  /\ \A c, d \in DOMAIN specs : specs[c].path = specs[d].path => c = d

(* _parse_bindings                                                         *)
BindingsAreSound(bind) ==
  /\ bind # <<>>
  /\ \A i \in DOMAIN bind : ~(bind[i].optional /\ bind[i].default # {})

BindingNames(rule) == {rule.bind[i].name : i \in DOMAIN rule.bind}

(* A target names every component of an identity, by bindings of the rule. *)
TargetIsSound(rule, target, specs) ==
  /\ target.collection \in DOMAIN specs
  /\ DOMAIN target.match = DOMAIN specs[target.collection].identity
  /\ Range(target.match) \subseteq BindingNames(rule)
  /\ \A member \in target.member :
       /\ member.name \in specs[target.collection].members
       /\ DOMAIN member.match = {"key"}
       /\ member.match.key \in BindingNames(rule)

(* _parse_references                                                       *)
ReferencesAreSound(rules, specs) ==
  /\ \A i, j \in DOMAIN rules : rules[i].id = rules[j].id => i = j
  /\ \A i \in DOMAIN rules :
       /\ rules[i].source \in DOMAIN specs
       /\ BindingsAreSound(rules[i].bind)
       /\ rules[i].unverified <=> rules[i].target = {}
       /\ \A target \in rules[i].target : TargetIsSound(rules[i], target, specs)

(* load_contract                                                           *)
ContractLoads(document) ==
  /\ CollectionsAreSound(document.collections)
  /\ ReferencesAreSound(document.references, document.collections)

NoContract == [ok |-> FALSE, collections |-> << >>, references |-> <<>>]

(* merge_contracts: collections, the parameters they govern and rule ids   *)
(* are declared once.                                                      *)
MergeContracts(documents) ==
  LET Twice(Field(_)) ==
        \E i, j \in DOMAIN documents :
          i # j /\ Field(documents[i]) \cap Field(documents[j]) # {}
      Names(d) == DOMAIN d.collections
      Paths(d) == {d.collections[c].path : c \in DOMAIN d.collections}
      Rules(d) == {d.references[i].id : i \in DOMAIN d.references}
  IN  IF \/ \E i \in DOMAIN documents : ~ContractLoads(documents[i])
         \/ Twice(Names) \/ Twice(Paths) \/ Twice(Rules)
        THEN NoContract
        ELSE [ok |-> TRUE,
              collections |-> FoldLeft(LAMBDA all, d : all @@ d.collections, << >>, documents),
              references  |-> FoldLeft(LAMBDA all, d : all \o d.references, <<>>, documents)]

-----------------------------------------------------------------------------
(* What a rule reads in an entry.                                          *)

(* _select: an entry without the list it is told to select is refused.     *)
Selectable(rule, entry) == rule.select \subseteq DOMAIN entry.lists

SelectedIn(rule, entry) ==
  IF rule.select = {} THEN {entry.fields}
  ELSE UNION {Range(entry.lists[name]) : name \in rule.select}

(* Bindings are read in their order: the first that has no value settles   *)
(* whether the mapping is passed over or refused.                          *)
Skipped(rule, mapping) ==
  \E i \in DOMAIN rule.bind :
    /\ rule.bind[i].optional /\ rule.bind[i].path \notin DOMAIN mapping
    /\ \A j \in 1 .. i - 1 : Present(rule.bind[j], mapping)

Bindable(rule, mapping) ==
  Skipped(rule, mapping) \/ \A i \in DOMAIN rule.bind : Present(rule.bind[i], mapping)

BindingValue(rule, mapping, name) ==
  LET b == CHOOSE i \in DOMAIN rule.bind : rule.bind[i].name = name
  IN  ValueOf(rule.bind[b], mapping)

(* What a rule looks for: an identity and, if it has one, a member of it.  *)
Need(rule, target, mapping) ==
  LET Value(name) == BindingValue(rule, mapping, name)
  IN  [collection |-> target.collection,
       id         |-> [k \in DOMAIN target.match |-> Value(target.match[k])],
       member     |-> {[name |-> m.name, key |-> Value(m.match.key)] : m \in target.member}]

NeedsOf(rule, entry) ==
  {Need(rule, target, mapping) :
     target \in rule.target,
     mapping \in {x \in SelectedIn(rule, entry) : ~Skipped(rule, x)}}

(* Every rule can be read in every entry of its collection.                *)
Readable(rule, entry) ==
  Selectable(rule, entry) /\ \A mapping \in SelectedIn(rule, entry) : Bindable(rule, mapping)
=============================================================================
