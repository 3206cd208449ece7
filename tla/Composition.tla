---------------------------- MODULE Composition ----------------------------
(***************************************************************************)
(* Composing resource sets: composition.py reads the parameter files a     *)
(* Site selects, in order, and either refuses them or gives every governed *)
(* collection its entries, each written by one file.                       *)
(*                                                                         *)
(* A contract is what MergeContracts makes of its documents (ContractFile).*)
(* A file is [writes, external, requires, plain]: the first two map some   *)
(* collections to sequences of entries, the third to sequences of mappings *)
(* that identify an entry, the last parameter names to the steps whose     *)
(* outputs the values read.  The members of an external assertion are what *)
(* it expects.  A claim is [id, entry, source].                            *)
(***************************************************************************)
EXTENDS ContractFile

Ids(claims) == {claims[i].id : i \in DOMAIN claims}

-----------------------------------------------------------------------------
(* compose_sources: what has been read so far is acc.                      *)

Start(contract) ==
  [ok |-> TRUE,
   entries  |-> [c \in DOMAIN contract.collections |-> <<>>],
   external |-> [c \in DOMAIN contract.collections |-> <<>>],
   requirements |-> {},
   plain |-> << >>]

Fail(acc) == [acc EXCEPT !.ok = FALSE]

Known(acc, contract, c) ==
  Ids(acc.entries[c]) \cup Ids(acc.external[c]) \cup SeedIds(contract.collections[c])

AddTo(acc, side, c, claim) ==
  IF side = "writes" THEN [acc EXCEPT !.entries[c] = Append(@, claim)]
                     ELSE [acc EXCEPT !.external[c] = Append(@, claim)]

Claim(spec, entry, source) ==
  [id |-> Identity(spec, entry.fields), entry |-> entry, source |-> source.path]

(* Mutant: a writer is not checked against the assertions read before it.  *)
AddUnchecked(acc, contract, source, side, c, entry) ==
  LET spec == contract.collections[c]
      claim == Claim(spec, entry, source)
  IN  IF ~Identified(spec, entry.fields)
           \/ claim.id \in Ids(acc.entries[c]) \cup SeedIds(contract.collections[c])
        THEN Fail(acc)
        ELSE AddTo(acc, side, c, claim)

(* A written entry and an assertion alike exclude every other claim to the *)
(* identity.                                                               *)
AddClaim(acc, contract, source, side, c, entry) ==
  LET spec == contract.collections[c]
      claim == Claim(spec, entry, source)
  IN  IF ~Identified(spec, entry.fields) \/ claim.id \in Known(acc, contract, c)
        THEN Fail(acc)
        ELSE AddTo(acc, side, c, claim)

AddClaims(acc, contract, source, side) ==
  FoldSet(LAMBDA c, all :
            FoldLeft(LAMBDA a, entry : AddClaim(a, contract, source, side, c, entry),
                     all, source.file[side][c]),
          acc, DOMAIN source.file[side])

Contributed(source) == DOMAIN source.file.writes \cup DOMAIN source.file.external

(* What identifies another entry says nothing else about it.               *)
Identifies(spec, mapping) ==
  /\ DOMAIN mapping \subseteq {spec.identity[k].path : k \in DOMAIN spec.identity}
  /\ Identified(spec, mapping)

MayContribute(contract, source) ==
  LET governed == DOMAIN contract.collections
      requires == source.file.requires
  IN  /\ Range(source.collections) \subseteq governed
      /\ Contributed(source) \subseteq Range(source.collections)
      /\ DOMAIN requires \subseteq governed
      /\ \A c \in DOMAIN requires : \A mapping \in Range(requires[c]) :
           Identifies(contract.collections[c], mapping)
      /\ \/ source.collections = <<>>
         \/ Contributed(source) # {}
         \/ \E c \in DOMAIN requires : requires[c] # <<>>

Requirements(contract, source) ==
  UNION {{[collection |-> c, id |-> Identity(contract.collections[c], mapping),
           source |-> source.path] : mapping \in Range(source.file.requires[c])} :
           c \in DOMAIN source.file.requires}

AddSource(acc, contract, source) ==
  IF ~acc.ok \/ ~MayContribute(contract, source) THEN Fail(acc)
  ELSE LET written  == AddClaims(acc, contract, source, "writes")
           asserted == AddClaims(written, contract, source, "external")
       IN  [asserted EXCEPT !.requirements = @ \cup Requirements(contract, source),
                            !.plain = source.file.plain @@ @]

(* What the reference rules select in the entries, and what it resolves to.*)
RulesOf(contract, c) == {r \in Range(contract.references) : r.source = c}

AllReadable(acc, contract) ==
  \A c \in DOMAIN acc.entries : \A claim \in Range(acc.entries[c]) :
    \A rule \in RulesOf(contract, c) : Readable(rule, claim.entry)

Needs(acc, contract) ==
  UNION {UNION {UNION {{[from |-> c, source |-> claim.source, need |-> n] :
                          n \in NeedsOf(rule, claim.entry)} :
                  rule \in RulesOf(contract, c)} :
           claim \in Range(acc.entries[c])} :
           c \in DOMAIN acc.entries}

Writer(acc, n) == {x \in Range(acc.entries[n.collection]) : x.id = n.id}

Assertion(acc, n) == {x \in Range(acc.external[n.collection]) : x.id = n.id}

Covers(entry, member) == member.name \in DOMAIN entry.members

Has(entry, member) == Covers(entry, member) /\ member.key \in entry.members[member.name]

(* An assertion that expects nothing of a member leaves it unverified.     *)
Uncovered(acc, n) ==
  \E x \in Assertion(acc, n), member \in n.member : ~Covers(x.entry, member)

Resolves(acc, contract, n) ==
  /\ n.id \in Known(acc, contract, n.collection)
  /\ \A member \in n.member :
       \/ \E x \in Writer(acc, n) : Has(x.entry, member)
       \/ \E x \in Assertion(acc, n) : Covers(x.entry, member) => Has(x.entry, member)

Duplicated(acc, contract, r) ==
  \E x \in Needs(acc, contract) :
    /\ x.source = r.source
    /\ x.need.collection = r.collection /\ x.need.id = r.id
    /\ ~Uncovered(acc, x.need)

(* Everything a file requires or refers to may come from a later file, so  *)
(* both are settled after the last one.                                    *)
Settled(acc, contract) ==
  /\ acc.ok
  /\ \A r \in acc.requirements : r.id \in Known(acc, contract, r.collection)
  /\ AllReadable(acc, contract)
  /\ \A x \in Needs(acc, contract) : Resolves(acc, contract, x.need)
  /\ \A r \in acc.requirements : ~Duplicated(acc, contract, r)

ComposeSources(contract, sources) ==
  LET acc == FoldLeft(LAMBDA a, s : AddSource(a, contract, s), Start(contract), sources)
  IN  IF Settled(acc, contract) THEN acc ELSE Fail(acc)

(* The collections that some file writes, and those of them one of which   *)
(* an entry of another refers to.                                          *)
Written(acc, contract) == {c \in DOMAIN contract.collections : acc.entries[c] # <<>>}

Providers(acc, contract) ==
  {pair \in Written(acc, contract) \X Written(acc, contract) :
     \E x \in Needs(acc, contract) :
       x.from = pair[2] /\ x.need.collection = pair[1] /\ Writer(acc, x.need) # {}}

-----------------------------------------------------------------------------
(* What the files say together, without an order: all claims at once.      *)

Claims(contract, sources, side) ==
  UNION {UNION {
    {[at |-> <<k, side, i>>, collection |-> c, source |-> sources[k].path,
      entry |-> sources[k].file[side][c][i],
      id |-> Identity(contract.collections[c], sources[k].file[side][c][i].fields)] :
        i \in DOMAIN sources[k].file[side][c]} :
      c \in DOMAIN sources[k].file[side]} :
    k \in DOMAIN sources}

Identifiable(contract, sources) ==
  \A k \in DOMAIN sources : \A side \in {"writes", "external"} :
    \A c \in DOMAIN sources[k].file[side] : \A i \in DOMAIN sources[k].file[side][c] :
      Identified(contract.collections[c], sources[k].file[side][c][i].fields)

(* No two files claim an identity, none claims a provider's seed, and all  *)
(* that is required or referred to is there, once: an entry is known by its*)
(* components whether a file spells out a default or not.                  *)
Agree(contract, sources) ==
  LET writes == Claims(contract, sources, "writes")
      external == Claims(contract, sources, "external")
      claims == writes \cup external
      required == UNION {Requirements(contract, sources[k]) : k \in DOMAIN sources}
      Refers(w) == UNION {{[source |-> w.source, need |-> n] : n \in NeedsOf(rule, w.entry)} :
                            rule \in RulesOf(contract, w.collection)}
      refers == UNION {Refers(w) : w \in writes}
      Of(set, x) == {y \in set : y.collection = x.collection /\ y.id = x.id}
      Seed(x) == x.id \in SeedIds(contract.collections[x.collection])
      Vague(n) == \E x \in Of(external, n), m \in n.member : m.name \notin DOMAIN x.entry.members
  IN  /\ \A x \in claims : ~Seed(x) /\ Of(claims, x) = {x}
      /\ \A r \in required : Seed(r) \/ Of(claims, r) # {}
      /\ \A w \in writes : \A rule \in RulesOf(contract, w.collection) : Readable(rule, w.entry)
      /\ \A x \in refers :
           /\ Seed(x.need) \/ Of(claims, x.need) # {}
           /\ \A m \in x.need.member :
                \/ Vague(x.need)
                \/ \E y \in Of(claims, x.need) :
                     m.name \in DOMAIN y.entry.members /\ m.key \in y.entry.members[m.name]
      /\ \A x \in refers, r \in required :
           x.source = r.source /\ x.need.collection = r.collection /\ x.need.id = r.id
             => Vague(x.need)

(* A composition is accepted exactly when every file may say what it says  *)
(* and they agree.                                                         *)
Coherent(contract, sources) ==
  /\ \A k \in DOMAIN sources : MayContribute(contract, sources[k])
  /\ Identifiable(contract, sources)
  /\ Agree(contract, sources)
=============================================================================
