--------------------------- MODULE MCPreparation ---------------------------
EXTENDS Preparation

Deploy(name, scope, when, template, files) ==
  [name |-> name, kind |-> "deployment", scope |-> scope, when |-> when,
   template |-> template, files |-> files, reads |-> {}]

Other(name, kind, when, reads) ==
  [name |-> name, kind |-> kind, scope |-> "any", when |-> when,
   template |-> NoFile, files |-> <<>>, reads |-> reads]

Applies(files) == [Other("two", "kubectl", {}, {}) EXCEPT !.files = files]

Own(step) == [step |-> {step}, include |-> {}, when |-> {}]

Includes(file, when) == [step |-> {}, include |-> {file}, when |-> when]

File(steps, parameters, compositions) ==
  [steps |-> steps, parameters |-> parameters, compositions |-> compositions]

Source(path, forEach, collections) ==
  [path |-> path, forEach |-> forEach, collections |-> collections]

Site(subscription, group, labels, parameters, selects, picks) ==
  [subscription |-> subscription, group |-> group, labels |-> labels,
   parameters |-> parameters, selects |-> selects, picks |-> picks]

Says1(accepts, required) == [valid |-> TRUE, accepts |-> accepts, required |-> required]

Body ==
  [bicep |-> [suffix |-> "bicep",
              versions |-> <<Says1({"p", "A"}, {}), Says1({"p", "B"}, {"B"})>>],
   json  |-> [suffix |-> "json", versions |-> <<Says1({"q", "p", "B"}, {"q"})>>]]

Params(plain) ==
  [writes |-> << >>, external |-> << >>, requires |-> << >>, plain |-> plain]

Reading(key, names) == [k \in {key} |-> names]

World(manifests, contracts, paramFiles, stepFiles, sites) ==
  [manifests |-> manifests, root |-> "main", contracts |-> contracts,
   paramFiles |-> paramFiles, stepFiles |-> stepFiles, sites |-> sites,
   templates |-> Body]

-----------------------------------------------------------------------------
(* Manifests: a file that includes another twice removed, with conditions, *)
(* parameters of fragments, a cycle, a missing file, an empty one, one that*)
(* is included too deep, and a name used twice.                            *)
Lone == Site("sub", TRUE, {"x"}, Reading("q", {}), {}, {})

SiteList(site) == <<site, Site("sub", FALSE, {}, Reading("q", {}), {}, {}),
                    Site("other", TRUE, {"y"}, Reading("q", {}), {}, {})>>

IncludeWorlds ==
  {World([main  |-> File(<<Own(Other("one", "kubectl", {}, {})), Includes("outer", a),
                           Own(Other(name, "kubectl", {}, {}))>>,
                         <<Source("common", FALSE, <<>>)>>, <<>>),
          outer |-> File(<<Includes("inner", b), Own(Other("two", "wait", own, {}))>>,
                         parameters, <<>>),
          inner |-> File(<<Own(Other("three", "kubectl", {}, {}))>> \o tail, <<>>, <<>>),
          deep  |-> File(<<Own(Other("five", "kubectl", {}, {}))>>, <<>>, <<>>),
          empty |-> File(<<>>, <<>>, <<>>)],
         << >>, [common |-> Params(Reading("p", {})), more |-> Params(Reading("q", {}))],
         << >>, SiteList(Lone)) :
     a \in {{}, {"x"}}, b \in {{}, {"y"}}, own \in {{}, {"x"}}, name \in {"four", "two"},
     parameters \in {<<>>, <<Source("more", FALSE, <<>>), Source("common", FALSE, <<>>)>>,
                     <<Source("common", FALSE, <<"A">>)>>,
                     <<Source("more", FALSE, <<"A", "B">>), Source("more", FALSE, <<"B", "A">>)>>},
     tail \in {<<>>, <<Includes("main", {})>>, <<Includes("absent", {})>>,
               <<Includes("empty", {})>>, <<Includes("deep", {})>>}}

-----------------------------------------------------------------------------
(* Resource sets: files in some order, each one of a few, under a contract *)
(* by which an entry of A may name an entry of B, and a member of it.  What*)
(* B leaves out of an identity is "d".                                     *)
Field(path, default) == [path |-> path, default |-> default]

Binding(name, path, default, optional) ==
  [name |-> name, path |-> path, default |-> default, optional |-> optional]

Collection(path, identity, seeds, members) ==
  [path |-> <<path>>, identity |-> identity, seeds |-> seeds, members |-> members]

Rule(id, bind, target) ==
  [id |-> id, source |-> "A", select |-> {}, bind |-> bind, target |-> target,
   unverified |-> target = {}]

Target(match, member) == [collection |-> "B", match |-> match, member |-> member]

Name(id) == [name |-> id]

TheB == [name |-> "b", space |-> "s"]

ToB ==
  Rule("to-b", <<Binding("b", "ref", {}, TRUE), Binding("s", "refSpace", {"d"}, FALSE)>>,
       {Target(TheB, {})})

ToMember ==
  Rule("to-member", <<Binding("b", "of", {}, TRUE), Binding("s", "refSpace", {"d"}, FALSE),
                      Binding("m", "member", {}, FALSE)>>,
       {Target(TheB, {[name |-> "ports", match |-> [key |-> "m"]]})})

Spaced == [name |-> Field("name", {}), space |-> Field("space", {"d"})]

Contract1 ==
  [collections |-> [A |-> Collection("A", [name |-> Field("name", {})], <<>>, {}),
                    B |-> Collection("B", Spaced, <<Name("b0")>>, {"ports"})],
   references  |-> <<ToB, ToMember>>]

(* One of the things a contract may get wrong, each.                       *)
Unsound ==
  {[Contract1 EXCEPT !.collections.B.path = <<"A">>],
   [Contract1 EXCEPT !.collections.A.path = <<"A", "list">>],
   [Contract1 EXCEPT !.collections.B.seeds = <<Name("b0"), [name |-> "b0", space |-> "d"]>>],
   [Contract1 EXCEPT !.collections.B.seeds = <<[space |-> "d"]>>],
   [Contract1 EXCEPT !.references = <<ToB, ToB>>],
   [Contract1 EXCEPT !.references[1].source = "C"],
   [Contract1 EXCEPT !.references[1].unverified = TRUE],
   [Contract1 EXCEPT !.references[1].target = {Target(Name("b"), {})}],
   [Contract1 EXCEPT !.references[1].bind[1].default = {"b1"}],
   [Contract1 EXCEPT !.references[2].bind = SubSeq(@, 1, 2)],
   [Contract1 EXCEPT !.collections.B.members = {}]}

Other1 ==
  [collections |-> [C |-> Collection("C", [name |-> Field("name", {})], <<>>, {})],
   references  |-> <<[Rule("other", <<Binding("b", "name", {}, FALSE)>>, {})
                        EXCEPT !.source = "C", !.select = {"items"}]>>]

Entry(fields, members) == [fields |-> fields, lists |-> << >>, members |-> members]

SetFile(writes, external, requires) ==
  [writes |-> writes, external |-> external, requires |-> requires, plain |-> << >>]

Ports == {<< >>, [ports |-> {}], [ports |-> {"m"}]}

ResourceSets ==
  {SetFile([A |-> <<Entry([name |-> "a1"] @@ refers, << >>)>>], << >>, requires) :
     refers \in {<< >>, [ref |-> Unresolved], [ref |-> "b1"], [ref |-> "b1", refSpace |-> "e"],
                 [of |-> "b1", member |-> "m"], [of |-> "b1"]},
     requires \in {<< >>, [B |-> <<Name("b1")>>]}}
  \cup {SetFile([B |-> <<Entry(fields, [ports |-> {"m"}])>>], << >>, << >>) :
          fields \in {Name("b1"), [name |-> "b1", space |-> "d"], [name |-> "b1", space |-> "e"],
                      Name("b0"), Name(Blank), Name(Unresolved)}}
  \cup {SetFile(<< >>, [B |-> <<Entry(Name("b1"), expects)>>], << >>) : expects \in Ports}

Composing(contracts, files, labels, order, selected) ==
  World([main |-> File(<<Own(Deploy("one", "any", {}, order[1], <<>>)),
                         Own(Deploy("two", "any", {"x"}, order[2], <<>>))>>,
                       <<Source(NoFile, TRUE, <<"A", "B">>)>>,
                       SetToSeq(DOMAIN contracts))],
        contracts, files, << >>,
        SiteList(Site("sub", TRUE, labels, Reading("q", {}), {selected}, {})))

CompositionWorlds ==
  {Composing([contract |-> Contract1], [f |-> f, g |-> g], labels, order, <<"f", "g">>) :
     f \in ResourceSets, g \in ResourceSets, labels \in {{"x"}, {}},
     order \in {<<"bicep", "json">>, <<"json", "bicep">>}}
  \cup {Composing([contract |-> contract] @@ others, [f |-> f], {"x"}, order, <<"f">>) :
     contract \in Unsound \cup {Contract1}, f \in ResourceSets,
     order \in {<<"bicep", "json">>, <<"json", "bicep">>},
     others \in {<< >>, [other |-> Other1],
                 [other |-> [Other1 EXCEPT !.references[1].id = "to-b"]]}}

-----------------------------------------------------------------------------
(* Plans: three Sites, one of them at subscription level and not the first,*)
(* and three steps that read one another's outputs.                        *)
PlanWorlds ==
  {World([main |-> File(<<Own(Deploy("one", first[1], first[2], "bicep", <<"first">>)), Own(second),
                          Own(Deploy("three", "any", {}, third[1], <<"picked", "last">>))>>,
                        <<>>, <<>>)],
         << >>, << >>,
         [first |-> Reading("p", {}), last |-> Reading("p", names), mine |-> Reading("q", {})],
         <<Site("sub", TRUE, {"x"}, << >>, {}, {"mine"}),
           Site("sub", FALSE, labels, Reading("p", {}), {}, {"mine"}),
           Site(third[2], TRUE, {}, Reading("q", {}), {},
                IF third[2] = "sub" THEN {"mine"} ELSE {"gone"})>>) :
     first \in {<<"any", {}>>, <<"any", {"x"}>>, <<"subscription", {}>>}, labels \in {{}, {"x"}},
     second \in {Applies(<<"picked", "https">>), Applies(<<"http">>),
                 Applies(<<"gone">>), Other("two", "wait", {"x"}, {"one"}),
                 Deploy("two", "any", {"x"}, "json", <<"mine">>),
                 Deploy("two", "subscription", {"x"}, "bicep", <<>>)},
     third \in {<<"bicep", "sub">>, <<"json", "sub">>, <<"bicep", "other">>},
     names \in {{}, {"one"}, {"one", "two"}, {"three"}}}

Curated == IncludeWorlds \cup CompositionWorlds \cup PlanWorlds
=============================================================================
