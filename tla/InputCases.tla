------------------------------ MODULE InputCases ------------------------------
(***************************************************************************)
(* Contracts, answers and worlds for model-checking GuidedInputs: one      *)
(* contract like that of the secret sync manifest, where an instance leads *)
(* to its custom location and that to its cluster, and all that differ     *)
(* from it in one of the changes below or in two that meet, acceptable or  *)
(* not.                                                                    *)
(***************************************************************************)
EXTENDS Naturals, Sequences, TLC

Empty == [n \in {} |-> n]

Texts == {"s1", "s2", "g1", "g2", "Plant", "plant", "Press_2", "i1", "i2", "l1", "l2", "k1", "k2",
          "dev", "north", "east", "true", "false", ""}
CaseFold == [t \in Texts |-> CASE t = "Plant" -> "plant" [] t = "Press_2" -> "press_2" [] OTHER -> t] @@ Empty
CaseDnsLabels == {"plant", "dev"}

Part(type, s, g, n) == [type |-> type, subscription |-> s, resourceGroup |-> g, name |-> n]
CaseParts ==
  "i1" :> Part("instance", "s1", "g1", "i1") @@ "i2" :> Part("instance", "s2", "g1", "i2") @@
  "l1" :> Part("customLocation", "s1", "g1", "l1") @@ "l2" :> Part("customLocation", "s2", "g1", "l2") @@
  "k1" :> Part("cluster", "s1", "g1", "Plant") @@ "k2" :> Part("cluster", "s1", "g2", "Press_2") @@
  "k3" :> Part("cluster", "s1", "g1", "Press_2")

\* What Azure says: where the instance and the location lead, and what the cluster reports.
Resource(references, facts, location) == [references |-> references, facts |-> facts, location |-> location]
World(location, cluster, enabled) ==
  [id \in {"i1", "l1", "l2", "k1", "k3"} |->
     CASE id = "i1" -> Resource("extendedLocation" :> location, Empty, "north")
       [] id \in {"l1", "l2"} -> Resource("hostResourceId" :> cluster, Empty, "north")
       [] id \in {"k1", "k3"} -> Resource(Empty, "workloadIdentity" :> enabled, "north")]
CaseWorlds == {World("l1", "k1", TRUE), World("l1", "k1", FALSE), World("l2", "k1", TRUE),
             World("l1", "k2", TRUE), World("l1", "k3", TRUE)}

If(input, equals) == {[input |-> input, equals |-> equals]}
Input(kind, path) ==
  [kind |-> kind, path |-> path, required |-> TRUE, default |-> {},
   when |-> {}, resource |-> {}, format |-> "any"]
Read(type, derive, scoped, requires, from) ==
  {[type |-> type, derive |-> derive, scoped |-> scoped, requires |-> requires, from |-> from]}
From(input, field) == {[input |-> input, field |-> field]}
WorkloadIdentity(when) == {[fact |-> "workloadIdentity", when |-> when]}

SecretSync ==
  [secure |-> [Input("flag", {<<"properties", "secure">>}) EXCEPT !.required = FALSE, !.default = {"true"}],
   subscription |-> Input("string", {<<"subscription">>}),
   siteName |-> [Input("string", {<<"name">>}) EXCEPT !.format = "dnsLabel"],
   environment |-> [Input("string", {<<"labels", "environment">>}) EXCEPT !.required = FALSE],
   instance |-> [Input("resource", {}) EXCEPT
       !.resource = Read("instance", "subscription" :> "subscription", FALSE, {}, {})],
   location |-> [Input("resource", {}) EXCEPT !.required = FALSE,
       !.resource = Read("customLocation", Empty, FALSE, {}, From("instance", "extendedLocation"))],
   cluster |-> [Input("resource", {<<"parameters", "cluster">>}) EXCEPT !.required = FALSE,
       !.resource = Read("cluster", Empty, FALSE, WorkloadIdentity(If("secure", "true")),
                         From("location", "hostResourceId"))],
   settings |-> [Input("map", {<<"properties", "settings">>}) EXCEPT !.required = FALSE]]

InOrder == <<"secure", "subscription", "siteName", "environment", "instance", "location", "cluster", "settings">>
Usual == [order |-> InOrder, fields |-> SecretSync, defaults |-> <<"labels", "tier">> :> "dev", nameFrom |-> {"cluster"}]

\* What a contract may say otherwise.
Change(c, k) ==
  CASE k = "secure required" -> [c EXCEPT !.fields.secure.required = TRUE, !.fields.secure.default = {}]
    [] k = "secure optional" -> [c EXCEPT !.fields.secure.default = {}]
    [] k = "environment required" -> [c EXCEPT !.fields.environment.required = TRUE]
    [] k = "environment if secure" -> [c EXCEPT !.fields.environment.when = If("secure", "true")]
    [] k = "environment by default" -> [c EXCEPT !.defaults = <<"labels", "environment">> :> "dev"]
    [] k = "instance optional" -> [c EXCEPT !.fields.instance.required = FALSE]
    [] k = "instance if secure" -> [c EXCEPT !.fields.instance.when = If("secure", "true")]
    [] k = "instance scoped" ->
         [c EXCEPT !.fields.instance.resource =
            {[r EXCEPT !.scoped = TRUE, !.derive = "location" :> "environment"] : r \in @}]
    [] k = "location located" ->
         [c EXCEPT !.fields.location.resource = {[r EXCEPT !.derive = "location" :> "environment"] : r \in @}]
    [] k = "cluster labels" ->
         [c EXCEPT !.fields.cluster.resource = {[r EXCEPT !.derive = "name" :> "environment"] : r \in @}]
    [] k = "cluster scoped" ->
         [c EXCEPT !.fields.cluster.resource = {[r EXCEPT !.scoped = TRUE] : r \in @}]
    [] k = "checked always" ->
         [c EXCEPT !.fields.cluster.resource = {[r EXCEPT !.requires = WorkloadIdentity({})] : r \in @}]
    [] k = "checked by label" ->
         [c EXCEPT !.fields.cluster.resource =
            {[r EXCEPT !.requires = WorkloadIdentity(If("environment", "plant"))] : r \in @}]
    [] k = "name from instance" -> [c EXCEPT !.nameFrom = {"instance"}]
    [] k = "name from nothing" -> [c EXCEPT !.nameFrom = {}]
    [] k = "settings if labelled" -> [c EXCEPT !.fields.settings.when = If("environment", "plant")]
    [] k = "settings below" -> [c EXCEPT !.defaults = <<"properties">> :> "text"]
Changes ==
  {"secure required", "secure optional", "environment required", "environment if secure",
   "environment by default", "instance optional", "instance if secure", "instance scoped",
   "location located", "cluster labels", "cluster scoped", "checked always", "checked by label",
   "name from instance", "name from nothing", "settings if labelled", "settings below"}
Pairs ==
  {<<"secure optional", "instance if secure">>, <<"secure required", "instance if secure">>,
   <<"instance optional", "checked always">>, <<"instance optional", "name from instance">>,
   <<"instance optional", "secure optional">>, <<"environment if secure", "cluster labels">>,
   <<"environment required", "cluster labels">>, <<"environment by default", "cluster labels">>,
   <<"cluster labels", "name from nothing">>, <<"checked by label", "environment required">>,
   <<"checked by label", "location located">>, <<"cluster labels", "checked by label">>,
   <<"instance scoped", "name from instance">>, <<"instance scoped", "secure required">>}
Changed(m) ==
  CASE m = <<>>   -> Usual
    [] Len(m) = 1 -> Change(Usual, m[1])
    [] Len(m) = 2 -> Change(Change(Usual, m[1]), m[2])
Manifests == {<<>>} \cup {<<k>> : k \in Changes} \cup Pairs
CaseContracts == [m \in Manifests |-> Changed(m)] @@ Empty

\* The answers: some in a file, some inline, the name and the settings perhaps in both.
Maybe(n, values) == {Empty} \cup {n :> v : v \in values}
InFile == {s @@ e : s \in Maybe("secure", {{"true"}, {"false"}}), e \in Maybe("environment", {{}, {"plant"}})}
Inline == {i @@ s @@ n : i \in Maybe("instance", {"i1", "l1"}),
                          s \in Maybe("subscription", {"s1", "s2"}),
                          n \in Maybe("siteName", {"plant"})}
CaseAnswers == {[file |-> f, inline |-> i] : f \in InFile, i \in Inline}
               \cup {[file |-> "settings" :> {"a" :> "x"}, inline |-> i @@ m] :
                       i \in Inline, m \in Maybe("settings", {"a" :> "y", "b" :> "y"})}

Term(key, values) == [key |-> key, values |-> values]
Line(command, read, label, save) ==
  [command |-> command, read |-> read, label |-> label, save |-> save, siteFile |-> {}]
Most ==
  {Line("inputs", TRUE, {}, FALSE),
   Line("deploy", FALSE, {Term(<<"labels", "environment">>, {"plant"}), Term(<<"name">>, {"plant"})}, FALSE)}
Others ==
  {Line("inputs", FALSE, {}, TRUE), Line("inputs", TRUE, {}, TRUE), Line("validate", FALSE, {}, FALSE)}
    \cup {[Line("plan", FALSE, {Term(<<"name">>, {"press"})}, FALSE) EXCEPT
             !.siteFile = {[inherits |-> i, site |-> <<"name">> :> n]}] : i \in BOOLEAN, n \in {"plant", "press"}}
CaseOptions == [m \in Manifests |-> IF m = <<>> THEN Most \cup Others ELSE Most]
==============================================================================
