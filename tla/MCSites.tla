------------------------------- MODULE MCSites -------------------------------
(* Instances of SiteInventory for TLC: two Sites, one of them in a folder, two
   templates, and overlays in a second trusted directory and in sites.local. *)
EXTENDS SiteInventory

TwoDirectories == <<"sites", "extra">>

File(kind, name, refs, sets) == {[kind |-> kind, name |-> name, inherits |-> refs, sets |-> sets]}
a == <<"a">>
b == <<"b">>
n == <<"n">>
t == <<"t">>
u == <<"u">>
key == <<"key">>
map == <<"map">>
below == <<"map", "x">>
beside == <<"map", "y">>

Workspace ==
  (Place("sites", a) :> {File("Site", {}, {t}, {below})}
                          \cup {File("Site", {n}, refs, {below}) : refs \in {{}, {t}}})
  @@ (Place("sites", <<"e", "b">>) :>
        {{}} \cup {File("Site", name, {t}, {}) : name \in {{}, {n}, {a}}})
  @@ (Place("sites", t) :>
        {File("SiteTemplate", {}, refs, {map, key}) : refs \in {{}, {u}, {t}}}
          \cup {File("SiteTemplate", {a}, {}, {map, key})})
  @@ (Place("sites", u) :>
        {File("SiteTemplate", {}, refs, {beside, key}) : refs \in {{}, {t}}})
  @@ (Place("extra", a) :> {{}, File("Site", {n}, {u}, {map})})
  @@ (Place("extra", b) :> {{}, File("Site", {}, {<<"gone">>}, {key})})
  @@ (Place(Local, a) :> {{}, File("Site", {}, {u}, {beside, key})})

\* Every workspace of these.
EveryWorkspace ==
  FoldSet(LAMBDA p, ws : {(p :> c) @@ w : c \in Workspace[p], w \in ws}, {Nothing}, DOMAIN Workspace)

CommittedAndLocal == {Place("sites", u), Place(Local, a)}
SomeIdentifiers == {a, n, t, <<"e", "b">>}
==============================================================================
