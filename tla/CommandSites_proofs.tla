-------------------------- MODULE CommandSites_proofs --------------------------
(***************************************************************************)
(* Proofs about the Sites of a command.                                    *)
(*                                                                         *)
(* Configured Sites.  Everything rests on what an edit cannot change: at   *)
(* which places there are files, of which kind and name (Steady).  The     *)
(* identity indexes are functions of that, so they stay the indexes of the *)
(* files they were built from.  A load is described by Moves, the steps it *)
(* can take whoever asked for it, and LoadInv says what is true of it:     *)
(* which file it is the load of, what its layers decide and where they are *)
(* from, what its name is, and what the three caches hold.  AnswersInv and *)
(* SelectionInv say what that means for the caller.                        *)
(*                                                                         *)
(* Typed Sites.  A contract that is accepted has one input for a path,     *)
(* what is bound is ready or is refused, and the Site that is built has    *)
(* each answer and each fact at its path (TypedInv).                       *)
(***************************************************************************)
EXTENDS CommandSites, FiniteSetTheorems, TLAPS

-------------------------------------------------------------------------------
(* Paths *)

LEMMA NatHasLeast ==
  ASSUME NEW T \in SUBSET Nat, T # {}
  PROVE  \E x \in T : \A y \in T : x <= y
<1>1. PICK x \in T : \A y \in T : ~(<<y, x>> \in OpToRel(<, Nat))
  BY NatLessThanWellFounded, WFMin
<1>2. OpToRel(<, Nat) = {pair \in Nat \X Nat : pair[1] < pair[2]}
  BY DEF OpToRel
<1>3. \A y \in T : ~(y < x)
  <2>1. TAKE y \in T
  <2>2. <<y, x>> \in Nat \X Nat /\ <<y, x>>[1] = y /\ <<y, x>>[2] = x
    OBVIOUS
  <2>3. QED
    BY <1>1, <1>2, <2>2
<1>4. QED
  BY <1>3, SMT

LEMMA PrefixOfItself ==
  ASSUME NEW p \in Seq(STRING)
  PROVE  Comparable(p, p)
BY SMT DEF Comparable, IsPrefix

LEMMA ComparableIsSymmetric ==
  ASSUME NEW p, NEW q
  PROVE  Comparable(p, q) <=> Comparable(q, p)
BY Zenon DEF Comparable

LEMMA OrderIs ==
  ASSUME NEW p, p.dir \in ToSet(Trusted)
  PROVE  Order(p) \in 1 .. Len(Trusted) /\ Trusted[Order(p)] = p.dir
<1>1. \E i \in DOMAIN Trusted : Trusted[i] = p.dir
  BY Zenon DEF ToSet
<1>2. Order(p) \in DOMAIN Trusted /\ Trusted[Order(p)] = p.dir
  BY <1>1, Zenon DEF Order
<1>3. QED
  BY <1>2, SiteAssumption

(* The first of some files of trusted directories is one of them, and none *)
(* is before it.                                                           *)
LEMMA FirstIs ==
  ASSUME NEW S, S # {}, \A p \in S : p.dir \in ToSet(Trusted)
  PROVE  FirstOf(S) \in S /\ \A q \in S : Order(FirstOf(S)) <= Order(q)
<1> DEFINE orders == {Order(p) : p \in S}
<1>1. orders \in SUBSET Nat /\ orders # {}
  BY OrderIs
<1>2. PICK x \in orders : \A y \in orders : x <= y
  BY <1>1, NatHasLeast
<1>3. \E p \in S : \A q \in S : Order(p) <= Order(q)
  BY <1>2
<1>4. QED
  BY <1>3, Zenon DEF FirstOf

LEMMA DirectoriesAre ==
  /\ Len(Directories) = Len(Trusted) + 1
  /\ Len(Trusted) \in Nat /\ Len(Trusted) > 0
  /\ \A i \in 1 .. Len(Trusted) : Directories[i] = Trusted[i]
  /\ Directories[Len(Trusted) + 1] = Local
<1>1. Trusted \in Seq(STRING) /\ Trusted # <<>>
  BY SiteAssumption
<1>2. Trusted \in Seq(STRING \cup {Local}) /\ Local \in STRING \cup {Local}
  BY <1>1, SMT
<1>3. QED
  BY <1>1, <1>2, SMT DEF Directories

-------------------------------------------------------------------------------
(* What is at the places *)

ContentsAre ==
  /\ DOMAIN files = Places /\ revision \in [Places -> Nat]
  /\ \A p \in Places : files[p] \subseteq UNION Contents[p]
  /\ \A p \in Places : files[p] # {} => \E c \in files[p] : files[p] = {c} /\ IsContent(c)

LEMMA ContentIs ==
  ASSUME ContentsAre, NEW p, There(p)
  PROVE  p \in Places /\ files[p] = {Content(p)} /\ IsContent(Content(p))
<1>1. p \in Places /\ files[p] # {}
  BY DEF There
<1>2. PICK c \in files[p] : files[p] = {c} /\ IsContent(c)
  BY <1>1 DEF ContentsAre
<1>3. Content(p) = c
  BY <1>2 DEF Content
<1>4. QED
  BY <1>1, <1>2, <1>3

LEMMA PlaceIs ==
  ASSUME NEW p \in Places
  PROVE  /\ p = Place(p.dir, p.rel)
         /\ p.dir # Local => p.dir \in ToSet(Trusted)
         /\ p.rel \in Seq(STRING) \ {<<>>}
BY SiteAssumption

LEMMA BasenameIs ==
  ASSUME NEW r \in Seq(STRING) \ {<<>>}
  PROVE  Basename(r) \in Seq(STRING) /\ Len(Basename(r)) = 1 /\ Basename(r) # <<>>
BY SMT DEF Basename, Last

(* What an edit leaves: where files are, their kinds and their names.      *)
Steady ==
  /\ \A p : There(p)' <=> There(p)
  /\ \A p : There(p) => Content(p)'.name = Content(p).name /\ Content(p)'.kind = Content(p).kind

LEMMA TemplatesAreSteady ==
  ASSUME Steady, NEW p
  PROVE  IsTemplate(p)' <=> IsTemplate(p)
BY DEF Steady, IsTemplate

LEMMA SiteFileIs ==
  ASSUME NEW p \in SiteFiles
  PROVE  /\ p \in Places /\ There(p) /\ ~IsTemplate(p)
         /\ p = Place(p.dir, p.rel) /\ p.dir \in ToSet(Trusted)
         /\ p.rel \in Seq(STRING) \ {<<>>}
         /\ Order(p) \in 1 .. Len(Trusted) /\ Trusted[Order(p)] = p.dir
<1>1. p \in Places /\ There(p) /\ ~IsTemplate(p) /\ p.dir # Local
  BY DEF SiteFiles
<1>2. QED
  BY <1>1, PlaceIs, OrderIs

(* The files that the indexes name have the basename and the path.         *)
LEMMA ByBasenameIs ==
  ASSUME NEW b \in Bases
  PROVE  /\ ByBasename[b] \in SiteFiles /\ Basename(ByBasename[b].rel) = b
         /\ \A q \in SiteFiles : Basename(q.rel) = b => Order(ByBasename[b]) <= Order(q)
<1> DEFINE S == {p \in SiteFiles : Basename(p.rel) = b}
<1>1. S # {} /\ \A p \in S : p.dir \in ToSet(Trusted)
  BY SiteFileIs DEF Bases
<1>2. ByBasename[b] = FirstOf(S)
  BY DEF ByBasename
<1> HIDE DEF S
<1>3. ByBasename[b] \in S /\ \A q \in S : Order(ByBasename[b]) <= Order(q)
  BY <1>1, <1>2, FirstIs
<1>4. QED
  BY <1>3 DEF S

LEMMA ByRelPathIs ==
  ASSUME NEW r \in DOMAIN ByRelPath
  PROVE  /\ ByRelPath[r] \in SiteFiles /\ ByRelPath[r].rel = r
         /\ \A q \in SiteFiles : q.rel = r => Order(ByRelPath[r]) <= Order(q)
<1> DEFINE S == {p \in SiteFiles : p.rel = r}
<1>1. S # {} /\ \A p \in S : p.dir \in ToSet(Trusted)
  BY SiteFileIs DEF ByRelPath
<1>2. ByRelPath[r] = FirstOf(S)
  BY DEF ByRelPath
<1> HIDE DEF S
<1>3. ByRelPath[r] \in S /\ \A q \in S : Order(ByRelPath[r]) <= Order(q)
  BY <1>1, <1>2, FirstIs
<1>4. QED
  BY <1>3 DEF S

LEMMA OrderIsOne ==
  ASSUME NEW p \in SiteFiles, NEW q \in SiteFiles, p.rel = q.rel,
         Order(p) <= Order(q), Order(q) <= Order(p)
  PROVE  p = q
<1>1. Order(p) = Order(q)
  BY SiteFileIs, SMT
<1>2. p.dir = q.dir
  BY <1>1, SiteFileIs
<1>3. QED
  BY <1>2, SiteFileIs, Zenon

LEMMA SiteFilesAreSteady ==
  ASSUME Steady
  PROVE  SiteFiles' = SiteFiles /\ Bases' = Bases
<1>1. SiteFiles' = SiteFiles
  BY TemplatesAreSteady DEF SiteFiles, Steady
<1>2. QED
  BY <1>1 DEF Bases

LEMMA PathsAreSteady ==
  ASSUME Steady
  PROVE  ByBasename' = ByBasename /\ ByRelPath' = ByRelPath
BY SiteFilesAreSteady DEF ByBasename, ByRelPath

LEMMA NamesAreSteady ==
  ASSUME Steady, NEW p \in SiteFiles
  PROVE  Content(p)'.name = Content(p).name
BY SiteFileIs DEF Steady

LEMMA RenamedIs ==
  ASSUME NEW p \in Renamed
  PROVE  /\ p \in SiteFiles /\ p = ByBasename[Basename(p.rel)] /\ Basename(p.rel) \in Bases
         /\ Content(p).name # {} /\ Content(p).name # {Basename(p.rel)}
<1>1. PICK b \in Bases : p = ByBasename[b]
  BY DEF Renamed
<1>2. QED
  BY <1>1, ByBasenameIs DEF Renamed

LEMMA RenamedIsSteady ==
  ASSUME Steady
  PROVE  Renamed' = Renamed
<1> DEFINE listed == {ByBasename[b] : b \in Bases}
<1>1. listed' = listed
  BY SiteFilesAreSteady, PathsAreSteady
<1>2. \A p \in listed : Content(p)'.name = Content(p).name
  BY ByBasenameIs, NamesAreSteady
<1>3. Renamed = {p \in listed : Content(p).name # {} /\ Content(p).name # {Basename(p.rel)}}
  BY DEF Renamed
<1>4. Renamed' = {p \in listed' : Content(p)'.name # {} /\ Content(p)'.name # {Basename(p.rel)}}
  BY DEF Renamed
<1> HIDE DEF listed
<1>5. QED
  BY <1>1, <1>2, <1>3, <1>4

LEMMA IndexIsSteady ==
  ASSUME Steady
  PROVE  /\ SiteFiles' = SiteFiles /\ Bases' = Bases
         /\ ByBasename' = ByBasename /\ ByRelPath' = ByRelPath
         /\ Renamed' = Renamed /\ (IdentityClash' <=> IdentityClash)
         /\ BuiltIndexes' = BuiltIndexes
<1>1. SiteFiles' = SiteFiles /\ Bases' = Bases
  BY SiteFilesAreSteady
<1>2. ByBasename' = ByBasename /\ ByRelPath' = ByRelPath /\ Renamed' = Renamed
  BY PathsAreSteady, RenamedIsSteady
<1>3. \A p \in Renamed : Content(p)'.name = Content(p).name
  BY RenamedIs, NamesAreSteady
<1>4. IdentityClash' <=> IdentityClash
  BY <1>1, <1>2, <1>3 DEF IdentityClash
<1> DEFINE named(n) == CHOOSE p \in Renamed : Content(p).name = {n}
           called == UNION {Content(p).name : p \in Renamed}
           internal == [n \in called |-> named(n)]
<1>5. internal' = internal
  <2>1. called' = called
    BY <1>2, <1>3
  <2>2. \A n : named(n)' = named(n)
    BY <1>2, <1>3
  <2> HIDE DEF named, called
  <2>3. QED
    BY <2>1, <2>2
<1>6. BuiltIndexes = [basename |-> ByBasename, relPath |-> ByRelPath, internal |-> internal]
  BY DEF BuiltIndexes
<1>7. BuiltIndexes' = [basename |-> ByBasename', relPath |-> ByRelPath', internal |-> internal']
  BY <1>6, Zenon DEF BuiltIndexes
<1> HIDE DEF internal, named, called
<1>8. QED
  BY <1>1, <1>2, <1>4, <1>5, <1>6, <1>7

-------------------------------------------------------------------------------
(* The identity of a Site file, once the indexes are built *)

(* The files that are what is found by their paths.                        *)
BaseFiles == {p \in SiteFiles : ByRelPath[p.rel] = p}

LEMMA PathsAre == DOMAIN ByRelPath = {p.rel : p \in SiteFiles}
BY DEF ByRelPath

LEMMA NamesAreOne ==
  ASSUME ContentsAre, NEW p, There(p), NEW n \in Content(p).name
  PROVE  n \in Seq(STRING) /\ Content(p).name = {n}
BY ContentIs DEF IsContent

LEMMA OneFile ==
  ASSUME ~IdentityClash, NEW b \in Bases
  PROVE  ByBasename[b] \in BaseFiles
<1> DEFINE p == ByBasename[b]
<1>1. p \in SiteFiles /\ Basename(p.rel) = b
  BY ByBasenameIs
<1>2. p.rel \in DOMAIN ByRelPath
  BY <1>1 DEF ByRelPath
<1> DEFINE q == ByRelPath[p.rel]
<1>3. q \in SiteFiles /\ q.rel = p.rel /\ Order(q) <= Order(p)
  BY <1>1, <1>2, ByRelPathIs
<1>4. Order(p) <= Order(q)
  BY <1>1, <1>3, ByBasenameIs
<1> HIDE DEF p, q
<1>5. p = q
  BY <1>1, <1>3, <1>4, OrderIsOne
<1>6. QED
  BY <1>1, <1>2, <1>5 DEF BaseFiles, p, q

LEMMA BaseFileIs ==
  ASSUME ~IdentityClash, NEW p \in BaseFiles
  PROVE  p \in SiteFiles /\ Basename(p.rel) \in Bases /\ ByBasename[Basename(p.rel)] = p
<1>1. p \in SiteFiles /\ \A q \in SiteFiles : q.rel = p.rel => Order(p) <= Order(q)
  BY ByRelPathIs, PathsAre DEF BaseFiles
<1>2. Basename(p.rel) \in Bases
  BY <1>1 DEF Bases
<1> DEFINE q == ByBasename[Basename(p.rel)]
<1>3. q \in SiteFiles /\ Basename(q.rel) = Basename(p.rel) /\ Order(q) <= Order(p)
  BY <1>1, <1>2, ByBasenameIs
<1>4. q.rel = p.rel
  BY <1>1, <1>3 DEF IdentityClash
<1>5. Order(p) <= Order(q)
  BY <1>1, <1>3, <1>4
<1> HIDE DEF q
<1>6. p = q
  BY <1>1, <1>3, <1>4, <1>5, OrderIsOne
<1>7. QED
  BY <1>1, <1>2, <1>6 DEF q

LEMMA FirstOfItsPath ==
  ASSUME NEW p \in BaseFiles, NEW q \in SiteFiles, q.rel = p.rel
  PROVE  Order(p) <= Order(q)
BY ByRelPathIs, PathsAre DEF BaseFiles

LEMMA IndexesAre ==
  /\ BuiltIndexes.basename = ByBasename /\ BuiltIndexes.relPath = ByRelPath
  /\ DOMAIN BuiltIndexes.internal = UNION {Content(p).name : p \in Renamed}
  /\ \A n \in DOMAIN BuiltIndexes.internal :
       BuiltIndexes.internal[n] = CHOOSE p \in Renamed : Content(p).name = {n}
  /\ DOMAIN ByBasename = Bases
BY DEF BuiltIndexes, ByBasename

LEMMA InternalIs ==
  ASSUME ContentsAre, NEW n \in DOMAIN BuiltIndexes.internal
  PROVE  LET p == BuiltIndexes.internal[n]
         IN  p \in Renamed /\ Content(p).name = {n}
<1>1. PICK p \in Renamed : n \in Content(p).name
  BY IndexesAre
<1>2. Content(p).name = {n}
  BY <1>1, RenamedIs, SiteFileIs, NamesAreOne
<1>3. QED
  BY <1>1, <1>2, IndexesAre

(* What an identifier finds is the base file of a Site, and the identifier *)
(* is its path, its basename or its own name.                              *)
LEMMA FoundFile ==
  ASSUME ContentsAre, ~IdentityClash, NEW id, Found(BuiltIndexes, id) # {}
  PROVE  \E p : /\ Found(BuiltIndexes, id) = {p} /\ p \in BaseFiles
                /\ id \in {p.rel, Basename(p.rel)} \cup Content(p).name
<1>1. CASE Len(id) > 1 /\ id \in DOMAIN ByRelPath
  <2>1. Found(BuiltIndexes, id) = {ByRelPath[id]}
    BY <1>1, IndexesAre DEF Found
  <2>2. ByRelPath[id].rel = id
    BY <1>1, ByRelPathIs
  <2>3. QED
    BY <1>1, <2>1, <2>2, ByRelPathIs DEF BaseFiles
<1>2. CASE ~(Len(id) > 1) /\ id \in Bases
  <2>1. Found(BuiltIndexes, id) = {ByBasename[id]}
    BY <1>2, IndexesAre DEF Found
  <2>2. Basename(ByBasename[id].rel) = id
    BY <1>2, ByBasenameIs
  <2>3. QED
    BY <1>2, <2>1, <2>2, OneFile
<1>3. CASE ~(Len(id) > 1) /\ id \notin Bases /\ id \in DOMAIN BuiltIndexes.internal
  <2> DEFINE p == BuiltIndexes.internal[id]
  <2>1. Found(BuiltIndexes, id) = {p}
    BY <1>3, IndexesAre DEF Found
  <2>2. p \in Renamed /\ Content(p).name = {id}
    BY <1>3, InternalIs
  <2> HIDE DEF p
  <2>3. p \in BaseFiles
    BY <2>2, RenamedIs, OneFile
  <2>4. QED
    BY <2>1, <2>2, <2>3
<1>4. QED
  BY <1>1, <1>2, <1>3, IndexesAre DEF Found

LEMMA EmptySeq ==
  ASSUME NEW r \in Seq(STRING), Len(r) = 0
  PROVE  r = <<>>
BY SMT

LEMMA FindsBasename ==
  ASSUME ~IdentityClash, NEW p \in BaseFiles
  PROVE  Found(BuiltIndexes, Basename(p.rel)) = {p}
<1>1. p \in SiteFiles /\ Basename(p.rel) \in Bases /\ ByBasename[Basename(p.rel)] = p
  BY BaseFileIs
<1>2. Len(Basename(p.rel)) = 1
  BY <1>1, SiteFileIs, BasenameIs
<1>3. QED
  BY <1>1, <1>2, IndexesAre DEF Found

LEMMA FindsPath ==
  ASSUME ~IdentityClash, NEW p \in BaseFiles
  PROVE  Found(BuiltIndexes, p.rel) = {p}
<1>1. CASE Len(p.rel) > 1
  BY <1>1, IndexesAre, PathsAre DEF Found, BaseFiles
<1>2. CASE ~(Len(p.rel) > 1)
  <2>1. p.rel \in Seq(STRING) \ {<<>>}
    BY BaseFileIs, SiteFileIs
  <2>2. Len(p.rel) = 1
    <3>1. Len(p.rel) \in Nat /\ Len(p.rel) # 0
      BY <2>1, EmptySeq, SMT
    <3>2. \A k \in Nat : k # 0 /\ ~(k > 1) => k = 1
      BY SMT
    <3>3. QED
      BY <1>2, <3>1, <3>2, Zenon
  <2>3. p.rel = Basename(p.rel)
    BY <2>1, <2>2, SMT DEF Basename, Last
  <2>4. QED
    BY <2>3, FindsBasename
<1>3. QED
  BY <1>1, <1>2

LEMMA FindsName ==
  ASSUME ContentsAre, ~IdentityClash, NEW p \in BaseFiles,
         NEW n \in Content(p).name, ~(Len(n) > 1)
  PROVE  Found(BuiltIndexes, n) = {p}
<1>1. p \in SiteFiles /\ Basename(p.rel) \in Bases /\ ByBasename[Basename(p.rel)] = p
  BY BaseFileIs
<1>2. Content(p).name = {n}
  BY <1>1, SiteFileIs, NamesAreOne
<1>3. CASE n = Basename(p.rel)
  BY <1>3, FindsBasename
<1>4. CASE n # Basename(p.rel)
  <2>1. p \in Renamed
    BY <1>1, <1>2, <1>4 DEF Renamed
  <2>2. CASE n \in Bases
    <3>1. ByBasename[n] = p
      BY <2>1, <2>2 DEF IdentityClash
    <3>2. QED
      BY <2>2, <3>1, IndexesAre DEF Found
  <2>3. CASE n \notin Bases
    <3>1. n \in DOMAIN BuiltIndexes.internal
      BY <2>1, IndexesAre
    <3> DEFINE q == BuiltIndexes.internal[n]
    <3>2. q \in Renamed /\ Content(q).name = {n}
      BY <3>1, InternalIs
    <3>3. Found(BuiltIndexes, n) = {q}
      BY <2>3, <3>1, IndexesAre DEF Found
    <3> HIDE DEF q
    <3>4. q = p
      BY <1>2, <2>1, <3>2 DEF IdentityClash
    <3>5. QED
      BY <3>3, <3>4
  <2>4. QED
    BY <2>2, <2>3
<1>5. QED
  BY <1>3, <1>4

-------------------------------------------------------------------------------
(* Layers and what they decide *)

LayerEntry == [place : Places, sets : SUBSET Seq(STRING), revision : Nat]

Apart(S) == \A p, q \in S : Comparable(p, q) => p = q

Value(l) == [place |-> l.place, revision |-> l.revision]

(* What a file gives a merge, whenever it was read.                        *)
IsLayer(y) ==
  \E l \in LayerEntry :
    /\ y.layers = <<l>> /\ Apart(l.sets)
    /\ y.leaves = [p \in l.sets |-> Value(l)]

(* The i-th layer decides a leaf: none after it sets one above or below.   *)
Wins(layers, p, i) ==
  /\ p \in layers[i].sets
  /\ \A k \in i + 1 .. Len(layers) : \A r \in layers[k].sets : ~Comparable(p, r)

Decided(layers, leaves) ==
  /\ leaves = [p \in DOMAIN leaves |-> leaves[p]]
  /\ \A p : p \in DOMAIN leaves <=> \E i \in DOMAIN layers : Wins(layers, p, i)
  /\ \A i \in DOMAIN layers, p \in DOMAIN leaves : Wins(layers, p, i) => leaves[p] = Value(layers[i])

IsData(d) ==
  /\ d.layers \in Seq(LayerEntry)
  /\ DOMAIN d.leaves \subseteq Seq(STRING) /\ Apart(DOMAIN d.leaves)
  /\ Decided(d.layers, d.leaves)

LEMMA LayerIs ==
  ASSUME NEW y, IsLayer(y)
  PROVE  LET l == y.layers[1]
         IN  /\ l \in LayerEntry /\ y.layers = <<l>> /\ Source(y) = l.place
             /\ Apart(l.sets) /\ y.leaves = [p \in l.sets |-> Value(l)]
             /\ l.place \in Places /\ l.sets \subseteq Seq(STRING)
<1>1. PICK l \in LayerEntry :
        /\ y.layers = <<l>> /\ Apart(l.sets) /\ y.leaves = [p \in l.sets |-> Value(l)]
  BY DEF IsLayer
<1>2. y.layers[1] = l /\ Head(y.layers) = l
  BY <1>1, SMT
<1>3. l.place \in Places /\ l.sets \subseteq Seq(STRING)
  BY DEF LayerEntry
<1>4. QED
  BY <1>1, <1>2, <1>3 DEF Source

LEMMA BlankIsData == IsData(Blank)
<1>1. Blank.layers = <<>> /\ Blank.leaves = Nothing /\ DOMAIN Nothing = {}
  BY DEF Blank, Nothing
<1>2. DOMAIN Blank.layers = {} /\ Blank.layers \in Seq(LayerEntry)
  BY <1>1, SMT
<1>3. Nothing = [p \in DOMAIN Nothing |-> Nothing[p]]
  BY DEF Nothing
<1>4. QED
  BY <1>1, <1>2, <1>3, Zenon DEF IsData, Decided, Apart

(* Merging one more layer: it wins what it sets, and what it does not      *)
(* touch stays as it was.                                                  *)
LEMMA OneMoreLayer ==
  ASSUME NEW L \in Seq(LayerEntry), NEW l \in LayerEntry, NEW p
  PROVE  /\ DOMAIN Append(L, l) = 1 .. Len(L) + 1 /\ Append(L, l)[Len(L) + 1] = l
         /\ \A i \in DOMAIN L : i \in 1 .. Len(L) /\ Append(L, l)[i] = L[i]
         /\ Wins(Append(L, l), p, Len(L) + 1) <=> p \in l.sets
         /\ \A i \in DOMAIN L : Wins(Append(L, l), p, i) <=>
              Wins(L, p, i) /\ \A r \in l.sets : ~Comparable(p, r)
<1> DEFINE N == Append(L, l)
<1>1. Len(L) \in Nat /\ Len(N) = Len(L) + 1 /\ DOMAIN L = 1 .. Len(L) /\ DOMAIN N = 1 .. Len(L) + 1
  BY SMT
<1>2. N[Len(L) + 1] = l /\ \A i \in 1 .. Len(L) : N[i] = L[i]
  BY SMT
<1> HIDE DEF N
<1>3. Wins(N, p, Len(L) + 1) <=> p \in l.sets
  <2>1. Len(L) + 1 + 1 .. Len(N) = {}
    BY <1>1, SMT
  <2>2. QED
    BY <1>2, <2>1 DEF Wins
<1>4. ASSUME NEW i \in 1 .. Len(L)
      PROVE  Wins(N, p, i) <=> Wins(L, p, i) /\ \A r \in l.sets : ~Comparable(p, r)
  <2>1. i + 1 .. Len(N) = (i + 1 .. Len(L)) \cup {Len(L) + 1}
    BY <1>1, SMT
  <2>2. \A k \in i + 1 .. Len(L) : k \in 1 .. Len(L)
    BY <1>1, SMT
  <2>3. QED
    BY <1>2, <2>1, <2>2 DEF Wins
<1>5. QED
  BY <1>1, <1>2, <1>3, <1>4 DEF N

LEMMA StackIs ==
  ASSUME NEW d, IsData(d), NEW y, IsLayer(y)
  PROVE  /\ Stack(d, y).layers = Append(d.layers, y.layers[1])
         /\ Stack(d, y).leaves = DeepMerge(d.leaves, y.leaves)
         /\ Stack(d, y).name = IF y.name # {} THEN y.name ELSE d.name
<1> DEFINE l == y.layers[1]
<1>1. d.layers \in Seq(LayerEntry) /\ l \in LayerEntry /\ y.layers = <<l>>
  BY LayerIs DEF IsData
<1> HIDE DEF l
<1>2. d.layers \o <<l>> = Append(d.layers, l)
  BY <1>1, SMT
<1>3. QED
  BY <1>1, <1>2 DEF Stack, l

LEMMA MergeIs ==
  ASSUME NEW d, IsData(d), NEW y, IsLayer(y)
  PROVE  LET m == DeepMerge(d.leaves, y.leaves)
             l == y.layers[1]
         IN  /\ DOMAIN m = l.sets \cup
                  {q \in DOMAIN d.leaves : \A r \in l.sets : ~Comparable(q, r)}
             /\ \A p \in l.sets : m[p] = Value(l)
             /\ \A p \in DOMAIN d.leaves : (\A r \in l.sets : ~Comparable(p, r)) =>
                  p \notin l.sets /\ m[p] = d.leaves[p]
             /\ m = [p \in DOMAIN m |-> m[p]]
<1> DEFINE l == y.layers[1]
           m == DeepMerge(d.leaves, y.leaves)
           dom == l.sets \cup {q \in DOMAIN d.leaves : \A r \in l.sets : ~Comparable(q, r)}
<1>1. DOMAIN y.leaves = l.sets /\ l.sets \subseteq Seq(STRING)
      /\ \A p \in l.sets : y.leaves[p] = Value(l)
  BY LayerIs
<1>2. m = [p \in dom |-> IF p \in l.sets THEN y.leaves[p] ELSE d.leaves[p]]
  BY <1>1 DEF DeepMerge
<1>3. \A p \in DOMAIN d.leaves : (\A r \in l.sets : ~Comparable(p, r)) => p \notin l.sets
  BY PrefixOfItself DEF IsData
<1> HIDE DEF l, m
<1>4. DOMAIN m = dom /\ m = [p \in DOMAIN m |-> m[p]]
  BY <1>2
<1>5. \A p \in l.sets : m[p] = Value(l)
  BY <1>1, <1>2
<1>6. \A p \in DOMAIN d.leaves : (\A r \in l.sets : ~Comparable(p, r)) => m[p] = d.leaves[p]
  BY <1>2, <1>3
<1>7. QED
  BY <1>3, <1>4, <1>5, <1>6 DEF l, m

LEMMA StackDecides ==
  ASSUME NEW d, IsData(d), NEW y, IsLayer(y)
  PROVE  IsData(Stack(d, y))
<1> DEFINE l == y.layers[1]
           m == DeepMerge(d.leaves, y.leaves)
           L == d.layers
           N == Append(L, l)
<1>1. /\ L \in Seq(LayerEntry) /\ l \in LayerEntry /\ Apart(l.sets) /\ l.sets \subseteq Seq(STRING)
      /\ DOMAIN d.leaves \subseteq Seq(STRING) /\ Apart(DOMAIN d.leaves)
  BY LayerIs DEF IsData
<1>2. /\ DOMAIN m = l.sets \cup {q \in DOMAIN d.leaves : \A r \in l.sets : ~Comparable(q, r)}
      /\ \A p \in l.sets : m[p] = Value(l)
      /\ \A p \in DOMAIN d.leaves : (\A r \in l.sets : ~Comparable(p, r)) =>
           p \notin l.sets /\ m[p] = d.leaves[p]
      /\ m = [p \in DOMAIN m |-> m[p]]
  <2>1. DOMAIN m = l.sets \cup {q \in DOMAIN d.leaves : \A r \in l.sets : ~Comparable(q, r)}
    BY MergeIs, Zenon
  <2>2. \A p \in l.sets : m[p] = Value(l)
    BY MergeIs, Zenon
  <2>3. \A p \in DOMAIN d.leaves : (\A r \in l.sets : ~Comparable(p, r)) =>
           p \notin l.sets /\ m[p] = d.leaves[p]
    BY MergeIs, Zenon
  <2>4. m = [p \in DOMAIN m |-> m[p]]
    BY MergeIs, Zenon
  <2>5. QED
    BY <2>1, <2>2, <2>3, <2>4, Zenon
<1>3. /\ \A p : p \in DOMAIN d.leaves <=> \E i \in DOMAIN L : Wins(L, p, i)
      /\ \A i \in DOMAIN L, p \in DOMAIN d.leaves : Wins(L, p, i) => d.leaves[p] = Value(L[i])
  BY DEF IsData, Decided
<1>4. Stack(d, y).layers = N /\ Stack(d, y).leaves = m
  BY StackIs
<1>5. N \in Seq(LayerEntry)
  BY <1>1, SMT
<1> HIDE DEF l, m, L
<1>6. DOMAIN N = DOMAIN L \cup {Len(L) + 1} /\ N[Len(L) + 1] = l /\ \A i \in DOMAIN L : N[i] = L[i]
  <2>1. DOMAIN N = 1 .. Len(L) + 1 /\ DOMAIN L = 1 .. Len(L) /\ Len(L) \in Nat
    BY <1>1, SMT
  <2>2. 1 .. Len(L) + 1 = (1 .. Len(L)) \cup {Len(L) + 1}
    BY <2>1, SMT
  <2>3. QED
    BY <1>1, <2>1, <2>2, OneMoreLayer
<1>7. \A p : Wins(N, p, Len(L) + 1) <=> p \in l.sets
  BY <1>1, OneMoreLayer
<1>8. \A p : \A i \in DOMAIN L : Wins(N, p, i) <=>
        Wins(L, p, i) /\ \A r \in l.sets : ~Comparable(p, r)
  BY <1>1, OneMoreLayer
<1> HIDE DEF N
<1>9. \A p : p \in DOMAIN m <=> \E i \in DOMAIN N : Wins(N, p, i)
  BY <1>2, <1>3, <1>6, <1>7, <1>8
<1>10. \A i \in DOMAIN N, p \in DOMAIN m : Wins(N, p, i) => m[p] = Value(N[i])
  BY <1>2, <1>3, <1>6, <1>7, <1>8
<1>11. Apart(DOMAIN m)
  BY <1>1, <1>2, ComparableIsSymmetric DEF Apart
<1>12. DOMAIN m \subseteq Seq(STRING)
  BY <1>1, <1>2
<1>13. QED
  BY <1>2, <1>4, <1>5, <1>9, <1>10, <1>11, <1>12 DEF IsData, Decided

OriginsAgree(origin, leaves) ==
  DOMAIN origin = DOMAIN leaves /\ \A p \in DOMAIN leaves : origin[p] = leaves[p].place

(* What a merge drops from the origins is what it drops from the leaves.   *)
LEMMA OriginsMerged ==
  ASSUME NEW d, IsData(d), NEW y, IsLayer(y), NEW origin, OriginsAgree(origin, d.leaves)
  PROVE  OriginsAgree(MergeOrigins(origin, d.leaves, y.leaves, Source(y)),
                      DeepMerge(d.leaves, y.leaves))
<1> DEFINE l == y.layers[1]
           m == DeepMerge(d.leaves, y.leaves)
           o == MergeOrigins(origin, d.leaves, y.leaves, Source(y))
           replaced(p) == \E q \in l.sets :
                            \/ IsPrefix(q, p)
                            \/ \E k \in DOMAIN d.leaves : IsPrefix(k, q) /\ IsPrefix(k, p)
           kept == {p \in DOMAIN d.leaves : ~replaced(p)}
<1>1. /\ DOMAIN y.leaves = l.sets /\ Source(y) = l.place
      /\ Apart(DOMAIN d.leaves)
      /\ DOMAIN origin = DOMAIN d.leaves /\ \A p \in DOMAIN d.leaves : origin[p] = d.leaves[p].place
  <2>1. DOMAIN y.leaves = l.sets
    BY LayerIs
  <2>2. Source(y) = l.place
    BY LayerIs
  <2>3. QED
    BY <2>1, <2>2 DEF IsData, OriginsAgree
<1>2. /\ DOMAIN m = l.sets \cup {q \in DOMAIN d.leaves : \A r \in l.sets : ~Comparable(q, r)}
      /\ \A p \in l.sets : m[p] = Value(l)
      /\ \A p \in DOMAIN d.leaves : (\A r \in l.sets : ~Comparable(p, r)) =>
           p \notin l.sets /\ m[p] = d.leaves[p]
  BY MergeIs, Zenon
<1>3. o = [p \in l.sets \cup kept |-> IF p \in l.sets THEN l.place ELSE origin[p]]
  BY <1>1 DEF MergeOrigins
<1>4. ASSUME NEW p \in DOMAIN d.leaves
      PROVE  replaced(p) <=> \E r \in l.sets : Comparable(p, r)
  <2>1. ASSUME NEW q \in l.sets, Comparable(p, q)
        PROVE  IsPrefix(q, p) \/ (IsPrefix(p, q) /\ IsPrefix(p, p))
    BY <2>1, PrefixOfItself DEF Comparable, IsData
  <2>2. ASSUME NEW q \in l.sets, NEW k \in DOMAIN d.leaves, IsPrefix(k, q), IsPrefix(k, p)
        PROVE  Comparable(p, q)
    <3>1. k = p
      BY <1>1, <2>2 DEF Apart, Comparable
    <3>2. QED
      BY <2>2, <3>1 DEF Comparable
  <2>3. \A q \in l.sets : IsPrefix(q, p) => Comparable(p, q)
    BY DEF Comparable
  <2>4. QED
    BY <2>1, <2>2, <2>3
<1>5. kept = {q \in DOMAIN d.leaves : \A r \in l.sets : ~Comparable(q, r)}
  BY <1>4
<1>6. Value(l).place = l.place
  BY DEF Value
<1> HIDE DEF l, m, o, kept
<1>7. DOMAIN o = DOMAIN m
  BY <1>2, <1>3, <1>5
<1>8. ASSUME NEW p \in DOMAIN m
      PROVE  o[p] = m[p].place
  <2>1. CASE p \in l.sets
    BY <1>2, <1>3, <1>6, <2>1
  <2>2. CASE p \notin l.sets
    <3>1. p \in DOMAIN d.leaves /\ \A r \in l.sets : ~Comparable(p, r)
      BY <1>2, <2>2
    <3>2. o[p] = origin[p] /\ m[p] = d.leaves[p]
      BY <1>2, <1>3, <1>5, <2>2, <3>1
    <3>3. QED
      BY <1>1, <3>1, <3>2
  <2>3. QED
    BY <2>1, <2>2
<1>9. QED
  BY <1>7, <1>8 DEF OriginsAgree, m, o

(* What is read of a file is a layer.                                      *)
LEMMA LayerIsRead ==
  ASSUME ContentsAre, NEW p, There(p)
  PROVE  /\ IsLayer(Layer(p)) /\ Source(Layer(p)) = p
         /\ Layer(p).name = Content(p).name
<1>1. p \in Places /\ IsContent(Content(p))
  BY ContentIs
<1>2. revision[p] \in Nat
  BY <1>1 DEF ContentsAre
<1> DEFINE l == [place |-> p, sets |-> Content(p).sets, revision |-> revision[p]]
<1>3. l \in LayerEntry
  BY <1>1, <1>2 DEF IsContent, LayerEntry
<1>4. /\ l.place = p /\ l.sets = Content(p).sets
      /\ Layer(p).layers = <<l>> /\ Layer(p).name = Content(p).name
      /\ Layer(p).leaves = [q \in l.sets |-> Value(l)]
  BY DEF Layer, Value
<1>5. Apart(l.sets)
  BY <1>1 DEF IsContent, Apart
<1> HIDE DEF l
<1>6. IsLayer(Layer(p))
  BY <1>3, <1>4, <1>5 DEF IsLayer
<1>7. QED
  BY <1>4, <1>6, LayerIs

-------------------------------------------------------------------------------
(* What a step of a load does, whoever asked for it *)

KeepCaches == KeepFiles /\ UNCHANGED cacheVars
HasFile == job.stage = "files" /\ job.next <= Len(Directories) /\ There(AtHand)
ParentsOf(p) == UNION {Parents(p, ref) : ref \in Content(p).inherits}

Rests == KeepCaches /\ (job' = job \/ job' = Idle)
Begins == KeepCaches /\ job.stage = "idle" /\ \E id : \E explain \in BOOLEAN : Begin(id, explain)
Finds ==
  /\ job.stage = "find" /\ KeepFiles /\ UNCHANGED <<inherited, siteCache>>
  /\ ~(indexes = {} /\ IdentityClash)
  /\ LET index == IF indexes = {} THEN BuiltIndexes ELSE CHOOSE i \in indexes : TRUE IN
     /\ indexes' = {index}
     /\ \/ job' = Idle
        \/ /\ Found(index, job.id) # {} /\ (job.id \notin DOMAIN siteCache \/ job.explain)
           /\ job' = [job EXCEPT !.stage = "files", !.base = Found(index, job.id)]
Skips ==
  /\ KeepCaches /\ job.stage = "files" /\ job.next <= Len(Directories) /\ ~There(AtHand)
  /\ job' = [job EXCEPT !.next = @ + 1]
Merges ==
  /\ KeepCaches /\ HasFile
  /\ IF IsBase THEN Content(AtHand).inherits = {} ELSE Content(AtHand).name \subseteq NameSoFar
  /\ job' = Merged(Layer(AtHand))
Inherits ==
  /\ KeepCaches /\ HasFile /\ IsBase /\ Content(AtHand).inherits # {} /\ ParentsOf(AtHand) # {}
  /\ job' = [job EXCEPT !.stage = "parent", !.seen = <<AtHand>>,
               !.own = {Layer(AtHand)}, !.parent = ParentsOf(AtHand)]
Reuses ==
  /\ KeepCaches /\ job.stage = "parent" /\ Parent \in DOMAIN inherited /\ ~job.explain
  /\ job' = [job EXCEPT !.stage = "unwind", !.parent = {}, !.data = inherited[Parent]]
ReadsOne ==
  /\ KeepCaches /\ job.stage = "parent" /\ Parent \notin ToSet(job.seen)
  /\ Parent \notin DOMAIN inherited \/ job.explain
  /\ Content(Parent).kind # "Site"
  /\ job' = [job EXCEPT !.seen = Append(@, Parent), !.parent = ParentsOf(Parent),
               !.read = <<Layer(Parent)>> \o @,
               !.stage = IF ParentsOf(Parent) = {} THEN "unwind" ELSE "parent"]
Unwinds ==
  /\ KeepFiles /\ UNCHANGED <<indexes, siteCache>> /\ job.stage = "unwind" /\ job.read # <<>>
  /\ job' = [Merge(Head(job.read)) EXCEPT !.read = Tail(@)]
  /\ LET layer == Head(job.read) IN
     inherited' =
       IF job.explain THEN inherited
       ELSE [p \in DOMAIN inherited \cup {Source(layer)} |->
               IF p = Source(layer) THEN Stack(job.data, layer) ELSE inherited[p]]
MergesOwn ==
  /\ KeepCaches /\ job.stage = "unwind" /\ job.read = <<>>
  /\ \E layer \in job.own : job' = Merged(layer)
Finishes ==
  /\ KeepFiles /\ UNCHANGED <<indexes, inherited>> /\ Done /\ ~job.explain
  /\ job' = Idle /\ siteCache' = CachedSite(Loaded)
Edits == \E place \in Places : EditFile(place)

LEMMA Moves ==
  ASSUME SiteNext
  PROVE  \/ Rests \/ Begins \/ Finds \/ Skips \/ Merges \/ Inherits \/ Reuses
         \/ ReadsOne \/ Unwinds \/ MergesOwn \/ Finishes \/ Edits
<1> USE DEF KeepCaches, cacheVars, Answered
<1>1. FailLoad => UNCHANGED cacheVars /\ job' = Idle
  BY Zenon DEF FailLoad
<1>2. Ask \/ NamesAsked \/ Sweep \/ Swept => Rests
  BY Zenon DEF Ask, NamesAsked, Sweep, Swept, Rests
<1>3. ASSUME NEW id, NEW explain \in BOOLEAN, Begin(id, explain), KeepFiles,
             UNCHANGED cacheVars, job.stage = "idle"
      PROVE  Begins
  BY <1>3, Zenon DEF Begins
<1>4. ASSUME AskName PROVE Rests \/ Begins
  <2>1. KeepFiles /\ UNCHANGED cacheVars /\ job.stage = "idle"
    BY <1>4 DEF AskName
  <2>2. job' = Idle \/ Begin(Head(request.names), request.by = "explain")
    BY <1>4, Zenon DEF AskName
  <2>3. (request.by = "explain") \in BOOLEAN
    OBVIOUS
  <2>4. CASE job' = Idle
    BY <2>1, <2>4 DEF Rests
  <2>5. CASE Begin(Head(request.names), request.by = "explain")
    BY <1>3, <2>1, <2>3, <2>5
  <2>6. QED
    BY <2>2, <2>4, <2>5
<1>14. ASSUME NextOfAll PROVE Rests \/ Begins
  <2>1. KeepFiles /\ UNCHANGED cacheVars /\ job.stage = "idle"
    BY <1>14 DEF NextOfAll
  <2>2. job' = Idle \/ \E id : Begin(id, FALSE)
    BY <1>14, Zenon DEF NextOfAll
  <2>4. CASE job' = Idle
    BY <2>1, <2>4 DEF Rests
  <2>5. CASE \E id : Begin(id, FALSE)
    BY <1>3, <2>1, <2>5
  <2>6. QED
    BY <2>2, <2>4, <2>5
<1>5. FindSite => Rests \/ Finds
  BY <1>1, Zenon DEF FindSite, Rests, Finds
<1>6. SkipDirectory => Skips
  BY Zenon DEF SkipDirectory, Skips
<1>7. ReadBase => Rests \/ Merges \/ Inherits
  BY <1>1, Zenon DEF ReadBase, Rests, Merges, Inherits, HasFile, ParentsOf
<1>8. ReadOverlay => Rests \/ Merges
  BY <1>1, Zenon DEF ReadOverlay, Rests, Merges, HasFile
<1>9. ReadParent => Rests \/ Reuses \/ ReadsOne
  BY <1>1, Zenon DEF ReadParent, Rests, Reuses, ReadsOne, ParentsOf
<1>10. UnwindTemplate => Unwinds
  BY Zenon DEF UnwindTemplate, Unwinds
<1>11. UnwindBase => MergesOwn
  BY Zenon DEF UnwindBase, MergesOwn
<1>12. FinishLoad => Rests \/ Finishes
  BY <1>1, Zenon DEF FinishLoad, Rests, Finishes, Done
<1>13. QED
  BY <1>2, <1>4, <1>5, <1>6, <1>7, <1>8, <1>9, <1>10, <1>11, <1>12, <1>14, Zenon
     DEF SiteNext, LoadStep, Edits

LEMMA EditIs ==
  ASSUME ContentsAre, NEW place \in Places, EditFile(place)
  PROVE  /\ ContentsAre' /\ Steady /\ UNCHANGED <<cacheVars, job, request, allVars, answers>>
         /\ InheritedNames \/ ~TakesName'
<1>1. PICK c \in UNION Contents[place] :
        /\ c.name = Content(place).name /\ c.kind = Content(place).kind
        /\ files' = [files EXCEPT ![place] = {c}]
  BY DEF EditFile
<1>2. /\ There(place) /\ revision' = [revision EXCEPT ![place] = @ + 1]
      /\ UNCHANGED <<cacheVars, job, request, allVars, answers>>
      /\ InheritedNames \/ ~TakesName'
  BY DEF EditFile
<1>3. IsContent(c)
  BY <1>1, SiteAssumption
<1>4. files'[place] = {c} /\ DOMAIN files' = Places /\ \A p \in Places : p # place => files'[p] = files[p]
  BY <1>1 DEF ContentsAre
<1>5. revision' \in [Places -> Nat]
  <2>1. revision \in [Places -> Nat]
    BY DEF ContentsAre
  <2>2. QED
    BY <1>2, <2>1
<1>6. ContentsAre'
  BY <1>3, <1>4, <1>5 DEF ContentsAre
<1>7. ASSUME NEW p
      PROVE  (There(p)' <=> There(p)) /\ (p # place => Content(p)' = Content(p) \/ ~There(p))
  BY <1>2, <1>4 DEF There, Content
<1>8. Content(place)' = c
  BY <1>4 DEF Content
<1>9. Steady
  BY <1>1, <1>7, <1>8 DEF Steady
<1>10. QED
  BY <1>2, <1>6, <1>9

LEMMA FilesAreSteady ==
  ASSUME ContentsAre, SiteNext \/ KeepFiles
  PROVE  ContentsAre' /\ Steady
<1>1. ASSUME KeepFiles PROVE ContentsAre' /\ Steady
  BY <1>1 DEF KeepFiles, ContentsAre, Steady, There, Content
<1>2. ASSUME SiteNext PROVE KeepFiles \/ Edits
  BY <1>2, Moves, Zenon DEF Rests, Begins, Finds, Skips, Merges, Inherits, Reuses, ReadsOne,
     Unwinds, MergesOwn, Finishes, KeepCaches
<1>3. QED
  BY <1>1, <1>2, EditIs DEF Edits

-------------------------------------------------------------------------------
(* A load *)

IsSeq(s) == \E X : s \in Seq(X)

Loading == job.stage \in {"files", "parent", "unwind"}
Climbing == job.stage \in {"parent", "unwind"}

(* What an edit leaves, as sets.                                           *)
Present == {p \in Places : There(p)}
Templates == {p \in Places : IsTemplate(p)}
NameOf == [p \in Present |-> Content(p).name]

JobTypes ==
  /\ DOMAIN job = DOMAIN Idle
  /\ job.stage \in {"idle", "find", "files", "parent", "unwind"}
  /\ job.explain \in BOOLEAN /\ job.next \in Nat /\ job.next > 0
  /\ IsSeq(job.seen) /\ IsSeq(job.read)
  /\ job.parent \subseteq Present
  /\ IsData(job.data)
  /\ \A i \in DOMAIN job.read : IsLayer(job.read[i])
  /\ \A y \in job.own : IsLayer(y)

Fresh ==
  /\ job.data = Blank /\ job.next = 1 /\ job.seen = <<>> /\ job.own = {} /\ job.read = <<>>
  /\ job.parent = {} /\ job.origin = Nothing

StageInv ==
  /\ ~Loading => Fresh
  /\ job.stage = "files" => job.read = <<>>
  /\ job.stage = "parent" => job.parent # {}
  /\ Climbing => /\ job.next <= Len(Directories) /\ AtHand \in Present
                 /\ \E y \in job.own : job.own = {y} /\ Source(y) = AtHand
  /\ job.explain => OriginsAgree(job.origin, job.data.leaves)

(* The indexes are of the files, and are never built over a clash.         *)
IndexInv == indexes = {} \/ (indexes = {BuiltIndexes} /\ ~IdentityClash)

IsIdOf(id, p, nameOf) == id \in {p.rel, Basename(p.rel)} \cup nameOf[p]

(* What is loaded is the file that its identifier means, and it is not     *)
(* loaded yet.                                                             *)
LoadingInv ==
  Loading =>
    /\ indexes # {}
    /\ job.base = {Base} /\ Base \in BaseFiles
    /\ Found(BuiltIndexes, job.id) = {Base} /\ IsIdOf(job.id, Base, NameOf)
    /\ ~job.explain => job.id \notin DOMAIN siteCache

NoTemplateNames == \A t \in Templates : NameOf[t] = {}

AllOf(layers, places) == \A i \in DOMAIN layers : layers[i].place \in places

OneChainOf(layers, base, templates) ==
  \E i \in DOMAIN layers :
    /\ layers[i].place = base
    /\ \A k \in DOMAIN layers :
         IF k < i THEN layers[k].place \in templates ELSE layers[k].place.rel = base.rel

(* Until the base is read there are only templates, and from then on only  *)
(* files of its path.                                                      *)
ChainInv ==
  Loading =>
    /\ job.next <= Order(Base) => AllOf(job.data.layers, Templates)
    /\ job.next > Order(Base) => OneChainOf(job.data.layers, Base, Templates)
    /\ Climbing => /\ job.next <= Order(Base)
                   /\ \A i \in DOMAIN job.read : Source(job.read[i]) \in Templates

(* The name is the base's own, or else the basename.                       *)
NamesInv ==
  Loading =>
    /\ job.next > Order(Base) /\ NameOf[Base] # {} => job.data.name = NameOf[Base]
    /\ ~InheritedNames /\ NameOf[Base] = {} =>
         /\ job.next <= Order(Base) => job.data.name = {}
         /\ job.next > Order(Base) => job.data.name \subseteq {Basename(Canonical)}
         /\ Climbing => NoTemplateNames
    /\ job.next <= Order(Base) /\ NoTemplateNames => job.data.name = {}
    /\ \A y \in job.own : y.name = NameOf[Source(y)]
    /\ \A i \in DOMAIN job.read : job.read[i].name = NameOf[Source(job.read[i])]

(* The layer of a template as it was read for the first time.              *)
IsKept(l, merged) ==
  /\ l.place \in DOMAIN merged
  /\ l = merged[l.place].layers[Len(merged[l.place].layers)]

InheritedInv ==
  \A p \in DOMAIN inherited :
    /\ IsData(inherited[p]) /\ AllOf(inherited[p].layers, Templates)
    /\ NoTemplateNames => inherited[p].name = {}
    /\ \A i \in DOMAIN inherited[p].layers : IsKept(inherited[p].layers[i], inherited)

(* A template is read if it was not read before, and once.                 *)
ReadInv ==
  ~job.explain =>
    /\ \A i \in DOMAIN job.data.layers :
         \/ IsKept(job.data.layers[i], inherited)
         \/ ~Climbing /\ job.data.layers[i].place.rel = Canonical
    /\ Climbing => /\ \A i \in DOMAIN job.read :
                        /\ Source(job.read[i]) \notin DOMAIN inherited
                        /\ Source(job.read[i]) \in ToSet(job.seen)
                   /\ \A i, j \in DOMAIN job.read :
                        Source(job.read[i]) = Source(job.read[j]) => i = j

Means(id, p, index, nameOf) == Found(index, id) = {p} \/ (Len(id) > 1 /\ id \in nameOf[p])

(* A cached Site is cached by all that finds it, and is the Site of its    *)
(* path.                                                                   *)
IsCached(s, cache, merged, nameOf) ==
  /\ {s.base.rel, Basename(s.base.rel)} \cup nameOf[s.base] \subseteq DOMAIN cache
  /\ cache[s.base.rel] = s
  /\ \A i \in DOMAIN s.data.layers :
       IsKept(s.data.layers[i], merged) \/ s.data.layers[i].place.rel = s.base.rel

CacheInv ==
  \A id \in DOMAIN siteCache :
    /\ indexes # {} /\ siteCache[id].base \in BaseFiles
    /\ IsCached(siteCache[id], siteCache, inherited, NameOf)
    /\ ~InheritedNames => Means(id, siteCache[id].base, BuiltIndexes, NameOf)

TakesInv == InheritedNames \/ ~TakesName

LoadInv ==
  /\ ContentsAre /\ JobTypes /\ StageInv /\ IndexInv /\ LoadingInv /\ ChainInv /\ NamesInv
  /\ InheritedInv /\ ReadInv /\ CacheInv /\ TakesInv

LEMMA SetsAreSteady ==
  ASSUME Steady
  PROVE  /\ Present' = Present /\ Templates' = Templates /\ NameOf' = NameOf
         /\ BaseFiles' = BaseFiles /\ BuiltIndexes' = BuiltIndexes
         /\ (IdentityClash' <=> IdentityClash)
<1>1. Present' = Present
  BY DEF Steady, Present
<1>2. Templates' = Templates
  BY TemplatesAreSteady DEF Templates
<1>3. \A p \in Present : Content(p)'.name = Content(p).name
  BY DEF Steady, Present
<1>4. NameOf' = NameOf
  BY <1>1, <1>3 DEF NameOf
<1>5. BaseFiles' = BaseFiles
  BY IndexIsSteady DEF BaseFiles
<1>6. QED
  BY <1>1, <1>2, <1>4, <1>5, IndexIsSteady

LEMMA PresentIs ==
  ASSUME NEW p
  PROVE  /\ p \in Present <=> There(p)
         /\ p \in Templates <=> IsTemplate(p)
         /\ p \in Present => NameOf[p] = Content(p).name
         /\ p \in Templates => p \in Present
BY DEF Present, Templates, NameOf, IsTemplate, There

LEMMA SeqEmpty == IsSeq(<<>>) /\ DOMAIN <<>> = {}
BY SMT DEF IsSeq

LEMMA SeqOne ==
  ASSUME NEW x
  PROVE  IsSeq(<<x>>) /\ DOMAIN <<x>> = {1} /\ <<x>>[1] = x
<1>1. <<x>> \in Seq({x}) /\ DOMAIN <<x>> = {1} /\ <<x>>[1] = x
  BY SMT
<1>2. QED
  BY <1>1 DEF IsSeq

LEMMA SeqAppend ==
  ASSUME NEW s, IsSeq(s), NEW x
  PROVE  /\ IsSeq(Append(s, x)) /\ Len(s) \in Nat
         /\ DOMAIN s = 1 .. Len(s) /\ DOMAIN Append(s, x) = 1 .. Len(s) + 1
         /\ Len(Append(s, x)) = Len(s) + 1
         /\ Append(s, x)[Len(s) + 1] = x /\ \A i \in DOMAIN s : Append(s, x)[i] = s[i]
         /\ ToSet(Append(s, x)) = ToSet(s) \cup {x}
<1>1. PICK X : s \in Seq(X)
  BY DEF IsSeq
<1>2. s \in Seq(X \cup {x}) /\ x \in X \cup {x}
  BY <1>1, SMT
<1> DEFINE a == Append(s, x)
<1>3. /\ a \in Seq(X \cup {x}) /\ Len(s) \in Nat
      /\ DOMAIN s = 1 .. Len(s) /\ DOMAIN a = 1 .. Len(s) + 1 /\ Len(a) = Len(s) + 1
      /\ a[Len(s) + 1] = x /\ \A i \in DOMAIN s : a[i] = s[i]
  BY <1>2, SMT
<1> HIDE DEF a
<1>4. DOMAIN a = DOMAIN s \cup {Len(s) + 1}
  BY <1>3, SMT
<1>5. ToSet(a) = ToSet(s) \cup {x}
  BY <1>3, <1>4 DEF ToSet
<1>6. QED
  BY <1>3, <1>5 DEF IsSeq, a

LEMMA SeqCons ==
  ASSUME NEW s, IsSeq(s), NEW x
  PROVE  /\ IsSeq(<<x>> \o s)
         /\ \A k \in DOMAIN (<<x>> \o s) :
              \/ k = 1 /\ (<<x>> \o s)[k] = x
              \/ k # 1 /\ k - 1 \in DOMAIN s /\ (<<x>> \o s)[k] = s[k - 1]
<1>1. PICK X : s \in Seq(X)
  BY DEF IsSeq
<1>2. s \in Seq(X \cup {x}) /\ <<x>> \in Seq(X \cup {x})
  BY <1>1, SMT
<1> DEFINE a == <<x>> \o s
<1>3. a \in Seq(X \cup {x})
  BY <1>2, SMT
<1>4. \A k \in DOMAIN a : \/ k = 1 /\ a[k] = x
                          \/ k # 1 /\ k - 1 \in DOMAIN s /\ a[k] = s[k - 1]
  BY <1>2, SMT
<1>5. QED
  BY <1>3, <1>4 DEF IsSeq

LEMMA SeqTail ==
  ASSUME NEW s, IsSeq(s), s # <<>>
  PROVE  /\ IsSeq(Tail(s)) /\ 1 \in DOMAIN s /\ Head(s) = s[1]
         /\ \A k \in DOMAIN Tail(s) : k \in Nat /\ k + 1 \in DOMAIN s /\ k + 1 # 1 /\ Tail(s)[k] = s[k + 1]
<1>1. PICK X : s \in Seq(X)
  BY DEF IsSeq
<1>2. Tail(s) \in Seq(X)
  BY <1>1, SMT
<1>3. 1 \in DOMAIN s /\ Head(s) = s[1]
  BY <1>1, SMT
<1>4. \A k \in DOMAIN Tail(s) : k \in Nat /\ k + 1 \in DOMAIN s /\ k + 1 # 1 /\ Tail(s)[k] = s[k + 1]
  BY <1>1, SMT
<1>5. QED
  BY <1>2, <1>3, <1>4 DEF IsSeq

(* What a merge does to a load.                                            *)
LEMMA JobFieldsAre ==
  DOMAIN Idle = {"stage", "id", "explain", "base", "next", "seen", "own", "read", "parent",
                 "data", "origin"}
BY DEF Idle

LEMMA MergeDoes ==
  ASSUME JobTypes, NEW y
  PROVE  /\ DOMAIN Merge(y) = DOMAIN Idle
         /\ Merge(y).stage = job.stage /\ Merge(y).id = job.id /\ Merge(y).explain = job.explain
         /\ Merge(y).base = job.base /\ Merge(y).next = job.next /\ Merge(y).seen = job.seen
         /\ Merge(y).own = job.own /\ Merge(y).read = job.read /\ Merge(y).parent = job.parent
         /\ Merge(y).data = Stack(job.data, y)
         /\ Merge(y).origin = IF job.explain
                                THEN MergeOrigins(job.origin, job.data.leaves, y.leaves, Source(y))
                                ELSE job.origin
BY JobFieldsAre DEF Merge, JobTypes

LEMMA MergedDoes ==
  ASSUME JobTypes, NEW y
  PROVE  /\ DOMAIN Merged(y) = DOMAIN Idle
         /\ Merged(y).stage = "files" /\ Merged(y).id = job.id /\ Merged(y).explain = job.explain
         /\ Merged(y).base = job.base /\ Merged(y).next = job.next + 1 /\ Merged(y).seen = <<>>
         /\ Merged(y).own = {} /\ Merged(y).read = job.read /\ Merged(y).parent = job.parent
         /\ Merged(y).data = Stack(job.data, y)
         /\ Merged(y).origin = Merge(y).origin
<1> DEFINE j == Merge(y)
<1>1. /\ DOMAIN j = DOMAIN Idle /\ j.id = job.id /\ j.explain = job.explain
      /\ j.base = job.base /\ j.next = job.next /\ j.read = job.read /\ j.parent = job.parent
      /\ j.data = Stack(job.data, y)
  BY MergeDoes
<1>2. Merged(y) = [j EXCEPT !.next = @ + 1, !.seen = <<>>, !.own = {}, !.stage = "files"]
  BY DEF Merged
<1> HIDE DEF j
<1>3. QED
  BY <1>1, <1>2, JobFieldsAre DEF j

LEMMA MergedData ==
  ASSUME JobTypes, StageInv, NEW y, IsLayer(y)
  PROVE  /\ IsData(Stack(job.data, y))
         /\ job.explain => OriginsAgree(Merge(y).origin, Stack(job.data, y).leaves)
<1>1. IsData(Stack(job.data, y))
  BY StackDecides DEF JobTypes
<1>2. ASSUME job.explain
      PROVE  OriginsAgree(Merge(y).origin, Stack(job.data, y).leaves)
  <2>1. OriginsAgree(job.origin, job.data.leaves) /\ IsData(job.data)
    BY <1>2 DEF StageInv, JobTypes
  <2>2. Merge(y).origin = MergeOrigins(job.origin, job.data.leaves, y.leaves, Source(y))
    BY <1>2, MergeDoes
  <2>3. Stack(job.data, y).leaves = DeepMerge(job.data.leaves, y.leaves)
    BY <2>1, StackIs
  <2>4. QED
    BY <2>1, <2>2, <2>3, OriginsMerged
<1>3. QED
  BY <1>1, <1>2

(* The types and the stages of a load, step by step.                       *)
LEMMA StopsWell ==
  ASSUME job' = Idle
  PROVE  JobTypes' /\ StageInv'
<1>1. /\ job'.stage = "idle" /\ ~job'.explain /\ job'.next = 1 /\ job'.seen = <<>>
      /\ job'.own = {} /\ job'.read = <<>> /\ job'.parent = {} /\ job'.data = Blank
      /\ job'.origin = Nothing /\ DOMAIN job' = DOMAIN Idle
  BY DEF Idle
<1>5. job'.explain \in BOOLEAN /\ job'.next > 0
  <2>1. job'.explain = FALSE
    BY Zenon DEF Idle
  <2>2. job'.explain \in BOOLEAN
    BY <2>1, Zenon
  <2>3. QED
    BY <1>1, <2>2
<1>2. JobTypes'
  BY <1>1, <1>5, SeqEmpty, BlankIsData DEF JobTypes
<1>3. StageInv'
  BY <1>1 DEF StageInv, Loading, Climbing, Fresh
<1>4. QED
  BY <1>2, <1>3

LEMMA AgreeAtFirst == OriginsAgree(Nothing, Blank.leaves)
BY DEF OriginsAgree, Nothing, Blank

LEMMA StaysWell ==
  ASSUME JobTypes, StageInv, Steady, UNCHANGED job
  PROVE  JobTypes' /\ StageInv'
<1>1. JobTypes'
  BY SetsAreSteady DEF JobTypes
<1>2. StageInv'
  BY SetsAreSteady DEF StageInv, Loading, Climbing, Fresh, AtHand, Canonical, Base
<1>3. QED
  BY <1>1, <1>2

LEMMA BeginsWell ==
  ASSUME Begins
  PROVE  JobTypes' /\ StageInv'
<1>1. PICK id : \E explain \in BOOLEAN : Begin(id, explain)
  BY DEF Begins
<1>2. PICK explain \in BOOLEAN : Begin(id, explain)
  BY <1>1
<1>3. /\ job'.stage = "find" /\ job'.explain = explain /\ job'.next = 1 /\ job'.seen = <<>>
      /\ job'.own = {} /\ job'.read = <<>> /\ job'.parent = {} /\ job'.data = Blank
      /\ job'.origin = Nothing /\ DOMAIN job' = DOMAIN Idle
  BY <1>2 DEF Begin, Idle
<1>4. JobTypes'
  BY <1>3, SeqEmpty, BlankIsData DEF JobTypes
<1>5. StageInv'
  BY <1>3, AgreeAtFirst DEF StageInv, Loading, Climbing, Fresh
<1>6. QED
  BY <1>4, <1>5

LEMMA FindsWell ==
  ASSUME JobTypes, StageInv, Steady, Finds
  PROVE  JobTypes' /\ StageInv'
<1>1. CASE job' = Idle
  BY <1>1, StopsWell
<1>2. CASE job' # Idle
  <2>1. PICK found : job' = [job EXCEPT !.stage = "files", !.base = found]
    BY <1>2 DEF Finds
  <2>2. /\ job'.stage = "files" /\ job'.explain = job.explain /\ job'.next = job.next
        /\ job'.seen = job.seen /\ job'.own = job.own /\ job'.read = job.read
        /\ job'.parent = job.parent /\ job'.data = job.data /\ job'.origin = job.origin
        /\ DOMAIN job' = DOMAIN Idle
    BY <2>1, JobFieldsAre DEF JobTypes
  <2>3. job.read = <<>>
    BY DEF Finds, StageInv, Fresh, Loading
  <2>4. JobTypes'
    BY <2>2, SetsAreSteady DEF JobTypes
  <2>5. StageInv'
    BY <2>2, <2>3 DEF StageInv, Loading, Climbing
  <2>6. QED
    BY <2>4, <2>5
<1>3. QED
  BY <1>1, <1>2

LEMMA SkipsWell ==
  ASSUME JobTypes, StageInv, Steady, Skips
  PROVE  JobTypes' /\ StageInv'
<1>1. /\ job'.stage = "files" /\ job'.explain = job.explain /\ job'.next = job.next + 1
      /\ job'.seen = job.seen /\ job'.own = job.own /\ job'.read = job.read
      /\ job'.parent = job.parent /\ job'.data = job.data /\ job'.origin = job.origin
      /\ DOMAIN job' = DOMAIN Idle /\ job.stage = "files"
  BY JobFieldsAre DEF Skips, JobTypes
<1>2. job'.next \in Nat /\ job'.next > 0
  BY <1>1, SMT DEF JobTypes
<1>3. JobTypes'
  BY <1>1, <1>2, SetsAreSteady DEF JobTypes
<1>4. StageInv'
  BY <1>1 DEF StageInv, Loading, Climbing
<1>5. QED
  BY <1>3, <1>4

LEMMA MergedWell ==
  ASSUME JobTypes, StageInv, Steady, NEW y, IsLayer(y), job' = Merged(y), job.read = <<>>
  PROVE  JobTypes' /\ StageInv'
<1>1. /\ job'.stage = "files" /\ job'.explain = job.explain /\ job'.next = job.next + 1
      /\ job'.seen = <<>> /\ job'.own = {} /\ job'.read = <<>>
      /\ job'.parent = job.parent /\ job'.data = Stack(job.data, y)
      /\ job'.origin = Merge(y).origin /\ DOMAIN job' = DOMAIN Idle
  BY MergedDoes
<1>2. job'.next \in Nat /\ job'.next > 0
  BY <1>1, SMT DEF JobTypes
<1>3. IsData(job'.data) /\ (job.explain => OriginsAgree(job'.origin, job'.data.leaves))
  BY <1>1, MergedData
<1>4. JobTypes'
  BY <1>1, <1>2, <1>3, SeqEmpty, SetsAreSteady DEF JobTypes
<1>5. StageInv'
  BY <1>1, <1>3 DEF StageInv, Loading, Climbing
<1>6. QED
  BY <1>4, <1>5

LEMMA ParentsArePresent ==
  ASSUME NEW p
  PROVE  ParentsOf(p) \subseteq Present
BY PresentIs DEF ParentsOf, Parents

LEMMA InheritsWell ==
  ASSUME ContentsAre, JobTypes, StageInv, Steady, Inherits
  PROVE  JobTypes' /\ StageInv'
<1>1. /\ job'.stage = "parent" /\ job'.explain = job.explain /\ job'.next = job.next
      /\ job'.seen = <<AtHand>> /\ job'.own = {Layer(AtHand)} /\ job'.read = job.read
      /\ job'.parent = ParentsOf(AtHand) /\ job'.data = job.data /\ job'.origin = job.origin
      /\ DOMAIN job' = DOMAIN Idle /\ job'.base = job.base
  BY JobFieldsAre DEF Inherits, JobTypes
<1>2. IsLayer(Layer(AtHand)) /\ Source(Layer(AtHand)) = AtHand
  BY LayerIsRead DEF Inherits, HasFile
<1>3. AtHand' = AtHand
  BY <1>1 DEF AtHand, Canonical, Base
<1>4. job'.parent \subseteq Present
  BY <1>1, ParentsArePresent
<1>5. JobTypes'
  BY <1>1, <1>2, <1>4, SeqOne, SetsAreSteady DEF JobTypes
<1>6. StageInv'
  <2>1. AtHand \in Present /\ Present' = Present
    BY PresentIs, SetsAreSteady DEF Inherits, HasFile
  <2>2. QED
    BY <1>1, <1>2, <1>3, <2>1 DEF StageInv, Loading, Climbing, Inherits, HasFile
<1>7. QED
  BY <1>5, <1>6

LEMMA ParentIs ==
  ASSUME JobTypes, StageInv, job.stage = "parent"
  PROVE  Parent \in Present /\ There(Parent)
BY PresentIs DEF JobTypes, StageInv, Parent

LEMMA ReusesWell ==
  ASSUME JobTypes, StageInv, InheritedInv, Steady, Reuses
  PROVE  JobTypes' /\ StageInv'
<1>1. /\ job'.stage = "unwind" /\ job'.explain = job.explain /\ job'.next = job.next
      /\ job'.seen = job.seen /\ job'.own = job.own /\ job'.read = job.read
      /\ job'.parent = {} /\ job'.data = inherited[Parent] /\ job'.origin = job.origin
      /\ DOMAIN job' = DOMAIN Idle /\ job'.base = job.base
  BY JobFieldsAre DEF Reuses, JobTypes
<1>2. IsData(inherited[Parent])
  BY DEF Reuses, InheritedInv
<1>3. AtHand' = AtHand
  BY <1>1 DEF AtHand, Canonical, Base
<1>4. JobTypes'
  BY <1>1, <1>2, SetsAreSteady DEF JobTypes
<1>5. StageInv'
  BY <1>1, <1>3, SetsAreSteady DEF StageInv, Loading, Climbing, Reuses
<1>6. QED
  BY <1>4, <1>5

LEMMA ReadsOneWell ==
  ASSUME ContentsAre, JobTypes, StageInv, Steady, ReadsOne
  PROVE  JobTypes' /\ StageInv'
<1>1. /\ job'.stage = (IF ParentsOf(Parent) = {} THEN "unwind" ELSE "parent")
      /\ job'.explain = job.explain /\ job'.next = job.next
      /\ job'.seen = Append(job.seen, Parent) /\ job'.own = job.own
      /\ job'.read = <<Layer(Parent)>> \o job.read
      /\ job'.parent = ParentsOf(Parent) /\ job'.data = job.data /\ job'.origin = job.origin
      /\ DOMAIN job' = DOMAIN Idle /\ job'.base = job.base
  BY JobFieldsAre DEF ReadsOne, JobTypes
<1>2. IsLayer(Layer(Parent))
  BY ParentIs, LayerIsRead DEF ReadsOne
<1>3. AtHand' = AtHand
  BY <1>1 DEF AtHand, Canonical, Base
<1>4. IsSeq(job'.read) /\ \A i \in DOMAIN job'.read : IsLayer(job'.read[i])
  BY <1>1, <1>2, SeqCons DEF JobTypes
<1>5. IsSeq(job'.seen)
  BY <1>1, SeqAppend DEF JobTypes
<1>6. job'.parent \subseteq Present
  BY <1>1, ParentsArePresent
<1>7. JobTypes'
  BY <1>1, <1>4, <1>5, <1>6, SetsAreSteady DEF JobTypes
<1>8. StageInv'
  BY <1>1, <1>3, SetsAreSteady DEF StageInv, Loading, Climbing, ReadsOne
<1>9. QED
  BY <1>7, <1>8

LEMMA HeadIs ==
  ASSUME JobTypes, job.read # <<>>
  PROVE  /\ IsLayer(Head(job.read)) /\ 1 \in DOMAIN job.read /\ Head(job.read) = job.read[1]
         /\ IsSeq(Tail(job.read))
         /\ \A k \in DOMAIN Tail(job.read) :
              k \in Nat /\ k + 1 \in DOMAIN job.read /\ k + 1 # 1 /\ Tail(job.read)[k] = job.read[k + 1]
BY SeqTail DEF JobTypes

LEMMA UnwindDoes ==
  ASSUME JobTypes, Unwinds
  PROVE  /\ job'.stage = "unwind" /\ job'.explain = job.explain /\ job'.next = job.next
         /\ job'.seen = job.seen /\ job'.own = job.own /\ job'.read = Tail(job.read)
         /\ job'.parent = job.parent /\ job'.data = Stack(job.data, Head(job.read))
         /\ job'.origin = Merge(Head(job.read)).origin /\ job'.id = job.id
         /\ DOMAIN job' = DOMAIN Idle /\ job'.base = job.base
<1> DEFINE j == Merge(Head(job.read))
<1>1. /\ DOMAIN j = DOMAIN Idle /\ j.id = job.id /\ j.explain = job.explain /\ j.stage = job.stage
      /\ j.base = job.base /\ j.next = job.next /\ j.read = job.read /\ j.parent = job.parent
      /\ j.data = Stack(job.data, Head(job.read)) /\ j.seen = job.seen /\ j.own = job.own
  BY MergeDoes
<1>2. job' = [j EXCEPT !.read = Tail(@)] /\ job.stage = "unwind"
  BY DEF Unwinds
<1> HIDE DEF j
<1>3. QED
  BY <1>1, <1>2, JobFieldsAre DEF j

LEMMA UnwindsWell ==
  ASSUME JobTypes, StageInv, Steady, Unwinds
  PROVE  JobTypes' /\ StageInv'
<1>1. /\ job'.stage = "unwind" /\ job'.explain = job.explain /\ job'.next = job.next
      /\ job'.seen = job.seen /\ job'.own = job.own /\ job'.read = Tail(job.read)
      /\ job'.parent = job.parent /\ job'.data = Stack(job.data, Head(job.read))
      /\ job'.origin = Merge(Head(job.read)).origin
      /\ DOMAIN job' = DOMAIN Idle /\ job'.base = job.base
  BY UnwindDoes
<1>2. job.stage = "unwind" /\ job.read # <<>>
  BY DEF Unwinds
<1>3. IsLayer(Head(job.read))
  BY <1>2, HeadIs
<1>4. AtHand' = AtHand
  BY <1>1 DEF AtHand, Canonical, Base
<1>5. IsSeq(job'.read) /\ \A i \in DOMAIN job'.read : IsLayer(job'.read[i])
  BY <1>1, <1>2, HeadIs DEF JobTypes
<1>6. IsData(job'.data) /\ (job.explain => OriginsAgree(job'.origin, job'.data.leaves))
  BY <1>1, <1>3, MergedData
<1>7. JobTypes'
  BY <1>1, <1>5, <1>6, SetsAreSteady DEF JobTypes
<1>8. StageInv'
  BY <1>1, <1>2, <1>4, <1>6, SetsAreSteady DEF StageInv, Loading, Climbing
<1>9. QED
  BY <1>7, <1>8

LEMMA LoadsWell ==
  ASSUME ContentsAre, JobTypes, StageInv, InheritedInv, SiteNext
  PROVE  JobTypes' /\ StageInv'
<1>1. Steady
  BY FilesAreSteady
<1>2. ASSUME Rests PROVE JobTypes' /\ StageInv'
  BY <1>1, <1>2, StopsWell, StaysWell DEF Rests
<1>3. ASSUME Merges PROVE JobTypes' /\ StageInv'
  <2>1. IsLayer(Layer(AtHand)) /\ job.read = <<>> /\ job' = Merged(Layer(AtHand))
    BY <1>3, LayerIsRead DEF Merges, HasFile, StageInv
  <2>2. QED
    BY <1>1, <2>1, MergedWell
<1>4. ASSUME MergesOwn PROVE JobTypes' /\ StageInv'
  <2>1. PICK y \in job.own : job' = Merged(y)
    BY <1>4 DEF MergesOwn
  <2>2. IsLayer(y) /\ job.read = <<>>
    BY <1>4 DEF MergesOwn, JobTypes
  <2>3. QED
    BY <1>1, <2>1, <2>2, MergedWell
<1>5. ASSUME Finishes PROVE JobTypes' /\ StageInv'
  BY <1>5, StopsWell DEF Finishes
<1>6. ASSUME Edits PROVE JobTypes' /\ StageInv'
  BY <1>1, <1>6, EditIs, StaysWell DEF Edits
<1>7. QED
  BY <1>1, <1>2, <1>3, <1>4, <1>5, <1>6, Moves, BeginsWell, FindsWell, SkipsWell, InheritsWell,
     ReusesWell, ReadsOneWell, UnwindsWell

LEMMA IndexesStay ==
  ASSUME ContentsAre, IndexInv, SiteNext
  PROVE  IndexInv' /\ (indexes # {} => indexes' = indexes)
<1>1. BuiltIndexes' = BuiltIndexes /\ (IdentityClash' <=> IdentityClash)
  BY FilesAreSteady, SetsAreSteady
<1>2. UNCHANGED indexes \/ Finds
  BY Moves, Zenon DEF Rests, Begins, Skips, Merges, Inherits, Reuses, ReadsOne, Unwinds, MergesOwn,
     Finishes, Edits, EditFile, KeepCaches, cacheVars
<1>3. ASSUME Finds
      PROVE  indexes' = {BuiltIndexes} /\ ~IdentityClash /\ (indexes # {} => indexes' = indexes)
  <2>1. CASE indexes = {}
    BY <1>3, <2>1 DEF Finds
  <2>2. CASE indexes # {}
    <3>1. indexes = {BuiltIndexes} /\ ~IdentityClash
      BY <2>2 DEF IndexInv
    <3>2. (CHOOSE i \in indexes : TRUE) = BuiltIndexes
      BY <3>1
    <3>3. indexes' = {CHOOSE i \in indexes : TRUE}
      BY <1>3, <2>2 DEF Finds
    <3>4. QED
      BY <3>1, <3>2, <3>3
  <2>3. QED
    BY <2>1, <2>2
<1>4. QED
  BY <1>1, <1>2, <1>3 DEF IndexInv

LEMMA TakesStay ==
  ASSUME ContentsAre, TakesInv, SiteNext
  PROVE  TakesInv'
<1>1. KeepFiles \/ Edits
  BY Moves, Zenon DEF Rests, Begins, Finds, Skips, Merges, Inherits, Reuses, ReadsOne, Unwinds,
     MergesOwn, Finishes, KeepCaches
<1>2. CASE KeepFiles
  <2>1. TakesName' <=> TakesName
    BY <1>2 DEF KeepFiles, TakesName, SiteFiles, IsTemplate, There, Content
  <2>2. QED
    BY <2>1 DEF TakesInv
<1>3. CASE Edits
  BY <1>3, EditIs DEF Edits, TakesInv
<1>4. QED
  BY <1>1, <1>2, <1>3

(* The steps within a load.                                                *)
Continues ==
  /\ Loading /\ Loading' /\ KeepFiles /\ UNCHANGED <<indexes, siteCache>>
  /\ job'.id = job.id /\ job'.base = job.base /\ job'.explain = job.explain

LEMMA LoadContinues ==
  ASSUME JobTypes, Skips \/ Merges \/ Inherits \/ Reuses \/ ReadsOne \/ Unwinds \/ MergesOwn
  PROVE  Continues
<1> USE DEF Continues, Loading, KeepCaches, cacheVars
<1>1. ASSUME Skips PROVE Continues
  BY <1>1, JobFieldsAre DEF Skips, JobTypes
<1>2. ASSUME Merges PROVE Continues
  BY <1>2, MergedDoes DEF Merges, HasFile
<1>3. ASSUME Inherits PROVE Continues
  BY <1>3, JobFieldsAre DEF Inherits, HasFile, JobTypes
<1>4. ASSUME Reuses PROVE Continues
  BY <1>4, JobFieldsAre DEF Reuses, JobTypes
<1>5. ASSUME ReadsOne PROVE Continues
  BY <1>5, JobFieldsAre DEF ReadsOne, JobTypes
<1>6. ASSUME Unwinds PROVE Continues
  BY <1>6, UnwindDoes DEF Unwinds
<1>7. ASSUME MergesOwn PROVE Continues
  BY <1>7, MergedDoes DEF MergesOwn
<1>8. QED
  BY <1>1, <1>2, <1>3, <1>4, <1>5, <1>6, <1>7

LEMMA MovesAre ==
  ASSUME JobTypes, SiteNext
  PROVE  \/ Rests \/ Begins \/ Finds \/ Continues \/ Finishes \/ Edits
BY Moves, LoadContinues

LEMMA LoadingStays ==
  ASSUME ContentsAre, JobTypes, IndexInv, LoadingInv, SiteNext
  PROVE  LoadingInv'
<1>1. /\ BuiltIndexes' = BuiltIndexes /\ BaseFiles' = BaseFiles /\ NameOf' = NameOf
  BY FilesAreSteady, SetsAreSteady
<1>2. ASSUME job' = Idle PROVE LoadingInv'
  <2>1. job'.stage = "idle"
    BY <1>2 DEF Idle
  <2>2. QED
    BY <2>1 DEF LoadingInv, Loading
<1>3. ASSUME job'.id = job.id, job'.base = job.base, job'.explain = job.explain,
             Loading, UNCHANGED <<indexes, siteCache>>
      PROVE  LoadingInv'
  <2>1. Base' = Base
    BY <1>3 DEF Base
  <2>2. QED
    BY <1>1, <1>3, <2>1 DEF LoadingInv
<1>4. ASSUME job' = job, UNCHANGED <<indexes, siteCache>> PROVE LoadingInv'
  <2>1. CASE Loading
    BY <1>3, <1>4, <2>1
  <2>2. CASE ~Loading
    BY <1>4, <2>2 DEF LoadingInv, Loading
  <2>3. QED
    BY <2>1, <2>2
<1>5. ASSUME Rests PROVE LoadingInv'
  BY <1>2, <1>4, <1>5 DEF Rests, KeepCaches, cacheVars
<1>6. ASSUME Begins PROVE LoadingInv'
  <2>1. job'.stage = "find"
    BY <1>6 DEF Begins, Begin, Idle
  <2>2. QED
    BY <2>1 DEF LoadingInv, Loading
<1>7. ASSUME Finds, job' # Idle PROVE LoadingInv'
  <2>1. indexes' = {BuiltIndexes} /\ ~IdentityClash
    BY <1>7, IndexesStay, <1>1 DEF IndexInv, Finds
  <2> DEFINE found == Found(BuiltIndexes, job.id)
  <2>2. /\ found # {} /\ (job.id \notin DOMAIN siteCache \/ job.explain)
        /\ job' = [job EXCEPT !.stage = "files", !.base = found] /\ siteCache' = siteCache
    <3>1. indexes' = {IF indexes = {} THEN BuiltIndexes ELSE CHOOSE i \in indexes : TRUE}
      BY <1>7 DEF Finds
    <3>2. (IF indexes = {} THEN BuiltIndexes ELSE CHOOSE i \in indexes : TRUE) = BuiltIndexes
      BY <2>1, <3>1
    <3>3. QED
      BY <1>7, <3>2 DEF Finds
  <2>3. PICK p : found = {p} /\ p \in BaseFiles /\ job.id \in {p.rel, Basename(p.rel)} \cup Content(p).name
    BY <2>1, <2>2, FoundFile
  <2>4. NameOf[p] = Content(p).name
    BY <2>3, SiteFileIs, PresentIs DEF BaseFiles
  <2> HIDE DEF found
  <2>5. job'.base = found /\ job'.id = job.id /\ job'.explain = job.explain
    BY <2>2, JobFieldsAre DEF JobTypes
  <2>6. Base' = p
    BY <2>3, <2>5 DEF Base
  <2>7. QED
    BY <1>1, <2>1, <2>2, <2>3, <2>4, <2>5, <2>6 DEF LoadingInv, IsIdOf, found
<1>8. ASSUME Continues PROVE LoadingInv'
  BY <1>3, <1>8 DEF Continues
<1>9. ASSUME Edits PROVE LoadingInv'
  BY <1>4, <1>9, EditIs DEF Edits, cacheVars
<1>10. QED
  BY <1>2, <1>5, <1>6, <1>7, <1>8, <1>9, MovesAre DEF Finishes

-------------------------------------------------------------------------------
(* The chain of a Site *)

LEMMA BaseIs ==
  ASSUME Loading, LoadingInv
  PROVE  /\ Base \in SiteFiles /\ Base \in BaseFiles /\ Base.rel = Canonical
         /\ Base \in Present /\ Base \notin Templates /\ There(Base)
         /\ Base = Place(Base.dir, Base.rel)
         /\ Order(Base) \in 1 .. Len(Trusted) /\ Trusted[Order(Base)] = Base.dir
         /\ Canonical \in Seq(STRING) \ {<<>>}
<1>1. Base \in BaseFiles /\ Base \in SiteFiles
  BY DEF LoadingInv, BaseFiles
<1>2. QED
  BY <1>1, SiteFileIs, PresentIs DEF Canonical

LEMMA AtHandIs ==
  ASSUME JobTypes, Loading, LoadingInv, job.next <= Len(Directories)
  PROVE  /\ AtHand.rel = Canonical
         /\ job.next = Order(Base) => AtHand = Base
         /\ job.next < Order(Base) /\ AtHand \in Present => AtHand \in Templates
<1>1. AtHand.rel = Canonical /\ AtHand.dir = Directories[job.next]
  BY DEF AtHand, Place
<1>2. Order(Base) \in 1 .. Len(Trusted) /\ job.next \in Nat /\ job.next > 0
  BY BaseIs DEF JobTypes
<1>3. ASSUME job.next = Order(Base) PROVE AtHand = Base
  <2>1. Directories[job.next] = Base.dir
    BY <1>2, <1>3, BaseIs, DirectoriesAre
  <2>2. QED
    BY <2>1, BaseIs DEF AtHand, Canonical
<1>4. ASSUME job.next < Order(Base), AtHand \in Present, AtHand \notin Templates PROVE FALSE
  <2>1. job.next \in 1 .. Len(Trusted)
    BY <1>2, <1>4, SMT
  <2>2. AtHand.dir = Trusted[job.next] /\ DOMAIN Trusted = 1 .. Len(Trusted)
    BY <1>1, <2>1, DirectoriesAre, SiteAssumption
  <2>3. AtHand.dir \in ToSet(Trusted) /\ AtHand.dir # Local
    BY <2>1, <2>2, SiteAssumption DEF ToSet
  <2>4. AtHand \in SiteFiles
    BY <1>4, <2>3, PresentIs DEF SiteFiles, Present
  <2>5. Order(Base) <= Order(AtHand)
    BY <1>1, <2>4, BaseIs, FirstOfItsPath
  <2>6. Order(AtHand) \in 1 .. Len(Trusted) /\ Trusted[Order(AtHand)] = Trusted[job.next]
    BY <2>2, <2>3, OrderIs
  <2>7. Order(AtHand) = job.next
    BY <2>1, <2>2, <2>6, SiteAssumption
  <2>8. QED
    BY <1>2, <1>4, <2>5, <2>7, SMT
<1>5. QED
  BY <1>1, <1>3, <1>4

LEMMA AllOfMore ==
  ASSUME NEW layers \in Seq(LayerEntry), NEW l \in LayerEntry, NEW T,
         AllOf(layers, T), l.place \in T
  PROVE  AllOf(Append(layers, l), T)
<1> DEFINE a == Append(layers, l)
<1>1. \A i \in DOMAIN a : (i \in DOMAIN layers /\ a[i] = layers[i]) \/ a[i] = l
  BY SMT
<1> HIDE DEF a
<1>2. QED
  BY <1>1 DEF AllOf, a

LEMMA ChainStarts ==
  ASSUME NEW layers \in Seq(LayerEntry), NEW l \in LayerEntry, NEW T, AllOf(layers, T)
  PROVE  OneChainOf(Append(layers, l), l.place, T)
<1> DEFINE a == Append(layers, l)
<1>1. /\ Len(layers) + 1 \in DOMAIN a /\ a[Len(layers) + 1] = l
      /\ \A k \in DOMAIN a : IF k < Len(layers) + 1 THEN k \in DOMAIN layers /\ a[k] = layers[k]
                             ELSE a[k] = l
  BY SMT
<1> HIDE DEF a
<1>2. QED
  BY <1>1 DEF OneChainOf, AllOf, a

LEMMA ChainGrows ==
  ASSUME NEW layers \in Seq(LayerEntry), NEW l \in LayerEntry, NEW T, NEW base,
         OneChainOf(layers, base, T), l.place.rel = base.rel
  PROVE  OneChainOf(Append(layers, l), base, T)
<1> DEFINE a == Append(layers, l)
<1>1. PICK i \in DOMAIN layers :
        /\ layers[i].place = base
        /\ \A k \in DOMAIN layers :
             IF k < i THEN layers[k].place \in T ELSE layers[k].place.rel = base.rel
  BY DEF OneChainOf
<1>2. /\ i \in DOMAIN a /\ a[i] = layers[i]
      /\ \A k \in DOMAIN a : \/ k \in DOMAIN layers /\ a[k] = layers[k]
                             \/ ~(k < i) /\ a[k] = l
  BY SMT
<1> HIDE DEF a
<1>3. QED
  BY <1>1, <1>2 DEF OneChainOf, a

LEMMA NoChain ==
  ASSUME NEW base, NEW T
  PROVE  ~OneChainOf(<<>>, base, T) /\ AllOf(<<>>, T)
BY SeqEmpty DEF OneChainOf, AllOf

LEMMA NextFile ==
  ASSUME JobTypes, Loading, LoadingInv
  PROVE  /\ job.next \in Nat /\ Order(Base) \in Nat /\ Order(Base) >= 1
         /\ job.next + 1 <= Order(Base) <=> job.next < Order(Base)
         /\ job.next + 1 > Order(Base) <=> job.next = Order(Base) \/ job.next > Order(Base)
         /\ job.next <= Order(Base) <=> job.next < Order(Base) \/ job.next = Order(Base)
         /\ job.next <= Order(Base) \/ job.next > Order(Base)
         /\ ~(job.next <= Order(Base) /\ job.next > Order(Base))
<1>1. job.next \in Nat /\ Order(Base) \in Nat /\ Order(Base) >= 1
  BY BaseIs, SMT DEF JobTypes
<1> DEFINE o == Order(Base)
           k == job.next
<1>2. k \in Nat /\ o \in Nat
  BY <1>1
<1> HIDE DEF o, k
<1>3. /\ k + 1 <= o <=> k < o
      /\ k + 1 > o <=> k = o \/ k > o
      /\ k <= o <=> k < o \/ k = o
      /\ k <= o \/ k > o
      /\ ~(k <= o /\ k > o)
  BY <1>2, SMT
<1>4. QED
  BY <1>1, <1>3 DEF o, k

(* One more file merged, at its turn.                                      *)
LEMMA MergedChain ==
  ASSUME JobTypes, StageInv, LoadingInv, ChainInv, Loading, Steady, LoadingInv',
         job.next <= Len(Directories), AtHand \in Present, job.read = <<>>,
         NEW y, IsLayer(y), Source(y) = AtHand, job' = Merged(y)
  PROVE  ChainInv'
<1> DEFINE l == y.layers[1]
           L == job.data.layers
<1>1. l \in LayerEntry /\ l.place = AtHand
  BY LayerIs
<1>2. L \in Seq(LayerEntry) /\ job'.data.layers = Append(L, l)
  BY StackIs, MergedDoes DEF JobTypes, IsData
<1>3. job'.next = job.next + 1 /\ Base' = Base /\ Loading' /\ ~Climbing'
  BY MergedDoes DEF Base, Loading, Climbing
<1>4. Templates' = Templates
  BY SetsAreSteady
<1>5. /\ job.next <= Order(Base) => AllOf(L, Templates)
      /\ job.next > Order(Base) => OneChainOf(L, Base, Templates)
  BY DEF ChainInv
<1> HIDE DEF l, L
<1>6. CASE job.next < Order(Base)
  <2>1. AllOf(Append(L, l), Templates)
    BY <1>1, <1>2, <1>5, <1>6, NextFile, AtHandIs, AllOfMore
  <2>2. ~(job.next + 1 > Order(Base))
    BY <1>6, NextFile, SMT
  <2>3. QED
    BY <1>2, <1>3, <1>4, <2>1, <2>2 DEF ChainInv
<1>7. CASE job.next = Order(Base)
  <2>1. OneChainOf(Append(L, l), Base, Templates)
    BY <1>1, <1>2, <1>5, <1>7, NextFile, AtHandIs, ChainStarts
  <2>2. ~(job.next + 1 <= Order(Base))
    BY <1>7, NextFile, SMT
  <2>3. QED
    BY <1>2, <1>3, <1>4, <2>1, <2>2 DEF ChainInv
<1>8. CASE job.next > Order(Base)
  <2>1. l.place.rel = Base.rel
    BY <1>1, AtHandIs, BaseIs
  <2>2. OneChainOf(Append(L, l), Base, Templates)
    BY <1>1, <1>2, <1>5, <1>8, <2>1, ChainGrows
  <2>3. ~(job.next + 1 <= Order(Base))
    BY <1>8, NextFile, SMT
  <2>4. QED
    BY <1>2, <1>3, <1>4, <2>2, <2>3 DEF ChainInv
<1>9. QED
  BY <1>6, <1>7, <1>8, NextFile

LEMMA SameChain ==
  ASSUME ChainInv, Steady, UNCHANGED job
  PROVE  ChainInv'
BY SetsAreSteady DEF ChainInv, Loading, Climbing, Base

LEMMA OutOfLoad ==
  ASSUME job' = Idle
  PROVE  ~Loading' /\ ~Climbing'
BY DEF Idle, Loading, Climbing

LEMMA ChainStays ==
  ASSUME ContentsAre, JobTypes, StageInv, IndexInv, LoadingInv, ChainInv, InheritedInv, SiteNext
  PROVE  ChainInv'
<1>1. Steady /\ Templates' = Templates /\ LoadingInv' /\ JobTypes'
  BY FilesAreSteady, SetsAreSteady, LoadingStays, LoadsWell
<1>2. ASSUME job' = Idle PROVE ChainInv'
  BY <1>2, OutOfLoad DEF ChainInv
<1>3. ASSUME Begins PROVE ChainInv'
  <2>1. job'.stage = "find"
    BY <1>3 DEF Begins, Begin, Idle
  <2>2. QED
    BY <2>1 DEF ChainInv, Loading
<1>4. ASSUME Finds, job' # Idle PROVE ChainInv'
  <2>1. PICK found : job' = [job EXCEPT !.stage = "files", !.base = found]
    BY <1>4 DEF Finds
  <2>2. job'.stage = "files" /\ job'.next = job.next /\ job'.data = job.data
    BY <2>1, JobFieldsAre DEF JobTypes
  <2>3. job.next = 1 /\ job.data.layers = <<>>
    BY <1>4 DEF Finds, StageInv, Loading, Fresh, Blank
  <2>4. Loading' /\ ~Climbing'
    BY <2>2 DEF Loading, Climbing
  <2>5. Base' \in BaseFiles'
    BY <1>1, <2>4 DEF LoadingInv
  <2>6. BaseFiles' = BaseFiles
    BY <1>1, SetsAreSteady
  <2>7. Order(Base') \in Nat /\ Order(Base') >= 1
    <3> DEFINE b == Base'
    <3>1. b \in SiteFiles
      BY <2>5, <2>6 DEF BaseFiles
    <3> HIDE DEF b
    <3>2. Order(b) \in 1 .. Len(Trusted)
      BY <3>1, SiteFileIs
    <3>3. QED
      BY <3>2, SMT DEF b
  <2>8. ~(job'.next > Order(Base'))
    BY <2>2, <2>3, <2>7, SMT
  <2>9. QED
    BY <1>1, <2>2, <2>3, <2>4, <2>8, NoChain DEF ChainInv
<1>5. ASSUME Skips PROVE ChainInv'
  <2>1. /\ job'.stage = "files" /\ job'.next = job.next + 1 /\ job'.data = job.data
        /\ job'.base = job.base /\ Loading /\ job.next <= Len(Directories) /\ ~There(AtHand)
    BY <1>5, JobFieldsAre DEF Skips, JobTypes, Loading
  <2>2. Base' = Base /\ Loading' /\ ~Climbing'
    BY <2>1 DEF Base, Loading, Climbing
  <2>3. job.next # Order(Base)
    BY <2>1, AtHandIs, BaseIs
  <2>4. /\ job.next + 1 <= Order(Base) => job.next <= Order(Base)
        /\ job.next + 1 > Order(Base) => job.next > Order(Base)
    BY <2>1, <2>3, NextFile, SMT
  <2>5. QED
    BY <1>1, <2>1, <2>2, <2>4 DEF ChainInv
<1>6. ASSUME Merges PROVE ChainInv'
  <2>1. /\ IsLayer(Layer(AtHand)) /\ Source(Layer(AtHand)) = AtHand /\ job.read = <<>>
        /\ job' = Merged(Layer(AtHand)) /\ Loading /\ job.next <= Len(Directories)
        /\ AtHand \in Present
    BY <1>6, LayerIsRead, PresentIs DEF Merges, HasFile, StageInv, Loading
  <2>2. QED
    BY <1>1, <2>1, MergedChain
<1>7. ASSUME MergesOwn PROVE ChainInv'
  <2>1. PICK y \in job.own : job' = Merged(y)
    BY <1>7 DEF MergesOwn
  <2>2. /\ IsLayer(y) /\ Source(y) = AtHand /\ job.read = <<>> /\ Loading
        /\ job.next <= Len(Directories) /\ AtHand \in Present
    BY <1>7, <2>1 DEF MergesOwn, JobTypes, StageInv, Climbing, Loading
  <2>3. QED
    BY <1>1, <2>1, <2>2, MergedChain
<1>8. ASSUME Inherits PROVE ChainInv'
  <2>1. /\ job'.stage = "parent" /\ job'.next = job.next /\ job'.data = job.data
        /\ job'.base = job.base /\ Loading /\ job'.read = job.read
    BY <1>8, JobFieldsAre DEF Inherits, HasFile, JobTypes, Loading
  <2>2. Base' = Base /\ Loading' /\ Climbing'
    BY <2>1 DEF Base, Loading, Climbing
  <2>3. job.data.layers = <<>> /\ job.read = <<>>
    BY <1>8 DEF Inherits, HasFile, IsBase, StageInv
  <2>4. ~(job.next > Order(Base))
    BY <2>1, <2>3, NoChain DEF ChainInv
  <2>5. job.next <= Order(Base)
    BY <2>1, <2>4, NextFile
  <2>6. QED
    BY <1>1, <2>1, <2>2, <2>3, <2>4, <2>5, NoChain, SeqEmpty DEF ChainInv
<1>9. ASSUME Reuses PROVE ChainInv'
  <2>1. /\ job'.stage = "unwind" /\ job'.next = job.next /\ job'.data = inherited[Parent]
        /\ job'.base = job.base /\ Climbing /\ Loading /\ job'.read = job.read
    BY <1>9, JobFieldsAre DEF Reuses, JobTypes, Loading, Climbing
  <2>2. Base' = Base /\ Loading' /\ Climbing'
    BY <2>1 DEF Base, Loading, Climbing
  <2>3. AllOf(inherited[Parent].layers, Templates)
    BY <1>9 DEF Reuses, InheritedInv
  <2>4. job.next <= Order(Base) /\ ~(job.next > Order(Base))
    BY <2>1, NextFile DEF ChainInv
  <2>5. QED
    BY <1>1, <2>1, <2>2, <2>3, <2>4 DEF ChainInv
<1>10. ASSUME ReadsOne PROVE ChainInv'
  <2>1. /\ job'.stage = (IF ParentsOf(Parent) = {} THEN "unwind" ELSE "parent")
        /\ job'.next = job.next /\ job'.data = job.data
        /\ job'.base = job.base /\ Climbing /\ Loading /\ job'.read = <<Layer(Parent)>> \o job.read
    BY <1>10, JobFieldsAre DEF ReadsOne, JobTypes, Loading, Climbing
  <2>2. Base' = Base /\ Loading' /\ Climbing'
    BY <2>1 DEF Base, Loading, Climbing
  <2>3. Source(Layer(Parent)) = Parent /\ Parent \in Templates
    <3>1. There(Parent)
      BY <1>10, ParentIs DEF ReadsOne
    <3>2. Content(Parent).kind \in {"Site", "SiteTemplate"}
      BY <3>1, ContentIs DEF IsContent
    <3>3. QED
      BY <1>10, <3>1, <3>2, LayerIsRead, PresentIs DEF ReadsOne, IsTemplate
  <2>4. \A i \in DOMAIN job'.read : Source(job'.read[i]) \in Templates
    <3>1. IsSeq(job.read) /\ \A i \in DOMAIN job.read : Source(job.read[i]) \in Templates
      BY <2>1 DEF ChainInv, JobTypes
    <3>2. QED
      BY <2>1, <2>3, <3>1, SeqCons
  <2>5. QED
    BY <1>1, <2>1, <2>2, <2>4 DEF ChainInv
<1>11. ASSUME Unwinds PROVE ChainInv'
  <2>1. /\ job'.stage = "unwind" /\ job'.next = job.next
        /\ job'.data = Stack(job.data, Head(job.read))
        /\ job'.base = job.base /\ Climbing /\ Loading /\ job'.read = Tail(job.read)
        /\ job.read # <<>>
    BY <1>11, UnwindDoes DEF Unwinds, Loading, Climbing
  <2>2. Base' = Base /\ Loading' /\ Climbing'
    BY <2>1 DEF Base, Loading, Climbing
  <2> DEFINE y == Head(job.read)
             l == y.layers[1]
  <2>3. IsLayer(y) /\ Source(y) \in Templates
    BY <2>1, HeadIs DEF ChainInv
  <2>4. l \in LayerEntry /\ l.place \in Templates
    BY <2>3, LayerIs
  <2>5. job.data.layers \in Seq(LayerEntry) /\ job'.data.layers = Append(job.data.layers, l)
    BY <2>1, <2>3, StackIs DEF JobTypes, IsData
  <2>6. job.next <= Order(Base) /\ ~(job.next > Order(Base)) /\ AllOf(job.data.layers, Templates)
    BY <2>1, NextFile DEF ChainInv
  <2> HIDE DEF l
  <2>7. AllOf(job'.data.layers, Templates)
    BY <2>4, <2>5, <2>6, AllOfMore
  <2>8. \A i \in DOMAIN job'.read : Source(job'.read[i]) \in Templates
    BY <2>1, HeadIs DEF ChainInv
  <2>9. QED
    BY <1>1, <2>1, <2>2, <2>6, <2>7, <2>8 DEF ChainInv
<1>12. ASSUME Edits PROVE ChainInv'
  BY <1>1, <1>12, EditIs, SameChain DEF Edits
<1>13. ASSUME Rests PROVE ChainInv'
  BY <1>1, <1>2, <1>13, SameChain DEF Rests
<1>14. QED
  BY <1>2, <1>3, <1>4, <1>5, <1>6, <1>7, <1>8, <1>9, <1>10, <1>11, <1>12, <1>13, Moves
     DEF Finishes

-------------------------------------------------------------------------------
(* The name of a Site *)

LEMMA NoNamesIsSteady ==
  ASSUME Steady
  PROVE  NoTemplateNames' <=> NoTemplateNames
BY SetsAreSteady DEF NoTemplateNames

LEMMA NoNameTaken ==
  ASSUME TakesInv, ~InheritedNames, ~NoTemplateNames, Loading, LoadingInv, NameOf[Base] = {}
  PROVE  Content(Base).inherits = {} /\ \A t \in Templates : t.rel # Base.rel
<1>1. PICK t \in Templates : NameOf[t] # {}
  BY DEF NoTemplateNames
<1>2. \E p \in Places : IsTemplate(p) /\ Content(p).name # {}
  BY <1>1, PresentIs DEF Templates
<1>3. Base \in SiteFiles /\ Content(Base).name = {}
  BY BaseIs, PresentIs
<1>4. \A p \in SiteFiles : Content(p).name = {} =>
        ~(Content(p).inherits # {} \/ \E s \in Places : IsTemplate(s) /\ s.rel = p.rel)
  BY <1>2 DEF TakesInv, TakesName
<1>5. QED
  BY <1>3, <1>4 DEF Templates

LEMMA NameIsOne ==
  ASSUME ContentsAre, NEW p \in Present, NameOf[p] # {}
  PROVE  \E n : NameOf[p] = {n}
BY PresentIs, NamesAreOne

LEMMA MergedName ==
  ASSUME ContentsAre, JobTypes, StageInv, LoadingInv, NamesInv, TakesInv, Loading, Steady,
         job.next <= Len(Directories), AtHand \in Present, job.read = <<>>,
         NEW y, IsLayer(y), Source(y) = AtHand, y.name = NameOf[AtHand], job' = Merged(y),
         job.next > Order(Base) => y.name \subseteq NameSoFar
  PROVE  NamesInv'
<1> DEFINE was == job.data.name
           is == job'.data.name
           own == NameOf[Base]
           base == {Basename(Canonical)}
<1>1. is = IF y.name # {} THEN y.name ELSE was
  BY StackIs, MergedDoes DEF JobTypes
<1>2. /\ job'.next = job.next + 1 /\ Base' = Base /\ Canonical' = Canonical /\ Loading' /\ ~Climbing'
      /\ job'.own = {} /\ DOMAIN job'.read = {}
  BY MergedDoes, SeqEmpty DEF Base, Canonical, Loading, Climbing
<1>3. NameOf' = NameOf /\ (NoTemplateNames' <=> NoTemplateNames)
  BY SetsAreSteady, NoNamesIsSteady
<1>4. /\ job.next > Order(Base) /\ own # {} => was = own
      /\ ~InheritedNames /\ own = {} =>
           /\ job.next <= Order(Base) => was = {}
           /\ job.next > Order(Base) => was \subseteq base
      /\ job.next <= Order(Base) /\ NoTemplateNames => was = {}
  BY DEF NamesInv
<1>5. SUFFICES /\ job.next + 1 > Order(Base) /\ own # {} => is = own
               /\ ~InheritedNames /\ own = {} =>
                    /\ job.next + 1 <= Order(Base) => is = {}
                    /\ job.next + 1 > Order(Base) => is \subseteq base
               /\ job.next + 1 <= Order(Base) /\ NoTemplateNames => is = {}
  BY <1>2, <1>3, Zenon DEF NamesInv
<1>6. CASE job.next < Order(Base)
  <2>1. AtHand \in Templates /\ AtHand.rel = Base.rel
    BY <1>6, AtHandIs, BaseIs
  <2>2. NoTemplateNames => y.name = {}
    BY <2>1 DEF NoTemplateNames
  <2>3. ~InheritedNames /\ own = {} => NoTemplateNames
    BY <2>1, NoNameTaken
  <2>4. job.next <= Order(Base) /\ ~(job.next + 1 > Order(Base))
    BY <1>6, NextFile, SMT
  <2> HIDE DEF was, is, own, base
  <2>5. QED
    BY <1>1, <1>4, <2>2, <2>3, <2>4
<1>7. CASE job.next = Order(Base)
  <2>1. y.name = own
    BY <1>7, AtHandIs
  <2>2. job.next <= Order(Base) /\ ~(job.next + 1 <= Order(Base))
    BY <1>7, NextFile, SMT
  <2> HIDE DEF was, is, own, base
  <2>3. QED
    BY <1>1, <1>4, <2>1, <2>2
<1>8. CASE job.next > Order(Base)
  <2>1. y.name \subseteq (IF was # {} THEN was ELSE base)
    BY <1>8 DEF NameSoFar
  <2>2. ~(job.next + 1 <= Order(Base))
    BY <1>8, NextFile, SMT
  <2>3. own # {} => \E n : own = {n}
    BY NameIsOne, BaseIs
  <2> HIDE DEF was, is, own, base
  <2>4. own # {} => is = own
    BY <1>1, <1>4, <1>8, <2>1, <2>3
  <2>5. ~InheritedNames /\ own = {} => is \subseteq base
    BY <1>1, <1>4, <1>8, <2>1
  <2>6. QED
    BY <2>2, <2>4, <2>5
<1>9. QED
  BY <1>6, <1>7, <1>8, NextFile

LEMMA SameName ==
  ASSUME NamesInv, Steady, UNCHANGED job
  PROVE  NamesInv'
BY SetsAreSteady, NoNamesIsSteady DEF NamesInv, Loading, Climbing, Base, Canonical

LEMMA NamesStay ==
  ASSUME ContentsAre, JobTypes, StageInv, IndexInv, LoadingInv, ChainInv, NamesInv, InheritedInv,
         TakesInv, SiteNext
  PROVE  NamesInv'
<1>1. Steady /\ NameOf' = NameOf /\ (NoTemplateNames' <=> NoTemplateNames) /\ LoadingInv'
  BY FilesAreSteady, SetsAreSteady, NoNamesIsSteady, LoadingStays
<1>2. ASSUME job' = Idle PROVE NamesInv'
  BY <1>2, OutOfLoad DEF NamesInv
<1>3. ASSUME Begins PROVE NamesInv'
  <2>1. job'.stage = "find"
    BY <1>3 DEF Begins, Begin, Idle
  <2>2. QED
    BY <2>1 DEF NamesInv, Loading
<1>4. ASSUME Finds, job' # Idle PROVE NamesInv'
  <2>1. PICK found : job' = [job EXCEPT !.stage = "files", !.base = found]
    BY <1>4 DEF Finds
  <2>2. /\ job'.stage = "files" /\ job'.next = job.next /\ job'.data = job.data
        /\ job'.own = job.own /\ job'.read = job.read
    BY <2>1, JobFieldsAre DEF JobTypes
  <2>3. job.next = 1 /\ job.data.name = {} /\ job.own = {} /\ DOMAIN job.read = {}
    BY <1>4, SeqEmpty DEF Finds, StageInv, Loading, Fresh, Blank
  <2>4. Loading' /\ ~Climbing'
    BY <2>2 DEF Loading, Climbing
  <2>5. Base' \in BaseFiles'
    BY <1>1, <2>4 DEF LoadingInv
  <2>6. BaseFiles' = BaseFiles
    BY <1>1, SetsAreSteady
  <2>7. Order(Base') \in Nat /\ Order(Base') >= 1
    <3> DEFINE b == Base'
    <3>1. b \in SiteFiles
      BY <2>5, <2>6 DEF BaseFiles
    <3> HIDE DEF b
    <3>2. Order(b) \in 1 .. Len(Trusted)
      BY <3>1, SiteFileIs
    <3>3. QED
      BY <3>2, SMT DEF b
  <2>8. ~(job'.next > Order(Base'))
    BY <2>2, <2>3, <2>7, SMT
  <2>9. QED
    BY <1>1, <2>2, <2>3, <2>4, <2>8 DEF NamesInv
<1>5. ASSUME Skips PROVE NamesInv'
  <2>1. /\ job'.stage = "files" /\ job'.next = job.next + 1 /\ job'.data = job.data
        /\ job'.own = job.own /\ job'.read = job.read
        /\ job'.base = job.base /\ Loading /\ job.next <= Len(Directories) /\ ~There(AtHand)
    BY <1>5, JobFieldsAre DEF Skips, JobTypes, Loading
  <2>2. Base' = Base /\ Canonical' = Canonical /\ Loading' /\ ~Climbing'
    BY <2>1 DEF Base, Canonical, Loading, Climbing
  <2>3. job.next # Order(Base)
    BY <2>1, AtHandIs, BaseIs
  <2>4. /\ job.next + 1 <= Order(Base) => job.next <= Order(Base)
        /\ job.next + 1 > Order(Base) => job.next > Order(Base)
    BY <2>1, <2>3, NextFile, SMT
  <2>5. QED
    BY <1>1, <2>1, <2>2, <2>4 DEF NamesInv
<1>6. ASSUME Merges PROVE NamesInv'
  <2>1. /\ IsLayer(Layer(AtHand)) /\ Source(Layer(AtHand)) = AtHand /\ job.read = <<>>
        /\ job' = Merged(Layer(AtHand)) /\ Loading /\ job.next <= Len(Directories)
        /\ AtHand \in Present /\ Layer(AtHand).name = NameOf[AtHand]
    BY <1>6, LayerIsRead, PresentIs DEF Merges, HasFile, StageInv, Loading
  <2>2. job.next > Order(Base) => Layer(AtHand).name \subseteq NameSoFar
    <3>1. CASE IsBase
      BY <2>1, <3>1, NoChain DEF IsBase, ChainInv
    <3>2. CASE ~IsBase
      BY <1>6, <2>1, <3>2, PresentIs DEF Merges
    <3>3. QED
      BY <3>1, <3>2
  <2>3. QED
    BY <1>1, <2>1, <2>2, MergedName
<1>7. ASSUME MergesOwn PROVE NamesInv'
  <2>1. PICK y \in job.own : job' = Merged(y)
    BY <1>7 DEF MergesOwn
  <2>2. /\ IsLayer(y) /\ Source(y) = AtHand /\ job.read = <<>> /\ Loading
        /\ job.next <= Len(Directories) /\ AtHand \in Present /\ Climbing
    BY <1>7, <2>1 DEF MergesOwn, JobTypes, StageInv, Climbing, Loading
  <2>3. y.name = NameOf[AtHand]
    BY <2>1, <2>2 DEF NamesInv
  <2>4. ~(job.next > Order(Base))
    BY <2>2, NextFile DEF ChainInv
  <2>5. QED
    BY <1>1, <2>1, <2>2, <2>3, <2>4, MergedName
<1>8. ASSUME Inherits PROVE NamesInv'
  <2>1. /\ job'.stage = "parent" /\ job'.next = job.next /\ job'.data = job.data
        /\ job'.base = job.base /\ Loading /\ job'.read = job.read /\ ~Climbing
        /\ job'.own = {Layer(AtHand)} /\ job.next <= Len(Directories) /\ There(AtHand)
        /\ Content(AtHand).inherits # {}
    BY <1>8, JobFieldsAre DEF Inherits, HasFile, JobTypes, Loading, Climbing
  <2>2. Base' = Base /\ Canonical' = Canonical /\ Loading' /\ Climbing'
    BY <2>1 DEF Base, Canonical, Loading, Climbing
  <2>3. job.data.layers = <<>> /\ DOMAIN job.read = {}
    BY <1>8, SeqEmpty DEF Inherits, HasFile, IsBase, StageInv
  <2>4. ~(job.next > Order(Base)) /\ (job.next < Order(Base) \/ job.next = Order(Base))
    BY <2>1, <2>3, NoChain, NextFile DEF ChainInv
  <2>5. Layer(AtHand).name = NameOf[AtHand] /\ Source(Layer(AtHand)) = AtHand /\ AtHand \in Present
    BY <2>1, LayerIsRead, PresentIs
  <2>6. ~InheritedNames /\ NameOf[Base] = {} => NoTemplateNames
    <3>1. CASE job.next = Order(Base)
      BY <2>1, <3>1, AtHandIs, NoNameTaken
    <3>2. CASE job.next < Order(Base)
      BY <2>1, <2>5, <3>2, AtHandIs, BaseIs, NoNameTaken
    <3>3. QED
      BY <2>4, <3>1, <3>2
  <2>7. QED
    BY <1>1, <2>1, <2>2, <2>3, <2>4, <2>5, <2>6 DEF NamesInv
<1>9. ASSUME Reuses PROVE NamesInv'
  <2>1. /\ job'.stage = "unwind" /\ job'.next = job.next /\ job'.data = inherited[Parent]
        /\ job'.base = job.base /\ Climbing /\ Loading /\ job'.read = job.read
        /\ job'.own = job.own
    BY <1>9, JobFieldsAre DEF Reuses, JobTypes, Loading, Climbing
  <2>2. Base' = Base /\ Canonical' = Canonical /\ Loading' /\ Climbing'
    BY <2>1 DEF Base, Canonical, Loading, Climbing
  <2>3. NoTemplateNames => inherited[Parent].name = {}
    BY <1>9 DEF Reuses, InheritedInv
  <2>4. ~(job.next > Order(Base))
    BY <2>1, NextFile DEF ChainInv
  <2>5. QED
    BY <1>1, <2>1, <2>2, <2>3, <2>4 DEF NamesInv
<1>10. ASSUME ReadsOne PROVE NamesInv'
  <2>1. /\ job'.stage = (IF ParentsOf(Parent) = {} THEN "unwind" ELSE "parent")
        /\ job'.next = job.next /\ job'.data = job.data /\ job'.own = job.own
        /\ job'.base = job.base /\ Climbing /\ Loading /\ job'.read = <<Layer(Parent)>> \o job.read
    BY <1>10, JobFieldsAre DEF ReadsOne, JobTypes, Loading, Climbing
  <2>2. Base' = Base /\ Canonical' = Canonical /\ Loading' /\ Climbing'
    BY <2>1 DEF Base, Canonical, Loading, Climbing
  <2>3. Source(Layer(Parent)) = Parent /\ Layer(Parent).name = NameOf[Parent]
    BY <1>10, ParentIs, LayerIsRead, PresentIs DEF ReadsOne
  <2>4. \A i \in DOMAIN job'.read : job'.read[i].name = NameOf[Source(job'.read[i])]
    <3>1. IsSeq(job.read) /\ \A i \in DOMAIN job.read : job.read[i].name = NameOf[Source(job.read[i])]
      BY <2>1 DEF NamesInv, JobTypes
    <3>2. QED
      BY <2>1, <2>3, <3>1, SeqCons
  <2>5. QED
    BY <1>1, <2>1, <2>2, <2>4 DEF NamesInv
<1>11. ASSUME Unwinds PROVE NamesInv'
  <2>1. /\ job'.stage = "unwind" /\ job'.next = job.next /\ job'.own = job.own
        /\ job'.data = Stack(job.data, Head(job.read))
        /\ job'.base = job.base /\ Climbing /\ Loading /\ job'.read = Tail(job.read)
        /\ job.read # <<>>
    BY <1>11, UnwindDoes DEF Unwinds, Loading, Climbing
  <2>2. Base' = Base /\ Canonical' = Canonical /\ Loading' /\ Climbing'
    BY <2>1 DEF Base, Canonical, Loading, Climbing
  <2> DEFINE y == Head(job.read)
  <2>3. IsLayer(y) /\ Source(y) \in Templates /\ y.name = NameOf[Source(y)]
    BY <2>1, HeadIs DEF ChainInv, NamesInv
  <2>4. NoTemplateNames => y.name = {}
    BY <2>3 DEF NoTemplateNames
  <2>5. job'.data.name = IF y.name # {} THEN y.name ELSE job.data.name
    BY <2>1, <2>3, StackIs DEF JobTypes
  <2>6. ~(job.next > Order(Base)) /\ job.next <= Order(Base)
    BY <2>1, NextFile DEF ChainInv
  <2>7. \A i \in DOMAIN job'.read : job'.read[i].name = NameOf[Source(job'.read[i])]
    BY <2>1, HeadIs DEF NamesInv
  <2> HIDE DEF y
  <2>8. QED
    BY <1>1, <2>1, <2>2, <2>4, <2>5, <2>6, <2>7 DEF NamesInv
<1>12. ASSUME Edits PROVE NamesInv'
  BY <1>1, <1>12, EditIs, SameName DEF Edits
<1>13. ASSUME Rests PROVE NamesInv'
  BY <1>1, <1>2, <1>13, SameName DEF Rests
<1>14. QED
  BY <1>2, <1>3, <1>4, <1>5, <1>6, <1>7, <1>8, <1>9, <1>10, <1>11, <1>12, <1>13, Moves
     DEF Finishes

-------------------------------------------------------------------------------
(* What is kept of the templates *)

LEMMA UnwindCaches ==
  ASSUME JobTypes, ReadInv, Unwinds, ~job.explain
  PROVE  LET y == Head(job.read)
         IN  /\ IsLayer(y) /\ Source(y) \notin DOMAIN inherited
             /\ DOMAIN inherited' = DOMAIN inherited \cup {Source(y)}
             /\ inherited'[Source(y)] = Stack(job.data, y)
             /\ \A p \in DOMAIN inherited : inherited'[p] = inherited[p]
<1> DEFINE y == Head(job.read)
<1>1. job.stage = "unwind" /\ job.read # <<>>
  BY DEF Unwinds
<1>2. IsLayer(y) /\ Source(y) \notin DOMAIN inherited
  BY <1>1, HeadIs DEF ReadInv, Climbing
<1>3. inherited' = [p \in DOMAIN inherited \cup {Source(y)} |->
                      IF p = Source(y) THEN Stack(job.data, y) ELSE inherited[p]]
  BY DEF Unwinds
<1> HIDE DEF y
<1>4. QED
  BY <1>2, <1>3 DEF y

LEMMA KeptGrows ==
  ASSUME NEW l, NEW merged, NEW more, IsKept(l, merged), DOMAIN merged \subseteq DOMAIN more,
         \A p \in DOMAIN merged : more[p] = merged[p]
  PROVE  IsKept(l, more)
BY DEF IsKept

LEMMA InheritedStays ==
  ASSUME JobTypes, ReadInv, SiteNext
  PROVE  \/ inherited' = inherited
         \/ DOMAIN inherited \subseteq DOMAIN inherited'
            /\ \A p \in DOMAIN inherited : inherited'[p] = inherited[p]
<1>1. inherited' = inherited \/ (Unwinds /\ ~job.explain)
  BY Moves, Zenon DEF Rests, Begins, Finds, Skips, Merges, Inherits, Reuses, ReadsOne, Unwinds,
     MergesOwn, Finishes, Edits, EditFile, KeepCaches, cacheVars
<1>2. QED
  BY <1>1, UnwindCaches

LEMMA KeptStays ==
  ASSUME JobTypes, ReadInv, SiteNext, NEW l, IsKept(l, inherited)
  PROVE  IsKept(l, inherited')
BY InheritedStays, KeptGrows

(* The layers of one more template: all of them are kept.                  *)
LEMMA UnwindKeeps ==
  ASSUME JobTypes, ReadInv, Unwinds, ~job.explain
  PROVE  LET layers == Stack(job.data, Head(job.read)).layers
         IN  \A i \in DOMAIN layers : IsKept(layers[i], inherited')
<1> DEFINE y == Head(job.read)
           l == y.layers[1]
           L == job.data.layers
           N == Append(L, l)
<1>1. /\ IsLayer(y) /\ Source(y) \notin DOMAIN inherited
      /\ DOMAIN inherited' = DOMAIN inherited \cup {Source(y)}
      /\ inherited'[Source(y)] = Stack(job.data, y)
      /\ \A p \in DOMAIN inherited : inherited'[p] = inherited[p]
  BY UnwindCaches
<1>2. l \in LayerEntry /\ l.place = Source(y)
  BY <1>1, LayerIs
<1>3. Stack(job.data, y).layers = N /\ L \in Seq(LayerEntry)
  BY <1>1, StackIs DEF JobTypes, IsData
<1>4. \A i \in DOMAIN L : IsKept(L[i], inherited)
  BY DEF ReadInv, Unwinds, Climbing
<1> HIDE DEF y, l, L
<1>5. /\ N[Len(N)] = l
      /\ \A i \in DOMAIN N : (i \in DOMAIN L /\ N[i] = L[i]) \/ N[i] = l
  BY <1>2, <1>3, SMT
<1> HIDE DEF N
<1>6. IsKept(l, inherited')
  BY <1>1, <1>2, <1>3, <1>5 DEF IsKept
<1>7. \A i \in DOMAIN L : IsKept(L[i], inherited')
  <2>1. TAKE i \in DOMAIN L
  <2>2. DOMAIN inherited \subseteq DOMAIN inherited'
    BY <1>1
  <2>3. QED
    BY <1>1, <1>4, <2>2, KeptGrows
<1>8. QED
  BY <1>3, <1>5, <1>6, <1>7 DEF y

LEMMA InheritedStaysWell ==
  ASSUME ContentsAre, JobTypes, StageInv, LoadingInv, ChainInv, NamesInv, InheritedInv, ReadInv, SiteNext
  PROVE  InheritedInv'
<1>1. Steady /\ Templates' = Templates /\ (NoTemplateNames' <=> NoTemplateNames)
  BY FilesAreSteady, SetsAreSteady, NoNamesIsSteady
<1>2. CASE inherited' = inherited
  BY <1>1, <1>2 DEF InheritedInv
<1>3. CASE Unwinds /\ ~job.explain
  <2> DEFINE y == Head(job.read)
             d == Stack(job.data, y)
  <2>1. /\ IsLayer(y) /\ Source(y) \notin DOMAIN inherited
        /\ DOMAIN inherited' = DOMAIN inherited \cup {Source(y)}
        /\ inherited'[Source(y)] = d
        /\ \A p \in DOMAIN inherited : inherited'[p] = inherited[p]
    BY <1>3, UnwindCaches
  <2>2. Climbing /\ Loading /\ job.read # <<>>
    BY <1>3 DEF Unwinds, Climbing, Loading
  <2>3. IsData(d)
    BY <2>1, StackDecides DEF JobTypes
  <2>4. /\ job.next <= Order(Base) /\ AllOf(job.data.layers, Templates)
        /\ Source(y) \in Templates /\ y.name = NameOf[Source(y)]
        /\ NoTemplateNames => job.data.name = {}
    BY <2>2, HeadIs DEF ChainInv, NamesInv
  <2>5. AllOf(d.layers, Templates)
    <3>1. y.layers[1] \in LayerEntry /\ y.layers[1].place \in Templates
      BY <2>1, <2>4, LayerIs
    <3>2. job.data.layers \in Seq(LayerEntry) /\ d.layers = Append(job.data.layers, y.layers[1])
      BY <2>1, StackIs DEF JobTypes, IsData
    <3>3. QED
      BY <2>4, <3>1, <3>2, AllOfMore
  <2>6. NoTemplateNames => d.name = {}
    <3>1. d.name = IF y.name # {} THEN y.name ELSE job.data.name
      BY <2>1, StackIs DEF JobTypes
    <3>2. QED
      BY <2>4, <3>1 DEF NoTemplateNames
  <2>7. \A i \in DOMAIN d.layers : IsKept(d.layers[i], inherited')
    BY <1>3, UnwindKeeps
  <2> HIDE DEF y, d
  <2>8. ASSUME NEW p \in DOMAIN inherited
        PROVE  /\ IsData(inherited[p]) /\ AllOf(inherited[p].layers, Templates)
               /\ NoTemplateNames => inherited[p].name = {}
               /\ \A i \in DOMAIN inherited[p].layers : IsKept(inherited[p].layers[i], inherited')
    <3>1. \A i \in DOMAIN inherited[p].layers : IsKept(inherited[p].layers[i], inherited)
      BY DEF InheritedInv
    <3>2. DOMAIN inherited \subseteq DOMAIN inherited'
      BY <2>1
    <3>3. \A i \in DOMAIN inherited[p].layers : IsKept(inherited[p].layers[i], inherited')
      BY <2>1, <3>1, <3>2, KeptGrows
    <3>4. QED
      BY <3>3 DEF InheritedInv
  <2>9. QED
    BY <1>1, <2>1, <2>3, <2>5, <2>6, <2>7, <2>8 DEF InheritedInv
<1>4. QED
  <2>1. inherited' = inherited \/ (Unwinds /\ ~job.explain)
    BY Moves, Zenon DEF Rests, Begins, Finds, Skips, Merges, Inherits, Reuses, ReadsOne, Unwinds,
       MergesOwn, Finishes, Edits, EditFile, KeepCaches, cacheVars
  <2>2. QED
    BY <1>2, <1>3, <2>1

(* A layer of a load is kept, or is of the Site's own path.                *)
LEMMA MergedRead ==
  ASSUME JobTypes, ReadInv, LoadingInv, Loading, job.next <= Len(Directories),
         NEW y, IsLayer(y), Source(y) = AtHand, job' = Merged(y), inherited' = inherited
  PROVE  ReadInv'
<1> DEFINE l == y.layers[1]
           L == job.data.layers
           N == Append(L, l)
<1>1. l \in LayerEntry /\ l.place = AtHand /\ l.place.rel = Canonical
  BY LayerIs, AtHandIs
<1>2. L \in Seq(LayerEntry) /\ job'.data.layers = N
  BY StackIs, MergedDoes DEF JobTypes, IsData
<1>3. Canonical' = Canonical /\ ~Climbing' /\ job'.explain = job.explain
  BY MergedDoes DEF Base, Canonical, Climbing
<1> HIDE DEF l, L
<1>4. \A i \in DOMAIN N : (i \in DOMAIN L /\ N[i] = L[i]) \/ N[i] = l
  BY <1>1, <1>2, SMT
<1> HIDE DEF N
<1>5. ~job.explain => \A i \in DOMAIN L : IsKept(L[i], inherited) \/ L[i].place.rel = Canonical
  BY DEF ReadInv, L
<1>6. QED
  BY <1>1, <1>2, <1>3, <1>4, <1>5 DEF ReadInv

LEMMA ReadStays ==
  ASSUME ContentsAre, JobTypes, StageInv, LoadingInv, ChainInv, InheritedInv, ReadInv, SiteNext
  PROVE  ReadInv'
<1>1. Blank.layers = <<>> /\ DOMAIN <<>> = {}
  BY SeqEmpty DEF Blank
<1>2. ASSUME job' = Idle PROVE ReadInv'
  <2>1. ~Climbing' /\ job'.data = Blank
    BY <1>2 DEF Idle, Climbing
  <2>2. QED
    BY <1>1, <2>1 DEF ReadInv
<1>3. ASSUME Begins PROVE ReadInv'
  <2>1. ~Climbing' /\ job'.data = Blank
    BY <1>3 DEF Begins, Begin, Idle, Climbing
  <2>2. QED
    BY <1>1, <2>1 DEF ReadInv
<1>4. ASSUME Finds, job' # Idle PROVE ReadInv'
  <2>1. PICK found : job' = [job EXCEPT !.stage = "files", !.base = found]
    BY <1>4 DEF Finds
  <2>2. ~Climbing' /\ job'.data = job.data /\ job.data = Blank
    BY <1>4, <2>1, JobFieldsAre DEF JobTypes, Climbing, Finds, StageInv, Loading, Fresh
  <2>3. QED
    BY <1>1, <2>2 DEF ReadInv
<1>5. ASSUME Skips PROVE ReadInv'
  <2>1. /\ job'.stage = "files" /\ job'.data = job.data /\ job'.base = job.base
        /\ job'.explain = job.explain /\ inherited' = inherited
    BY <1>5, JobFieldsAre DEF Skips, JobTypes, KeepCaches, cacheVars
  <2>2. Canonical' = Canonical /\ ~Climbing'
    BY <2>1 DEF Base, Canonical, Climbing
  <2>3. QED
    BY <2>1, <2>2 DEF ReadInv
<1>6. ASSUME Merges PROVE ReadInv'
  <2>1. /\ IsLayer(Layer(AtHand)) /\ Source(Layer(AtHand)) = AtHand
        /\ job' = Merged(Layer(AtHand)) /\ Loading /\ job.next <= Len(Directories)
        /\ inherited' = inherited
    BY <1>6, LayerIsRead DEF Merges, HasFile, Loading, KeepCaches, cacheVars
  <2>2. QED
    BY <2>1, MergedRead
<1>7. ASSUME MergesOwn PROVE ReadInv'
  <2>1. PICK y \in job.own : job' = Merged(y)
    BY <1>7 DEF MergesOwn
  <2>2. /\ IsLayer(y) /\ Source(y) = AtHand /\ Loading
        /\ job.next <= Len(Directories) /\ inherited' = inherited
    BY <1>7, <2>1 DEF MergesOwn, JobTypes, StageInv, Climbing, Loading, KeepCaches, cacheVars
  <2>3. QED
    BY <2>1, <2>2, MergedRead
<1>8. ASSUME Inherits PROVE ReadInv'
  <2>1. job'.data = job.data /\ job'.read = job.read /\ job.stage = "files"
    BY <1>8, JobFieldsAre DEF Inherits, HasFile, JobTypes
  <2>2. job.data.layers = <<>> /\ job.read = <<>>
    BY <1>8, <2>1 DEF Inherits, IsBase, StageInv
  <2>3. QED
    BY <1>1, <2>1, <2>2 DEF ReadInv
<1>9. ASSUME Reuses PROVE ReadInv'
  <2>1. /\ job'.data = inherited[Parent] /\ Climbing /\ job'.read = job.read /\ job'.seen = job.seen
        /\ job'.explain = job.explain /\ inherited' = inherited /\ Parent \in DOMAIN inherited
    BY <1>9, JobFieldsAre DEF Reuses, JobTypes, Climbing, KeepCaches, cacheVars
  <2>2. \A i \in DOMAIN inherited[Parent].layers : IsKept(inherited[Parent].layers[i], inherited)
    BY <2>1 DEF InheritedInv
  <2>3. QED
    BY <2>1, <2>2 DEF ReadInv
<1>10. ASSUME ReadsOne, ~job.explain PROVE ReadInv'
  <2>1. /\ job'.data = job.data /\ Climbing /\ job'.read = <<Layer(Parent)>> \o job.read
        /\ job'.seen = Append(job.seen, Parent) /\ inherited' = inherited
        /\ Parent \notin DOMAIN inherited /\ Parent \notin ToSet(job.seen) /\ There(Parent)
    BY <1>10, JobFieldsAre, ParentIs DEF ReadsOne, JobTypes, Climbing, KeepCaches, cacheVars
  <2>2. Source(Layer(Parent)) = Parent
    BY <2>1, LayerIsRead
  <2>3. IsSeq(job.read) /\ ToSet(job'.seen) = ToSet(job.seen) \cup {Parent}
    BY <2>1, SeqAppend DEF JobTypes
  <2> DEFINE r == job.read
             n == <<Layer(Parent)>> \o r
  <2>4. /\ \A i \in DOMAIN r : Source(r[i]) \notin DOMAIN inherited /\ Source(r[i]) \in ToSet(job.seen)
        /\ \A i, j \in DOMAIN r : Source(r[i]) = Source(r[j]) => i = j
        /\ \A i \in DOMAIN job.data.layers : IsKept(job.data.layers[i], inherited)
    BY <1>10, <2>1 DEF ReadInv
  <2>5. \A k \in DOMAIN n : \/ k = 1 /\ n[k] = Layer(Parent)
                            \/ k # 1 /\ k - 1 \in DOMAIN r /\ n[k] = r[k - 1]
    BY <2>3, SeqCons
  <2>6. DOMAIN n \subseteq Nat
    <3>1. IsSeq(n)
      BY <2>3, SeqCons
    <3>2. QED
      BY <3>1, SMT DEF IsSeq
  <2> HIDE DEF r, n
  <2>7. \A k \in DOMAIN n : Source(n[k]) \notin DOMAIN inherited /\ Source(n[k]) \in ToSet(job'.seen)
    BY <2>1, <2>2, <2>3, <2>4, <2>5
  <2>8. ASSUME NEW i \in DOMAIN n, NEW j \in DOMAIN n, Source(n[i]) = Source(n[j])
        PROVE  i = j
    <3>1. CASE i = 1 \/ j = 1
      BY <2>1, <2>2, <2>4, <2>5, <2>8, <3>1
    <3>2. CASE i # 1 /\ j # 1
      <4>1. i - 1 = j - 1
        BY <2>4, <2>5, <2>8, <3>2
      <4>2. i \in Nat /\ j \in Nat
        BY <2>6
      <4>3. QED
        BY <4>1, <4>2, SMT
    <3>3. QED
      BY <3>1, <3>2
  <2>9. job'.read = n
    BY <2>1 DEF n, r
  <2>10. QED
    BY <2>1, <2>4, <2>7, <2>8, <2>9 DEF ReadInv
<1>11. ASSUME Unwinds, ~job.explain PROVE ReadInv'
  <2>1. /\ job'.data = Stack(job.data, Head(job.read)) /\ Climbing /\ job'.read = Tail(job.read)
        /\ job'.seen = job.seen /\ job.read # <<>>
    BY <1>11, UnwindDoes DEF Unwinds, Climbing
  <2>2. \A i \in DOMAIN job'.data.layers : IsKept(job'.data.layers[i], inherited')
    BY <1>11, <2>1, UnwindKeeps
  <2>3. DOMAIN inherited' = DOMAIN inherited \cup {Source(Head(job.read))}
    BY <1>11, UnwindCaches
  <2> DEFINE r == job.read
             n == Tail(job.read)
  <2>4. /\ \A i \in DOMAIN r : Source(r[i]) \notin DOMAIN inherited /\ Source(r[i]) \in ToSet(job.seen)
        /\ \A i, j \in DOMAIN r : Source(r[i]) = Source(r[j]) => i = j
    BY <1>11, <2>1 DEF ReadInv
  <2>5. /\ 1 \in DOMAIN r /\ Head(job.read) = r[1]
        /\ \A k \in DOMAIN n : k \in Nat /\ k + 1 \in DOMAIN r /\ k + 1 # 1 /\ n[k] = r[k + 1]
    BY <2>1, HeadIs
  <2> HIDE DEF r, n
  <2>6. \A k \in DOMAIN n : Source(n[k]) \notin DOMAIN inherited' /\ Source(n[k]) \in ToSet(job'.seen)
    BY <2>1, <2>3, <2>4, <2>5
  <2>7. ASSUME NEW i \in DOMAIN n, NEW j \in DOMAIN n, Source(n[i]) = Source(n[j])
        PROVE  i = j
    <3>1. i + 1 = j + 1
      BY <2>4, <2>5, <2>7
    <3>2. i \in Nat /\ j \in Nat
      BY <2>5
    <3>3. QED
      BY <3>1, <3>2, SMT
  <2>8. job'.read = n
    BY <2>1 DEF n
  <2>9. QED
    BY <2>2, <2>6, <2>7, <2>8 DEF ReadInv
<1>12. ASSUME UNCHANGED <<job, inherited>> PROVE ReadInv'
  BY <1>12 DEF ReadInv, Climbing, Canonical, Base
<1>13. ASSUME Edits PROVE ReadInv'
  BY <1>12, <1>13, EditIs DEF Edits, cacheVars
<1>14. ASSUME Rests PROVE ReadInv'
  BY <1>2, <1>12, <1>14 DEF Rests, KeepCaches, cacheVars
<1>15. ASSUME Loading, Loading', job'.explain PROVE ReadInv'
  BY <1>15 DEF ReadInv
<1>16. ASSUME ReadsOne \/ Unwinds, job.explain PROVE ReadInv'
  BY <1>15, <1>16, LoadContinues DEF Continues
<1>17. QED
  BY <1>2, <1>3, <1>4, <1>5, <1>6, <1>7, <1>8, <1>9, <1>10, <1>11, <1>13, <1>14, <1>16, Moves
     DEF Finishes

-------------------------------------------------------------------------------
(* What is cached of the Sites *)

LEMMA DoneIsPast ==
  ASSUME JobTypes, LoadingInv, Done
  PROVE  Loading /\ ~Climbing /\ job.next > Order(Base) /\ ~(job.next <= Order(Base))
<1>1. Loading /\ ~Climbing
  BY DEF Done, Loading, Climbing
<1>2. /\ Order(Base) \in 1 .. Len(Trusted) /\ Len(Trusted) \in Nat
      /\ Len(Directories) = Len(Trusted) + 1
  BY <1>1, BaseIs, DirectoriesAre, SiteAssumption
<1>3. job.next \in Nat /\ job.next > Len(Directories)
  BY DEF Done, JobTypes
<1>4. QED
  BY <1>1, <1>2, <1>3, SMT

(* The name of a Site is its file's own, or else the basename.             *)
LEMMA LoadedName ==
  ASSUME ContentsAre, JobTypes, LoadingInv, NamesInv, Done
  PROVE  /\ NameOf[Base] # {} => NameOf[Base] = {Loaded.name}
         /\ ~InheritedNames /\ NameOf[Base] = {} => Loaded.name = Basename(Base.rel)
<1>1. Loading /\ job.next > Order(Base) /\ Base \in Present /\ Canonical = Base.rel
  BY DoneIsPast, BaseIs
<1>2. Loaded.name = CHOOSE n \in NameSoFar : TRUE
  BY DEF Loaded
<1>3. ASSUME NameOf[Base] # {} PROVE NameOf[Base] = {Loaded.name}
  <2>1. NameSoFar = NameOf[Base]
    BY <1>1, <1>3 DEF NamesInv, NameSoFar
  <2>2. PICK n : NameOf[Base] = {n}
    BY <1>1, <1>3, NameIsOne
  <2>3. QED
    BY <1>2, <2>1, <2>2
<1>4. ASSUME ~InheritedNames, NameOf[Base] = {} PROVE Loaded.name = Basename(Base.rel)
  <2>1. job.data.name \subseteq {Basename(Base.rel)}
    BY <1>1, <1>4 DEF NamesInv
  <2>2. NameSoFar = {Basename(Base.rel)}
    BY <1>1, <2>1 DEF NameSoFar
  <2>3. QED
    BY <1>2, <2>2
<1>5. QED
  BY <1>3, <1>4

LEMMA LoadedMeans ==
  ASSUME ContentsAre, JobTypes, IndexInv, LoadingInv, NamesInv, Done, ~InheritedNames,
         NEW id \in {Canonical, Basename(Canonical), job.id, Loaded.name}
  PROVE  Means(id, Base, BuiltIndexes, NameOf)
<1>1. /\ Loading /\ Base \in BaseFiles /\ Canonical = Base.rel /\ ~IdentityClash
      /\ NameOf[Base] = Content(Base).name /\ Found(BuiltIndexes, job.id) = {Base}
  BY DoneIsPast, BaseIs, PresentIs DEF LoadingInv, IndexInv
<1>2. CASE id = Canonical
  BY <1>1, <1>2, FindsPath DEF Means
<1>3. CASE id = Basename(Canonical)
  BY <1>1, <1>3, FindsBasename DEF Means
<1>4. CASE id = job.id
  BY <1>1, <1>4 DEF Means
<1>5. CASE id = Loaded.name
  <2>1. CASE NameOf[Base] = {}
    <3>1. id = Basename(Canonical)
      BY <1>1, <1>5, <2>1, LoadedName
    <3>2. QED
      BY <1>3, <3>1
  <2>2. CASE NameOf[Base] # {}
    <3>1. id \in Content(Base).name /\ id \in NameOf[Base]
      BY <1>1, <1>5, <2>2, LoadedName
    <3>2. QED
      BY <1>1, <3>1, FindsName DEF Means
  <2>3. QED
    BY <2>1, <2>2
<1>6. QED
  BY <1>2, <1>3, <1>4, <1>5

LEMMA FinishDoes ==
  ASSUME Finishes
  PROVE  LET given == {Canonical, Basename(Canonical), job.id} \cup ({Loaded.name} \ DOMAIN siteCache)
         IN  /\ DOMAIN siteCache' = given \cup DOMAIN siteCache
             /\ \A id \in given : siteCache'[id] = Loaded
             /\ \A id \in DOMAIN siteCache : id \notin given => siteCache'[id] = siteCache[id]
BY DEF Finishes, CachedSite

(* What is cached is no other Site's, and stays cached as it is.           *)
LEMMA CachedStays ==
  ASSUME ContentsAre, JobTypes, IndexInv, LoadingInv, CacheInv, Finishes,
         NEW id \in DOMAIN siteCache
  PROVE  LET rel == siteCache[id].base.rel
         IN  /\ rel \in DOMAIN siteCache /\ siteCache[rel] = siteCache[id]
             /\ siteCache'[rel] = siteCache[rel]
<1> DEFINE s == siteCache[id]
           p == s.base
<1>1. /\ p \in BaseFiles /\ p.rel \in DOMAIN siteCache /\ siteCache[p.rel] = s
      /\ {p.rel, Basename(p.rel)} \cup NameOf[p] \subseteq DOMAIN siteCache
  BY DEF CacheInv, IsCached
<1>2. /\ Loading /\ Base \in BaseFiles /\ Canonical = Base.rel /\ ~IdentityClash
      /\ Found(BuiltIndexes, job.id) = {Base} /\ IsIdOf(job.id, Base, NameOf)
      /\ job.id \notin DOMAIN siteCache
  BY DoneIsPast, BaseIs DEF LoadingInv, IndexInv, Finishes
<1> HIDE DEF s, p
<1>3. p # Base
  BY <1>1, <1>2 DEF IsIdOf
<1>4. Found(BuiltIndexes, p.rel) = {p}
  BY <1>1, <1>2, FindsPath
<1>5. p.rel # Canonical
  BY <1>2, <1>3, <1>4, FindsPath
<1>6. p.rel # Basename(Canonical)
  BY <1>2, <1>3, <1>4, FindsBasename
<1>7. p.rel # job.id
  BY <1>2, <1>3, <1>4
<1>8. siteCache'[p.rel] = siteCache[p.rel]
  BY <1>1, <1>5, <1>6, <1>7, FinishDoes
<1>9. QED
  BY <1>1, <1>8 DEF s, p

LEMMA LoadedIsCached ==
  ASSUME ContentsAre, JobTypes, IndexInv, LoadingInv, NamesInv, ReadInv, Finishes
  PROVE  /\ Loaded.base = Base /\ Base \in BaseFiles
         /\ IsCached(Loaded, siteCache', inherited, NameOf)
<1>1. /\ Loading /\ ~Climbing /\ Base \in BaseFiles /\ Canonical = Base.rel
      /\ Done /\ ~job.explain
  BY DoneIsPast, BaseIs DEF Finishes
<1>2. Loaded.base = Base /\ Loaded.data = job.data
  BY DEF Loaded
<1>3. /\ {Base.rel, Basename(Base.rel), Loaded.name} \subseteq DOMAIN siteCache'
      /\ siteCache'[Base.rel] = Loaded
  BY <1>1, FinishDoes
<1>4. NameOf[Base] \subseteq DOMAIN siteCache'
  BY <1>1, <1>3, LoadedName
<1>5. \A i \in DOMAIN job.data.layers :
        IsKept(job.data.layers[i], inherited) \/ job.data.layers[i].place.rel = Base.rel
  BY <1>1 DEF ReadInv
<1>6. QED
  BY <1>1, <1>2, <1>3, <1>4, <1>5 DEF IsCached

LEMMA CacheStays ==
  ASSUME ContentsAre, JobTypes, StageInv, IndexInv, LoadingInv, NamesInv, ReadInv, CacheInv, SiteNext
  PROVE  CacheInv'
<1>1. NameOf' = NameOf /\ BaseFiles' = BaseFiles /\ BuiltIndexes' = BuiltIndexes
  BY FilesAreSteady, SetsAreSteady
<1>2. siteCache' = siteCache \/ Finishes
  BY Moves, Zenon DEF Rests, Begins, Finds, Skips, Merges, Inherits, Reuses, ReadsOne, Unwinds,
     MergesOwn, Edits, EditFile, KeepCaches, cacheVars
<1>3. indexes # {} => indexes' # {}
  BY IndexesStay
<1>4. CASE siteCache' = siteCache
  <2>1. SUFFICES ASSUME NEW id \in DOMAIN siteCache
                 PROVE  IsCached(siteCache[id], siteCache, inherited', NameOf)
    BY <1>1, <1>3, <1>4 DEF CacheInv
  <2>2. IsCached(siteCache[id], siteCache, inherited, NameOf)
    BY DEF CacheInv
  <2>3. QED
    BY <2>2, KeptStays DEF IsCached
<1>5. CASE Finishes
  <2>1. inherited' = inherited /\ indexes' = indexes /\ indexes # {}
    BY <1>5, DoneIsPast DEF Finishes, LoadingInv
  <2>2. SUFFICES ASSUME NEW id \in DOMAIN siteCache'
                 PROVE  /\ siteCache'[id].base \in BaseFiles
                        /\ IsCached(siteCache'[id], siteCache', inherited, NameOf)
                        /\ ~InheritedNames => Means(id, siteCache'[id].base, BuiltIndexes, NameOf)
    BY <1>1, <2>1 DEF CacheInv
  <2> DEFINE given == {Canonical, Basename(Canonical), job.id} \cup ({Loaded.name} \ DOMAIN siteCache)
  <2>3. CASE id \in given
    <3>1. siteCache'[id] = Loaded
      BY <1>5, <2>3, FinishDoes
    <3>2. ~InheritedNames => Means(id, Base, BuiltIndexes, NameOf)
      BY <1>5, <2>3, LoadedMeans DEF Finishes
    <3>3. QED
      BY <1>5, <3>1, <3>2, LoadedIsCached
  <2>4. CASE id \notin given
    <3>1. id \in DOMAIN siteCache /\ siteCache'[id] = siteCache[id]
      BY <1>5, <2>4, FinishDoes
    <3> DEFINE s == siteCache[id]
    <3>2. /\ s.base \in BaseFiles /\ IsCached(s, siteCache, inherited, NameOf)
          /\ ~InheritedNames => Means(id, s.base, BuiltIndexes, NameOf)
      BY <3>1 DEF CacheInv
    <3>3. siteCache'[s.base.rel] = s
      BY <1>5, <3>1, CachedStays
    <3>4. DOMAIN siteCache \subseteq DOMAIN siteCache'
      BY <1>5, FinishDoes
    <3> HIDE DEF s
    <3>5. IsCached(s, siteCache', inherited, NameOf)
      BY <3>2, <3>3, <3>4 DEF IsCached
    <3>6. QED
      BY <3>1, <3>2, <3>5 DEF s
  <2>5. QED
    BY <2>3, <2>4
<1>6. QED
  BY <1>2, <1>4, <1>5

LEMMA LoadStays ==
  ASSUME LoadInv, SiteNext
  PROVE  LoadInv'
<1> USE DEF LoadInv
<1>1. ContentsAre' /\ Steady
  BY FilesAreSteady
<1>2. JobTypes' /\ StageInv'
  BY LoadsWell
<1>3. IndexInv' /\ LoadingInv' /\ TakesInv'
  BY IndexesStay, LoadingStays, TakesStay
<1>4. ChainInv'
  BY ChainStays
<1>5. NamesInv'
  BY NamesStay
<1>6. InheritedInv' /\ ReadInv'
  BY InheritedStaysWell, ReadStays
<1>7. CacheInv'
  BY CacheStays
<1>8. QED
  BY <1>1, <1>2, <1>3, <1>4, <1>5, <1>6, <1>7

LEMMA LoadStarts ==
  ASSUME SiteInit
  PROVE  LoadInv
<1>1. PICK w \in Workspaces : files = w
  BY DEF SiteInit
<1>2. /\ revision = [p \in Places |-> 0] /\ indexes = {} /\ inherited = Nothing /\ siteCache = Nothing
      /\ job = Idle /\ TakesInv
  BY DEF SiteInit, TakesInv
<1>3. ContentsAre
  <2>1. revision \in [Places -> Nat]
    BY <1>2
  <2>2. DOMAIN files = Places /\ \A p \in Places : files[p] \in Contents[p]
    BY <1>1, SiteAssumption
  <2>3. QED
    BY <2>1, <2>2, SiteAssumption DEF ContentsAre
<1>4. /\ job.stage = "idle" /\ ~job.explain /\ job.next = 1 /\ job.seen = <<>>
      /\ job.own = {} /\ job.read = <<>> /\ job.parent = {} /\ job.data = Blank
      /\ job.origin = Nothing /\ DOMAIN job = DOMAIN Idle
  BY <1>2 DEF Idle
<1>5. job.explain \in BOOLEAN
  <2>1. job.explain = FALSE
    BY <1>2, Zenon DEF Idle
  <2>2. QED
    BY <2>1, Zenon
<1>6. JobTypes
  BY <1>4, <1>5, SeqEmpty, BlankIsData DEF JobTypes
<1>7. StageInv
  BY <1>4 DEF StageInv, Loading, Climbing, Fresh
<1>8. ~Loading /\ ~Climbing
  BY <1>4 DEF Loading, Climbing
<1>9. IndexInv /\ LoadingInv /\ ChainInv /\ NamesInv
  BY <1>2, <1>8 DEF IndexInv, LoadingInv, ChainInv, NamesInv
<1>10. DOMAIN Nothing = {} /\ DOMAIN Blank.layers = {}
  BY SeqEmpty DEF Nothing, Blank
<1>11. InheritedInv /\ ReadInv /\ CacheInv
  BY <1>2, <1>4, <1>8, <1>10 DEF InheritedInv, ReadInv, CacheInv
<1>12. QED
  BY <1>2, <1>3, <1>6, <1>7, <1>9, <1>11 DEF LoadInv

-------------------------------------------------------------------------------
(* What was answered *)

(* Every answer is the Site that is cached by its path, asked for by what  *)
(* means it.                                                               *)
AnswersInv ==
  \A a \in answers : \A s \in a.site :
    /\ indexes # {} /\ s.base \in BaseFiles
    /\ s.base.rel \in DOMAIN siteCache /\ siteCache[s.base.rel] = s
    /\ ~InheritedNames => Means(a.id, s.base, BuiltIndexes, NameOf)

SiteInv == LoadInv /\ AnswersInv

LEMMA AnswersAre ==
  ASSUME SiteNext
  PROVE  \/ UNCHANGED answers
         \/ \E id : answers' = answers \cup {[id |-> id, site |-> {}]}
         \/ \E id \in DOMAIN siteCache :
              answers' = answers \cup {[id |-> id, site |-> {siteCache[id]}]}
         \/ Finishes /\ answers' = answers \cup {[id |-> job.id, site |-> {Loaded}]}
<1> DEFINE Failure == \E id : answers' = answers \cup {[id |-> id, site |-> {}]}
           Again == \E id \in DOMAIN siteCache :
                       answers' = answers \cup {[id |-> id, site |-> {siteCache[id]}]}
           FirstTime == Finishes /\ answers' = answers \cup {[id |-> job.id, site |-> {Loaded}]}
           Unsaid == UNCHANGED answers
<1>1. FailLoad => Failure
  BY Zenon DEF FailLoad, Answered
<1>2. Ask \/ NamesAsked \/ Sweep \/ Swept \/ SkipDirectory \/ UnwindTemplate \/ UnwindBase => Unsaid
  BY Zenon DEF Ask, NamesAsked, Sweep, Swept, SkipDirectory, UnwindTemplate, UnwindBase
<1>3. AskName => Unsaid \/ Again
  BY Zenon DEF AskName, Answered
<1>4. NextOfAll => Unsaid \/ Again
  BY Zenon DEF NextOfAll, Answered
<1>5. FindSite => Unsaid \/ Again \/ Failure
  BY <1>1, Zenon DEF FindSite, Answered
<1>6. ReadBase \/ ReadOverlay \/ ReadParent => Unsaid \/ Failure
  BY <1>1, Zenon DEF ReadBase, ReadOverlay, ReadParent
<1>7. FinishLoad => Unsaid \/ Failure \/ FirstTime
  BY <1>1, Zenon DEF FinishLoad, Answered, Finishes, Done
<1>8. ASSUME NEW place \in Places, EditFile(place) PROVE Unsaid
  BY <1>8 DEF EditFile
<1> HIDE DEF Failure, Again, FirstTime, Unsaid
<1>9. Unsaid \/ Failure \/ Again \/ FirstTime
  BY <1>2, <1>3, <1>4, <1>5, <1>6, <1>7, <1>8, Zenon DEF SiteNext, LoadStep
<1>10. QED
  BY <1>9 DEF Failure, Again, FirstTime, Unsaid

LEMMA AnswersStay ==
  ASSUME LoadInv, AnswersInv, SiteNext
  PROVE  AnswersInv'
<1>1. NameOf' = NameOf /\ BaseFiles' = BaseFiles /\ BuiltIndexes' = BuiltIndexes /\ LoadInv'
  BY FilesAreSteady, SetsAreSteady, LoadStays DEF LoadInv
<1>2. indexes # {} => indexes' # {}
  BY IndexesStay DEF LoadInv
<1> DEFINE Fits(id, s) ==
             /\ indexes # {} /\ s.base \in BaseFiles
             /\ s.base.rel \in DOMAIN siteCache /\ siteCache[s.base.rel] = s
             /\ ~InheritedNames => Means(id, s.base, BuiltIndexes, NameOf)
           FitsNext(id, s) ==
             /\ indexes' # {} /\ s.base \in BaseFiles
             /\ s.base.rel \in DOMAIN siteCache' /\ siteCache'[s.base.rel] = s
             /\ ~InheritedNames => Means(id, s.base, BuiltIndexes, NameOf)
<1>3. ASSUME NEW id, NEW s, Fits(id, s) PROVE FitsNext(id, s)
  <2>1. CASE siteCache' = siteCache
    BY <1>2, <1>3, <2>1
  <2>2. CASE Finishes
    <3>1. siteCache'[siteCache[s.base.rel].base.rel] = siteCache[siteCache[s.base.rel].base.rel]
      BY <1>3, <2>2, CachedStays DEF LoadInv
    <3>2. DOMAIN siteCache \subseteq DOMAIN siteCache'
      BY <2>2, FinishDoes
    <3>3. QED
      BY <1>2, <1>3, <3>1, <3>2
  <2>3. QED
    BY <2>1, <2>2, Moves, Zenon DEF Rests, Begins, Finds, Skips, Merges, Inherits, Reuses, ReadsOne,
       Unwinds, MergesOwn, Edits, EditFile, KeepCaches, cacheVars
<1>4. ASSUME NEW id \in DOMAIN siteCache PROVE Fits(id, siteCache[id])
  BY <1>4 DEF LoadInv, CacheInv, IsCached
<1>5. ASSUME Finishes PROVE FitsNext(job.id, Loaded)
  <2>1. Loaded.base = Base /\ Base \in BaseFiles /\ IsCached(Loaded, siteCache', inherited, NameOf)
    BY <1>5, LoadedIsCached DEF LoadInv
  <2>2. indexes # {}
    BY <1>5, DoneIsPast DEF LoadInv, LoadingInv, Finishes
  <2>3. ~InheritedNames => Means(job.id, Base, BuiltIndexes, NameOf)
    BY <1>5, LoadedMeans DEF LoadInv, Finishes
  <2>4. QED
    BY <1>2, <2>1, <2>2, <2>3 DEF IsCached
<1>6. \A a \in answers : \A s \in a.site : Fits(a.id, s)
  BY DEF AnswersInv
<1> HIDE DEF Fits
<1>7. SUFFICES ASSUME NEW a \in answers', NEW s \in a.site PROVE FitsNext(a.id, s)
  BY <1>1 DEF AnswersInv
<1> HIDE DEF FitsNext
<1>8. CASE a \in answers
  BY <1>3, <1>6, <1>8
<1>9. CASE a \notin answers
  <2>1. CASE \E id : a = [id |-> id, site |-> {}]
    BY <1>7, <2>1
  <2>2. CASE \E id \in DOMAIN siteCache : a = [id |-> id, site |-> {siteCache[id]}]
    <3>1. PICK id \in DOMAIN siteCache : a = [id |-> id, site |-> {siteCache[id]}]
      BY <2>2
    <3>2. a.id = id /\ s = siteCache[id]
      BY <1>7, <3>1
    <3>3. QED
      BY <1>3, <1>4, <3>2
  <2>3. CASE Finishes /\ a = [id |-> job.id, site |-> {Loaded}]
    <3>1. a.id = job.id /\ s = Loaded
      BY <1>7, <2>3
    <3>2. QED
      BY <1>5, <2>3, <3>1
  <2>4. QED
    BY <1>7, <1>9, <2>1, <2>2, <2>3, AnswersAre
<1>10. QED
  BY <1>8, <1>9

(* A name without a slash: an identifier with one is looked for among the  *)
(* paths only.                                                             *)
PlainNames ==
  \A p \in Places : \A c \in UNION Contents[p] : \A n \in c.name : ~(Len(n) > 1)

LEMMA AnswersAreOne ==
  ASSUME SiteInv, NEW a \in answers, NEW s \in a.site
  PROVE  /\ s.base \in SiteFiles /\ siteCache[s.base.rel] = s
         /\ \A i \in DOMAIN s.data.layers :
              \/ IsKept(s.data.layers[i], inherited)
              \/ s.data.layers[i].place.rel = s.base.rel
<1>1. s.base \in BaseFiles /\ s.base.rel \in DOMAIN siteCache /\ siteCache[s.base.rel] = s
  BY DEF SiteInv, AnswersInv
<1>2. IsCached(siteCache[s.base.rel], siteCache, inherited, NameOf)
  BY <1>1 DEF SiteInv, LoadInv, CacheInv
<1>3. QED
  BY <1>1, <1>2 DEF IsCached, BaseFiles

LEMMA ReadOnce ==
  ASSUME SiteInv
  PROVE  TemplatesReadOnce
<1> DEFINE sites == UNION {a.site : a \in answers}
           paths == {p.rel : p \in SiteFiles}
<1>1. SUFFICES ASSUME NEW s \in sites, NEW t \in sites
               PROVE  /\ s.base = t.base => s = t
                      /\ \A l \in ToSet(s.data.layers), m \in ToSet(t.data.layers) :
                           l.place = m.place /\ l.place.rel \notin paths => l = m
  BY DEF TemplatesReadOnce
<1>2. PICK a \in answers, b \in answers : s \in a.site /\ t \in b.site
  OBVIOUS
<1>3. /\ s.base \in SiteFiles /\ siteCache[s.base.rel] = s
      /\ t.base \in SiteFiles /\ siteCache[t.base.rel] = t
  BY <1>2, AnswersAreOne
<1>4. ASSUME NEW l \in ToSet(s.data.layers), l.place.rel \notin paths PROVE IsKept(l, inherited)
  BY <1>2, <1>3, <1>4, AnswersAreOne DEF ToSet
<1>5. ASSUME NEW l \in ToSet(t.data.layers), l.place.rel \notin paths PROVE IsKept(l, inherited)
  BY <1>2, <1>3, <1>5, AnswersAreOne DEF ToSet
<1>6. QED
  BY <1>3, <1>4, <1>5 DEF IsKept

LEMMA ChainIs ==
  ASSUME JobTypes, LoadingInv, ChainInv, Done
  PROVE  OneChain(job.data.layers)
<1>1. OneChainOf(job.data.layers, Base, Templates) /\ Canonical = Base.rel
  BY DoneIsPast, BaseIs DEF ChainInv
<1>2. \A p : p \in Templates <=> IsTemplate(p)
  BY PresentIs
<1>3. QED
  BY <1>1, <1>2 DEF OneChain, OneChainOf

LEMMA LayersDo ==
  ASSUME LoadInv
  PROVE  LayersDecide
<1> SUFFICES ASSUME Done PROVE LayersDecide
  BY DEF LayersDecide
<1> DEFINE layers == job.data.layers
           leaves == job.data.leaves
           wins(p, i) == /\ p \in layers[i].sets
                         /\ \A k \in i + 1 .. Len(layers) :
                              \A r \in layers[k].sets : ~Comparable(p, r)
           won == {q \in UNION {l.sets : l \in ToSet(layers)} : \E i \in DOMAIN layers : wins(q, i)}
<1>1. IsData(job.data) /\ OneChain(layers)
  BY ChainIs DEF LoadInv, JobTypes
<1>2. \A p, i : wins(p, i) <=> Wins(layers, p, i)
  BY DEF Wins
<1>3. \A q : q \in DOMAIN leaves <=> q \in won
  <2>1. \A q : q \in DOMAIN leaves <=> \E i \in DOMAIN layers : wins(q, i)
    BY <1>1, <1>2 DEF IsData, Decided
  <2>2. \A i \in DOMAIN layers : layers[i] \in ToSet(layers)
    BY DEF ToSet
  <2>3. QED
    BY <2>1, <2>2
<1>4. ASSUME NEW p \in won
      PROVE  LET l == layers[CHOOSE i \in DOMAIN layers : wins(p, i)]
             IN leaves[p] = [place |-> l.place, revision |-> l.revision]
  <2>1. \E i \in DOMAIN layers : wins(p, i)
    OBVIOUS
  <2> DEFINE i == CHOOSE j \in DOMAIN layers : wins(p, j)
  <2>2. i \in DOMAIN layers /\ wins(p, i)
    BY <2>1
  <2> HIDE DEF i
  <2>3. leaves[p] = Value(layers[i])
    BY <1>1, <1>2, <1>3, <2>2 DEF IsData, Decided
  <2>4. QED
    BY <2>3 DEF Value, i
<1>5. leaves = [p \in DOMAIN leaves |-> leaves[p]]
  BY <1>1 DEF IsData, Decided
<1>6. DOMAIN leaves = won
  BY <1>3
<1>7. leaves = [p \in won |->
                  LET l == layers[CHOOSE i \in DOMAIN layers : wins(p, i)]
                  IN [place |-> l.place, revision |-> l.revision]]
  BY <1>4, <1>5, <1>6, Zenon
<1>8. QED
  BY <1>1, <1>7, Zenon DEF LayersDecide

LEMMA AsWritten ==
  ASSUME SiteInv
  PROVE  SitesAreAsWritten
<1>1. LayersDecide /\ TemplatesReadOnce
  BY LayersDo, ReadOnce DEF SiteInv
<1>2. OriginsAreTrue
  BY DEF SiteInv, LoadInv, StageInv, OriginsAgree, OriginsAreTrue
<1>3. QED
  BY <1>1, <1>2 DEF SitesAreAsWritten

LEMMA MeansOne ==
  ASSUME SiteInv, ~InheritedNames, PlainNames
  PROVE  IdentifierMeansOneSite
<1> SUFFICES ASSUME NEW a \in answers, NEW s \in a.site, NEW index \in indexes
             PROVE  Found(index, a.id) = {s.base}
  BY DEF IdentifierMeansOneSite
<1>1. index = BuiltIndexes /\ ContentsAre
  BY DEF SiteInv, LoadInv, IndexInv
<1>2. s.base \in BaseFiles /\ Means(a.id, s.base, BuiltIndexes, NameOf)
  BY DEF SiteInv, AnswersInv
<1>3. ~(Len(a.id) > 1 /\ a.id \in NameOf[s.base])
  <2> SUFFICES ASSUME a.id \in NameOf[s.base] PROVE ~(Len(a.id) > 1)
    OBVIOUS
  <2>1. There(s.base) /\ NameOf[s.base] = Content(s.base).name
    BY <1>2, SiteFileIs, PresentIs DEF BaseFiles
  <2>2. s.base \in Places /\ Content(s.base) \in UNION Contents[s.base]
    <3>1. s.base \in Places /\ Content(s.base) \in files[s.base]
      BY <2>1 DEF There, Content
    <3>2. files[s.base] \subseteq UNION Contents[s.base]
      BY <1>1, <3>1 DEF ContentsAre
    <3>3. QED
      BY <3>1, <3>2
  <2>3. QED
    BY <2>1, <2>2 DEF PlainNames
<1>4. QED
  BY <1>1, <1>2, <1>3 DEF Means

-------------------------------------------------------------------------------
(* What is selected *)

OnceEach(chosen) == IsInjective([i \in DOMAIN chosen |-> chosen[i].base])
BasesOf(sites) == {s.base : s \in sites}

(* While the workspace is swept, what was loaded is what is neither        *)
(* waiting nor skipped.                                                    *)
SweepInv ==
  request.status = "sweeping" =>
    /\ queue \subseteq Bases /\ queue \cap skipped = {}
    /\ BasesOf(allSites) = {ByBasename[b] : b \in Bases \ (queue \cup skipped)}
    /\ job.stage # "idle" => job.id \in queue /\ job.explain = FALSE

LabelInv ==
  request.by = "label" =>
    /\ request.label = TRUE
    /\ request.status \in {"sweep", "sweeping", "done", "refused", "failed"}
    /\ request.status \in {"sweep", "sweeping"} => request.chosen = <<>>
    /\ request.status = "done" =>
         /\ BasesOf(allSites) = {ByBasename[b] : b \in Bases}
         /\ ToSet(request.chosen) = {s \in allSites : Matches(s)}

ManifestInv ==
  request.by = "manifest" =>
    /\ request.swept = {} /\ request.status \in {"names", "done", "failed"}
    /\ IsSeq(request.chosen) /\ OnceEach(request.chosen)

RequestInv ==
  /\ DOMAIN request = {"status", "by", "names", "label", "chosen", "swept"}
  /\ request.status = "none" =>
       request.chosen = <<>> /\ request.swept = {} /\ request.by = ""
  /\ request.status \in {"none", "names", "sweep"} =>
       queue = {} /\ allSites = {} /\ skipped = {}
  /\ job.stage # "idle" => request.status \in {"names", "sweeping"}
  /\ IsFiniteSet(allSites)

SelectionInv == RequestInv /\ SweepInv /\ LabelInv /\ ManifestInv

LEMMA OneMoreChosen ==
  ASSUME NEW chosen, IsSeq(chosen), OnceEach(chosen), NEW x, x.base \notin BasesOf(ToSet(chosen))
  PROVE  IsSeq(Append(chosen, x)) /\ OnceEach(Append(chosen, x))
<1> DEFINE more == Append(chosen, x)
           n == Len(chosen) + 1
<1>1. /\ IsSeq(more) /\ DOMAIN chosen = 1 .. Len(chosen) /\ DOMAIN more = 1 .. n /\ Len(chosen) \in Nat
      /\ more[n] = x /\ \A i \in DOMAIN chosen : more[i] = chosen[i]
  BY SeqAppend
<1>2. \A i \in DOMAIN more : i \in DOMAIN chosen \/ i = n
  BY <1>1, SMT
<1>3. \A i \in DOMAIN chosen : chosen[i].base # x.base
  BY DEF BasesOf, ToSet
<1>4. \A i, j \in DOMAIN chosen : chosen[i].base = chosen[j].base => i = j
  BY DEF OnceEach, IsInjective
<1> HIDE DEF more, n
<1>5. \A i, j \in DOMAIN more : more[i].base = more[j].base => i = j
  BY <1>1, <1>2, <1>3, <1>4
<1>6. OnceEach(more)
  BY <1>5 DEF OnceEach, IsInjective
<1>7. QED
  BY <1>1, <1>6 DEF more

LEMMA IdleIs == Idle.stage = "idle"
BY DEF Idle

LEMMA SelectionRests ==
  ASSUME SelectionInv, Steady, UNCHANGED <<request, queue, allSites, skipped>>,
         job'.stage # "idle" =>
           job.stage # "idle" /\ job'.id = job.id /\ job'.explain = job.explain
  PROVE  SelectionInv'
<1>1. Bases' = Bases /\ ByBasename' = ByBasename
  BY IndexIsSteady
<1>2. RequestInv'
  BY DEF SelectionInv, RequestInv
<1>3. SweepInv'
  BY <1>1 DEF SelectionInv, SweepInv
<1>4. LabelInv' /\ ManifestInv'
  BY <1>1 DEF SelectionInv, LabelInv, ManifestInv
<1>5. QED
  BY <1>2, <1>3, <1>4 DEF SelectionInv

(* A load ends, but not the command: what a sweep says of a load is moot.  *)
LEMMA SelectionEnds ==
  ASSUME SelectionInv, Steady, job' = Idle, UNCHANGED <<queue, allSites, skipped>>,
         \E status \in {"done", "failed"} : request' = [request EXCEPT !.status = status],
         job.stage # "idle", request.status = "sweeping" => request'.status = "failed"
  PROVE  SelectionInv'
<1>1. PICK status \in {"done", "failed"} : request' = [request EXCEPT !.status = status]
  OBVIOUS
<1>2. /\ request'.status = status /\ request'.by = request.by /\ request'.chosen = request.chosen
      /\ request'.swept = request.swept /\ request'.label = request.label
      /\ DOMAIN request' = DOMAIN request
  BY <1>1 DEF SelectionInv, RequestInv
<1>3. job'.stage = "idle" /\ request.status \in {"names", "sweeping"}
  BY IdleIs DEF SelectionInv, RequestInv
<1>4. RequestInv' /\ SweepInv'
  BY <1>1, <1>2, <1>3 DEF SelectionInv, RequestInv, SweepInv
<1>5. request.by = "label" => status = "failed"
  BY <1>2, <1>3 DEF SelectionInv, LabelInv
<1>6. LabelInv' /\ ManifestInv'
  BY <1>1, <1>2, <1>5 DEF SelectionInv, LabelInv, ManifestInv
<1>7. QED
  BY <1>4, <1>6 DEF SelectionInv

LEMMA SelectionFails ==
  ASSUME SelectionInv, Steady, FailLoad, job.stage # "idle"
  PROVE  SelectionInv'
<1>1. job' = Idle /\ job'.stage = "idle"
  BY IdleIs DEF FailLoad, Answered
<1>2. CASE job.id \in queue
  <2>1. /\ skipped' = skipped \cup {job.id} /\ queue' = queue \ {job.id}
        /\ UNCHANGED <<allSites, request>>
    BY <1>2 DEF FailLoad
  <2>2. request.status = "sweeping"
    BY <1>2 DEF SelectionInv, RequestInv
  <2>3. Bases' = Bases /\ ByBasename' = ByBasename
    BY IndexIsSteady
  <2>4. queue' \cup skipped' = queue \cup skipped /\ queue' \cap skipped' = {} /\ queue' \subseteq Bases
    BY <1>2, <2>1, <2>2 DEF SelectionInv, SweepInv
  <2>5. SweepInv'
    BY <1>1, <2>1, <2>2, <2>3, <2>4 DEF SelectionInv, SweepInv
  <2>6. RequestInv' /\ LabelInv' /\ ManifestInv'
    BY <1>1, <2>1, <2>2, <2>3 DEF SelectionInv, RequestInv, LabelInv, ManifestInv
  <2>7. QED
    BY <2>5, <2>6 DEF SelectionInv
<1>3. CASE job.id \notin queue
  <2>1. request' = [request EXCEPT !.status = "failed"] /\ UNCHANGED <<queue, allSites, skipped>>
    BY <1>3 DEF FailLoad, allVars
  <2>2. request'.status = "failed"
    BY <2>1 DEF SelectionInv, RequestInv
  <2>3. QED
    BY <1>1, <2>1, <2>2, SelectionEnds
<1>4. QED
  BY <1>2, <1>3

(* One Site more of the sweep.                                             *)
LEMMA SweepGrows ==
  ASSUME SelectionInv, Steady, request.status = "sweeping", NEW id \in queue, NEW s,
         s.base = ByBasename[id], job' = Idle,
         allSites' = allSites \cup {s}, queue' = queue \ {id}, UNCHANGED <<skipped, request>>
  PROVE  SelectionInv'
<1>1. Bases' = Bases /\ ByBasename' = ByBasename /\ job'.stage = "idle"
  BY IndexIsSteady, IdleIs
<1>2. /\ queue \subseteq Bases /\ queue \cap skipped = {}
      /\ BasesOf(allSites) = {ByBasename[b] : b \in Bases \ (queue \cup skipped)}
  BY DEF SelectionInv, SweepInv
<1>3. BasesOf(allSites') = BasesOf(allSites) \cup {ByBasename[id]}
  BY DEF BasesOf
<1>4. Bases \ (queue' \cup skipped) = (Bases \ (queue \cup skipped)) \cup {id}
  BY <1>2
<1>5. BasesOf(allSites') = {ByBasename[b] : b \in Bases \ (queue' \cup skipped)}
  BY <1>2, <1>3, <1>4
<1>6. SweepInv'
  BY <1>1, <1>2, <1>5 DEF SweepInv
<1>7. IsFiniteSet(allSites')
  BY FS_AddElement DEF SelectionInv, RequestInv
<1>8. RequestInv' /\ LabelInv' /\ ManifestInv'
  BY <1>1, <1>7 DEF SelectionInv, RequestInv, LabelInv, ManifestInv
<1>9. QED
  BY <1>6, <1>8 DEF SelectionInv

(* One name more of a list.                                                *)
LEMMA SelectionTurns ==
  ASSUME SelectionInv, Steady, request.status = "names", job' = Idle,
         UNCHANGED <<queue, allSites, skipped>>, NEW s,
         \/ request' = Turn(request.chosen)
         \/ request' = Turn(Append(request.chosen, s))
              /\ (request.by = "manifest" => s.base \notin ChosenBases)
  PROVE  SelectionInv'
<1>1. job'.stage = "idle"
  BY IdleIs
<1>2. /\ DOMAIN request' = DOMAIN request /\ request'.status = "names" /\ request'.by = request.by
      /\ request'.swept = request.swept /\ request'.label = request.label
      /\ \/ request'.chosen = request.chosen
         \/ request'.chosen = Append(request.chosen, s)
              /\ (request.by = "manifest" => s.base \notin ChosenBases)
  BY DEF SelectionInv, RequestInv, Turn
<1>3. RequestInv' /\ SweepInv'
  BY <1>1, <1>2 DEF SelectionInv, RequestInv, SweepInv
<1>4. LabelInv'
  BY <1>2 DEF SelectionInv, LabelInv
<1>5. ManifestInv'
  <2> SUFFICES ASSUME request.by = "manifest" PROVE ManifestInv'
    BY <1>2 DEF ManifestInv
  <2>1. request.swept = {} /\ IsSeq(request.chosen) /\ OnceEach(request.chosen)
    BY DEF SelectionInv, ManifestInv
  <2>2. ChosenBases = BasesOf(ToSet(request.chosen))
    BY DEF ChosenBases, BasesOf
  <2>3. IsSeq(request'.chosen) /\ OnceEach(request'.chosen)
    BY <1>2, <2>1, <2>2, OneMoreChosen
  <2>4. QED
    BY <1>2, <2>1, <2>3 DEF ManifestInv
<1>6. QED
  BY <1>3, <1>4, <1>5 DEF SelectionInv

LEMMA SelectionTakes ==
  ASSUME SelectionInv, Steady, job.stage # "idle", job' = Idle, NEW s, Take(s),
         request.status = "sweeping" => s.base = ByBasename[job.id]
  PROVE  SelectionInv'
<1>1. CASE request.status = "sweeping"
  <2>1. allSites' = allSites \cup {s} /\ queue' = queue \ {job.id} /\ UNCHANGED <<skipped, request>>
    BY <1>1 DEF Take
  <2>2. job.id \in queue
    BY <1>1 DEF SelectionInv, SweepInv
  <2>3. QED
    BY <1>1, <2>1, <2>2, SweepGrows
<1>2. CASE request.status # "sweeping"
  <2>1. /\ request' = Turn(IF \/ request.by = "manifest" /\ s.base \in ChosenBases
                              \/ request.by = "selector" /\ request.label /\ ~Matches(s)
                             THEN request.chosen ELSE Append(request.chosen, s))
        /\ UNCHANGED <<queue, allSites, skipped>>
    BY <1>2 DEF Take, allVars
  <2>2. request.status = "names"
    BY <1>2 DEF SelectionInv, RequestInv
  <2>3. \/ request' = Turn(request.chosen)
        \/ request' = Turn(Append(request.chosen, s))
             /\ (request.by = "manifest" => s.base \notin ChosenBases)
    BY <2>1, Zenon
  <2>4. QED
    BY <2>1, <2>2, <2>3, SelectionTurns
<1>3. QED
  BY <1>1, <1>2

LEMMA SetToSeqIs ==
  ASSUME NEW S, IsFiniteSet(S)
  PROVE  ToSet(<<>> \o SetToSeq(S)) = S
<1> DEFINE n == Cardinality(S)
           f == SetToSeq(S)
<1>1. n \in Nat /\ ExistsBijection(1 .. n, S)
  BY FS_CardinalityType
<1>2. \E g \in [1 .. n -> S] : IsInjective(g)
  BY <1>1, Zenon DEF ExistsBijection, Bijection, Injection
<1>3. f \in [1 .. n -> S] /\ IsInjective(f)
  BY <1>2, Zenon DEF SetToSeq
<1> HIDE DEF f
<1>4. f \in Injection(1 .. n, S)
  BY <1>3 DEF Injection
<1>5. IsFiniteSet(1 .. n) /\ Cardinality(1 .. n) = n
  BY <1>1, FS_Interval
<1>6. f \in Surjection(1 .. n, S)
  BY <1>4, <1>5, FS_Injection
<1>7. \A x \in S : \E i \in 1 .. n : f[i] = x
  BY <1>6 DEF Surjection
<1>8. f \in Seq(S)
  BY <1>1, <1>3, SMT
<1>9. <<>> \o f = f
  BY <1>8, SMT
<1>10. ToSet(f) = S
  BY <1>3, <1>7 DEF ToSet
<1>11. QED
  BY <1>9, <1>10 DEF f

LEMMA FoundOfBasename ==
  ASSUME LoadInv, indexes # {}, NEW b \in Bases
  PROVE  Found(BuiltIndexes, b) = {ByBasename[b]} /\ Len(b) = 1
<1>1. ~IdentityClash
  BY DEF LoadInv, IndexInv
<1>2. ByBasename[b] \in BaseFiles /\ Basename(ByBasename[b].rel) = b /\ ByBasename[b] \in SiteFiles
  BY <1>1, OneFile, ByBasenameIs
<1>3. Found(BuiltIndexes, b) = {ByBasename[b]}
  BY <1>1, <1>2, FindsBasename
<1>4. QED
  BY <1>2, <1>3, SiteFileIs, BasenameIs

LEMMA CachedBase ==
  ASSUME LoadInv, ~InheritedNames, NEW b \in Bases, b \in DOMAIN siteCache
  PROVE  siteCache[b].base = ByBasename[b]
<1>1. indexes # {} /\ Means(b, siteCache[b].base, BuiltIndexes, NameOf)
  BY DEF LoadInv, CacheInv
<1>2. Found(BuiltIndexes, b) = {ByBasename[b]} /\ Len(b) = 1
  BY <1>1, FoundOfBasename
<1>3. ~(Len(b) > 1)
  BY <1>2
<1>4. QED
  BY <1>1, <1>2, <1>3 DEF Means

LEMMA LoadedBase ==
  ASSUME LoadInv, Done, job.id \in Bases
  PROVE  Loaded.base = ByBasename[job.id]
<1>1. indexes # {} /\ Found(BuiltIndexes, job.id) = {Base} /\ Loaded.base = Base
  BY DoneIsPast DEF LoadInv, LoadingInv, Loaded
<1>2. QED
  BY <1>1, FoundOfBasename

LEMMA SelectionAsked ==
  ASSUME SelectionInv, Steady, Ask
  PROVE  SelectionInv'
<1>1. /\ request.status = "none" /\ request.chosen = <<>> /\ request.swept = {} /\ request.by = ""
      /\ queue = {} /\ allSites = {} /\ skipped = {} /\ job.stage = "idle"
      /\ UNCHANGED <<job, queue, allSites, skipped>>
  BY DEF Ask, SelectionInv, RequestInv, allVars
<1>2. \/ \E id \in Identifiers :
           request' = [request EXCEPT !.by = "explain", !.names = <<id>>, !.status = "names"]
      \/ \E list \in NameLists, label \in BOOLEAN, by \in {"manifest", "selector"} :
           request' = [request EXCEPT !.by = by, !.names = list, !.label = label,
                         !.status = "names"]
      \/ request' = [request EXCEPT !.by = "label", !.label = TRUE, !.status = "sweep"]
  BY DEF Ask
<1>3. /\ DOMAIN request' = DOMAIN request
      /\ request'.chosen = <<>> /\ request'.swept = {}
      /\ \/ request'.status = "names" /\ request'.by \in {"explain", "manifest", "selector"}
         \/ request'.status = "sweep" /\ request'.by = "label" /\ request'.label = TRUE
  BY <1>1, <1>2 DEF SelectionInv, RequestInv
<1>4. IsSeq(<<>>) /\ OnceEach(<<>>)
  BY SeqEmpty DEF OnceEach, IsInjective
<1>5. RequestInv' /\ SweepInv'
  BY <1>1, <1>3 DEF SelectionInv, RequestInv, SweepInv
<1>6. LabelInv' /\ ManifestInv'
  BY <1>3, <1>4 DEF LabelInv, ManifestInv
<1>7. QED
  BY <1>5, <1>6 DEF SelectionInv

(* A load begins: in a list, or of one of those that wait.                 *)
LEMMA SelectionBegins ==
  ASSUME SelectionInv, Steady, job.stage = "idle", NEW id, NEW explain, Begin(id, explain),
         UNCHANGED <<request, queue, allSites, skipped>>,
         \/ request.status = "names"
         \/ request.status = "sweeping" /\ id \in queue /\ explain = FALSE
  PROVE  SelectionInv'
<1>1. job'.id = id /\ job'.explain = explain
  BY DEF Begin, Idle
<1>2. Bases' = Bases /\ ByBasename' = ByBasename
  BY IndexIsSteady
<1>3. RequestInv' /\ LabelInv' /\ ManifestInv'
  BY <1>2 DEF SelectionInv, RequestInv, LabelInv, ManifestInv
<1>4. SweepInv'
  BY <1>1, <1>2 DEF SelectionInv, SweepInv
<1>5. QED
  BY <1>3, <1>4 DEF SelectionInv

LEMMA SelectionNames ==
  ASSUME SelectionInv, Steady, AskName
  PROVE  SelectionInv'
<1> DEFINE id == Head(request.names)
<1>1. /\ request.status = "names" /\ job.stage = "idle" /\ UNCHANGED <<queue, allSites, skipped>>
  BY DEF AskName, allVars
<1>2. \/ /\ request.by = "manifest" /\ job' = Idle
         /\ request' = Turn(IF siteCache[id].base \in ChosenBases THEN request.chosen
                            ELSE Append(request.chosen, siteCache[id]))
      \/ Begin(id, request.by = "explain") /\ UNCHANGED request
  BY Zenon DEF AskName, Answered
<1>3. CASE /\ request.by = "manifest" /\ job' = Idle
           /\ request' = Turn(IF siteCache[id].base \in ChosenBases THEN request.chosen
                              ELSE Append(request.chosen, siteCache[id]))
  <2>1. \/ request' = Turn(request.chosen)
        \/ request' = Turn(Append(request.chosen, siteCache[id]))
             /\ siteCache[id].base \notin ChosenBases
    BY <1>3, Zenon
  <2>2. QED
    BY <1>1, <1>3, <2>1, SelectionTurns
<1>4. CASE Begin(id, request.by = "explain") /\ UNCHANGED request
  BY <1>1, <1>4, SelectionBegins
<1>5. QED
  BY <1>2, <1>3, <1>4

LEMMA SelectionNamed ==
  ASSUME SelectionInv, Steady, NamesAsked
  PROVE  SelectionInv'
<1>1. /\ request.status = "names" /\ job.stage = "idle" /\ UNCHANGED <<job, queue, allSites, skipped>>
      /\ request' = [request EXCEPT !.status = IF request.swept = {} THEN "done" ELSE "sweep"]
  BY DEF NamesAsked, allVars
<1>2. /\ DOMAIN request' = DOMAIN request /\ request'.by = request.by /\ request'.chosen = request.chosen
      /\ request'.swept = request.swept
      /\ request'.status = IF request.swept = {} THEN "done" ELSE "sweep"
  BY <1>1 DEF SelectionInv, RequestInv
<1>3. RequestInv' /\ SweepInv'
  BY <1>1, <1>2 DEF SelectionInv, RequestInv, SweepInv
<1>4. LabelInv' /\ ManifestInv'
  BY <1>1, <1>2 DEF SelectionInv, LabelInv, ManifestInv
<1>5. QED
  BY <1>3, <1>4 DEF SelectionInv

LEMMA SelectionSweeps ==
  ASSUME SelectionInv, Steady, Sweep
  PROVE  SelectionInv'
<1>1. /\ request.status = "sweep" /\ queue' = Bases /\ UNCHANGED <<job, allSites, skipped>>
      /\ request' = [request EXCEPT !.status = "sweeping"]
  BY DEF Sweep
<1>2. allSites = {} /\ skipped = {} /\ job.stage = "idle"
  BY <1>1 DEF SelectionInv, RequestInv
<1>3. /\ DOMAIN request' = DOMAIN request /\ request'.by = request.by /\ request'.chosen = request.chosen
      /\ request'.swept = request.swept /\ request'.label = request.label
      /\ request'.status = "sweeping"
  BY <1>1 DEF SelectionInv, RequestInv
<1>4. Bases' = Bases /\ ByBasename' = ByBasename
  BY IndexIsSteady
<1>5. RequestInv'
  BY <1>1, <1>2, <1>3 DEF SelectionInv, RequestInv
<1>6. SweepInv'
  BY <1>1, <1>2, <1>3, <1>4 DEF SweepInv, BasesOf
<1>7. LabelInv' /\ ManifestInv'
  BY <1>1, <1>3 DEF SelectionInv, LabelInv, ManifestInv
<1>8. QED
  BY <1>5, <1>6, <1>7 DEF SelectionInv

LEMMA SelectionGoesOn ==
  ASSUME LoadInv, ~InheritedNames, SelectionInv, Steady, NextOfAll
  PROVE  SelectionInv'
<1>1. request.status = "sweeping" /\ job.stage = "idle" /\ UNCHANGED <<request, skipped>>
  BY DEF NextOfAll
<1>2. PICK id \in queue :
        IF id \in DOMAIN siteCache
          THEN /\ Answered(id, {siteCache[id]})
               /\ allSites' = allSites \cup {siteCache[id]} /\ queue' = queue \ {id}
          ELSE Begin(id, FALSE) /\ UNCHANGED <<allSites, queue, answers>>
  BY DEF NextOfAll
<1>3. id \in Bases
  BY <1>1 DEF SelectionInv, SweepInv
<1>4. CASE id \in DOMAIN siteCache
  <2>1. job' = Idle /\ allSites' = allSites \cup {siteCache[id]} /\ queue' = queue \ {id}
    BY <1>2, <1>4 DEF Answered
  <2>2. siteCache[id].base = ByBasename[id]
    BY <1>3, <1>4, CachedBase
  <2>3. QED
    BY <1>1, <2>1, <2>2, SweepGrows
<1>5. CASE id \notin DOMAIN siteCache
  BY <1>1, <1>2, <1>5, SelectionBegins
<1>6. QED
  BY <1>4, <1>5

LEMMA SelectionSwept ==
  ASSUME SelectionInv, Steady, Swept
  PROVE  SelectionInv'
<1> DEFINE chosenNames == {s.name : s \in ToSet(request.chosen)}
           wanted == {s \in allSites :
                        /\ request.label => Matches(s)
                        /\ request.by = "selector" =>
                             s.name \in request.swept \ chosenNames}
<1>1. /\ request.status = "sweeping" /\ queue = {} /\ job.stage = "idle"
      /\ UNCHANGED <<job, queue, allSites, skipped>>
      /\ request' = [request EXCEPT !.chosen = @ \o SetToSeq(wanted),
                       !.status = IF skipped = {} THEN "done" ELSE "refused"]
  BY Zenon DEF Swept, allVars
<1>2. IsFiniteSet(allSites) /\ wanted \in SUBSET allSites
  BY DEF SelectionInv, RequestInv
<1>3. IsFiniteSet(wanted)
  BY <1>2, FS_Subset
<1>4. request.by = "label" => wanted = {s \in allSites : Matches(s)}
  BY DEF SelectionInv, LabelInv
<1> HIDE DEF wanted
<1>5. /\ DOMAIN request' = DOMAIN request /\ request'.by = request.by
      /\ request'.chosen = request.chosen \o SetToSeq(wanted)
      /\ request'.swept = request.swept /\ request'.label = request.label
      /\ request'.status = IF skipped = {} THEN "done" ELSE "refused"
  BY <1>1 DEF SelectionInv, RequestInv
<1>6. RequestInv' /\ SweepInv' /\ ManifestInv'
  BY <1>1, <1>5 DEF SelectionInv, RequestInv, SweepInv, ManifestInv
<1>7. LabelInv'
  <2> SUFFICES ASSUME request.by = "label" PROVE LabelInv'
    BY <1>5 DEF LabelInv
  <2>1. ToSet(request'.chosen) = {s \in allSites : Matches(s)}
    <3>1. request.chosen = <<>>
      BY <1>1 DEF SelectionInv, LabelInv
    <3>2. QED
      BY <1>3, <1>4, <1>5, <3>1, SetToSeqIs
  <2>2. skipped = {} => BasesOf(allSites) = {ByBasename[b] : b \in Bases}
    <3>1. BasesOf(allSites) = {ByBasename[b] : b \in Bases \ (queue \cup skipped)}
      BY <1>1 DEF SelectionInv, SweepInv
    <3>2. skipped = {} => Bases \ (queue \cup skipped) = Bases
      BY <1>1
    <3>3. QED
      BY <3>1, <3>2
  <2>3. Bases' = Bases /\ ByBasename' = ByBasename
    BY IndexIsSteady
  <2>4. QED
    BY <1>1, <1>5, <2>1, <2>2, <2>3 DEF SelectionInv, LabelInv
<1>8. QED
  BY <1>6, <1>7 DEF SelectionInv

LEMMA SelectionFinds ==
  ASSUME LoadInv, ~InheritedNames, SelectionInv, Steady, FindSite
  PROVE  SelectionInv'
<1>1. job.stage = "find" /\ job.stage # "idle"
  BY DEF FindSite
<1>2. CASE FailLoad
  BY <1>1, <1>2, SelectionFails
<1>3. CASE ~FailLoad
  <2> DEFINE index == IF indexes = {} THEN BuiltIndexes ELSE CHOOSE i \in indexes : TRUE
             found == Found(index, job.id)
  <2>1. \/ /\ request.by = "selector" /\ job' = Idle
           /\ request' = [Turn(request.chosen) EXCEPT !.swept = @ \cup {job.id}]
           /\ UNCHANGED allVars
        \/ /\ job' = Idle
           /\ request' = [request EXCEPT !.status = "failed"] /\ UNCHANGED allVars
        \/ /\ job.id \in DOMAIN siteCache /\ Answered(job.id, {siteCache[job.id]})
           /\ Take(siteCache[job.id])
        \/ job' = [job EXCEPT !.stage = "files", !.base = found] /\ UNCHANGED <<request, allVars>>
    BY <1>3, Zenon DEF FindSite
  <2>2. CASE /\ request.by = "selector" /\ job' = Idle
             /\ request' = [Turn(request.chosen) EXCEPT !.swept = @ \cup {job.id}]
             /\ UNCHANGED allVars
    <3>1. /\ DOMAIN request' = DOMAIN request /\ request'.by = request.by
          /\ request'.status = request.status /\ UNCHANGED <<queue, allSites, skipped>>
      BY <2>2 DEF Turn, SelectionInv, RequestInv, allVars
    <3>2. job'.stage = "idle" /\ Bases' = Bases /\ ByBasename' = ByBasename
      BY <2>2, IdleIs, IndexIsSteady
    <3>3. request.status \in {"names", "sweeping"}
      BY <1>1 DEF SelectionInv, RequestInv
    <3>4. RequestInv' /\ SweepInv' /\ LabelInv' /\ ManifestInv'
      BY <2>2, <3>1, <3>2, <3>3 DEF SelectionInv, RequestInv, SweepInv, LabelInv, ManifestInv
    <3>5. QED
      BY <3>4 DEF SelectionInv
  <2>3. CASE /\ job' = Idle
             /\ request' = [request EXCEPT !.status = "failed"] /\ UNCHANGED allVars
    <3>1. request'.status = "failed"
      BY <2>3 DEF SelectionInv, RequestInv
    <3>2. QED
      BY <1>1, <2>3, <3>1, SelectionEnds DEF allVars
  <2>4. CASE /\ job.id \in DOMAIN siteCache /\ Answered(job.id, {siteCache[job.id]})
             /\ Take(siteCache[job.id])
    <3>1. job' = Idle
      BY <2>4 DEF Answered
    <3>2. ASSUME request.status = "sweeping" PROVE siteCache[job.id].base = ByBasename[job.id]
      <4>1. job.id \in Bases
        BY <1>1, <3>2 DEF SelectionInv, SweepInv
      <4>2. QED
        BY <2>4, <4>1, CachedBase
    <3>3. QED
      BY <1>1, <2>4, <3>1, <3>2, SelectionTakes
  <2>5. CASE job' = [job EXCEPT !.stage = "files", !.base = found] /\ UNCHANGED <<request, allVars>>
    <3> HIDE DEF found
    <3>1. job'.id = job.id /\ job'.explain = job.explain
      BY <2>5, JobFieldsAre DEF LoadInv, JobTypes
    <3>2. QED
      BY <1>1, <2>5, <3>1, SelectionRests DEF allVars
  <2>6. QED
    BY <2>1, <2>2, <2>3, <2>4, <2>5
<1>4. QED
  BY <1>2, <1>3

LEMMA SelectionLoads ==
  ASSUME LoadInv, SelectionInv, Steady,
         \/ SkipDirectory \/ ReadBase \/ ReadOverlay \/ ReadParent \/ UnwindTemplate \/ UnwindBase
  PROVE  SelectionInv'
<1>1. job.stage # "idle"
  BY DEF SkipDirectory, ReadBase, ReadOverlay, ReadParent, UnwindTemplate, UnwindBase
<1>2. CASE FailLoad
  BY <1>1, <1>2, SelectionFails
<1>3. CASE ~FailLoad
  <2>1. \/ Skips \/ Merges \/ Inherits \/ Reuses \/ ReadsOne \/ Unwinds \/ MergesOwn
    <3> USE DEF KeepCaches, cacheVars
    <3>1. SkipDirectory => Skips
      BY Zenon DEF SkipDirectory, Skips
    <3>2. ReadBase => Merges \/ Inherits
      BY <1>3, Zenon DEF ReadBase, Merges, Inherits, HasFile, ParentsOf
    <3>3. ReadOverlay => Merges
      BY <1>3, Zenon DEF ReadOverlay, Merges, HasFile
    <3>4. ReadParent => Reuses \/ ReadsOne
      BY <1>3, Zenon DEF ReadParent, Reuses, ReadsOne, ParentsOf
    <3>5. UnwindTemplate => Unwinds
      BY Zenon DEF UnwindTemplate, Unwinds
    <3>6. UnwindBase => MergesOwn
      BY Zenon DEF UnwindBase, MergesOwn
    <3>7. QED
      BY <3>1, <3>2, <3>3, <3>4, <3>5, <3>6
  <2>2. job'.id = job.id /\ job'.explain = job.explain
    BY <2>1, LoadContinues DEF Continues, LoadInv
  <2>3. UNCHANGED <<request, queue, allSites, skipped>>
    BY <1>3, Zenon DEF SkipDirectory, ReadBase, ReadOverlay, ReadParent, UnwindTemplate, UnwindBase,
       allVars
  <2>4. QED
    BY <1>1, <2>2, <2>3, SelectionRests
<1>4. QED
  BY <1>2, <1>3

LEMMA SelectionFinishes ==
  ASSUME LoadInv, SelectionInv, Steady, FinishLoad
  PROVE  SelectionInv'
<1>1. job.stage # "idle" /\ Done
  BY DEF FinishLoad, Done
<1>2. CASE FailLoad
  BY <1>1, <1>2, SelectionFails
<1>3. CASE ~FailLoad
  <2>1. \/ /\ job.explain /\ job' = Idle /\ request' = [request EXCEPT !.status = "done"]
           /\ UNCHANGED allVars
        \/ Answered(job.id, {Loaded}) /\ Take(Loaded)
    BY <1>3, Zenon DEF FinishLoad
  <2>2. CASE /\ job.explain /\ job' = Idle /\ request' = [request EXCEPT !.status = "done"]
             /\ UNCHANGED allVars
    <3>1. request.status # "sweeping"
      BY <1>1, <2>2 DEF SelectionInv, SweepInv
    <3>2. QED
      BY <1>1, <2>2, <3>1, SelectionEnds DEF allVars
  <2>3. CASE Answered(job.id, {Loaded}) /\ Take(Loaded)
    <3>1. job' = Idle
      BY <2>3 DEF Answered
    <3>2. ASSUME request.status = "sweeping" PROVE Loaded.base = ByBasename[job.id]
      <4>1. job.id \in Bases
        BY <1>1, <3>2 DEF SelectionInv, SweepInv
      <4>2. QED
        BY <1>1, <4>1, LoadedBase
    <3>3. QED
      BY <1>1, <2>3, <3>1, <3>2, SelectionTakes
  <2>4. QED
    BY <2>1, <2>2, <2>3
<1>4. QED
  BY <1>2, <1>3

LEMMA SelectionStays ==
  ASSUME LoadInv, ~InheritedNames, SelectionInv, SiteNext
  PROVE  SelectionInv'
<1>1. ContentsAre /\ Steady
  BY FilesAreSteady DEF LoadInv
<1>2. ASSUME NEW place \in Places, EditFile(place) PROVE SelectionInv'
  BY <1>1, <1>2, EditIs, SelectionRests DEF allVars
<1>3. QED
  BY <1>1, <1>2, SelectionAsked, SelectionNames, SelectionNamed, SelectionSweeps, SelectionGoesOn,
     SelectionSwept, SelectionFinds, SelectionLoads, SelectionFinishes DEF SiteNext, LoadStep

LEMMA SelectionStarts ==
  ASSUME SiteInit
  PROVE  SelectionInv
<1>1. /\ job = Idle /\ queue = {} /\ allSites = {} /\ skipped = {}
      /\ request = [status |-> "none", by |-> "", names |-> <<>>, label |-> FALSE,
                    chosen |-> <<>>, swept |-> {}]
  BY DEF SiteInit
<1>2. RequestInv
  BY <1>1, IdleIs, FS_EmptySet DEF RequestInv
<1>3. SweepInv /\ LabelInv /\ ManifestInv
  BY <1>1 DEF SweepInv, LabelInv, ManifestInv
<1>4. QED
  BY <1>2, <1>3 DEF SelectionInv

LEMMA WholeSelection ==
  ASSUME SelectionInv
  PROVE  SelectionIsWhole
BY DEF SelectionInv, LabelInv, ManifestInv, SelectionIsWhole, BasesOf, OnceEach

-------------------------------------------------------------------------------
(* Contracts *)

(* An accepted contract has one input for a path.                          *)
LEMMA PathsAreUnique ==
  ASSUME NEW c, Declared(c), Accepted(c), NEW n \in Inputs(c), NEW m \in Inputs(c),
         NEW p \in c.fields[n].path, p \in c.fields[m].path
  PROVE  n = m
<1>1. Overlap(p, p)
  <2>1. p \in Seq(STRING)
    BY DEF Declared
  <2>2. Len(p) \in Nat
    BY <2>1
  <2>3. QED
    BY <2>2, SMT DEF Overlap, IsPrefix
<1>2. SUFFICES ASSUME n # m PROVE FALSE
  OBVIOUS
<1> DEFINE at(k) == CHOOSE i \in DOMAIN c.order : c.order[i] = k
<1>3. \A k \in Inputs(c) : at(k) \in DOMAIN c.order /\ c.order[at(k)] = k
  BY DEF Declared, ToSet
<1>4. at(n) \in 1 .. Len(c.order) /\ at(m) \in 1 .. Len(c.order) /\ at(n) # at(m)
  <2>1. DOMAIN c.order = 1 .. Len(c.order)
    BY DEF Declared
  <2>2. QED
    BY <1>2, <1>3, <2>1
<1> HIDE DEF at
<1>5. at(n) < at(m) \/ at(m) < at(n)
  BY <1>4, SMT
<1>6. CASE at(n) < at(m)
  <2>1. n \in Earlier(c, m)
    <3>1. Earlier(c, m) = {c.order[i] : i \in 1 .. at(m) - 1}
      BY DEF Earlier, at
    <3>2. at(n) \in 1 .. at(m) - 1
      BY <1>4, <1>6, SMT DEF Declared
    <3>3. QED
      BY <1>3, <3>1, <3>2
  <2>2. QED
    BY <1>1, <2>1 DEF Accepted, FieldAccepted
<1>7. CASE at(m) < at(n)
  <2>1. m \in Earlier(c, n)
    <3>1. Earlier(c, n) = {c.order[i] : i \in 1 .. at(n) - 1}
      BY DEF Earlier, at
    <3>2. at(m) \in 1 .. at(n) - 1
      BY <1>4, <1>7, SMT DEF Declared
    <3>3. QED
      BY <1>3, <3>1, <3>2
  <2>2. QED
    BY <1>1, <2>1 DEF Accepted, FieldAccepted
<1>8. QED
  BY <1>5, <1>6, <1>7

LEMMA RolesHaveOne ==
  ASSUME NEW c, Declared(c), NEW n \in Roles(c)
  PROVE  /\ n \in Inputs(c) /\ c.fields[n].resource = {Binding(c, n)}
         /\ Single(Binding(c, n).from)
BY DEF Declared, Roles, Binding, Single

(* What an accepted contract says of an input.                             *)
LEMMA FieldsAreAccepted ==
  ASSUME NEW c, Declared(c), Accepted(c), NEW n \in Inputs(c)
  PROVE  /\ n \in Roles(c) <=> c.fields[n].kind = "resource"
         /\ n \notin Roles(c) => c.fields[n].path # {}
         /\ c.fields[n].kind \in {"resource", "map"} =>
              /\ c.fields[n].default = {}
              /\ \A p \in c.fields[n].path : Head(p) \in {"parameters", "properties"}
BY DEF Accepted, FieldAccepted, Roles

LEMMA EarlierIsDeclared ==
  ASSUME NEW c, Declared(c), NEW n \in Inputs(c)
  PROVE  Earlier(c, n) \subseteq Inputs(c)
<1> DEFINE at == CHOOSE i \in DOMAIN c.order : c.order[i] = n
<1>1. at \in DOMAIN c.order
  BY DEF Declared, ToSet
<1>2. at \in 1 .. Len(c.order) /\ Len(c.order) \in Nat
  BY <1>1 DEF Declared
<1>3. Earlier(c, n) = {c.order[i] : i \in 1 .. at - 1}
  BY DEF Earlier
<1> HIDE DEF at
<1>4. \A i \in 1 .. at - 1 : i \in 1 .. Len(c.order)
  BY <1>2, SMT
<1>5. \A i \in 1 .. Len(c.order) : c.order[i] \in Inputs(c)
  BY DEF Declared
<1>6. QED
  BY <1>3, <1>4, <1>5

(* An input that a condition reads is there in any case, and no read       *)
(* supplies it.                                                            *)
LEMMA ControllersAreAnswered ==
  ASSUME NEW c, Declared(c), Accepted(c), NEW w \in Controllers(c)
  PROVE  /\ w \in Inputs(c) \ Roles(c) /\ c.fields[w].when = {} /\ c.fields[w].kind # "map"
         /\ \A m \in Roles(c) : w \notin DerivedBy(c, m)
         /\ c.nameFrom # {} => w \notin At(c, SiteName)
<1>1. PICK n \in Inputs(c) : \E when : when.input = w /\ ConditionAccepted(c, n, when)
  <2>1. CASE \E n \in Inputs(c) : \E when \in c.fields[n].when : when.input = w
    BY <2>1 DEF Accepted, FieldAccepted
  <2>2. CASE \E n \in Roles(c) : \E check \in Binding(c, n).requires : \E when \in check.when :
               when.input = w
    <3>1. PICK n \in Roles(c) : \E check \in Binding(c, n).requires : \E when \in check.when :
               when.input = w
      BY <2>2
    <3>2. BindingAccepted(c, n, Binding(c, n))
      BY RolesHaveOne DEF Accepted, FieldAccepted
    <3>3. QED
      BY <3>1, <3>2, RolesHaveOne DEF BindingAccepted
  <2> DEFINE activations == UNION {c.fields[n].when : n \in Inputs(c)}
             checks == UNION {Binding(c, n).requires : n \in Roles(c)}
             conditions == UNION {check.when : check \in checks}
  <2>3. Controllers(c) = {when.input : when \in activations \cup conditions}
    BY DEF Controllers
  <2>4. (\E when \in activations : when.input = w) => <2>1!1
    OBVIOUS
  <2>5. ASSUME NEW when \in conditions, when.input = w
        PROVE  \E n \in Roles(c) : \E check \in Binding(c, n).requires : \E x \in check.when :
                 x.input = w
    <3>1. PICK check \in checks : when \in check.when
      BY <2>5
    <3>2. PICK n \in Roles(c) : check \in Binding(c, n).requires
      BY <3>1
    <3>3. QED
      BY <2>5, <3>1, <3>2
  <2> HIDE DEF activations, conditions
  <2>6. QED
    BY <2>1, <2>2, <2>3, <2>4, <2>5
<1>2. w \in Inputs(c) /\ c.fields[w].when = {} /\ c.fields[w].kind \in {"string", "flag"}
  BY <1>1, EarlierIsDeclared DEF ConditionAccepted
<1>3. w \notin Roles(c)
  BY <1>2, FieldsAreAccepted
<1>4. \A m \in Roles(c) : w \notin DerivedBy(c, m)
  BY DEF DerivedBy, Accepted, RolesAccepted, DeriveAccepted
<1>5. ASSUME c.nameFrom # {}, w \in At(c, SiteName) PROVE FALSE
  <2>1. PICK name \in At(c, SiteName) : name \notin Controllers(c)
    BY <1>5 DEF Accepted, NameAccepted
  <2>2. name = w
    BY <1>5, <2>1, PathsAreUnique DEF At
  <2>3. QED
    BY <2>1, <2>2
<1>6. QED
  BY <1>2, <1>3, <1>4, <1>5

(* An input that takes a fact.                                             *)
LEMMA DerivedInputs ==
  ASSUME NEW c, Declared(c), Accepted(c), NEW m \in Roles(c), NEW fact \in DOMAIN Derive(c, m)
  PROVE  /\ Derive(c, m)[fact] \in Inputs(c) \ Roles(c)
         /\ c.fields[Derive(c, m)[fact]].kind = "string"
         /\ Derive(c, m)[fact] \in DerivedBy(c, m)
<1>1. DeriveAccepted(c, m, fact)
  BY DEF Accepted, RolesAccepted
<1>2. Derive(c, m)[fact] \in Inputs(c) /\ c.fields[Derive(c, m)[fact]].kind = "string"
  BY <1>1 DEF DeriveAccepted
<1>3. QED
  BY <1>2, FieldsAreAccepted DEF DerivedBy

-------------------------------------------------------------------------------
(* Answers *)

LEMMA OneAnswer ==
  ASSUME NEW c, Declared(c), NEW a, \A n \in DOMAIN a.file : Single(a.file[n]),
         NEW n \in Inputs(c), NEW v \in Given(c, a, n)
  PROVE  v = Chosen(c, a, n)
<1>1. Single(Answer(c, a, n))
  <2>1. CASE n \in DOMAIN a.inline
    <3> DEFINE merged == {Over(a.inline[n], entries) : entries \in a.file[n]}
    <3>0. Answer(c, a, n) =
            IF c.fields[n].kind = "map" /\ n \in DOMAIN a.file /\ a.file[n] # {}
              THEN merged ELSE {a.inline[n]}
      BY <2>1 DEF Answer
    <3>1. CASE c.fields[n].kind = "map" /\ n \in DOMAIN a.file /\ a.file[n] # {}
      <4>1. Answer(c, a, n) = {Over(a.inline[n], entries) : entries \in a.file[n]}
        BY <3>0, <3>1
      <4>2. QED
        BY <3>1, <4>1 DEF Single
    <3>2. CASE ~(c.fields[n].kind = "map" /\ n \in DOMAIN a.file /\ a.file[n] # {})
      <4>1. Answer(c, a, n) = {a.inline[n]}
        BY <3>0, <3>2
      <4>2. QED
        BY <4>1 DEF Single
    <3>3. QED
      BY <3>1, <3>2
  <2>2. CASE n \notin DOMAIN a.inline /\ n \in DOMAIN a.file
    BY <2>2 DEF Answer
  <2>3. CASE n \notin DOMAIN a.inline /\ n \notin DOMAIN a.file
    BY <2>3 DEF Answer, Declared
  <2>4. QED
    BY <2>1, <2>2, <2>3
<1>2. Given(c, a, n) \subseteq Answer(c, a, n)
  BY DEF Given
<1>3. Chosen(c, a, n) \in Given(c, a, n)
  BY DEF Chosen
<1>4. QED
  BY <1>1, <1>2, <1>3 DEF Single

(* What the answers were bound to: an active input to its answer, and what *)
(* nobody answered to what an ID states.                                   *)
LEMMA BoundToAnswers ==
  ASSUME NEW c, NEW a
  PROVE  /\ \A n \in Active(c, a) :
              n \in DOMAIN BoundValues(c, a) /\ BoundValues(c, a)[n] = Chosen(c, a, n)
         /\ \A n \in DOMAIN BoundValues(c, a) \ Active(c, a) :
              \E m \in ActiveRoles(c, a) : n \in DerivedBy(c, m)
         /\ DOMAIN BoundValues(c, a) \subseteq Inputs(c)
<1> DEFINE states(role, n) == {fact \in StatedFacts(c, role) : Derive(c, role)[fact] = n}
           by(n) == {role \in ActiveRoles(c, a) : states(role, n) # {}}
           answered == [n \in Active(c, a) |-> Chosen(c, a, n)]
           stated == [n \in {n \in Inputs(c) : by(n) # {}} |->
                        LET role == CHOOSE role \in by(n) : TRUE
                        IN  Stated(Chosen(c, a, role), CHOOSE fact \in states(role, n) : TRUE)]
<1>1. BoundValues(c, a) = Over(answered, stated)
  BY DEF BoundValues
<1>2. /\ DOMAIN answered = Active(c, a)
      /\ DOMAIN stated = {n \in Inputs(c) : by(n) # {}}
      /\ \A n \in Active(c, a) : answered[n] = Chosen(c, a, n)
  OBVIOUS
<1>3. \A n : by(n) # {} => \E m \in ActiveRoles(c, a) : n \in DerivedBy(c, m)
  BY DEF StatedFacts, DerivedBy
<1> HIDE DEF answered, stated, by
<1>4. Active(c, a) \subseteq Inputs(c)
  BY DEF Active
<1>5. QED
  BY <1>1, <1>2, <1>3, <1>4 DEF Over

(* The answers of a command are used, all of them.                         *)
LEMMA SuppliedIsActive ==
  ASSUME NEW c, Declared(c), Accepted(c), NEW a, \A n \in DOMAIN a.file : Single(a.file[n]),
         Binds(c, a), NEW n \in Inputs(c), Supplied(a, n), Given(c, a, n) # {}
  PROVE  n \in Active(c, a)
<1>1. ~Undecided(c, a, n)
  <2>1. SUFFICES ASSUME NEW when \in c.fields[n].when, Given(c, a, when.input) = {}
                 PROVE  FALSE
    BY DEF Undecided
  <2> DEFINE w == when.input
  <2>2. w \in Controllers(c)
    BY <2>1 DEF Controllers
  <2>3. w \in Inputs(c) /\ c.fields[w].when = {}
    BY <2>2, ControllersAreAnswered
  <2>4. c.fields[w].required
    BY <2>1 DEF Binds, EachIsUsed, Undecided
  <2>5. Applies(c, a, w) /\ w \notin Active(c, a)
    BY <2>1, <2>3 DEF Applies, Active
  <2>6. w \in DOMAIN BoundValues(c, a) \cup Derivable(c, Reads(c, a))
    BY <2>1, <2>3, <2>4, <2>5 DEF Binds, NoneMissing
  <2>7. \A m \in Roles(c) : w \notin DerivedBy(c, m)
    BY <2>2, ControllersAreAnswered
  <2>8. w \notin DOMAIN BoundValues(c, a)
    BY <2>5, <2>7, BoundToAnswers DEF ActiveRoles
  <2>9. w \notin Derivable(c, Reads(c, a))
    <3>1. Reads(c, a) \subseteq Roles(c)
      BY DEF Reads, Selected
    <3>2. \A m \in Reads(c, a) : w \notin DerivedBy(c, m)
      BY <2>7, <3>1
    <3>3. c.nameFrom \cap Reads(c, a) # {} => w \notin At(c, SiteName)
      BY <2>2, ControllersAreAnswered
    <3> DEFINE facts == UNION {DerivedBy(c, m) : m \in Reads(c, a)}
               named == IF c.nameFrom \cap Reads(c, a) # {} THEN At(c, SiteName) ELSE {}
    <3>4. Derivable(c, Reads(c, a)) = facts \cup named
      BY DEF Derivable
    <3>5. w \notin facts /\ w \notin named
      BY <3>2, <3>3
    <3>6. QED
      BY <3>4, <3>5
  <2>10. QED
    BY <2>6, <2>8, <2>9
<1>2. Applies(c, a, n)
  BY <1>1 DEF Binds, EachIsUsed
<1>3. QED
  BY <1>2 DEF Active

(* Which resources are read: those the answers name, and those a resource  *)
(* that is read leads to.                                                  *)
LEMMA ReadsAreSelected ==
  ASSUME NEW c, NEW a
  PROVE  /\ Reads(c, a) \subseteq Roles(c)
         /\ ActiveRoles(c, a) \subseteq Reads(c, a)
         /\ \A n \in Reads(c, a) :
              \/ n \in ActiveRoles(c, a)
              \/ \E link \in Binding(c, n).from : link.input \in Reads(c, a)
<1> DEFINE roles == Roles(c)
           whole(s) == /\ ActiveRoles(c, a) \subseteq s
                       /\ \A n \in roles :
                            (\E link \in Binding(c, n).from : link.input \in s) => n \in s
           sets == {s \in SUBSET roles : whole(s)}
           R == {n \in roles : \A s \in sets : n \in s}
<1>1. Reads(c, a) = R
  BY DEF Reads, Selected
<1>2. R \subseteq roles /\ ActiveRoles(c, a) \subseteq R
  BY DEF ActiveRoles
<1>3. whole(R)
  <2>1. ASSUME NEW n \in roles, NEW link \in Binding(c, n).from, link.input \in R
        PROVE  n \in R
    BY <2>1
  <2>2. QED
    BY <1>2, <2>1
<1>4. ASSUME NEW n \in R, n \notin ActiveRoles(c, a),
             \A link \in Binding(c, n).from : link.input \notin R
      PROVE  FALSE
  <2> DEFINE less == R \ {n}
  <2>1. less \in SUBSET roles /\ ActiveRoles(c, a) \subseteq less
    BY <1>2, <1>4
  <2>2. ASSUME NEW m \in roles, NEW link \in Binding(c, m).from, link.input \in less
        PROVE  m \in less
    <3>1. m \in R
      BY <1>3, <2>2
    <3>2. m # n
      BY <1>4, <2>2
    <3>3. QED
      BY <3>1, <3>2
  <2>3. less \in sets
    BY <2>1, <2>2
  <2>4. QED
    BY <2>3
<1>5. QED
  BY <1>1, <1>2, <1>4

(* A resource that is read was named by an answer, or by an earlier one    *)
(* that is read; never by both.                                            *)
LEMMA ReadsAreLinked ==
  ASSUME NEW c, Declared(c), Accepted(c), NEW a, Binds(c, a), NEW n \in Reads(c, a)
  PROVE  /\ ~Related(c, n) => n \in ActiveRoles(c, a)
         /\ Related(c, n) => /\ Link(c, n) \in Binding(c, n).from
                             /\ Link(c, n).input \in Reads(c, a) \cap Earlier(c, n)
<1>1. n \in Roles(c) /\ n \in Inputs(c)
  BY ReadsAreSelected, RolesHaveOne
<1>2. CASE ~Related(c, n)
  BY <1>1, <1>2, ReadsAreSelected DEF Related
<1>3. CASE Related(c, n)
  <2>1. n \notin ActiveRoles(c, a)
    <3>1. SUFFICES ASSUME n \in ActiveRoles(c, a) PROVE FALSE
      OBVIOUS
    <3>2. Given(c, a, n) # {}
      BY <3>1 DEF ActiveRoles, Active
    <3>3. Answer(c, a, n) # {}
      BY <3>2 DEF Given
    <3>4. c.fields[n].default = {}
      BY <1>1, FieldsAreAccepted
    <3>5. Supplied(a, n)
      BY <3>3, <3>4 DEF Answer, Supplied
    <3>6. QED
      BY <1>1, <1>3, <3>5 DEF Binds, AnswersAccepted
  <2>2. PICK link \in Binding(c, n).from : link.input \in Reads(c, a)
    BY <2>1, ReadsAreSelected
  <2>3. Link(c, n) = link /\ Link(c, n) \in Binding(c, n).from
    BY <1>1, <2>2, RolesHaveOne DEF Link, Single
  <2>4. link.input \in Earlier(c, n)
    BY <1>1, <2>2, RolesHaveOne DEF Accepted, FieldAccepted, BindingAccepted
  <2>5. QED
    BY <1>3, <2>2, <2>3, <2>4
<1>4. QED
  BY <1>2, <1>3

-------------------------------------------------------------------------------
(* What was read *)

Followed(c, given, seen) ==
  \A n \in DOMAIN seen :
    /\ seen[n].id = Target(c, n, given, seen)
    /\ RequestAccepted(c, n, given, seen)
    /\ ObservationAccepted(c, n, given, seen[n])
    /\ Related(c, n) => Link(c, n).input \in DOMAIN seen

LEMMA FollowedGrows ==
  ASSUME NEW c, NEW given, NEW seen, Followed(c, given, seen), NEW n, n \notin DOMAIN seen,
         NEW now, DOMAIN now = DOMAIN seen \cup {n}, \A m \in DOMAIN seen : now[m] = seen[m],
         now[n].id = Target(c, n, given, seen), RequestAccepted(c, n, given, seen),
         ObservationAccepted(c, n, given, now[n]),
         Related(c, n) => Link(c, n).input \in DOMAIN seen
  PROVE  Followed(c, given, now)
<1>1. DOMAIN now = DOMAIN seen \cup {n} /\ \A m \in DOMAIN seen : now[m] = seen[m]
  OBVIOUS
<1>2. ASSUME NEW m, Related(c, m) => Link(c, m).input \in DOMAIN seen
      PROVE  /\ Target(c, m, given, now) = Target(c, m, given, seen)
             /\ RequestAccepted(c, m, given, seen) => RequestAccepted(c, m, given, now)
  BY <1>1, <1>2 DEF Target, RequestAccepted
<1>3. ASSUME NEW m \in DOMAIN now
      PROVE  /\ now[m].id = Target(c, m, given, now)
             /\ RequestAccepted(c, m, given, now)
             /\ ObservationAccepted(c, m, given, now[m])
             /\ Related(c, m) => Link(c, m).input \in DOMAIN now
  <2>1. CASE m = n
    BY <1>1, <1>2, <2>1
  <2>2. CASE m \in DOMAIN seen
    BY <1>1, <1>2, <2>2 DEF Followed
  <2>3. QED
    BY <1>1, <2>1, <2>2
<1>4. QED
  BY <1>3 DEF Followed

-------------------------------------------------------------------------------
(* The Site that is built *)

Ready(c, a, given, seen) ==
  /\ Declared(c) /\ Accepted(c) /\ \A n \in DOMAIN a.file : Single(a.file[n])
  /\ Binds(c, a) /\ given = BoundValues(c, a)
  /\ Followed(c, given, seen) /\ DOMAIN seen = Reads(c, a)
  /\ Builds(c, Reads(c, a), given, seen)

(* The answers come first, and what is read gives only what it may.        *)
LEMMA SiteHasValues ==
  ASSUME NEW c, NEW some, NEW given, NEW seen
  PROVE  DOMAIN SiteValues(c, some, given, seen) = DOMAIN given \cup Derivable(c, some)
<1> DEFINE pairs == ObservedValues(c, some, seen)
           derived == [n \in {pair[1] : pair \in pairs} |-> (CHOOSE pair \in pairs : pair[1] = n)[2]]
           called == [n \in IF c.nameFrom \cap some = {} THEN {} ELSE At(c, SiteName) |->
                        Fold[Parts[seen[CHOOSE m \in c.nameFrom : TRUE].id].name]]
<1>1. SiteValues(c, some, given, seen) = Over(given, Over(derived, called))
  BY DEF SiteValues
<1>2. DOMAIN derived = UNION {DerivedBy(c, n) : n \in some}
  <2>1. DOMAIN derived = {pair[1] : pair \in pairs}
    OBVIOUS
  <2>2. ASSUME NEW n \in some, NEW x \in DerivedBy(c, n)
        PROVE  x \in {pair[1] : pair \in pairs}
    <3>1. PICK fact \in DOMAIN Derive(c, n) : x = Derive(c, n)[fact]
      BY <2>2 DEF DerivedBy
    <3>2. <<x, FactOf(seen[n], fact)>> \in pairs
      BY <3>1 DEF ObservedValues
    <3>3. <<x, FactOf(seen[n], fact)>>[1] = x
      OBVIOUS
    <3>4. QED
      BY <3>2, <3>3
  <2>3. ASSUME NEW pair \in pairs
        PROVE  \E n \in some : pair[1] \in DerivedBy(c, n)
    <3>1. PICK n \in some : pair \in {<<Derive(c, n)[fact], FactOf(seen[n], fact)>> :
                                        fact \in DOMAIN Derive(c, n)}
      BY <2>3 DEF ObservedValues
    <3>2. PICK fact \in DOMAIN Derive(c, n) : pair = <<Derive(c, n)[fact], FactOf(seen[n], fact)>>
      BY <3>1
    <3>3. QED
      BY <3>2 DEF DerivedBy
  <2>4. QED
    BY <2>1, <2>2, <2>3
<1>3. DOMAIN called = IF c.nameFrom \cap some # {} THEN At(c, SiteName) ELSE {}
  OBVIOUS
<1> HIDE DEF derived, called
<1>4. Derivable(c, some) = DOMAIN derived \cup DOMAIN called
  BY <1>2, <1>3 DEF Derivable
<1>5. QED
  BY <1>1, <1>4 DEF Over

LEMMA AnswersComeFirst ==
  ASSUME NEW c, NEW some, NEW given, NEW seen, NEW n \in DOMAIN given
  PROVE  SiteValues(c, some, given, seen)[n] = given[n]
BY DEF SiteValues, Over

LEMMA ValuesOfTheSite ==
  ASSUME NEW c, NEW a, NEW given, NEW seen, Ready(c, a, given, seen)
  PROVE  /\ \A n \in DOMAIN given : SiteValues(c, Reads(c, a), given, seen)[n] = given[n]
         /\ \A n \in DOMAIN given : n \in DOMAIN SiteValues(c, Reads(c, a), given, seen)
         /\ \A n \in Derivable(c, Reads(c, a)) : n \in DOMAIN SiteValues(c, Reads(c, a), given, seen)
         /\ \A n \in DOMAIN SiteValues(c, Reads(c, a), given, seen) :
              n \in DOMAIN given \/ n \in Derivable(c, Reads(c, a))
<1> DEFINE some == Reads(c, a)
           values == SiteValues(c, some, given, seen)
<1>1. DOMAIN values = DOMAIN given \cup Derivable(c, some)
  BY SiteHasValues
<1>2. \A n \in DOMAIN given : values[n] = given[n]
  BY AnswersComeFirst
<1> HIDE DEF some, values
<1>3. /\ \A n \in DOMAIN given : values[n] = given[n]
      /\ \A n \in DOMAIN given : n \in DOMAIN values
      /\ \A n \in Derivable(c, some) : n \in DOMAIN values
      /\ \A n \in DOMAIN values : n \in DOMAIN given \/ n \in Derivable(c, some)
  BY <1>1, <1>2
<1>4. QED
  BY <1>3 DEF some, values

(* What stands in the Site at the path of an input that is written.        *)
LEMMA SiteHasInputs ==
  ASSUME NEW c, Declared(c), Accepted(c), NEW some \in SUBSET Inputs(c), NEW given, NEW seen
  PROVE  LET values == SiteValues(c, some, given, seen)
             written == Written(c, some, values)
             built == BuiltSite(c, some, given, seen)
         IN  \A n \in written : \A p \in c.fields[n].path :
               /\ p \in DOMAIN built
               /\ built[p] = IF n \in Roles(c) THEN seen[n].id ELSE values[n]
<1> DEFINE values == SiteValues(c, some, given, seen)
           written == Written(c, some, values)
           built == BuiltSite(c, some, given, seen)
           at(p) == CHOOSE n \in written : c.fields[n].path = {p}
           filled == [p \in UNION {c.fields[n].path : n \in written} |->
                        IF at(p) \in Roles(c) THEN seen[at(p)].id ELSE values[at(p)]]
<1>1. built = Over(filled, c.defaults)
  BY DEF BuiltSite
<1>2. written \subseteq Inputs(c)
  BY DEF Written
<1> HIDE DEF values, written, built
<1>3. DOMAIN filled = UNION {c.fields[n].path : n \in written}
  OBVIOUS
<1>4. ASSUME NEW n \in written, NEW p \in c.fields[n].path
      PROVE  p \in DOMAIN filled /\ filled[p] = IF n \in Roles(c) THEN seen[n].id ELSE values[n]
  <2>1. c.fields[n].path = {p}
    BY <1>2 DEF Declared, Single
  <2>2. \A m \in written : c.fields[m].path = {p} => m = n
    BY <1>2, PathsAreUnique
  <2>3. at(p) = n
    BY <2>1, <2>2
  <2>4. p \in UNION {c.fields[m].path : m \in written}
    OBVIOUS
  <2> HIDE DEF at
  <2>5. QED
    BY <2>3, <2>4
<1> HIDE DEF filled
<1>5. \A n \in written : \A p \in c.fields[n].path :
        p \in DOMAIN built /\ built[p] = IF n \in Roles(c) THEN seen[n].id ELSE values[n]
  BY <1>1, <1>4 DEF Over
<1>6. QED
  BY <1>5 DEF values, written, built

(* What stands at the path of no input that is written.                    *)
LEMMA DefaultsStand ==
  ASSUME NEW c, NEW some, NEW given, NEW seen, NEW p,
         \A n \in Written(c, some, SiteValues(c, some, given, seen)) : p \notin c.fields[n].path
  PROVE  /\ p \in DOMAIN BuiltSite(c, some, given, seen) =>
              p \in DOMAIN c.defaults /\ BuiltSite(c, some, given, seen)[p] = c.defaults[p]
         /\ p \in DOMAIN c.defaults => p \in DOMAIN BuiltSite(c, some, given, seen)
<1> DEFINE values == SiteValues(c, some, given, seen)
           written == Written(c, some, values)
           at(q) == CHOOSE n \in written : c.fields[n].path = {q}
           filled == [q \in UNION {c.fields[n].path : n \in written} |->
                        IF at(q) \in Roles(c) THEN seen[at(q)].id ELSE values[at(q)]]
<1>1. BuiltSite(c, some, given, seen) = Over(filled, c.defaults)
  BY DEF BuiltSite
<1>2. \A n \in written : p \notin c.fields[n].path
  OBVIOUS
<1> HIDE DEF values, written
<1>3. p \notin DOMAIN filled
  BY <1>2
<1> HIDE DEF filled
<1>4. QED
  BY <1>1, <1>3 DEF Over

LEMMA ReadsAreInputs ==
  ASSUME NEW c, NEW a
  PROVE  Reads(c, a) \in SUBSET Inputs(c)
BY ReadsAreSelected DEF Roles

(* An input that is written and is not a map stands in the Site.           *)
LEMMA ValueStands ==
  ASSUME NEW c, NEW a, NEW given, NEW seen, Ready(c, a, given, seen),
         NEW n \in Inputs(c) \ Roles(c), n \in DOMAIN SiteValues(c, Reads(c, a), given, seen),
         c.fields[n].kind = "map" =>
           DOMAIN SiteValues(c, Reads(c, a), given, seen)[n] # {},
         NEW p \in c.fields[n].path
  PROVE  /\ p \in DOMAIN BuiltSite(c, Reads(c, a), given, seen)
         /\ BuiltSite(c, Reads(c, a), given, seen)[p] = SiteValues(c, Reads(c, a), given, seen)[n]
<1>1. n \in Written(c, Reads(c, a), SiteValues(c, Reads(c, a), given, seen))
  BY DEF Written
<1>2. Declared(c) /\ Accepted(c)
  BY DEF Ready
<1>3. QED
  BY <1>1, <1>2, ReadsAreInputs, SiteHasInputs

(* Every answer is in the Site, or is the resource that was read.          *)
LEMMA AnswersStand ==
  ASSUME NEW c, NEW a, NEW given, NEW seen, Ready(c, a, given, seen),
         NEW n \in Inputs(c), Supplied(a, n), NEW v \in Given(c, a, n)
  PROVE  IF n \in Roles(c)
           THEN n \in DOMAIN seen /\ seen[n].id = v
           ELSE \A p \in c.fields[n].path :
                  (c.fields[n].kind = "map" => DOMAIN v # {}) =>
                    /\ p \in DOMAIN BuiltSite(c, Reads(c, a), given, seen)
                    /\ BuiltSite(c, Reads(c, a), given, seen)[p] = v
<1> USE DEF Ready
<1>1. n \in Active(c, a)
  BY SuppliedIsActive
<1>2. v = Chosen(c, a, n)
  BY OneAnswer
<1>3. n \in DOMAIN given /\ given[n] = v
  BY <1>1, <1>2, BoundToAnswers
<1>4. CASE n \in Roles(c)
  <2>1. n \in DOMAIN seen
    BY <1>1, <1>4, ReadsAreSelected DEF ActiveRoles
  <2>2. ~Related(c, n)
    BY <1>4 DEF Binds, AnswersAccepted
  <2>3. seen[n].id = given[n]
    BY <2>1, <2>2 DEF Followed, Target
  <2>4. QED
    BY <1>3, <1>4, <2>1, <2>3
<1>5. CASE n \notin Roles(c)
  <2>1. /\ n \in DOMAIN SiteValues(c, Reads(c, a), given, seen)
        /\ SiteValues(c, Reads(c, a), given, seen)[n] = v
    BY <1>3, ValuesOfTheSite
  <2>2. QED
    BY <1>5, <2>1, ValueStands
<1>6. QED
  BY <1>4, <1>5

(* What a resource says of an input is in the Site.                        *)
LEMMA FactsStand ==
  ASSUME NEW c, NEW a, NEW given, NEW seen, Ready(c, a, given, seen),
         NEW n \in Reads(c, a), NEW fact \in DOMAIN Derive(c, n),
         NEW p \in c.fields[Derive(c, n)[fact]].path
  PROVE  /\ p \in DOMAIN BuiltSite(c, Reads(c, a), given, seen)
         /\ Same(BuiltSite(c, Reads(c, a), given, seen)[p], FactOf(seen[n], fact))
<1> USE DEF Ready
<1> DEFINE t == Derive(c, n)[fact]
           values == SiteValues(c, Reads(c, a), given, seen)
<1>1. n \in Roles(c)
  BY ReadsAreSelected
<1>2. t \in Inputs(c) \ Roles(c) /\ c.fields[t].kind = "string" /\ t \in DerivedBy(c, n)
  BY <1>1, DerivedInputs
<1>3. t \in DOMAIN values
  BY <1>2, ValuesOfTheSite DEF Derivable
<1>4. Same(values[t], FactOf(seen[n], fact))
  <2>1. <<t, FactOf(seen[n], fact)>> \in ObservedValues(c, Reads(c, a), seen)
    BY DEF ObservedValues
  <2>2. AgreesWithSeen(c, Reads(c, a), values, seen)
    BY DEF Builds
  <2>3. QED
    BY <2>1, <2>2 DEF AgreesWithSeen
<1>5. QED
  BY <1>2, <1>3, <1>4, ValueStands

(* A resource that must be in the Site's subscription is.                  *)
LEMMA ScopeStands ==
  ASSUME NEW c, NEW a, NEW given, NEW seen, Ready(c, a, given, seen),
         NEW n \in Reads(c, a), Binding(c, n).scoped
  PROVE  Same(BuiltSite(c, Reads(c, a), given, seen)[Subscription],
              Parts[seen[n].id].subscription)
<1> USE DEF Ready
<1>1. InScope(c, n, seen[n].id, given)
  <2>1. CASE Related(c, n)
    BY <2>1 DEF Followed, RequestAccepted
  <2>2. CASE ~Related(c, n)
    <3>1. n \in ActiveRoles(c, a)
      BY <2>2, ReadsAreLinked
    <3>2. seen[n].id = Chosen(c, a, n)
      BY <2>2, <3>1, BoundToAnswers DEF Followed, Target, ActiveRoles
    <3>3. QED
      BY <3>1, <3>2 DEF Binds, IdsAgree
  <2>3. QED
    BY <2>1, <2>2
<1>2. PICK t \in At(c, Subscription) :
        t \in DOMAIN given /\ Same(given[t], Parts[seen[n].id].subscription)
  BY <1>1 DEF InScope
<1>3. t \in Inputs(c) /\ Subscription \in c.fields[t].path
  BY <1>2 DEF At
<1>4. t \notin Roles(c) /\ c.fields[t].kind # "map"
  <2>1. Head(Subscription) = "subscription"
    BY DEF Subscription
  <2>2. QED
    BY <1>3, <2>1, FieldsAreAccepted
<1>5. /\ t \in DOMAIN SiteValues(c, Reads(c, a), given, seen)
      /\ SiteValues(c, Reads(c, a), given, seen)[t] = given[t]
  BY <1>2, ValuesOfTheSite
<1>6. QED
  BY <1>2, <1>3, <1>4, <1>5, ValueStands

(* A prerequisite that the Site's values ask for was seen to hold.         *)
LEMMA ChecksHeld ==
  ASSUME NEW c, NEW a, NEW given, NEW seen, Ready(c, a, given, seen),
         NEW n \in Roles(c), NEW check \in Binding(c, n).requires,
         \A when \in c.fields[n].when \cup check.when : \A p \in c.fields[when.input].path :
           /\ p \in DOMAIN BuiltSite(c, Reads(c, a), given, seen)
           /\ BuiltSite(c, Reads(c, a), given, seen)[p] = when.equals
           /\ p \in DOMAIN c.defaults => when.input \in DOMAIN given
  PROVE  n \in DOMAIN seen /\ check.fact \in DOMAIN seen[n].facts /\ seen[n].facts[check.fact]
<1> USE DEF Ready
<1> DEFINE values == SiteValues(c, Reads(c, a), given, seen)
<1>1. ASSUME NEW when \in c.fields[n].when \cup check.when
      PROVE  Says(given, when)
  <2> DEFINE w == when.input
  <2>1. w \in Controllers(c)
    <3>1. n \in Inputs(c) /\ check \in UNION {Binding(c, m).requires : m \in Roles(c)}
      BY RolesHaveOne
    <3>2. when \in (UNION {c.fields[m].when : m \in Inputs(c)})
                     \cup (UNION {x.when : x \in UNION {Binding(c, m).requires : m \in Roles(c)}})
      BY <1>1, <3>1
    <3>3. QED
      BY <3>2 DEF Controllers
  <2>2. /\ w \in Inputs(c) \ Roles(c) /\ c.fields[w].kind # "map" /\ c.fields[w].path # {}
        /\ \A m \in Roles(c) : w \notin DerivedBy(c, m)
        /\ c.nameFrom # {} => w \notin At(c, SiteName)
    BY <2>1, ControllersAreAnswered, FieldsAreAccepted
  <2>3. PICK p \in c.fields[w].path : TRUE
    BY <2>2
  <2>4. /\ p \in DOMAIN BuiltSite(c, Reads(c, a), given, seen)
        /\ BuiltSite(c, Reads(c, a), given, seen)[p] = when.equals
        /\ p \in DOMAIN c.defaults => w \in DOMAIN given
    BY <1>1, <2>3
  <2>5. w \in DOMAIN given
    <3>1. SUFFICES ASSUME w \notin DOMAIN given, p \notin DOMAIN c.defaults PROVE FALSE
      BY <2>4
    <3>2. PICK m \in Written(c, Reads(c, a), values) : p \in c.fields[m].path
      BY <2>4, <3>1, DefaultsStand
    <3>3. m \in Inputs(c)
      BY <3>2, ReadsAreInputs DEF Written
    <3>4. m = w
      BY <2>2, <2>3, <3>2, <3>3, PathsAreUnique
    <3>5. w \in DOMAIN values
      BY <2>2, <3>2, <3>4, ReadsAreSelected DEF Written
    <3>6. w \in Derivable(c, Reads(c, a))
      BY <3>1, <3>5, ValuesOfTheSite
    <3> DEFINE facts == UNION {DerivedBy(c, m2) : m2 \in Reads(c, a)}
               named == IF c.nameFrom \cap Reads(c, a) # {} THEN At(c, SiteName) ELSE {}
    <3>7. Derivable(c, Reads(c, a)) = facts \cup named
      BY DEF Derivable
    <3>8. w \notin facts
      BY <2>2, ReadsAreSelected
    <3>9. w \notin named
      BY <2>2
    <3>10. QED
      BY <3>6, <3>7, <3>8, <3>9
  <2>6. w \in DOMAIN values /\ values[w] = given[w]
    BY <2>5, ValuesOfTheSite
  <2>7. BuiltSite(c, Reads(c, a), given, seen)[p] = values[w]
    BY <2>2, <2>3, <2>6, ValueStands
  <2>8. QED
    BY <2>4, <2>5, <2>6, <2>7 DEF Says
<1>2. check.fact \in Checks(c, n, given)
  BY <1>1 DEF Checks
<1>3. n \in Reads(c, a)
  BY <1>1, <1>2 DEF Binds, ChecksAreRead
<1>4. ObservationAccepted(c, n, given, seen[n])
  BY <1>3 DEF Followed
<1>5. QED
  BY <1>2, <1>3, <1>4 DEF ObservationAccepted

(* Names and labels that are known before a read are final.                *)
LEMMA KnownStands ==
  ASSUME NEW c, NEW a, NEW given, NEW seen, Ready(c, a, given, seen)
  PROVE  LET known == KnownIdentity(c, a)
             built == BuiltSite(c, Reads(c, a), given, seen)
         IN  /\ \A p \in DOMAIN known.values \ known.pending :
                  p \in DOMAIN built /\ built[p] = known.values[p]
             /\ \A p \in DOMAIN built :
                  IsIdentity(p) => p \in DOMAIN known.values \cup known.pending
<1> USE DEF Ready
<1> DEFINE ids == Identities(c) \cap DOMAIN given
           later == (Identities(c) \ ids) \cap Derivable(c, Reads(c, a))
           pending == UNION {c.fields[n].path : n \in later}
           at(p) == CHOOSE n \in ids : c.fields[n].path = {p}
           answered == [p \in UNION {c.fields[n].path : n \in ids} |-> given[at(p)]]
           standing == [p \in {p \in DOMAIN c.defaults : IsIdentity(p)} |-> c.defaults[p]]
           known == KnownIdentity(c, a)
           values == SiteValues(c, Reads(c, a), given, seen)
           written == Written(c, Reads(c, a), values)
           built == BuiltSite(c, Reads(c, a), given, seen)
<1>1. known.values = Over(answered, standing) /\ known.pending = pending
  BY DEF KnownIdentity, KnownValues
<1>2. /\ DOMAIN answered = UNION {c.fields[n].path : n \in ids}
      /\ \A p \in DOMAIN answered : answered[p] = given[at(p)]
      /\ DOMAIN standing = {p \in DOMAIN c.defaults : IsIdentity(p)}
      /\ \A p \in DOMAIN standing : standing[p] = c.defaults[p]
  OBVIOUS
<1> HIDE DEF answered, standing, known
<1>3. /\ DOMAIN known.values = DOMAIN answered \cup DOMAIN standing
      /\ \A p \in DOMAIN answered : known.values[p] = answered[p]
      /\ \A p \in DOMAIN standing \ DOMAIN answered : known.values[p] = c.defaults[p]
  BY <1>1, <1>2 DEF Over
<1>4. \A n \in Identities(c) :
        n \in Inputs(c) \ Roles(c) /\ \A p \in c.fields[n].path : IsIdentity(p)
  BY DEF Identities
<1>5. \A n \in Identities(c) : c.fields[n].kind # "map"
  <2>1. SUFFICES ASSUME NEW n \in Identities(c), c.fields[n].kind = "map" PROVE FALSE
    OBVIOUS
  <2>2. PICK p \in c.fields[n].path : TRUE
    BY <1>4, <2>1, FieldsAreAccepted
  <2>3. QED
    BY <1>4, <2>1, <2>2, FieldsAreAccepted DEF IsIdentity
<1>6. \A n \in Inputs(c) : (\E p \in c.fields[n].path : IsIdentity(p)) => n \in Identities(c)
  <2>1. SUFFICES ASSUME NEW n \in Inputs(c), NEW p \in c.fields[n].path, IsIdentity(p)
                 PROVE  n \in Identities(c)
    OBVIOUS
  <2>2. n \notin Roles(c)
    BY <2>1, FieldsAreAccepted DEF IsIdentity
  <2>3. \A q \in c.fields[n].path : q = p
    BY <2>1 DEF Declared, Single
  <2>4. QED
    BY <2>1, <2>2, <2>3 DEF Identities
<1>7. ASSUME NEW n \in ids, NEW p \in c.fields[n].path
      PROVE  p \in DOMAIN built /\ built[p] = given[n] /\ at(p) = n
  <2>1. n \in DOMAIN values /\ values[n] = given[n]
    BY ValuesOfTheSite
  <2>2. p \in DOMAIN built /\ built[p] = values[n]
    BY <1>4, <1>5, <2>1, ValueStands
  <2>3. c.fields[n].path = {p}
    BY <1>4 DEF Declared, Single
  <2>4. \A m \in ids : c.fields[m].path = {p} => m = n
    BY <1>4, <2>3, PathsAreUnique
  <2>5. QED
    BY <2>1, <2>2, <2>3, <2>4
<1>8. ASSUME NEW m \in written, NEW p \in c.fields[m].path, IsIdentity(p)
      PROVE  m \in ids \cup later
  <2>1. m \in Inputs(c)
    BY ReadsAreInputs DEF Written
  <2>2. m \in Identities(c)
    BY <1>6, <1>8, <2>1
  <2>3. m \in DOMAIN values
    BY <1>4, <2>2, ReadsAreSelected DEF Written
  <2>4. QED
    BY <2>2, <2>3, ValuesOfTheSite
<1>12. ASSUME NEW p, \A n \in written : p \notin c.fields[n].path
       PROVE  /\ p \in DOMAIN built => p \in DOMAIN c.defaults /\ built[p] = c.defaults[p]
              /\ p \in DOMAIN c.defaults => p \in DOMAIN built
  BY <1>12, DefaultsStand
<1> HIDE DEF written, built
<1>9. ASSUME NEW p \in DOMAIN known.values \ known.pending
      PROVE  p \in DOMAIN built /\ built[p] = known.values[p]
  <2>1. CASE p \in DOMAIN answered
    <3>1. PICK n \in ids : p \in c.fields[n].path
      BY <1>2, <2>1
    <3>2. p \in DOMAIN built /\ built[p] = given[n] /\ at(p) = n
      BY <1>7, <3>1
    <3>3. known.values[p] = given[at(p)]
      BY <1>2, <1>3, <2>1
    <3>4. QED
      BY <3>2, <3>3
  <2>2. CASE p \in DOMAIN standing \ DOMAIN answered
    <3>1. p \in DOMAIN c.defaults /\ IsIdentity(p) /\ known.values[p] = c.defaults[p]
      BY <1>2, <1>3, <2>2
    <3>2. ASSUME NEW n \in written, p \in c.fields[n].path PROVE FALSE
      <4>1. n \in ids \cup later
        BY <1>8, <3>1, <3>2
      <4>2. n \notin ids
        BY <1>2, <2>2, <3>2
      <4>3. p \in pending
        BY <3>2, <4>1, <4>2
      <4>4. QED
        BY <1>1, <1>9, <4>3
    <3>3. \A n \in written : p \notin c.fields[n].path
      BY <3>2
    <3>4. QED
      BY <1>12, <3>1, <3>3
  <2>3. QED
    BY <1>3, <1>9, <2>1, <2>2
<1>10. ASSUME NEW p \in DOMAIN built, IsIdentity(p)
       PROVE  p \in DOMAIN known.values \cup known.pending
  <2>1. CASE \E n \in written : p \in c.fields[n].path
    BY <1>1, <1>2, <1>3, <1>8, <1>10, <2>1
  <2>2. CASE \A n \in written : p \notin c.fields[n].path
    <3>1. p \in DOMAIN c.defaults
      BY <1>12, <2>2
    <3>2. QED
      BY <1>2, <1>3, <1>10, <3>1
  <2>3. QED
    BY <2>1, <2>2
<1>11. QED
  BY <1>9, <1>10 DEF known, built

-------------------------------------------------------------------------------
(* A command with typed answers *)

LineIsKnown ==
  /\ line.manifest \in DOMAIN Contracts /\ Declared(Contract)
  /\ \A n \in DOMAIN Answers.file : Single(Answers.file[n])

\* The stages in which nothing is bound yet, and those that work with what is.
Opening == {"start", "file", "bind"}
Working == {"manifest", "read", "build"}

NothingYet ==
  /\ stage \in Opening => observed = NoValues /\ asked = {}
  /\ stage \in Opening \cup Working => site = {}

IsBound ==
  /\ Accepted(Contract) /\ Binds(Contract, Answers)
  /\ bound = BoundValues(Contract, Answers) /\ reads = Reads(Contract, Answers)

BoundInTime ==
  /\ stage = "bind" => Accepted(Contract)
  /\ stage \in Working => IsBound

ReadsAreFollowed ==
  /\ Followed(Contract, bound, observed)
  /\ stage \in Working => DOMAIN observed \subseteq reads
  /\ \A n \in DOMAIN observed : observed[n].id \in asked
  /\ stage = "build" => reads \subseteq DOMAIN observed

SiteIsBuilt ==
  Resolved =>
    /\ IsBound /\ Ready(Contract, Answers, bound, observed)
    /\ site = {BuiltSite(Contract, reads, bound, observed)}

TypedInv ==
  LineIsKnown /\ NothingYet /\ BoundInTime /\ ReadsAreFollowed /\ SiteIsBuilt /\ ReadsStayNear

CommandInv == IF typed THEN TypedInv ELSE site = {} /\ asked = {}

LEMMA TypedInit == InputInit => TypedInv
<1> SUFFICES ASSUME InputInit PROVE TypedInv
  OBVIOUS
<1>1. PICK m \in DOMAIN Contracts, a \in AnswerSets : \E options \in Options[m] :
        line = Over([manifest |-> m, answers |-> a], options)
  BY DEF InputInit
<1>2. line.manifest = m /\ line.answers = a
  BY <1>1 DEF Over
<1>3. LineIsKnown
  BY <1>2, InputAssumption DEF LineIsKnown, Contract, Answers
<1>4. /\ stage = "start" /\ observed = NoValues /\ asked = {} /\ site = {}
      /\ DOMAIN observed = {}
  BY DEF InputInit, Started, NoValues
<1>5. NothingYet /\ BoundInTime /\ SiteIsBuilt /\ ReadsStayNear
  BY <1>4 DEF NothingYet, BoundInTime, SiteIsBuilt, ReadsStayNear, Opening, Working, Resolved
<1>6. ReadsAreFollowed
  BY <1>4 DEF ReadsAreFollowed, Followed, Working
<1>7. QED
  BY <1>3, <1>5, <1>6 DEF TypedInv

(* A step that leaves what was bound, read and built alone, and moves only *)
(* to a stage that asks for no more.                                       *)
LEMMA TypedMoves ==
  ASSUME TypedInv, UNCHANGED <<line, reads, bound, observed, asked, site>>,
         stage' = stage \/ stage' \notin Opening \cup Working
  PROVE  TypedInv'
<1>1. Contract' = Contract /\ Answers' = Answers /\ IsBound' = IsBound /\ Resolved' = Resolved
  BY DEF Contract, Answers, IsBound, Resolved
<1>2. LineIsKnown' /\ ReadsStayNear'
  BY <1>1 DEF TypedInv, LineIsKnown, ReadsStayNear
<1>3. NothingYet' /\ BoundInTime'
  BY <1>1 DEF TypedInv, NothingYet, BoundInTime, Opening, Working
<1>4. ReadsAreFollowed'
  BY <1>1 DEF TypedInv, ReadsAreFollowed, Followed, Working
<1>5. SiteIsBuilt'
  BY <1>1 DEF TypedInv, SiteIsBuilt
<1>6. QED
  BY <1>2, <1>3, <1>4, <1>5 DEF TypedInv

LEMMA TypedStart ==
  ASSUME TypedInv, StartCommand
  PROVE  TypedInv'
<1>1. /\ Contract' = Contract /\ Answers' = Answers /\ Resolved' = Resolved
      /\ UNCHANGED <<line, reads, bound, observed, asked, site>>
  BY DEF StartCommand, Kept, Contract, Answers, Resolved
<1>2. stage = "start" /\ stage' \in {"refused", "file", "done", "bind"}
  BY DEF StartCommand, Step
<1>3. stage' = "bind" => Accepted(Contract)
  BY <1>2 DEF StartCommand, Step
<1>4. observed = NoValues /\ asked = {} /\ site = {}
  BY <1>2 DEF TypedInv, NothingYet, Opening, Working
<1>5. LineIsKnown' /\ ReadsStayNear'
  BY <1>1 DEF TypedInv, LineIsKnown, ReadsStayNear
<1>6. NothingYet' /\ BoundInTime'
  BY <1>1, <1>2, <1>3, <1>4 DEF NothingYet, BoundInTime, Opening, Working
<1>7. ReadsAreFollowed'
  BY <1>1, <1>2 DEF TypedInv, ReadsAreFollowed, Followed, Working
<1>8. SiteIsBuilt'
  BY <1>1, <1>4 DEF SiteIsBuilt, Resolved
<1>9. QED
  BY <1>5, <1>6, <1>7, <1>8 DEF TypedInv

LEMMA TypedFile ==
  ASSUME TypedInv, ReadSiteFile
  PROVE  TypedInv'
<1>1. /\ Contract' = Contract /\ Answers' = Answers
      /\ UNCHANGED <<line, reads, bound, observed, asked>>
  BY DEF ReadSiteFile, Kept, Contract, Answers
<1>2. stage = "file" /\ stage' \in {"refused", "match"} /\ ~Resolved'
  BY <1>1 DEF ReadSiteFile, Step, Resolved
<1>3. LineIsKnown' /\ ReadsStayNear'
  BY <1>1 DEF TypedInv, LineIsKnown, ReadsStayNear
<1>4. NothingYet' /\ BoundInTime' /\ SiteIsBuilt'
  BY <1>2 DEF NothingYet, BoundInTime, SiteIsBuilt, Opening, Working
<1>5. ReadsAreFollowed'
  BY <1>1, <1>2 DEF TypedInv, ReadsAreFollowed, Followed, Working
<1>6. QED
  BY <1>3, <1>4, <1>5 DEF TypedInv

LEMMA TypedBind ==
  ASSUME TypedInv, BindAnswers
  PROVE  TypedInv'
<1>1. /\ Contract' = Contract /\ Answers' = Answers
      /\ UNCHANGED <<line, observed, asked, site>>
  BY DEF BindAnswers, Kept, Contract, Answers
<1>2. stage = "bind" /\ stage' \in {"refused", "build", "manifest"}
  BY DEF BindAnswers, Step
<1>3. /\ observed = NoValues /\ DOMAIN observed = {} /\ asked = {} /\ site = {}
      /\ Accepted(Contract)
  BY <1>2 DEF TypedInv, NothingYet, BoundInTime, Opening, Working, NoValues
<1>4. LineIsKnown' /\ ReadsStayNear'
  BY <1>1 DEF TypedInv, LineIsKnown, ReadsStayNear
<1>5. NothingYet' /\ SiteIsBuilt'
  BY <1>1, <1>2, <1>3 DEF NothingYet, SiteIsBuilt, Opening, Working, Resolved
<1>6. /\ stage' \in Working => IsBound'
      /\ stage' = "build" => reads' = {}
  <2>1. CASE Binds(Contract, Answers)
    BY <1>1, <1>3, <2>1 DEF BindAnswers, IsBound, Step
  <2>2. CASE ~Binds(Contract, Answers)
    BY <2>2 DEF BindAnswers, Step, Working
  <2>3. QED
    BY <2>1, <2>2
<1>7. BoundInTime'
  BY <1>2, <1>6 DEF BoundInTime
<1>8. ReadsAreFollowed'
  BY <1>1, <1>3, <1>6 DEF ReadsAreFollowed, Followed
<1>9. QED
  BY <1>4, <1>5, <1>7, <1>8 DEF TypedInv

LEMMA TypedManifest ==
  ASSUME TypedInv, LoadManifest
  PROVE  TypedInv'
<1>1. /\ Contract' = Contract /\ Answers' = Answers /\ IsBound' = IsBound /\ Resolved' = Resolved
      /\ UNCHANGED <<line, reads, bound, observed, asked, site>>
  BY DEF LoadManifest, Kept, Contract, Answers, IsBound, Resolved
<1>2. stage = "manifest" /\ stage' \in {"read", "refused"}
  BY DEF LoadManifest, Step
<1>3. LineIsKnown' /\ ReadsStayNear'
  BY <1>1 DEF TypedInv, LineIsKnown, ReadsStayNear
<1>4. NothingYet' /\ BoundInTime'
  BY <1>1, <1>2 DEF TypedInv, NothingYet, BoundInTime, Opening, Working
<1>5. ReadsAreFollowed'
  BY <1>1, <1>2 DEF TypedInv, ReadsAreFollowed, Followed, Working
<1>6. SiteIsBuilt'
  BY <1>1 DEF TypedInv, SiteIsBuilt
<1>7. QED
  BY <1>3, <1>4, <1>5, <1>6 DEF TypedInv

LEMMA TypedLastRead ==
  ASSUME TypedInv, LastRead
  PROVE  TypedInv'
<1>1. /\ Contract' = Contract /\ Answers' = Answers /\ IsBound' = IsBound /\ Resolved' = Resolved
      /\ UNCHANGED <<line, reads, bound, observed, asked, site>>
  BY DEF LastRead, Kept, Contract, Answers, IsBound, Resolved
<1>2. stage = "read" /\ stage' = "build" /\ reads \subseteq DOMAIN observed
  BY DEF LastRead, Step, AllRead, Unread
<1>3. LineIsKnown' /\ ReadsStayNear'
  BY <1>1 DEF TypedInv, LineIsKnown, ReadsStayNear
<1>4. NothingYet' /\ BoundInTime'
  BY <1>1, <1>2 DEF TypedInv, NothingYet, BoundInTime, Opening, Working
<1>5. ReadsAreFollowed'
  BY <1>1, <1>2 DEF TypedInv, ReadsAreFollowed, Followed, Working
<1>6. SiteIsBuilt'
  BY <1>1 DEF TypedInv, SiteIsBuilt
<1>7. QED
  BY <1>3, <1>4, <1>5, <1>6 DEF TypedInv

LEMMA TypedBuild ==
  ASSUME TypedInv, Build
  PROVE  TypedInv'
<1>1. /\ Contract' = Contract /\ Answers' = Answers /\ IsBound' = IsBound
      /\ UNCHANGED <<line, reads, bound, observed, asked>>
  BY DEF Build, Kept, Contract, Answers, IsBound
<1>2. stage = "build" /\ stage' \in {"match", "refused"}
  BY DEF Build, Step
<1>3. LineIsKnown' /\ ReadsStayNear'
  BY <1>1 DEF TypedInv, LineIsKnown, ReadsStayNear
<1>4. NothingYet' /\ BoundInTime'
  BY <1>2 DEF NothingYet, BoundInTime, Opening, Working
<1>5. ReadsAreFollowed'
  BY <1>1, <1>2 DEF TypedInv, ReadsAreFollowed, Followed, Working
<1>6. SiteIsBuilt'
  <2>1. IsBound /\ DOMAIN observed = reads /\ site = {}
    BY <1>2 DEF TypedInv, NothingYet, BoundInTime, ReadsAreFollowed, Opening, Working
  <2>2. CASE Builds(Contract, reads, bound, observed)
    <3>1. Ready(Contract, Answers, bound, observed)
      BY <2>1, <2>2 DEF Ready, IsBound, TypedInv, LineIsKnown, ReadsAreFollowed
    <3>2. site' = {BuiltSite(Contract, reads, bound, observed)}
      BY <2>2 DEF Build
    <3>3. QED
      BY <1>1, <2>1, <3>1, <3>2 DEF SiteIsBuilt
  <2>3. CASE ~Builds(Contract, reads, bound, observed)
    <3>1. site' = {}
      BY <2>1, <2>3 DEF Build
    <3>2. QED
      BY <3>1 DEF SiteIsBuilt, Resolved
  <2>4. QED
    BY <2>2, <2>3
<1>7. QED
  BY <1>3, <1>4, <1>5, <1>6 DEF TypedInv

(* The resource to read next is asked for near what an answer names.       *)
Near(c, a, id) ==
  \E root \in UNION {Given(c, a, n) : n \in Roles(c)} :
    /\ Same(Parts[id].subscription, Parts[root].subscription)
    /\ Same(Parts[id].resourceGroup, Parts[root].resourceGroup)

LEMMA NextIsNear ==
  ASSUME NEW c, Declared(c), Accepted(c), NEW a, Binds(c, a), NEW n \in Reads(c, a), NEW seen,
         RequestAccepted(c, n, BoundValues(c, a), seen),
         Related(c, n) => Near(c, a, seen[Link(c, n).input].id)
  PROVE  Near(c, a, Target(c, n, BoundValues(c, a), seen))
<1> DEFINE id == Target(c, n, BoundValues(c, a), seen)
<1>1. CASE Related(c, n)
  <2> DEFINE source == seen[Link(c, n).input].id
  <2>1. /\ Same(Parts[id].subscription, Parts[source].subscription)
        /\ Same(Parts[id].resourceGroup, Parts[source].resourceGroup)
    BY <1>1 DEF RequestAccepted
  <2>2. Near(c, a, source)
    BY <1>1
  <2> HIDE DEF id, source
  <2>3. Near(c, a, id)
    BY <2>1, <2>2 DEF Near, Same
  <2>4. QED
    BY <2>3 DEF id
<1>2. CASE ~Related(c, n)
  <2>1. n \in ActiveRoles(c, a) /\ n \in Active(c, a)
    BY <1>2, ReadsAreLinked DEF ActiveRoles
  <2>2. id = Chosen(c, a, n)
    BY <1>2, <2>1, BoundToAnswers DEF Target
  <2>3. id \in Given(c, a, n)
    BY <2>1, <2>2 DEF Active, Chosen
  <2>4. n \in Roles(c)
    BY <2>1 DEF ActiveRoles
  <2> HIDE DEF id
  <2>5. Near(c, a, id)
    BY <2>3, <2>4 DEF Near, Same
  <2>6. QED
    BY <2>5 DEF id
<1>3. QED
  BY <1>1, <1>2

LEMMA TypedRead ==
  ASSUME TypedInv, ReadResource
  PROVE  TypedInv'
<1>1. /\ Contract' = Contract /\ Answers' = Answers /\ IsBound' = IsBound
      /\ UNCHANGED <<line, reads, bound, site>>
  BY DEF ReadResource, Kept, Contract, Answers, IsBound
<1>2. /\ stage = "read" /\ stage' \in {"read", "refused"}
      /\ site = {} /\ IsBound /\ DOMAIN observed \subseteq reads
      /\ Declared(Contract)
  BY DEF ReadResource, Step, TypedInv, LineIsKnown, NothingYet, BoundInTime, ReadsAreFollowed,
         Opening, Working
<1>3. LineIsKnown' /\ NothingYet' /\ BoundInTime' /\ SiteIsBuilt'
  BY <1>1, <1>2 DEF TypedInv, LineIsKnown, NothingYet, BoundInTime, SiteIsBuilt, Opening,
                    Working, Resolved
<1>4. PICK n \in Unread :
        /\ Earlier(Contract, n) \cap Unread = {}
        /\ LET id == Target(Contract, n, bound, observed) IN
           IF ~RequestAccepted(Contract, n, bound, observed)
             THEN Step("refused") /\ UNCHANGED <<observed, asked>>
             ELSE /\ asked' = asked \cup {id}
                  /\ \/ /\ id \in DOMAIN world
                        /\ Wanted(n) \subseteq DOMAIN world[id].references
                        /\ ObservationAccepted(Contract, n, bound, world[id])
                        /\ observed' = Over([m \in {n} |-> Observation(id)], observed)
                        /\ UNCHANGED stage
                     \/ Step("refused") /\ UNCHANGED observed
  BY DEF ReadResource
<1> DEFINE id == Target(Contract, n, bound, observed)
           new == Observation(id)
<1>5. n \in reads /\ n \notin DOMAIN observed /\ n \in Reads(Contract, Answers)
  BY <1>2 DEF Unread, IsBound
<1>6. Related(Contract, n) => Link(Contract, n).input \in DOMAIN observed
  BY <1>2, <1>4, <1>5, ReadsAreLinked DEF IsBound, Unread
<1>7. /\ Followed(Contract, bound, observed)
      /\ \A m \in DOMAIN observed : observed[m].id \in asked
      /\ \A x \in asked : Near(Contract, Answers, x)
  BY DEF TypedInv, ReadsAreFollowed, ReadsStayNear, Near
<1>8. CASE UNCHANGED <<observed, asked>>
  <2>1. ReadsStayNear'
    BY <1>1, <1>8 DEF TypedInv, ReadsStayNear
  <2>2. ReadsAreFollowed'
    BY <1>1, <1>2, <1>8 DEF TypedInv, ReadsAreFollowed, Followed, Working
  <2>3. QED
    BY <1>3, <2>1, <2>2 DEF TypedInv
<1>9. CASE RequestAccepted(Contract, n, bound, observed)
  <2>1. asked' = asked \cup {id}
    BY <1>4, <1>9
  <2>2. Near(Contract, Answers, id)
    BY <1>2, <1>5, <1>6, <1>7, <1>9, NextIsNear DEF IsBound
  <2> HIDE DEF id
  <2>3. ReadsStayNear'
    <3>1. \A x \in asked' : Near(Contract, Answers, x)
      BY <1>7, <2>1, <2>2
    <3>2. QED
      BY <1>1, <3>1 DEF Near, ReadsStayNear
  <2>4. CASE stage' = "refused" /\ observed' = observed
    <3>1. ReadsAreFollowed'
      BY <1>1, <1>7, <2>1, <2>4 DEF ReadsAreFollowed, Followed, Working
    <3>2. QED
      BY <1>3, <2>3, <3>1 DEF TypedInv
  <2>5. CASE /\ ObservationAccepted(Contract, n, bound, world[id])
             /\ observed' = Over([m \in {n} |-> new], observed)
             /\ stage' = stage
    <3>1. /\ DOMAIN observed' = DOMAIN observed \cup {n} /\ observed'[n] = new
          /\ \A m \in DOMAIN observed : observed'[m] = observed[m]
      BY <2>5, <1>5 DEF Over
    <3>2. new.id = id
      BY DEF Observation
    <3>3. ObservationAccepted(Contract, n, bound, new)
      <4>1. new.facts = world[id].facts
        BY DEF Observation
      <4>2. QED
        BY <2>5, <4>1 DEF ObservationAccepted
    <3> HIDE DEF new
    <3>4. Followed(Contract, bound, observed')
      <4>1. observed'[n].id = Target(Contract, n, bound, observed)
        BY <3>1, <3>2 DEF id
      <4>2. ObservationAccepted(Contract, n, bound, observed'[n])
        BY <3>1, <3>3
      <4>3. QED
        BY <1>5, <1>6, <1>7, <1>9, <3>1, <4>1, <4>2, FollowedGrows
    <3>5. Followed(Contract, bound, observed)'
      BY <1>1, <3>4 DEF Followed
    <3>6. /\ DOMAIN observed' \subseteq reads'
          /\ \A m \in DOMAIN observed' : observed'[m].id \in asked'
      BY <1>1, <1>2, <1>5, <1>7, <2>1, <3>1, <3>2
    <3>7. ReadsAreFollowed'
      BY <1>2, <2>5, <3>5, <3>6 DEF ReadsAreFollowed
    <3>8. QED
      BY <1>3, <2>3, <3>7 DEF TypedInv
  <2>6. QED
    BY <1>4, <1>9, <2>4, <2>5 DEF Step, id
<1>10. QED
  BY <1>4, <1>8, <1>9

LEMMA TypedNext ==
  ASSUME TypedInv, InputNext
  PROVE  TypedInv'
<1>1. CASE MatchSite
  BY <1>1, TypedMoves DEF MatchSite, Step, Kept, Opening, Working
<1>2. CASE CheckIdentity
  BY <1>2, TypedMoves DEF CheckIdentity, Step, Kept, Opening, Working
<1>3. CASE WriteSite
  BY <1>3, TypedMoves DEF WriteSite, Step, Opening, Working
<1>4. CASE AnotherSaves
  BY <1>4, TypedMoves DEF AnotherSaves
<1>5. CASE AzureChanges
  BY <1>5, TypedMoves DEF AzureChanges, Kept
<1>6. QED
  BY <1>1, <1>2, <1>3, <1>4, <1>5, TypedStart, TypedFile, TypedBind, TypedManifest, TypedRead,
     TypedLastRead, TypedBuild DEF InputNext, Command

(* What a command knows of its Site holds however it comes by it.          *)
LEMMA CommandsKeepInv == CommandSpec => []CommandInv
<1>1. CommandInit => CommandInv
  <2>1. Started => site = {} /\ asked = {}
    BY DEF Started
  <2>2. QED
    BY <2>1, TypedInit DEF CommandInit, CommandInv
<1>2. CommandInv /\ [CommandNext]_commandVars => CommandInv'
  <2> SUFFICES ASSUME CommandInv, [CommandNext]_commandVars PROVE CommandInv'
    OBVIOUS
  <2>1. CASE Selecting
    <3>1. UNCHANGED <<line, stage, reads, bound, observed, asked, site>> /\ typed' = typed /\ ~typed
      BY <2>1 DEF Selecting, inputVars
    <3>2. QED
      BY <3>1 DEF CommandInv
  <2>2. CASE Typing
    <3>1. typed /\ typed' = typed /\ InputNext
      BY <2>2 DEF Typing
    <3>2. QED
      BY <3>1, TypedNext DEF CommandInv
  <2>3. CASE UNCHANGED commandVars
    <3>1. UNCHANGED <<line, stage, reads, bound, observed, asked, site>> /\ typed' = typed
      BY <2>3 DEF commandVars, inputVars
    <3>2. typed => TypedInv'
      BY <3>1, TypedMoves DEF CommandInv
    <3>3. QED
      BY <3>1, <3>2 DEF CommandInv
  <2>4. QED
    BY <2>1, <2>2, <2>3 DEF CommandNext
<1>3. QED
  BY <1>1, <1>2, PTL DEF CommandSpec

-------------------------------------------------------------------------------
(* The properties *)

LEMMA SameFiles ==
  ASSUME UNCHANGED siteVars
  PROVE  /\ SiteInv => SiteInv'
         /\ SelectionInv => SelectionInv'
<1>1. UNCHANGED <<files, revision, indexes, inherited, siteCache, job, request, queue, allSites,
                 skipped, answers>>
  BY DEF siteVars, cacheVars, allVars
<1>2. KeepFiles
  BY <1>1 DEF KeepFiles
<1>3. ASSUME SiteInv PROVE SiteInv'
  <2>1. ContentsAre' /\ Steady
    BY <1>2, <1>3, FilesAreSteady DEF SiteInv, LoadInv
  <2>2. /\ NameOf' = NameOf /\ BaseFiles' = BaseFiles /\ BuiltIndexes' = BuiltIndexes
        /\ Templates' = Templates /\ (IdentityClash' <=> IdentityClash)
        /\ (NoTemplateNames' <=> NoTemplateNames)
    BY <2>1, SetsAreSteady, NoNamesIsSteady
  <2>3. JobTypes' /\ StageInv' /\ NamesInv'
    BY <1>1, <1>3, <2>1, StaysWell, SameName DEF SiteInv, LoadInv
  <2>4. IndexInv' /\ CacheInv' /\ AnswersInv' /\ InheritedInv'
    BY <1>1, <1>3, <2>2 DEF SiteInv, LoadInv, IndexInv, CacheInv, AnswersInv, InheritedInv
  <2>5. LoadingInv' /\ ChainInv' /\ ReadInv'
    BY <1>1, <1>3, <2>2 DEF SiteInv, LoadInv, LoadingInv, ChainInv, ReadInv, Loading, Climbing, Base,
       Canonical
  <2>6. TakesInv'
    <3>1. TakesName' <=> TakesName
      BY <1>1 DEF TakesName, SiteFiles, IsTemplate, There, Content
    <3>2. QED
      BY <1>3, <3>1 DEF SiteInv, LoadInv, TakesInv
  <2>7. QED
    BY <2>1, <2>3, <2>4, <2>5, <2>6 DEF SiteInv, LoadInv
<1>4. ASSUME SelectionInv PROVE SelectionInv'
  <2>1. Bases' = Bases /\ ByBasename' = ByBasename
    BY <1>1 DEF Bases, ByBasename, SiteFiles, IsTemplate, There, Content, FirstOf
  <2>2. QED
    BY <1>1, <1>4, <2>1 DEF SelectionInv, RequestInv, SweepInv, LabelInv, ManifestInv
<1>5. QED
  BY <1>3, <1>4

LEMMA CommandMoves ==
  /\ CommandInit => SiteInit
  /\ [CommandNext]_commandVars => SiteNext \/ UNCHANGED siteVars
<1>1. CommandInit => SiteInit
  BY DEF CommandInit
<1>2. [CommandNext]_commandVars => SiteNext \/ UNCHANGED siteVars
  BY DEF CommandNext, Selecting, Typing, commandVars
<1>3. QED
  BY <1>1, <1>2

(* The files and the caches of a command are as they should be.            *)
LEMMA CommandsKeepSites == CommandSpec => []SiteInv
<1>1. CommandInit => SiteInv
  <2> SUFFICES ASSUME SiteInit PROVE SiteInv
    BY CommandMoves
  <2>1. answers = {}
    BY DEF SiteInit
  <2>2. QED
    BY <2>1, LoadStarts DEF SiteInv, AnswersInv
<1>2. SiteInv /\ [CommandNext]_commandVars => SiteInv'
  BY CommandMoves, LoadStays, AnswersStay, SameFiles DEF SiteInv
<1>3. QED
  BY <1>1, <1>2, PTL DEF CommandSpec

(* A Site is what its files say, what is named as the origin of a value is *)
(* the file it is from, and a template is read once in a command           *)
(* (Orchestrator.load_site), whatever is edited meanwhile.                 *)
THEOREM SitesAreTheirFiles == CommandSpec => []SitesAreAsWritten
<1>1. SiteInv => SitesAreAsWritten
  BY AsWritten
<1>2. QED
  BY <1>1, CommandsKeepSites, PTL

(* An identifier means one Site all through a command                      *)
(* (_build_site_indexes, _find_trusted_site_file and the Site cache), when *)
(* no Site takes its name from a template and no name has a slash.         *)
THEOREM OneSiteIsMeant ==
  ASSUME ~InheritedNames, PlainNames
  PROVE  CommandSpec => []IdentifierMeansOneSite
<1>1. SiteInv => IdentifierMeansOneSite
  BY MeansOne
<1>2. QED
  BY <1>1, CommandsKeepSites, PTL

(* A selection by label is of every Site or there is none, and a manifest  *)
(* has a Site once (load_all_sites, filter_sites, resolve_sites), when no  *)
(* Site takes its name from a template.                                    *)
THEOREM SelectionsAreWhole ==
  ASSUME ~InheritedNames
  PROVE  CommandSpec => []SelectionIsWhole
<1> DEFINE Inv == SiteInv /\ SelectionInv
<1>1. CommandInit => SelectionInv
  BY CommandMoves, SelectionStarts
<1>2. SiteInv /\ SelectionInv /\ [CommandNext]_commandVars => SelectionInv'
  BY CommandMoves, SelectionStays, SameFiles DEF SiteInv
<1>3. SelectionInv => SelectionIsWhole
  BY WholeSelection
<1>4. QED
  BY <1>1, <1>2, <1>3, CommandsKeepSites, PTL DEF CommandSpec

LEMMA ResolvedIsReady ==
  ASSUME CommandInv, Resolved
  PROVE  /\ Ready(Contract, Answers, bound, observed)
         /\ reads = Reads(Contract, Answers)
         /\ TheSite = BuiltSite(Contract, Reads(Contract, Answers), bound, observed)
BY DEF CommandInv, TypedInv, SiteIsBuilt, IsBound, Resolved, TheSite

(* Azure is asked only for what an answer names, and for what that leads   *)
(* to in the same subscription and group (guided_inputs.py                 *)
(* resource_request), though references may change between two reads.      *)
THEOREM ReadsAreNear == CommandSpec => []ReadsStayNear
<1>1. CommandInv => ReadsStayNear
  BY DEF CommandInv, TypedInv, ReadsStayNear
<1>2. QED
  BY <1>1, CommandsKeepInv, PTL

(* The Site a command makes from typed answers has every answer and what   *)
(* each resource said, and is in scope (bind, build_site).                 *)
THEOREM SitesAreAsAnswered == CommandSpec => []SiteIsAsAnswered
<1>1. CommandInv => SiteIsAsAnswered
  <2> SUFFICES ASSUME CommandInv, Resolved
               PROVE  SiteIsAsAnswered
    BY DEF SiteIsAsAnswered
  <2>1. /\ Ready(Contract, Answers, bound, observed)
        /\ reads = Reads(Contract, Answers)
        /\ TheSite = BuiltSite(Contract, reads, bound, observed)
    BY ResolvedIsReady
  <2>2. ASSUME NEW n \in Inputs(Contract), Supplied(Answers, n), NEW v \in Given(Contract, Answers, n)
        PROVE  IF n \in Roles(Contract)
                 THEN n \in DOMAIN observed /\ observed[n].id = v
                 ELSE \A p \in Contract.fields[n].path :
                        (Contract.fields[n].kind = "map" => DOMAIN v # {}) =>
                          p \in DOMAIN TheSite /\ TheSite[p] = v
    BY <2>1, <2>2, AnswersStand
  <2>3. ASSUME NEW n \in reads, NEW fact \in DOMAIN Derive(Contract, n),
               NEW p \in Contract.fields[Derive(Contract, n)[fact]].path
        PROVE  p \in DOMAIN TheSite /\ Same(TheSite[p], FactOf(observed[n], fact))
    BY <2>1, FactsStand
  <2>4. ASSUME NEW n \in reads, Binding(Contract, n).scoped
        PROVE  Same(TheSite[Subscription], Parts[observed[n].id].subscription)
    BY <2>1, <2>4, ScopeStands
  <2>5. QED
    BY <2>2, <2>3, <2>4 DEF SiteIsAsAnswered
<1>2. QED
  BY <1>1, CommandsKeepInv, PTL

(* A prerequisite the Site's values ask for was seen to hold when its      *)
(* resource was read (validate_resource_observation).                      *)
THEOREM PrerequisitesAreMet == CommandSpec => []PrerequisitesHeld
<1>1. CommandInv => PrerequisitesHeld
  <2> SUFFICES ASSUME CommandInv, Resolved, NEW n \in Roles(Contract),
                      NEW check \in Binding(Contract, n).requires,
                      \A when \in Contract.fields[n].when \cup check.when :
                        \A p \in Contract.fields[when.input].path :
                          /\ p \in DOMAIN TheSite /\ TheSite[p] = when.equals
                          /\ p \in DOMAIN Contract.defaults => when.input \in DOMAIN bound
               PROVE  /\ n \in DOMAIN observed
                      /\ check.fact \in DOMAIN observed[n].facts
                      /\ observed[n].facts[check.fact]
    BY DEF PrerequisitesHeld
  <2>1. /\ Ready(Contract, Answers, bound, observed)
        /\ TheSite = BuiltSite(Contract, Reads(Contract, Answers), bound, observed)
    BY ResolvedIsReady
  <2>2. QED
    BY <2>1, ChecksHeld
<1>2. QED
  BY <1>1, CommandsKeepInv, PTL

(* What a selector is matched against before the first read is what the    *)
(* Site has in the end (known_identity, _require_site_match).              *)
THEOREM KnownIdentityIsFinal == CommandSpec => []KnownIsFinal
<1>1. CommandInv => KnownIsFinal
  <2> SUFFICES ASSUME CommandInv, Resolved PROVE KnownIsFinal
    BY DEF KnownIsFinal
  <2>1. /\ Ready(Contract, Answers, bound, observed)
        /\ TheSite = BuiltSite(Contract, Reads(Contract, Answers), bound, observed)
    BY ResolvedIsReady
  <2>2. QED
    BY <2>1, KnownStands DEF KnownIsFinal
<1>2. QED
  BY <1>1, CommandsKeepInv, PTL
==============================================================================
