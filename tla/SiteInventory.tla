---------------------------- MODULE SiteInventory ----------------------------
(***************************************************************************)
(* How a command finds, loads and selects the Sites of a workspace         *)
(* (siteops/orchestrator.py: the trusted directories, the identity         *)
(* indexes, inheritance, overlays, provenance, the caches that last for    *)
(* the command, filter_sites and resolve_sites).                           *)
(*                                                                         *)
(* A file is at a place: a directory and a relative path, which is a       *)
(* sequence of names.  What it sets is a set of paths of leaves, and the   *)
(* value of a leaf is the file and the revision of it that was read, so    *)
(* that two readings of a file can be told apart.  Files are edited while  *)
(* the command runs; each is read at one moment.  The shapes of a Site     *)
(* file, its field types, links and file extensions are left out, and so   *)
(* is a file that does not parse.                                          *)
(***************************************************************************)
EXTENDS Naturals, Sequences, SequencesExt, FiniteSets

CONSTANTS
  Trusted,     \* the trusted directories, in merge order: sites/ first
  Contents,    \* for each place, the contents it may have: {} or {content}
  Workspaces,  \* the workspaces a command may find: a content for each place
  Identifiers, \* what a Site is asked for by
  Label,       \* the path of the label that selectors ask for
  Labelled,    \* the places whose value of it is the one asked for
  Required,    \* the path every Site must set
  InheritedNames, \* whether a Site may take its name from a template
  MaxNames,    \* bound on the names a command asks for
  MaxEdits     \* bound on the edits made meanwhile

Local == "sites.local"
Places == DOMAIN Contents
Place(dir, rel) == [dir |-> dir, rel |-> rel]
Primary == Head(Trusted)
Directories == Append(Trusted, Local)

Comparable(p, q) == IsPrefix(p, q) \/ IsPrefix(q, p)

\* What a file may hold: one name or none, and leaves that are no part of each other.
IsContent(c) ==
  /\ c.kind \in {"Site", "SiteTemplate"}
  /\ \A n \in c.name : n \in Seq(STRING) /\ c.name = {n}
  /\ c.sets \subseteq Seq(STRING)
  /\ \A p, q \in c.sets : Comparable(p, q) => p = q

ASSUME SiteAssumption ==
  /\ Trusted \in Seq(STRING) \ {<<>>} /\ Local \notin ToSet(Trusted)
  /\ \A i, j \in DOMAIN Trusted : Trusted[i] = Trusted[j] => i = j
  /\ \A p \in Places :
       /\ p = Place(p.dir, p.rel)
       /\ p.dir \in ToSet(Trusted) \cup {Local} /\ p.rel \in Seq(STRING) \ {<<>>}
       /\ \A set \in Contents[p] : set = {} \/ \E c \in set : set = {c} /\ IsContent(c)
  /\ \A w \in Workspaces : DOMAIN w = Places /\ \A p \in Places : w[p] \in Contents[p]
  /\ MaxNames \in Nat /\ MaxEdits \in Nat

VARIABLES
  files,     \* the content at each place
  revision,  \* how often it was edited
  indexes,   \* _basename_index, _rel_path_index and _internal_name_index, once built
  inherited, \* _inherited_data_cache
  siteCache, \* _site_cache
  job,       \* the load under way
  request,   \* what the command asked for, and the Sites chosen so far
  queue,     \* the basenames load_all_sites has still to load
  allSites,  \* _all_sites_cache
  skipped,   \* skipped_sites
  answers    \* history: what was returned for which identifier

cacheVars == <<indexes, inherited, siteCache>>
allVars == <<queue, allSites, skipped>>
siteVars == <<files, revision, cacheVars, job, request, allVars, answers>>

Basename(rel) == <<Last(rel)>>
There(place) == place \in Places /\ files[place] # {}
Content(place) == CHOOSE c \in files[place] : TRUE
IsTemplate(place) == There(place) /\ Content(place).kind = "SiteTemplate"

Nothing == [x \in {} |-> x]
Blank == [leaves |-> Nothing, name |-> {}, layers |-> <<>>]
Idle == [stage |-> "idle", id |-> <<>>, explain |-> FALSE, base |-> {}, next |-> 1,
         seen |-> <<>>, own |-> {}, read |-> <<>>, parent |-> {}, data |-> Blank, origin |-> Nothing]

------------------------------------------------------------------------------
(* Merging *)

\* Mutant: a mapping is replaced as a unit too.
ReplaceTop(base, over) ==
  [p \in DOMAIN over \cup {q \in DOMAIN base : \A r \in DOMAIN over : Head(q) # Head(r)} |->
     IF p \in DOMAIN over THEN over[p] ELSE base[p]]

\* _deep_merge: mappings are merged, anything else is replaced as a unit.
DeepMerge(base, over) ==
  [p \in DOMAIN over \cup {q \in DOMAIN base : \A r \in DOMAIN over : ~Comparable(q, r)} |->
     IF p \in DOMAIN over THEN over[p] ELSE base[p]]

\* Mutant: a leaf that replaces a mapping leaves the origins below it.
MergeOriginsOnly(origin, base, over, from) ==
  [p \in DOMAIN over \cup DOMAIN origin |-> IF p \in DOMAIN over THEN from ELSE origin[p]]

\* _deep_merge_provenance with _remove_provenance_subtree: a leaf drops what is below its
\* path, and a mapping that replaces a leaf drops that leaf.
MergeOrigins(origin, base, over, from) ==
  LET replaced(p) ==
        \E q \in DOMAIN over :
          \/ IsPrefix(q, p)
          \/ \E m \in DOMAIN base : IsPrefix(m, q) /\ IsPrefix(m, p)
      kept == {p \in DOMAIN origin : ~replaced(p)}
  IN [p \in DOMAIN over \cup kept |-> IF p \in DOMAIN over THEN from ELSE origin[p]]

\* What a file gives a merge as it is read now.
Layer(place) ==
  LET c == Content(place) IN
  [leaves |-> [p \in c.sets |-> [place |-> place, revision |-> revision[place]]],
   name |-> c.name,
   layers |-> <<[place |-> place, sets |-> c.sets, revision |-> revision[place]]>>]

Stack(below, above) ==
  [leaves |-> DeepMerge(below.leaves, above.leaves),
   name |-> IF above.name # {} THEN above.name ELSE below.name,
   layers |-> below.layers \o above.layers]

------------------------------------------------------------------------------
(* Identity: _build_site_indexes and _find_trusted_site_file *)

SiteFiles == {p \in Places : There(p) /\ p.dir # Local /\ ~IsTemplate(p)}
Order(place) == CHOOSE i \in DOMAIN Trusted : Trusted[i] = place.dir
FirstOf(places) == CHOOSE p \in places : \A q \in places : Order(p) <= Order(q)
Bases == {Basename(p.rel) : p \in SiteFiles}
ByBasename == [b \in Bases |-> FirstOf({p \in SiteFiles : Basename(p.rel) = b})]
ByRelPath ==
  [r \in {p.rel : p \in SiteFiles} |-> FirstOf({p \in SiteFiles : p.rel = r})]

\* The files whose own name is another than their basename, by that name.
Renamed ==
  {p \in {ByBasename[b] : b \in Bases} :
     Content(p).name # {} /\ Content(p).name # {Basename(p.rel)}}

\* Mutant: an internal name is not compared with the files' basenames.
NoBasenameCheck ==
  \/ \E p, q \in SiteFiles : p.rel # q.rel /\ Basename(p.rel) = Basename(q.rel)
  \/ \E p, q \in Renamed : p # q /\ Content(p).name = Content(q).name

\* Two files of one basename are one Site only at one path of two directories; an internal
\* name is no other file's basename, path or internal name.
IdentityClash ==
  \/ \E p, q \in SiteFiles : p.rel # q.rel /\ Basename(p.rel) = Basename(q.rel)
  \/ \E p \in Renamed : \E n \in Content(p).name :
       \/ n \in Bases /\ ByBasename[n] # p
       \/ n \in DOMAIN ByRelPath /\ ByRelPath[n] # p
  \/ \E p, q \in Renamed : p # q /\ Content(p).name = Content(q).name

BuiltIndexes ==
  [basename |-> ByBasename, relPath |-> ByRelPath,
   internal |-> [n \in UNION {Content(p).name : p \in Renamed} |->
                   CHOOSE p \in Renamed : Content(p).name = {n}]]

\* The file of an identifier, or the empty set.
Found(index, id) ==
  IF Len(id) > 1
    THEN IF id \in DOMAIN index.relPath THEN {index.relPath[id]} ELSE {}
  ELSE IF id \in DOMAIN index.basename THEN {index.basename[id]}
  ELSE IF id \in DOMAIN index.internal THEN {index.internal[id]} ELSE {}

\* _find_template_path: a template by its path, or by its file name at any depth.
NamesTemplate(id) ==
  \E p \in Places :
    /\ p.dir # Local /\ IsTemplate(p)
    /\ p.rel = id \/ (Len(id) = 1 /\ Basename(p.rel) = id)

------------------------------------------------------------------------------
(* A load *)

KeepFiles == UNCHANGED <<files, revision>>

Answered(id, site) ==
  /\ answers' = answers \cup {[id |-> id, site |-> site]}
  /\ job' = Idle

Begin(id, explain) ==
  job' = [Idle EXCEPT !.stage = "find", !.id = id, !.explain = explain]

Matches(site) ==
  Label \in DOMAIN site.data.leaves /\ site.data.leaves[Label].place \in Labelled

ChosenBases == {site.base : site \in ToSet(request.chosen)}
Turn(chosen) == [request EXCEPT !.names = Tail(@), !.chosen = chosen]

\* The caller takes the Site: load_all_sites collects it, resolve_sites drops the second
\* occurrence in a manifest's list, and filter_sites asks for its label.
Take(site) ==
  IF request.status = "sweeping"
    THEN /\ allSites' = allSites \cup {site} /\ queue' = queue \ {job.id}
         /\ UNCHANGED <<skipped, request>>
    ELSE /\ request' =
              Turn(IF \/ request.by = "manifest" /\ site.base \in ChosenBases
                      \/ request.by = "selector" /\ request.label /\ ~Matches(site)
                     THEN request.chosen ELSE Append(request.chosen, site))
         /\ UNCHANGED allVars

\* A load that fails ends the command, but load_all_sites records it and goes on.
FailLoad ==
  /\ Answered(job.id, {})
  /\ IF job.id \in queue
       THEN /\ skipped' = skipped \cup {job.id} /\ queue' = queue \ {job.id}
            /\ UNCHANGED <<allSites, request>>
       ELSE request' = [request EXCEPT !.status = "failed"] /\ UNCHANGED allVars
  /\ UNCHANGED cacheVars

\* The command: sites --show-sources of one Site, or targets by the names of a manifest or
\* of a selector with or without a label, or by a label alone.
NameLists == {<<id>> : id \in Identifiers}
               \cup {names \in [1 .. MaxNames -> Identifiers] : IsInjective(names)}

Ask ==
  /\ request.status = "none"
  /\ \/ \E id \in Identifiers :
          request' = [request EXCEPT !.by = "explain", !.names = <<id>>, !.status = "names"]
     \/ \E names \in NameLists, label \in BOOLEAN, by \in {"manifest", "selector"} :
          /\ label => by = "selector"
          /\ request' = [request EXCEPT !.by = by, !.names = names, !.label = label,
                           !.status = "names"]
     \/ request' = [request EXCEPT !.by = "label", !.label = TRUE, !.status = "sweep"]
  /\ KeepFiles /\ UNCHANGED <<cacheVars, job, allVars, answers>>

AskName ==
  /\ request.status = "names" /\ request.names # <<>> /\ job.stage = "idle"
  /\ LET id == Head(request.names) IN
     IF id \in DOMAIN siteCache /\ request.by = "manifest"
       THEN /\ Answered(id, {siteCache[id]})
            /\ request' = Turn(IF siteCache[id].base \in ChosenBases THEN request.chosen
                               ELSE Append(request.chosen, siteCache[id]))
       ELSE Begin(id, request.by = "explain") /\ UNCHANGED <<request, answers>>
  /\ KeepFiles /\ UNCHANGED <<cacheVars, allVars>>

NamesAsked ==
  /\ request.status = "names" /\ request.names = <<>> /\ job.stage = "idle"
  /\ request' = [request EXCEPT !.status = IF request.swept = {} THEN "done" ELSE "sweep"]
  /\ KeepFiles /\ UNCHANGED <<cacheVars, job, allVars, answers>>

\* load_all_sites: every basename, in an order of its own.
Sweep ==
  /\ request.status = "sweep"
  /\ queue' = Bases
  /\ request' = [request EXCEPT !.status = "sweeping"]
  /\ KeepFiles /\ UNCHANGED <<cacheVars, job, allSites, skipped, answers>>

NextOfAll ==
  /\ request.status = "sweeping" /\ job.stage = "idle"
  /\ \E id \in queue :
       IF id \in DOMAIN siteCache
         THEN /\ Answered(id, {siteCache[id]})
              /\ allSites' = allSites \cup {siteCache[id]} /\ queue' = queue \ {id}
         ELSE Begin(id, FALSE) /\ UNCHANGED <<allSites, queue, answers>>
  /\ KeepFiles /\ UNCHANGED <<cacheVars, request, skipped>>

\* Mutant: a Site that did not load is left out of the selection.
SweptLoosely ==
  /\ request.status = "sweeping" /\ queue = {} /\ job.stage = "idle"
  /\ LET wanted == {site \in allSites : request.label => Matches(site)}
     IN request' = [request EXCEPT !.chosen = @ \o SetToSeq(wanted), !.status = "done"]
  /\ KeepFiles /\ UNCHANGED <<cacheVars, job, allVars, answers>>

\* The sites of the sweep with the label, and with one of the names that are no file's; a
\* name that was chosen already is not chosen again.  build_plan refuses a selection when
\* a Site of the sweep did not load.
Swept ==
  /\ request.status = "sweeping" /\ queue = {} /\ job.stage = "idle"
  /\ LET chosenNames == {site.name : site \in ToSet(request.chosen)}
         wanted == {site \in allSites :
                      /\ request.label => Matches(site)
                      /\ request.by = "selector" =>
                           site.name \in request.swept \ chosenNames}
     IN request' = [request EXCEPT !.chosen = @ \o SetToSeq(wanted),
                      !.status = IF skipped = {} THEN "done" ELSE "refused"]
  /\ KeepFiles /\ UNCHANGED <<cacheVars, job, allVars, answers>>

\* The indexes are built once; a clash fails every load that needs them.  filter_sites
\* asks the sweep for a name that is no file's; what else has no Site's file fails, a
\* template's name too, unless a Site of that name is in the cache.
FindSite ==
  /\ job.stage = "find"
  /\ IF indexes = {} /\ IdentityClash THEN FailLoad
     ELSE LET index == IF indexes = {} THEN BuiltIndexes ELSE CHOOSE i \in indexes : TRUE
              found == Found(index, job.id)
              cached == job.id \in DOMAIN siteCache
              sweeps == request.by = "selector" /\ ~NamesTemplate(job.id)
          IN /\ indexes' = {index}
             /\ \/ /\ found = {} /\ sweeps
                   /\ job' = Idle
                   /\ request' = [Turn(request.chosen) EXCEPT !.swept = @ \cup {job.id}]
                   /\ UNCHANGED <<allVars, answers>>
                \/ /\ found = {} /\ ~sweeps /\ (~cached \/ request.by # "selector")
                   /\ job' = Idle
                   /\ request' = [request EXCEPT !.status = "failed"]
                   /\ UNCHANGED <<allVars, answers>>
                \/ /\ found # {} \/ (~sweeps /\ request.by = "selector")
                   /\ cached /\ ~job.explain
                   /\ Answered(job.id, {siteCache[job.id]}) /\ Take(siteCache[job.id])
                \/ /\ found # {} /\ (~cached \/ job.explain)
                   /\ job' = [job EXCEPT !.stage = "files", !.base = found]
                   /\ UNCHANGED <<request, allVars, answers>>
             /\ UNCHANGED <<inherited, siteCache>>
  /\ KeepFiles

Base == CHOOSE p \in job.base : TRUE
Canonical == Base.rel
AtHand == Place(Directories[job.next], Canonical)
IsBase == job.data.layers = <<>>

\* _resolve_inherits: next to the child, or, for a bare name, in sites/.
Parents(child, ref) ==
  LET near == Place(child.dir, Front(child.rel) \o ref)
      far == Place(Primary, ref)
  IN IF There(near) THEN {near} ELSE IF Len(ref) = 1 /\ There(far) THEN {far} ELSE {}

\* Merge what was read of one more file; origins are tracked for an explanation only.
Source(layer) == Head(layer.layers).place
Merge(layer) ==
  [job EXCEPT !.data = Stack(@, layer),
     !.origin = IF job.explain
                  THEN MergeOrigins(@, job.data.leaves, layer.leaves, Source(layer)) ELSE @]
Merged(layer) ==
  [Merge(layer) EXCEPT !.next = @ + 1, !.seen = <<>>, !.own = {}, !.stage = "files"]

\* The site's name until now: what the files so far say, or the basename.
NameSoFar == IF job.data.name # {} THEN job.data.name ELSE {Basename(Canonical)}

SkipDirectory ==
  /\ job.stage = "files" /\ job.next <= Len(Directories) /\ ~There(AtHand)
  /\ job' = [job EXCEPT !.next = @ + 1]
  /\ KeepFiles /\ UNCHANGED <<cacheVars, request, allVars, answers>>

\* The first file is the base, and only its inheritance counts.
ReadBase ==
  /\ job.stage = "files" /\ job.next <= Len(Directories) /\ There(AtHand) /\ IsBase
  /\ LET refs == Content(AtHand).inherits IN
     IF refs = {}
       THEN /\ job' = Merged(Layer(AtHand))
            /\ UNCHANGED <<cacheVars, request, allVars, answers>>
       ELSE LET parents == UNION {Parents(AtHand, ref) : ref \in refs} IN
            IF parents = {} THEN FailLoad
            ELSE /\ job' = [job EXCEPT !.stage = "parent", !.seen = <<AtHand>>,
                              !.own = {Layer(AtHand)}, !.parent = parents]
                 /\ UNCHANGED <<cacheVars, request, allVars, answers>>
  /\ KeepFiles

\* Any later file overlays: its inheritance is dropped, and it may not rename the Site.
ReadOverlay ==
  /\ job.stage = "files" /\ job.next <= Len(Directories) /\ There(AtHand) /\ ~IsBase
  /\ IF Content(AtHand).name \subseteq NameSoFar
       THEN /\ job' = Merged(Layer(AtHand))
            /\ UNCHANGED <<cacheVars, request, allVars, answers>>
       ELSE FailLoad
  /\ KeepFiles

Parent == CHOOSE p \in job.parent : TRUE

\* Mutant: a template that was read before is read again.
ReadAgain ==
  /\ job.stage = "parent"
  /\ IF Parent \in ToSet(job.seen) \/ ~There(Parent) \/ Content(Parent).kind = "Site"
       THEN FailLoad
       ELSE LET parents == UNION {Parents(Parent, ref) : ref \in Content(Parent).inherits} IN
            /\ \/ Content(Parent).inherits # {} /\ parents = {} /\ FailLoad
               \/ /\ Content(Parent).inherits = {} \/ parents # {}
                  /\ job' = [job EXCEPT !.seen = Append(@, Parent), !.parent = parents,
                               !.read = <<Layer(Parent)>> \o @,
                               !.stage = IF parents = {} THEN "unwind" ELSE "parent"]
                  /\ UNCHANGED <<cacheVars, request, allVars, answers>>
  /\ KeepFiles

\* _load_inherited_data: a file met twice is a cycle; what was merged before is reused,
\* but not for an explanation; a parent is a template.
ReadParent ==
  /\ job.stage = "parent"
  /\ \/ Parent \in ToSet(job.seen) /\ FailLoad
     \/ /\ Parent \notin ToSet(job.seen) /\ Parent \in DOMAIN inherited /\ ~job.explain
        /\ job' = [job EXCEPT !.stage = "unwind", !.parent = {}, !.data = inherited[Parent]]
        /\ UNCHANGED <<cacheVars, request, allVars, answers>>
     \/ /\ Parent \notin ToSet(job.seen) /\ (Parent \notin DOMAIN inherited \/ job.explain)
        /\ LET refs == Content(Parent).inherits
               parents == UNION {Parents(Parent, ref) : ref \in refs}
           IN IF Content(Parent).kind = "Site" \/ (refs # {} /\ parents = {}) THEN FailLoad
              ELSE /\ job' = [job EXCEPT !.seen = Append(@, Parent), !.parent = parents,
                                !.read = <<Layer(Parent)>> \o @,
                                !.stage = IF parents = {} THEN "unwind" ELSE "parent"]
                   /\ UNCHANGED <<cacheVars, request, allVars, answers>>
  /\ KeepFiles

\* The templates are merged from the root down, each cached as merged so far, and the base
\* on top of them.
UnwindTemplate ==
  /\ job.stage = "unwind" /\ job.read # <<>>
  /\ LET layer == Head(job.read)
         merged == Stack(job.data, layer)
     IN /\ job' = [Merge(layer) EXCEPT !.read = Tail(@)]
        /\ inherited' =
             IF job.explain THEN inherited
             ELSE [p \in DOMAIN inherited \cup {Source(layer)} |->
                     IF p = Source(layer) THEN merged ELSE inherited[p]]
  /\ KeepFiles /\ UNCHANGED <<indexes, siteCache, request, allVars, answers>>

UnwindBase ==
  /\ job.stage = "unwind" /\ job.read = <<>>
  /\ \E layer \in job.own : job' = Merged(layer)
  /\ KeepFiles /\ UNCHANGED <<cacheVars, request, allVars, answers>>

\* Site.from_data
Loaded ==
  [base |-> Base, name |-> CHOOSE n \in NameSoFar : TRUE, data |-> job.data]

\* A Site is cached by its path, its basename and what it was asked for by, and by its name
\* if nothing is cached by that name yet.
CachedSite(site) ==
  LET given == {Canonical, Basename(Canonical), job.id} \cup ({site.name} \ DOMAIN siteCache)
  IN  [id \in given \cup DOMAIN siteCache |-> IF id \in given THEN site ELSE siteCache[id]]

FinishLoad ==
  /\ job.stage = "files" /\ job.next > Len(Directories)
  /\ IF Required \notin DOMAIN job.data.leaves THEN FailLoad
     ELSE IF job.explain
       THEN /\ job' = Idle
            /\ request' = [request EXCEPT !.status = "done"]
            /\ UNCHANGED <<cacheVars, allVars, answers>>
       ELSE /\ Answered(job.id, {Loaded}) /\ Take(Loaded)
            /\ siteCache' = CachedSite(Loaded)
            /\ UNCHANGED <<indexes, inherited>>
  /\ KeepFiles

\* Whether some Site would get its name from a template: one that it inherits, or that is
\* at its path.
TakesName ==
  /\ \E p \in SiteFiles :
       /\ Content(p).name = {}
       /\ Content(p).inherits # {} \/ \E t \in Places : IsTemplate(t) /\ t.rel = p.rel
  /\ \E t \in Places : IsTemplate(t) /\ Content(t).name # {}

\* Somebody edits what a file sets or inherits; an edit that renames is left out.
EditFile(place) ==
  /\ There(place) /\ job.stage # "idle"
  /\ FoldFunction(+, 0, revision) < MaxEdits
  /\ \E c \in UNION Contents[place] :
       /\ c.name = Content(place).name /\ c.kind = Content(place).kind
       /\ files' = [files EXCEPT ![place] = {c}]
  /\ InheritedNames \/ ~TakesName'
  /\ revision' = [revision EXCEPT ![place] = @ + 1]
  /\ UNCHANGED <<cacheVars, job, request, allVars, answers>>

------------------------------------------------------------------------------

SiteInit ==
  /\ files \in Workspaces
  /\ InheritedNames \/ ~TakesName
  /\ revision = [p \in Places |-> 0]
  /\ indexes = {} /\ inherited = Nothing /\ siteCache = Nothing
  /\ job = Idle /\ queue = {} /\ allSites = {} /\ skipped = {} /\ answers = {}
  /\ request = [status |-> "none", by |-> "", names |-> <<>>, label |-> FALSE,
                chosen |-> <<>>, swept |-> {}]

LoadStep ==
  \/ Ask \/ AskName \/ NamesAsked \/ Sweep \/ NextOfAll \/ Swept
  \/ FindSite \/ SkipDirectory \/ ReadBase \/ ReadOverlay \/ ReadParent
  \/ UnwindTemplate \/ UnwindBase \/ FinishLoad

SiteNext ==
  \/ LoadStep
  \/ \E place \in Places : EditFile(place)

SiteSpec == SiteInit /\ [][SiteNext]_siteVars

------------------------------------------------------------------------------
(* Properties *)

Done == job.stage = "files" /\ job.next > Len(Directories)

\* A Site has one chain of inheritance, that of its base file: every layer before the base
\* is a template, and every layer after it is a file of the Site's own path.
OneChain(layers) ==
  \E i \in DOMAIN layers :
    /\ layers[i].place = Base
    /\ \A k \in DOMAIN layers :
         IF k < i THEN IsTemplate(layers[k].place) ELSE layers[k].place.rel = Canonical

\* A Site is what its files say, layer on layer: a leaf has the value of the last file that
\* sets it, unless a later one sets something above or below it.
LayersDecide ==
  Done =>
    LET layers == job.data.layers
        wins(p, i) == /\ p \in layers[i].sets
                      /\ \A k \in i + 1 .. Len(layers) :
                           \A r \in layers[k].sets : ~Comparable(p, r)
    IN /\ OneChain(layers)
       /\ job.data.leaves =
            [p \in {q \in UNION {l.sets : l \in ToSet(layers)} :
                      \E i \in DOMAIN layers : wins(q, i)} |->
               LET l == layers[CHOOSE i \in DOMAIN layers : wins(p, i)]
               IN [place |-> l.place, revision |-> l.revision]]

\* What --show-sources names as the origin of a value is the file whose value it is, for
\* every value and for nothing else.
OriginsAreTrue ==
  Done /\ job.explain =>
    /\ DOMAIN job.origin = DOMAIN job.data.leaves
    /\ \A p \in DOMAIN job.origin : job.origin[p] = job.data.leaves[p].place

\* A Site is read once in a command, and the Sites agree about every template they share:
\* none was loaded before an edit of it and another after.  A template at the path of a Site
\* is read again as a file of that Site.
TemplatesReadOnce ==
  LET sites == UNION {a.site : a \in answers}
      paths == {p.rel : p \in SiteFiles}
  IN \A s, t \in sites :
       /\ s.base = t.base => s = t
       /\ \A l \in ToSet(s.data.layers), m \in ToSet(t.data.layers) :
            l.place = m.place /\ l.place.rel \notin paths => l = m

SitesAreAsWritten == LayersDecide /\ OriginsAreTrue /\ TemplatesReadOnce

\* An identifier means one Site: what a command gets for it is the file the indexes name,
\* the first time and every time, whatever was loaded in between.
IdentifierMeansOneSite ==
  \A a \in answers : \A s \in a.site, index \in indexes : Found(index, a.id) = {s.base}

\* A selection by label is of every Site of the workspace, or there is none: a Site that
\* does not load, or is another Site's double, never makes the fleet smaller.  A manifest
\* that lists a Site by two of its names has it once.
SelectionIsWhole ==
  /\ request.status = "done" /\ request.by = "label" =>
       /\ {site.base : site \in allSites} = {ByBasename[b] : b \in Bases}
       /\ ToSet(request.chosen) = {site \in allSites : Matches(site)}
  /\ request.by = "manifest" =>
       IsInjective([i \in DOMAIN request.chosen |-> request.chosen[i].base])

==============================================================================
