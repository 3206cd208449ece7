--------------------------- MODULE ManifestSource ---------------------------
(***************************************************************************)
(* Loading a manifest: models.py turns a tree of files, each with steps of *)
(* its own and `include:` steps, into one flat list of steps, one list of  *)
(* manifest parameter sources and one list of composition contracts.       *)
(*                                                                         *)
(* A file is [steps, parameters, compositions].  A member of steps is      *)
(* [step, include, when]: a step of the file, {s}, or the file it          *)
(* includes, {f}, with the condition on the include.  A condition is the   *)
(* set of Site labels any of which satisfies it, {} when there is none.  A *)
(* parameter source is [path, forEach, collections], the collections a     *)
(* sequence of names without a repetition.  Parsing a file that is not of  *)
(* this form fails before any of this.                                     *)
(***************************************************************************)
EXTENDS Integers, SequencesExt, FiniteSetsExt

CONSTANT MaxIncludeDepth   \* MAX_INCLUDE_DEPTH

Refused == [ok |-> FALSE, steps |-> <<>>, parameters |-> <<>>, compositions |-> <<>>]

Elements(s) == {s[i] : i \in DOMAIN s}

StepNames(steps) == {steps[i].name : i \in DOMAIN steps}

(* Mutant: the condition of the include replaces the one of the step.      *)
GateReplaces(steps, when) == FALSE

(* _propagate_when does not combine two conditions.                        *)
GateClash(steps, when) ==
  when # {} /\ \E i \in DOMAIN steps : steps[i].when # {}

Gated(steps, when) ==
  [i \in DOMAIN steps |->
     IF when = {} THEN steps[i] ELSE [steps[i] EXCEPT !.when = when]]

SameSource(a, b) == a.path = b.path /\ a.forEach = b.forEach

(* The source a fragment's one is compared with: the last such one of the  *)
(* parent, or else the first of the fragment.                              *)
Seen(parent, fragment, x) ==
  LET Same(y) == SameSource(x, y)
  IN  IF \E y \in Elements(parent) : Same(y)
        THEN parent[SelectLastInSeq(parent, Same)]
        ELSE fragment[SelectInSeq(fragment, Same)]

(* The same names in another order are other metadata.                     *)
ParametersClash(parent, fragment) ==
  \E x \in Elements(fragment) : Seen(parent, fragment, x).collections # x.collections

AppendNew(seq, x) ==
  IF \E y \in Elements(seq) : SameSource(x, y) THEN seq ELSE Append(seq, x)

MergeParameters(parent, fragment) == FoldLeft(AppendNew, parent, fragment)

AppendPath(seq, path) == IF path \in Elements(seq) THEN seq ELSE Append(seq, path)

Spliced(m, sub, when) ==
  [ok           |-> TRUE,
   steps        |-> m.steps \o Gated(sub.steps, when),
   parameters   |-> MergeParameters(m.parameters, sub.parameters),
   compositions |-> FoldLeft(AppendPath, m.compositions, sub.compositions)]

(* A gated include may not bring parameters, whose effect is not gated.    *)
MaySplice(m, sub, when) ==
  /\ sub.ok
  /\ when = {} \/ sub.parameters = <<>>
  /\ sub.steps # <<>>
  /\ ~GateClash(sub.steps, when)
  /\ ~ParametersClash(m.parameters, sub.parameters)

(* _resolve_steps_and_params: chain is the include chain, so that only a   *)
(* file that includes itself is a cycle.                                   *)
Chains(files) == UNION {[1 .. n -> DOMAIN files] : n \in 1 .. MaxIncludeDepth + 2}

Flatten(files) ==
  LET flat[chain \in Chains(files)] ==
        LET file == files[Last(chain)]
            Include(m, item, target) ==
              LET sub == flat[Append(chain, target)]
              IN  IF /\ target \in DOMAIN files
                     /\ target \notin Elements(chain)
                     /\ MaySplice(m, sub, item.when)
                    THEN Spliced(m, sub, item.when)
                    ELSE Refused
            Take(m, item) ==
              CASE ~m.ok -> m
                [] m.ok /\ item.step # {} ->
                     [m EXCEPT !.steps = m.steps \o SetToSeq(item.step)]
                [] OTHER -> Include(m, item, CHOOSE f \in item.include : TRUE)
        IN  IF Len(chain) - 1 > MaxIncludeDepth THEN Refused
            ELSE FoldLeft(Take,
                          [ok           |-> TRUE, steps |-> <<>>,
                           parameters   |-> file.parameters,
                           compositions |-> file.compositions],
                          file.steps)
  IN  flat

(* Manifest.from_file                                                      *)
Load(files, root) ==
  LET m == Flatten(files)[<<root>>]
  IN  IF Cardinality(StepNames(m.steps)) = Len(m.steps) THEN m ELSE Refused

-----------------------------------------------------------------------------
(* What the files say, without the recursion: a step stands at a position, *)
(* the index to follow in each file on the way down to it.                 *)

MaxItems(files) == Max({Len(files[f].steps) : f \in DOMAIN files} \cup {1})

FilesAlong(files, root, position) ==
  LET at[n \in DOMAIN position] ==
        IF n = 1 THEN {root}
        ELSE UNION {files[f].steps[position[n - 1]].include :
                      f \in {g \in at[n - 1] \cap DOMAIN files :
                               position[n - 1] \in DOMAIN files[g].steps}}
  IN  at

ItemsAlong(files, root, position) ==
  LET at == FilesAlong(files, root, position)
  IN  [n \in DOMAIN position |->
         {files[f].steps[position[n]] :
            f \in {g \in at[n] \cap DOMAIN files : position[n] \in DOMAIN files[g].steps}}]

StepAt(files, root, position) ==
  UNION {item.step : item \in ItemsAlong(files, root, position)[Len(position)]}

Positions(files, root) ==
  {p \in UNION {[1 .. n -> 1 .. MaxItems(files)] : n \in 1 .. MaxIncludeDepth + 1} :
     StepAt(files, root, p) # {}}

Before(p, q) ==
  \E n \in DOMAIN p \cap DOMAIN q :
    p[n] < q[n] /\ \A k \in 1 .. n - 1 : p[k] = q[k]

(* The conditions written on the way to a step, its own included.          *)
GatesAt(files, root, position) ==
  {item.when : item \in UNION Elements(ItemsAlong(files, root, position))}
    \cup {s.when : s \in StepAt(files, root, position)}

GateCount(files, root, position) ==
  Cardinality({n \in DOMAIN position :
                 \E item \in ItemsAlong(files, root, position)[n] : item.when # {}})
  + Cardinality({s \in StepAt(files, root, position) : s.when # {}})

(* The flat list is the steps of the files in the order they are written,  *)
(* and each runs under the one condition written on its way, if any.       *)
AsWritten(files, root, m) ==
  LET order == SetToSortSeq(Positions(files, root), Before)
  IN  /\ Len(m.steps) = Len(order)
      /\ \A i \in DOMAIN order :
           /\ \E s \in StepAt(files, root, order[i]) : m.steps[i].name = s.name
           /\ GateCount(files, root, order[i]) <= 1
           /\ m.steps[i].when = UNION GatesAt(files, root, order[i])
=============================================================================
