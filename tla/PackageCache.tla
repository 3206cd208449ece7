----------------------------- MODULE PackageCache -----------------------------
(***************************************************************************)
(* The shared cache from its making to its use: how processes lay out its  *)
(* root (CacheLayout) and how they publish, lease and remove what is in it *)
(* (CacheStore).  The store takes for granted what the layout promises, a  *)
(* root with all its directories, and they share no state; a behaviour is  *)
(* of one kind.                                                            *)
(***************************************************************************)
EXTENDS CacheStore

CONSTANTS Openers, Inspectors, MarkerReads, MaxCrashes, MaxFaults

VARIABLES
  opened,   \* whether the root is there and marked, or is about to be made; fixed
  exists, dirs, marker, filled, candidates, staged, prepared, leftover, opening, replaces,
  crashes, faults

L == INSTANCE CacheLayout WITH Procs <- Openers, litter <- leftover, call <- opening

ASSUME CacheAssumption == L!LayoutAssumption

layoutVars == <<exists, dirs, marker, filled, candidates, staged, prepared, leftover, opening,
                replaces, crashes, faults>>
cacheVars == <<opened, vars, layoutVars>>

CacheInit ==
  /\ opened \in BOOLEAN
  /\ L!Init /\ Init
  /\ opened => exists /\ replaces

Opening == ~opened /\ L!Next /\ UNCHANGED <<opened, vars>>
Storing == opened /\ Next /\ UNCHANGED <<opened, layoutVars>>

CacheNext == Opening \/ Storing

CacheSpec == CacheInit /\ [][CacheNext]_cacheVars

------------------------------------------------------------------------------
(* Properties *)

\* A marked root is a whole cache, and no opener is refused one, whoever else initializes,
\* dies or fails meanwhile (cache_layout.py).
RootIsSound == L!RootIsSound
==============================================================================
