---------------------------- MODULE MCPackageCache ----------------------------
(***************************************************************************)
(* Three processes open the root, one of them to inspect it: two race to   *)
(* set it up.  In the store two of three can share a lease that the third  *)
(* wants to remove, and a package and a proof have one identity.           *)
(***************************************************************************)
EXTENDS PackageCache, TLC

Alike == Permutations(Openers \ Inspectors) \cup Permutations(Procs)
==============================================================================
