---------------------------- MODULE MCPinnedContent ----------------------------
(* An instance of PinnedContent for TLC. *)
EXTENDS PinnedContent

Symmetry == Permutations(Users) \cup Permutations(Releases) \cup Permutations(Roots)
==============================================================================
