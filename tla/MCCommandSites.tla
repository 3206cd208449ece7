---------------------------- MODULE MCCommandSites ----------------------------
(* CommandSites with the workspace of MCSites and the contracts of InputCases. *)
EXTENDS MCSites, CommandSites, InputCases
==============================================================================
