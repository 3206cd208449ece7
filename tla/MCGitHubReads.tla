----------------------------- MODULE MCGitHubReads -----------------------------
(* An instance of GitHubReads for TLC. *)
EXTENDS GitHubReads

TwoAssets == <<"descriptor", "package">>
==============================================================================
