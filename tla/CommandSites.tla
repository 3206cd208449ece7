----------------------------- MODULE CommandSites -----------------------------
(***************************************************************************)
(* The two ways a command comes by its Sites (siteops/orchestrator.py      *)
(* _resolve_sites, siteops/cli.py _explicit_site): it selects configured   *)
(* ones (SiteInventory), or makes one from typed answers and what Azure    *)
(* says (GuidedInputs).  A command does one or the other, and a behaviour  *)
(* is one command.                                                         *)
(***************************************************************************)
EXTENDS SiteInventory, GuidedInputs

VARIABLE
  typed    \* whether the Site is made from answers

commandVars == <<typed, siteVars, inputVars>>

\* A typed Site is made whatever is configured, but for the names that are taken.
CommandInit ==
  \/ /\ typed = TRUE
     /\ files = (CHOOSE w \in Workspaces : TRUE) /\ SiteInit
     /\ InputInit
  \/ /\ typed = FALSE
     /\ SiteInit
     /\ line = NoValues /\ Started /\ names = {} /\ saved = {}

Selecting == ~typed /\ SiteNext /\ UNCHANGED <<typed, inputVars>>
Typing == typed /\ InputNext /\ UNCHANGED <<typed, siteVars>>

CommandNext == Selecting \/ Typing

CommandSpec == CommandInit /\ [][CommandNext]_commandVars
==============================================================================
