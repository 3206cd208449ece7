\* Every plan of a few hundred small workspaces, the files being saved
\* meanwhile.  A finished plan has no successor.
SPECIFICATION Spec
CHECK_DEADLOCK FALSE
CONSTANTS
  Worlds <- Curated
  NumTargets = 3
  Subscriptions = {"sub", "other"}
  MaxIncludeDepth = 2
  Templates = {"bicep", "json"}
  MaxSaves = 1
INVARIANTS
  SourcesAreRespected
  KeysAreTrue
  ExecutableIsRunnable
  BlockedOnlyForCause
