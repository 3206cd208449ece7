\* Acceptance in groups of its own and in a persistent one, with cancelled jobs, failing
\* calls and reconciliations.
SPECIFICATION Spec
CONSTANTS
  Scenarios <- TheScenarios
  MaxTime = 2
  MaxRounds = 1
  MaxReconciles = 1
INVARIANTS
  OnlyOwnIsRemoved
  CompleteMeansGone
  RetainedBeforeWritten
CHECK_DEADLOCK FALSE
