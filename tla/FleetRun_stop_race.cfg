\* Two targets in two phases: does the stop cancel what was still queued.
SPECIFICATION Spec
CONSTANTS
  s1 = s1
  s2 = s2
  NumTargets = 2
  NumSteps = 2
  Subscriptions = {s1, s2}
  MaxParallel = 0
  RawInterrupts = FALSE
  Plans <- MCPlans
INVARIANTS
  QueuedAtStopIsCancelled
