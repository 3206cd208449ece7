\* Three targets, two steps, at most two workers, raw keyboard interrupts.
SPECIFICATION Spec
CONSTANTS
  s1 = s1
  s2 = s2
  NumTargets = 3
  NumSteps = 2
  Subscriptions = {s1, s2}
  MaxParallel = 2
  RawInterrupts = TRUE
  Plans <- MCPlans
INVARIANTS
  TypeOK
  UnstartedMeansUntouched
  ObservationsRetained
  EarlierStepsSucceeded
  InputsWereProduced
  SubscriptionPhaseFirst
  ScratchOutlivesCalls
  ExitCodeHonest
  RunningIsNotAbandoned
