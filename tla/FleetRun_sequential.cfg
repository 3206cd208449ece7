\* Two targets, two steps, one worker, the stop handler installed, fair threads.
SPECIFICATION FairSpec
CONSTANTS
  s1 = s1
  s2 = s2
  NumTargets = 2
  NumSteps = 2
  Subscriptions = {s1, s2}
  MaxParallel = 1
  RawInterrupts = FALSE
  Plans <- SmallPlans
PROPERTIES
  AfterStopNothingNew
  RunReturns
