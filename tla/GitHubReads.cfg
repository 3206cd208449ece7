SPECIFICATION Spec
CONSTANTS
  Assets <- TwoAssets
  MaxVersion = 2
  MaxRedirects = 1
  Browsers = {b1, b2}
  MaxRevision = 2
  MaxAge = 1
  MaxClock = 2
  MaxStepsBack = 1
INVARIANTS SnapshotIsAtomic YieldedIsFinal FreshUnlessOffline
PROPERTIES TransferReturns
CHECK_DEADLOCK FALSE
