\* A deployment of three attempts, graces of one and two intervals and a
\* deadline of five.  Three Sites that share two slots, two attempts each.
\* A wait of four intervals, three errors in a row open its breaker.
SPECIFICATION FairStepSpec
CONSTANTS
  SubmitAttempts = 3
  NotFoundGrace = 1
  ObservationGrace = 2
  Deadline = 5
  Sites = {a, b, c}
  MaxSlots = 2
  MaxAttempts = 2
  TakenPorts = {{}}
  Timeout = 4
  MaxErrors = 3
INVARIANTS
  ReportsAreTrue
  ProxyWithinSlot
  VerdictWasSeen
PROPERTIES
  CallSpec
  StepsReturn
