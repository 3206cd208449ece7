\* May a deployment ARM accepted be reported as failed.
SPECIFICATION Spec
CONSTANTS
  MaxAttempts = 3
  NotFoundGrace = 1
  ObservationGrace = 2
  Deadline = 5
INVARIANTS
  FailedIsNotAmbiguous
