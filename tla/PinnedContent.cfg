SPECIFICATION Spec
CONSTANTS
  Operators = {op}
  Users = {u1, u2}
  Publishers = {contoso}
  Roots = {r1, r2}
  Validity = 2
  MaxTime = 1
  MaxCommands = 1
  MaxUses = 1
  MaxActive = 2
  MaxFaults = 1
  Releases = {v1, v2}
  Source = contoso
  NoPin = NoPin
  MaxChanges = 1
SYMMETRY Symmetry
INVARIANTS ApprovalSurvives ExecutesUnderApproval
PROPERTY PinIsRegister
CHECK_DEADLOCK FALSE
