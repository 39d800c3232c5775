SPECIFICATION Spec
CONSTANTS
  c1 = c1
  c2 = c2
  Callers = {c1, c2}
  Clients = {"build", "flow", "services"}
  MaxCalls = 3
  MaxMoves = 1
  MaxPulls = 2
SYMMETRY CallerSymmetry
INVARIANTS
  DeliveryTypeOK
  RecordsAreTrue
PROPERTIES
  ImplementsPromise
  DeliveryRowsFrozen
CHECK_DEADLOCK FALSE
