SPECIFICATION Spec
CONSTANTS
  c1 = c1
  Callers = {c1}
  Clients = {"flow"}
  MaxCalls = 1
  MaxMoves = 0
  MaxPulls = 1
INVARIANTS
  VerifiedFlowIsRecorded
CHECK_DEADLOCK FALSE
