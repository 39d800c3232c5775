SPECIFICATION Spec
CONSTANTS
  N = 2
  Baseline = {1}
  Threshold = 2
  MaxWrites = 1
INVARIANTS
  KilledWorkSurvives
  CaptureIsOwn
PROPERTIES
  AuthorityIsBounded
  DispatchEnds
CHECK_DEADLOCK FALSE
