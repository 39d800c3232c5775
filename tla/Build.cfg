SPECIFICATION Spec
CONSTANTS
  b1 = b1
  b2 = b2
  Builders = {b1, b2}
  N = 2
  MaxAttempts <- Budgets
  MaxBuilds = 3
  MaxCrashes = 1
SYMMETRY BuilderSymmetry
INVARIANTS
  VerdictIsFounded
  SequentialIsolation
  OneOpenAttempt
CHECK_DEADLOCK FALSE
