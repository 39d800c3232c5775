SPECIFICATION Spec
CONSTANTS
  b1 = b1
  Builders = {b1}
  N = 2
  MaxAttempts <- Budgets
  MaxBuilds = 2
  MaxCrashes = 1
INVARIANT ResumeManufacturesNothing
CHECK_DEADLOCK FALSE
