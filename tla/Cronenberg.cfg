SPECIFICATION Spec
CONSTANTS
  Subsystems = {"a", "b"}
  Order <- SubsystemOrder
  MicroverseOwned = {"a"}
  MaxEdits = 1
  MaxScore = 1
  Epsilon = 2
  Window = 1
  StallLimit = 2
  Threshold = 2
  MaxIterations = 3
  MaxPasses = 2
  MaxCrashes = 1
  MaxChains = 2
  UserPaths = {"out"}
INVARIANTS VerdictIsEarned
PROPERTIES CommitsAreJudged 
CHECK_DEADLOCK FALSE
