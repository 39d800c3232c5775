SPECIFICATION CommitSpec
CONSTANTS
  t1 = t1
  t2 = t2
  t3 = t3
  Callers = {c1, c2}
  Trees <- MCTrees
  Legible <- MCLegible
  Scoped <- MCScoped
  Reviewed = t1
  Baseline = baseline
  Foreign = foreign
  NoTree = none
  MaxDisturbances = 2
  MaxCrashes = 1
INVARIANTS
  AttributionIsProven
  FailureIsContained
PROPERTIES
  IntentIsFinal
  CommitSettles
