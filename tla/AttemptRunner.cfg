SPECIFICATION Spec
CONSTANTS
  Trees <- MCTrees
  InScope <- MCInScope
  Clean <- MCClean
  Complete <- MCComplete
  MaxReviewCycles = 3
  RemediationLimit = 1
  Verifications = 2
  MaxWrites = 3
  MaxCrashes = 2
INVARIANTS
  RunnerTypeOK
  TargetStartedOnce
  DispositionRestsOnProcessProof
  PromotedTreeIsProven
  OneDisposition
  RemediationsAnswerRejections
PROPERTIES
  DecisionsFinal
  FailureCleanupCompletes
