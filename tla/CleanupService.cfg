SPECIFICATION CleanupSpec
CONSTANTS
  Slots <- MCSlots
  ProcessSlots <- MCProcessSlots
  WorkspaceSlots <- MCWorkspaceSlots
  MaxGen = 2
  MaxTime = 1
  MaxHeartbeats = 0
  Ttl = 1
  Executors = {e1, e2}
  MaxCrashes = 1
INVARIANTS
  WorkPreserved
  ReleasedMeansGone
PROPERTIES
  CleanupCompletes
CHECK_DEADLOCK FALSE
