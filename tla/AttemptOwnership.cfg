SPECIFICATION Spec
CONSTANTS
  Slots <- MCSlots
  ProcessSlots <- MCProcessSlots
  WorkspaceSlots <- MCWorkspaceSlots
  MaxGen = 2
  MaxTime = 2
  MaxHeartbeats = 1
  Ttl = 1
INVARIANTS
  TypeOK
  SingleOpenGeneration
  ClaimsFollowOwner
  DeadBeforeHandover
  NoUnprovenLiveLease
PROPERTY
  RowVersionsAdvance
  ImplementsFencedOwnership
CHECK_DEADLOCK FALSE
