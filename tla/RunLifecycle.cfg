SPECIFICATION Spec
CONSTANTS
  Tickets = {t1}
  MaxAttempts <- OneRetry
INVARIANTS
  LifecycleTypeOK
  OpenLeaseIsCurrent
  PromotionOwnsRef
CHECK_DEADLOCK FALSE
