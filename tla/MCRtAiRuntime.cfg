CONSTANTS
  NumResources = 2
  JobSlots = 2
  QueueDepth = 2
  j1 = j1
  j2 = j2
  x1 = x1
  x2 = x2
  Jobs = {j1, j2}
  Sessions = {x1, x2}
  SessionOf <- MCSessionOf
  Plan <- JoinPlans
  Legacy = {x2}
  Polled <- AllPolled
  ResetLimit = 2
  Deadlines = {1, 2}
  Faults = {"submit", "completion", "cancel_begin", "reset_lost", "cancel_rejected"}
  AttemptBound = 3
  None = None
SPECIFICATION Spec
INVARIANTS
  LeaseCoversExecution
  RecoveryAccounted
  RecoveryOwnsResource
  TablesAgree
  PlanIsFollowed
PROPERTIES
  QuarantineIsFinal
  FallbackNeedsLoss
  ContractSpec
