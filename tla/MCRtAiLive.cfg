CONSTANTS
  NumResources = 2
  JobSlots = 2
  QueueDepth = 2
  j1 = j1
  j2 = j2
  x1 = x1
  x2 = x2
  Jobs = {j1, j2}
  Sessions = {x1, x2}
  SessionOf <- MCSessionOf
  Plan <- PipelinePlans
  Legacy = {}
  Polled <- MixedPolled
  ResetLimit = 2
  Deadlines = {1}
  Faults = {"completion", "cancel_begin", "reset_begin", "exhausted", "reset_lost", "reset_idle"}
  AttemptBound = 1
  None = None
SPECIFICATION FairSpec
PROPERTIES
  EveryJobEnds
  RecoveryEnds
