CONSTANTS
  NumResources = 2
  JobSlots = 2
  QueueDepth = 2
  j1 = j1
  j2 = j2
  x1 = x1
  x2 = x2
  Jobs = {j1}
  Sessions = {x1}
  SessionOf <- OneJob
  Plan <- OneFork
  Legacy = {}
  Polled <- AllPolled
  ResetLimit = 2
  Deadlines = {1}
  Faults = {"cancel_begin", "reset_begin"}
  AttemptBound = 0
  None = None
SPECIFICATION Spec
INVARIANT LeaseCoversExecution
