CONSTANTS
  bsp = bsp
  driver = driver
  probe = probe
  None = None
  Task <- MCTask
  Deps <- MCDeps
  NumEditions = 2
  PlanTasks <- MCPlanTasks
  InputHash <- MCInputHash
  c1 = c1
  c2 = c2
  Content <- MCContent
  Product <- MCProduct
  Releasing = {probe}
  MaxAttempts = 2
  Workers = 2
  MaxFaults = 1
SPECIFICATION Spec
INVARIANTS HeadVerified
