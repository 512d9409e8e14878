CONSTANTS
  driver = driver
  fix = fix
  docs = docs
  src = src
  doc = doc
  None = None
  Task = {driver, fix, docs}
  Path = {src, doc}
  Owned <- MCOwned
  Content = {c1, c2}
  MaxAttempts <- MCMaxAttempts
  PeopleSteps = 1
SPECIFICATION Spec
INVARIANTS PromotedAsReviewed ReportsAreSound FailureLeavesNoTrace
PROPERTIES BranchOnlyGrows
CHECK_DEADLOCK FALSE
