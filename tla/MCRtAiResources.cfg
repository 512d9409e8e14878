SPECIFICATION ResourcesSpec
CONSTANTS
  a1 = a1
  a2 = a2
  a3 = a3
  Clients = {a1, a2, a3}
  ArenaSize = 5
  MaxLeases = 2
  GenMod = 3
  Width = 4
  ResetTries = 2
  CommandBound = 7
  c1 = c1
  c2 = c2
  c3 = c3
  c4 = c4
  x1 = x1
  x2 = x2
  x3 = x3
  Callers = {c1, c2, c3, c4}
  Sessions = {x1, x2, x3}
  SessionOf <- MCSessionOf
  Legacy = {x3}
  Resources = {"npu", "cpu"}
  Primary <- MCPrimary
  Fallback <- MCFallback
  JobSlots = 2
  BlockCount = 2
  Retries = 2
  None = None
SYMMETRY Interchangeable
INVARIANTS
  LeasesDisjoint
  LeasesOwned
  ProbeIsLowestFit
  StaleIsolation
  ResetSilences
  TagsUnique
  OneJobPerSession
  LeasesExact
PROPERTIES
  NothingDisplaced
  DecisionFresh
