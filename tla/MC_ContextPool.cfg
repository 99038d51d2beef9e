SPECIFICATION Spec
CONSTANTS
  c1 = c1
  c2 = c2
  c3 = c3
  Callers = {c1, c2, c3}
  KeyOf <- Pages
  MaxRender = 2
  PoolSize = 2
  Prewarm = 1
  MaxGenerations = 3
  MaxContexts = 5
  IdleLoop = IdleLoop
  None = None
INVARIANTS
  LeasesAreCounted
  NobodyStarves
  PoolBounded
  OneTaskPerKey
  ClosedIsEmpty
PROPERTIES
  ImplementsLeasePool
  RetiredGo
  CloseReturns
CHECK_DEADLOCK FALSE
