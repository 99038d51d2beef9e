SPECIFICATION Spec
CONSTANTS
  Texts = {m1, m2}
  Likes = {k1}
  Others = {}
  Workers = {w1, w2}
  QueueMax = 1
  Permits = 1
  None = None
INVARIANTS
  PendingIsOwned
  JoinCountIsExact
  StopLeavesNothing
  SentOnceInOrder
PROPERTIES
  ImplementsService
  StopTerminates
