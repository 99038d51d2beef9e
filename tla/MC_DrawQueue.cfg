SPECIFICATION Spec
CONSTANTS
  Requests = {r1, r2, r3, r4}
  None = None
INVARIANTS
  OneTurn
  TurnsInOrder
PROPERTIES
  Served
CHECK_DEADLOCK FALSE
