SPECIFICATION Spec
CONSTANTS
  r1 = r1
  r2 = r2
  r3 = r3
  e1 = e1
  e2 = e2
  Runs = {r1, r2, r3}
  Events = {e1, e2}
  EventOf <- TwoAndOne
  Price = 1
  StartGold = 2
  MaxCount = 2
  MaxTurns = 1
  None = None
INVARIANTS
  GoldBalances
  BlockIsExclusive
  CountIsExact
  NothingLeftBehind
  LockIsHeld
SYMMETRY Symmetry
CHECK_DEADLOCK FALSE
