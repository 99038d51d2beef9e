SPECIFICATION Spec
CONSTANTS
  Users = {u, v}
  Groups = {g}
  Festivals = {}
  Tasks = {t1, t2, t3}
  Contents <- TwoCoins
  StartGold = 3
  MaxSends = 2
  FESTIVE = FESTIVE
  None = None
INVARIANTS
  TypeOK
  PiecesAccounted
SYMMETRY Symmetry
CHECK_DEADLOCK FALSE
