SPECIFICATION Spec
CONSTANTS
  Users = {u}
  Groups = {g, h}
  Festivals = {f1, f2}
  Tasks = {t1, t2, t3}
  Contents <- Shared
  StartGold = 0
  MaxSends = 0
  FESTIVE = FESTIVE
  None = None
INVARIANTS
  FestiveOnce
SYMMETRY Symmetry
CHECK_DEADLOCK FALSE
