SPECIFICATION Spec
CONSTANTS
  Users = {u, v}
  Groups = {g}
  Festivals = {}
  Tasks = {t1, t2}
  Contents <- TwoCoins
  StartGold = 4
  MaxSends = 2
  FESTIVE = FESTIVE
  None = None
PROPERTIES
  NoGoldLost
CHECK_DEADLOCK FALSE
