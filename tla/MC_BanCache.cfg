SPECIFICATION FairSpec
CONSTANTS
  p1 = p1
  p2 = p2
  Procs <- TwoProcesses
  Commands = {c1}
  Given <- ThreePlaces
  Asked <- AskedHere
  MaxBans = 2
INVARIANTS
  NegativeIsTrue
  CacheAgrees
  AnswerIsRight
PROPERTIES
  CachesHeal
