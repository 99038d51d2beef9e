SPECIFICATION DuelSpec
CONSTANTS
  Users = {u, v, w}
  Tasks = {t1, t2}
  JobRun = JobRun
  MaxBlanks = 1
  Nobody = Nobody
INVARIANTS
  DuelIsTimed
PROPERTIES
  PaidOnce
  DuelEnds
CHECK_DEADLOCK FALSE
