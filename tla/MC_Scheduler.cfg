SPECIFICATION Spec
CONSTANTS
  Runs = {r1, r2}
  Commands = {c1, c2}
  MaxRows = 1
  Declared = TRUE
INVARIANTS
  RowsAndJobsAgree
  OneOffOnce
  RunningIsReal
SYMMETRY Symmetry
CHECK_DEADLOCK FALSE
