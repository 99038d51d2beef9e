SPECIFICATION Spec
CONSTANTS
  MaxRecords = 3
  MaxRetain = 2
  BatchSize = 2
  MaxItems = 2
  Workers = {w1, w2}
  Governor = gov
  Stopper = stopper
  None = None
INVARIANTS
  NoRowTwice
  LossesAreCounted
  OldestFirst
PROPERTIES
  BufferDrains
  StopReturns
