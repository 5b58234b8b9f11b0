SPECIFICATION Spec
CONSTANTS
  Requests = {q1, q2, q3}
  Ids = {i1, i2}
  W = 2
  PurgeDelay = 1
  Short <- MCShort
  MaxTime = 7
  None = None
SYMMETRY Symmetry
CHECK_DEADLOCK FALSE
PROPERTIES
  ResetsOnlyOldCounters
