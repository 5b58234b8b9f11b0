SPECIFICATION TSpec
CONSTANTS
  Requests = {q1, q2, q3, q4}
  Ids = {i1, i2}
  W = 2
  PurgeDelay = 1
  Short <- MCShort
  MaxTime = 6
  Limit = 2
  UintSize = 16
  None = None
SYMMETRY Symmetry
CHECK_DEADLOCK FALSE
INVARIANTS
  TTypeOK
  NeverOvercounts
  ExactUnlessLate
  SurvivorsAreRecent
  RefusedOnlyOverLimit
  AtMostLimitPass
PROPERTIES
  RateIsSlidingCount
  RemainingIsHonoured
