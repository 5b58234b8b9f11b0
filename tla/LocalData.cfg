SPECIFICATION FairSpec
CONSTANTS
  Ids = {1, 2, 3}
  PageSize = 2
  MaxFaults = 2
  None = None
INVARIANTS
  TypeOK
  NothingMissed
  NoRowTwice
PROPERTIES
  StableRowArrives
