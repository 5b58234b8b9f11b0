SPECIFICATION Spec
CONSTANTS
  Ids = {1, 2}
  PageSize = 1
  MaxFaults = 1
  None = None
PROPERTIES
  UnknownIdHasNoRow
