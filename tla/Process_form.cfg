SPECIFICATION PSpec
CONSTANTS
  Requests = {r1}
  AuthPaths <- MCAuthPaths
  Endpoints <- MCEndpoints
  MaxStatics = 1
CHECK_DEADLOCK FALSE
INVARIANTS
  LoginFormIsServed
