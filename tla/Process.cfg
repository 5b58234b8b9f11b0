SPECIFICATION PFairSpec
CONSTANTS
  Requests = {r1, r2}
  AuthPaths <- MCAuthPaths
  Endpoints <- MCEndpoints
  MaxStatics = 2
CHECK_DEADLOCK FALSE
INVARIANTS
  RTypeOK
  FailsOnlyForItsConfig
  RoutesSeeServices
  LoginServedByAuth
  StaticsServed
  CancelledAfterLastRequest
  CleanExitIsOrderly
PROPERTIES
  BootComesToItsEnd
  SignalEndsProcess
