SPECIFICATION ASpec
CONSTANTS
  Clients = {h1}
  Namespaces = {"auth_code", "qrc"}
  Keys = {k1}
  Values = {v1}
  TTLs = {0, 1}
  CodeTTL = 1
  QRTTL = 0
  Retries = 2
  MaxTime = 1
  None = None
INVARIANTS
  SuccessCarriesCode
