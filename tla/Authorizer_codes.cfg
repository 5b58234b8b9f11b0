SPECIFICATION ASpec
CONSTANTS
  Clients = {h1, h2}
  Namespaces = {"auth_code", "qrc"}
  Keys = {k1, k2}
  Values = {v1, v2}
  TTLs = {0, 1}
  CodeTTL = 1
  QRTTL = 0
  Retries = 2
  MaxTime = 1
  None = None
SYMMETRY Symmetry
INVARIANTS
  ATypeOK
  IssuedCodeWorks
