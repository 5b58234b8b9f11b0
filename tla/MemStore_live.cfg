SPECIFICATION FairSpec
CONSTANTS
  Clients = {c1, c2}
  Namespaces = {n}
  Keys = {k}
  Values = {v}
  TTLs = {0, 1}
  MaxTime = 1
  None = None

PROPERTIES
  ExpiredGoes
  CollectorStops
