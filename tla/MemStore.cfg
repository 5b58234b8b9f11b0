SPECIFICATION HSpec
CONSTANTS
  Clients = {c1, c2}
  Namespaces = {n}
  Keys = {k}
  Values = {v1, v2}
  TTLs = {0}
  MaxTime = 1
  None = None
SYMMETRY Symmetry
INVARIANTS
  TypeOK
  ScopedIsPublished
PROPERTIES
  CollectsOnlyExpired
  RefreshKeepsValue
  ImplementsKeyValueStore
