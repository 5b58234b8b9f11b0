SPECIFICATION OSpec
CONSTANTS
  Clients = {c1, c2}
  Namespaces = {n}
  Keys = {k}
  Values = {v1, v2, v3}
  TTLs = {0, 1}
  MaxTime = 1
  None = None
SYMMETRY Symmetry
INVARIANTS
  TakenIsGone
PROPERTIES
  RedeemedOnce
