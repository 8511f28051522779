SPECIFICATION Spec
CONSTANTS
  People = {p1, p2}
  Ids = {a1, a2}
  Alternates = {x1}
  Contents = {b1, b2}
  Workers = {w1, w2}
  PermissionSets <- MCPermissionSets
  MaxPathAttempts = 2
  None = None
SYMMETRY Symmetry
CHECK_DEADLOCK FALSE
INVARIANTS TypeOK RowsKeepTheirFile OrphansAreAbandoned DeletionsAuditedOnce
