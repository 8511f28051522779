SPECIFICATION HistoryServiceSpec
CONSTANTS
  Departments = {d1, d2}
  Positions = {p1}
  Employees = {e1}
  Workers = {w1, w2}
  Forms = {f1}
  MaxTreeDepth = 1
  None = None
SYMMETRY Symmetry
CHECK_DEADLOCK FALSE
INVARIANTS TypeOK PostsAgree UnitsInUseAreOpen FormsShowTheRow TreeServedWithinLimit SerialMovesKeepTreeAcyclic
