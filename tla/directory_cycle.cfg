SPECIFICATION HistoryServiceSpec
CONSTANTS
  Departments = {d1, d2}
  Positions = {}
  Employees = {}
  Workers = {w1, w2}
  Forms = {}
  MaxTreeDepth = 3
  None = None
SYMMETRY Symmetry
CHECK_DEADLOCK FALSE
INVARIANTS TreeIsAcyclic
