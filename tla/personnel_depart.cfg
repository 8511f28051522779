SPECIFICATION HistorySpec
CONSTANTS
  Employees = {e1}
  Users = {u1}
  Emails = {m1}
  Invitations = {i1, i2}
  Codes = {c1, c2}
  Workers = {w1, w2}
  NoUser = NoUser
  NoEmail = NoEmail
  NoEmployee = NoEmployee
  NoInvitation = NoInvitation
  NoCode = NoCode
SYMMETRY Symmetry
CHECK_DEADLOCK FALSE
INVARIANTS DepartedHaveNoAccess
