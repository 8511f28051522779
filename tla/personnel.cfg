SPECIFICATION HistorySpec
CONSTANTS
  Employees = {e1, e2}
  Users = {u1, u2}
  Emails = {m1, m2}
  Invitations = {i1, i2, i3}
  Codes = {c1, c2, c3}
  Workers = {w1, w2}
  NoUser = NoUser
  NoEmail = NoEmail
  NoEmployee = NoEmployee
  NoInvitation = NoInvitation
  NoCode = NoCode
SYMMETRY Symmetry
CHECK_DEADLOCK FALSE
INVARIANTS AccountsMatchInvitations OpenInvitationsAwaitAccount DeparturesCloseAccounts
PROPERTIES ImplementsOneTimeCode
