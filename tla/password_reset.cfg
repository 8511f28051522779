SPECIFICATION Spec
CONSTANTS
  Users = {u1}
  Codes = {c1, c2, c3}
  Workers = {w1, w2}
  OldKey = OldKey
  NewKey = NewKey
  Limit = 2
  NoUser = NoUser
  NoCode = NoCode
  NoKey = NoKey
SYMMETRY Symmetry
CHECK_DEADLOCK FALSE
INVARIANTS TypeOK NewestMailWins ValidCodesVerify GrantsBounded
PROPERTIES ImplementsOneTimeCode
