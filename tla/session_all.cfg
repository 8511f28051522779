SPECIFICATION Spec
CONSTANTS
  Users = {u1}
  Sessions = {s1, s2}
  Tokens = {j1, j2, j3, j4}
  Workers = {w1, w2}
  MaxEvents = 1
  NoUser = NoUser
  NoSession = NoSession
  NoToken = NoToken
SYMMETRY Symmetry
CHECK_DEADLOCK FALSE
INVARIANTS TypeOK OnlyCurrentRefreshUsable
PROPERTIES RevocationIsFinal ImplementsRefreshChain
