SPECIFICATION ApiSpec
CONSTANTS
  Users = {u1}
  Sessions = {s1, s2}
  Tokens = {j1, j2, j3}
  Workers = {w1, w2}
  MaxEvents = 2
  NoUser = NoUser
  NoSession = NoSession
  NoToken = NoToken
SYMMETRY Symmetry
CHECK_DEADLOCK FALSE
INVARIANTS LiveSessionsPostdateEvents
PROPERTIES RotationOnlyForEntitled
