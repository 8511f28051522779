SPECIFICATION Spec
CONSTANTS
  s1 = s1
  s2 = s2
  Sessions <- MCSessions
  Pairs <- MCPairs
  Pages = {r1}
  Logouts = {l1}
  Me = me
  NoToken = NoToken
  NoSession = NoSession
CHECK_DEADLOCK FALSE
INVARIANTS TypeOK NoTokenReplayed TokensAreOfTheShownUser
PROPERTIES CallsSettle LogoutsFinish LossSignsOut
