----------------------- MODULE SessionAuthorityProofs -----------------------
(***************************************************************************)
(* Theorems about SessionAuthority, for any accounts, sessions, tokens,    *)
(* workers and any bound on security events.                               *)
(***************************************************************************)
EXTENDS SessionAuthority, TLAPS

\* A request works on a token and a session that exist, logout-all and a
\* departure on sessions of their own user.
Grounded(t) ==
  /\ t.op = "refresh" => Issued(t.token)
  /\ t.op = "request" => Opened(t.session)
  /\ t.op \in {"logout_all", "depart_select", "depart_tokens"} =>
        \A s \in t.found : owner[s] = t.user

\* A session that no login has inserted yet is blank, and every registered or
\* redeemed token belongs to an inserted session.
Provenance ==
  /\ \A s \in Sessions : ~Opened(s) =>
        revokedReason[s] = "none" /\ currentRefresh[s] = NoToken
  /\ \A j \in Tokens : Issued(j) => Opened(sid[j])
  /\ redeemed \subseteq {j \in Tokens : Issued(j)}
  /\ \A w \in Workers : Grounded(task[w])

TypeInv == TypeOK /\ Provenance

\* A task with a given operation has the fields of that operation's record.
LEMMA TaskShape ==
  ASSUME NEW t \in Task
  PROVE  /\ t.op = "login" => t \in LoginTask
         /\ t.op = "refresh" => t \in RefreshTask
         /\ t.op = "request" => t \in RequestTask
         /\ t.op = "logout_all" => t \in LogoutAllTask
         /\ t.op \in {"depart_read", "depart_select", "depart_tokens"}
               => t \in DepartTask /\ t.user \in Users
         /\ t.op \in {"depart_select", "depart_tokens"} => t.found \subseteq Sessions
         /\ t.op = "depart_tokens" => t.listed \subseteq Tokens
         /\ t \in DepartTask => t.op \in {"depart_read", "depart_select", "depart_tokens"}
BY DEF Task, Idle, LoginTask, RefreshTask, RequestTask, LogoutAllTask, DepartTask

LEMMA InitTypeInv == Init => TypeInv
BY SentinelsAreFresh, MaxEventsIsNat
DEF Init, TypeInv, TypeOK, Provenance, Grounded, Opened, Issued, Task, Idle, Birth

\* Revoking changes nothing but the reasons of inserted, unrevoked sessions.
LEMMA MarkRevokedShape ==
  ASSUME NEW ending, NEW why \in Reasons, TypeInv, MarkRevoked(ending, why)
  PROVE  /\ revokedReason' \in [Sessions -> Reasons \cup {"none"}]
         /\ \A s \in Sessions : ~Opened(s) => revokedReason'[s] = revokedReason[s]
BY DEF TypeInv, TypeOK, MarkRevoked, Unrevoked

\* A step that only revokes sessions, blacklists tokens and moves on the
\* worker keeps the type invariant.
LEMMA RevocationTypeInv ==
  ASSUME TypeInv, NEW ending, NEW why \in Reasons, MarkRevoked(ending, why),
         blacklisted' \subseteq Tokens,
         UNCHANGED <<owner, expired, currentRefresh, bornAt, sid, redeemed>>,
         active' \in [Users -> BOOLEAN], events' \in [Users -> 0..MaxEvents],
         \/ UNCHANGED task
         \/ \E w \in Workers : Finish(w)
  PROVE  TypeInv'
<1>1. /\ revokedReason' \in [Sessions -> Reasons \cup {"none"}]
      /\ \A s \in Sessions : ~Opened(s) => revokedReason'[s] = revokedReason[s]
  BY MarkRevokedShape
<1>2. /\ task' \in [Workers -> Task]
      /\ \A w \in Workers : task'[w] = task[w] \/ task'[w] = Idle
  BY DEF TypeInv, TypeOK, Finish, Task
<1>3. TypeOK'
  BY <1>1, <1>2 DEF TypeInv, TypeOK, Opened
<1>4. Provenance'
  <2>1. ASSUME NEW w \in Workers
        PROVE  Grounded(task[w])'
    BY <1>2 DEF TypeInv, Provenance, Grounded, Idle, Issued, Opened
  <2> QED
    BY <1>1, <2>1 DEF TypeInv, Provenance, Opened, Issued
<1> QED
  BY <1>3, <1>4 DEF TypeInv

\* A step that only starts or finishes a request keeps the type invariant,
\* provided the request names what has been inserted.
LEMMA TaskTypeInv ==
  ASSUME TypeInv, NEW w \in Workers, NEW t \in Task,
         task' = [task EXCEPT ![w] = t],
         Grounded(t),
         UNCHANGED <<accountVars, sessionVars, tokenVars>>
  PROVE  TypeInv'
<1>1. /\ task' \in [Workers -> Task]
      /\ \A v \in Workers : task'[v] = task[v] \/ task'[v] = t
  BY DEF TypeInv, TypeOK
<1>2. TypeOK'
  BY <1>1 DEF TypeInv, TypeOK, Opened, accountVars, sessionVars, tokenVars
<1>3. ASSUME NEW v \in Workers
      PROVE  Grounded(task[v])'
  BY <1>1
  DEF TypeInv, Provenance, Grounded, Issued, Opened, accountVars, sessionVars, tokenVars
<1> QED
  BY <1>2, <1>3
  DEF TypeInv, Provenance, Issued, Opened, accountVars, sessionVars, tokenVars

LEMMA LoginIssueTypeInv ==
  ASSUME TypeInv, NEW w \in Workers, NEW s \in Sessions, NEW j \in Tokens,
         LoginIssue(w, s, j)
  PROVE  TypeInv'
<1>1. task[w].user \in Users /\ events[task[w].user] \in 0..MaxEvents
  BY TaskShape DEF LoginIssue, TypeInv, TypeOK, LoginTask
<1>2. /\ task' \in [Workers -> Task]
      /\ \A v \in Workers : task'[v] = task[v] \/ task'[v] = Idle
  BY DEF LoginIssue, Finish, TypeInv, TypeOK, Task
<1>3. /\ owner' = [owner EXCEPT ![s] = task[w].user]
      /\ Opened(s)' /\ \A t \in Sessions : Opened(t) => Opened(t)'
      /\ \A t \in Sessions \ {s} : Opened(t)' => Opened(t)
  BY <1>1, SentinelsAreFresh DEF LoginIssue, TypeInv, TypeOK, Opened
<1>4. TypeOK'
  BY <1>1, <1>2, <1>3, SentinelsAreFresh
  DEF LoginIssue, IssueToken, TypeInv, TypeOK, Opened, Issued, accountVars, Birth
<1>5. ASSUME NEW v \in Workers
      PROVE  Grounded(task[v])'
  <2>1. task[v].op = "refresh" => task[v].token \in Tokens
    BY TaskShape DEF TypeInv, TypeOK, RefreshTask
  <2>2. task[v].op = "request" => task[v].session \in Sessions
    BY TaskShape DEF TypeInv, TypeOK, RequestTask
  <2> DEFINE finder == task[v].op \in {"logout_all", "depart_select", "depart_tokens"}
  <2>3. finder => task[v].user \in Users /\ task[v].found \subseteq Sessions
    BY TaskShape DEF TypeInv, TypeOK, LogoutAllTask
  <2>4. Grounded(task[v])
    BY DEF TypeInv, Provenance
  <2>5. CASE task'[v] = Idle
    BY <2>5 DEF Grounded, Idle
  <2>6. CASE task'[v] = task[v]
    <3>1. (task[v].op = "refresh" => Issued(task[v].token))'
      BY <2>1, <2>4, <2>6, SentinelsAreFresh
      DEF Grounded, Issued, LoginIssue, IssueToken, TypeInv, TypeOK
    <3>2. (task[v].op = "request" => Opened(task[v].session))'
      BY <1>3, <2>2, <2>4, <2>6 DEF Grounded
    <3>3. (finder => \A t \in task[v].found : owner[t] = task[v].user)'
      BY <1>3, <2>3, <2>4, <2>6, SentinelsAreFresh
      DEF Grounded, LoginIssue, Opened, TypeInv, TypeOK
    <3> QED
      BY <3>1, <3>2, <3>3 DEF Grounded
  <2> QED
    BY <1>2, <2>5, <2>6
<1>6. Provenance'
  BY <1>3, <1>5, SentinelsAreFresh
  DEF TypeInv, TypeOK, Provenance, Issued, LoginIssue, IssueToken
<1> QED
  BY <1>4, <1>6 DEF TypeInv

\* The token of a refresh in flight is registered, for some session.
LEMMA PresentedToken ==
  ASSUME TypeInv, NEW w \in Workers, task[w].op = "refresh"
  PROVE  /\ task[w].token \in Tokens /\ Issued(task[w].token)
         /\ sid[task[w].token] \in Sessions
<1>1. task[w].token \in Tokens
  BY TaskShape DEF RefreshTask, TypeInv, TypeOK
<1> QED
  BY <1>1 DEF TypeInv, TypeOK, Provenance, Grounded, Issued

LEMMA RefreshRotateTypeInv ==
  ASSUME TypeInv, NEW w \in Workers, NEW j \in Tokens, RefreshRotate(w, j)
  PROVE  TypeInv'
<1> DEFINE presented == task[w].token
<1>1. presented \in Tokens /\ Issued(presented) /\ sid[presented] \in Sessions
  BY PresentedToken DEF RefreshRotate
<1>2. /\ task' \in [Workers -> Task]
      /\ \A v \in Workers : task'[v] = task[v] \/ task'[v] = Idle
  BY DEF RefreshRotate, Finish, TypeInv, TypeOK, Task
<1>3. /\ ~Issued(j)
      /\ sid' = [sid EXCEPT ![j] = sid[presented]]
      /\ currentRefresh' = [currentRefresh EXCEPT ![sid[presented]] = j]
      /\ blacklisted' = blacklisted \cup {presented}
      /\ redeemed' = redeemed \cup {presented}
      /\ UNCHANGED <<accountVars, owner, revokedReason, expired, bornAt>>
      /\ Opened(sid[presented])
  BY DEF RefreshRotate, IssueToken, Spend, RefreshAllowed, Unrevoked
<1> HIDE DEF presented
<1>4. TypeOK'
  BY <1>1, <1>2, <1>3, SentinelsAreFresh DEF TypeInv, TypeOK, Opened, Issued, accountVars
<1>5. ASSUME NEW v \in Workers
      PROVE  Grounded(task[v])'
  <2>1. task[v].op = "refresh" => task[v].token \in Tokens
    BY TaskShape DEF TypeInv, TypeOK, RefreshTask
  <2> QED
    BY <1>1, <1>2, <1>3, <2>1, SentinelsAreFresh
    DEF TypeInv, TypeOK, Provenance, Grounded, Issued, Opened, Idle
<1>6. Provenance'
  BY <1>1, <1>3, <1>5, SentinelsAreFresh DEF TypeInv, TypeOK, Provenance, Issued, Opened
<1> QED
  BY <1>4, <1>6 DEF TypeInv

\* The steps that end sessions all have the shape of RevocationTypeInv.
LEMMA RevokeTypeInv ==
  ASSUME TypeInv, NEW w \in Workers,
         \/ \E s \in Sessions : RevokeSession(w, s)
         \/ RevokeOtherSessions(w)
         \/ LogoutAllCommit(w)
         \/ \E s \in Sessions, j \in Tokens : Logout(s, j)
  PROVE  TypeInv'
<1> USE DEF accountVars
<1>1. \A s \in Sessions : Opened(s) => currentRefresh[s] \in Tokens
  BY DEF TypeInv, TypeOK
<1>2. ASSUME NEW s \in Sessions, RevokeSession(w, s) PROVE TypeInv'
  <2>1. blacklisted' \subseteq Tokens
    BY <1>1, <1>2 DEF RevokeSession, TypeInv, TypeOK, Unrevoked
  <2> QED
    BY <1>2, <2>1, RevocationTypeInv DEF RevokeSession, TypeInv, TypeOK, Reasons
<1>3. CASE RevokeOtherSessions(w)
  <2> DEFINE others == LiveSessionsOf(owner[task[w].session]) \ {task[w].session}
  <2>1. \A s \in others : s \in Sessions /\ Opened(s)
    <3>1. task[w].op = "request" /\ task[w] \in Task
      BY <1>3 DEF RevokeOtherSessions, TypeInv, TypeOK
    <3>2. Opened(task[w].session)
      BY <3>1 DEF TypeInv, Provenance, Grounded
    <3> QED
      BY <3>2 DEF LiveSessionsOf, Opened
  <2>2. blacklisted' \subseteq Tokens
    BY <1>1, <1>3, <2>1 DEF RevokeOtherSessions, TypeInv, TypeOK
  <2> QED
    BY <1>3, <2>2, RevocationTypeInv DEF RevokeOtherSessions, TypeInv, TypeOK, Reasons
<1>4. CASE LogoutAllCommit(w)
  <2>1. blacklisted' \subseteq Tokens
    BY <1>4 DEF LogoutAllCommit, TokensOf, TypeInv, TypeOK
  <2> QED
    BY <1>4, <2>1, RevocationTypeInv DEF LogoutAllCommit, TypeInv, TypeOK, Reasons
<1>5. ASSUME NEW s \in Sessions, NEW j \in Tokens, Logout(s, j) PROVE TypeInv'
  <2>1. blacklisted' \subseteq Tokens
    BY <1>1, <1>5 DEF Logout, TypeInv, TypeOK, Unrevoked
  <2> QED
    BY <1>5, <2>1, RevocationTypeInv DEF Logout, TypeInv, TypeOK, Reasons
<1> QED
  BY <1>2, <1>3, <1>4, <1>5

LEMMA AccountTypeInv ==
  ASSUME TypeInv,
         \/ \E w \in Workers : ChangePassword(w) \/ DepartCommit(w)
         \/ \E u \in Users : AccountStep(u) \/ AdminStep(u)
  PROVE  TypeInv'
<1>1. ASSUME NEW u, CountEvent(u)
      PROVE  events' \in [Users -> 0..MaxEvents]
  <2>1. events[u] \in 0..MaxEvents => events[u] + 1 \in 0..MaxEvents
    BY <1>1, MaxEventsIsNat DEF CountEvent
  <2> QED
    BY <1>1, <2>1 DEF CountEvent, TypeInv, TypeOK
<1>2. ASSUME NEW u, NEW why \in Reasons, EndAccountSessions(u, why),
             active' \in [Users -> BOOLEAN], events' \in [Users -> 0..MaxEvents],
             UNCHANGED task \/ \E w \in Workers : Finish(w)
      PROVE  TypeInv'
  <2>1. blacklisted' \subseteq Tokens
    BY <1>2 DEF EndAccountSessions, TokensOf, TypeInv, TypeOK
  <2> QED
    BY <1>2, <2>1, RevocationTypeInv DEF EndAccountSessions
<1>3. ASSUME UNCHANGED <<sessionVars, tokenVars, task>>,
             active' \in [Users -> BOOLEAN], events' \in [Users -> 0..MaxEvents]
      PROVE  TypeInv'
  BY <1>3 DEF TypeInv, TypeOK, Provenance, Grounded, Opened, Issued, sessionVars, tokenVars
<1>4. ASSUME NEW w \in Workers, ChangePassword(w) PROVE TypeInv'
  BY <1>1, <1>2, <1>4 DEF ChangePassword, Reasons, TypeInv, TypeOK
<1>5. ASSUME NEW u \in Users, AccountStep(u) PROVE TypeInv'
  <2>1. CASE ConfirmPasswordReset(u)
    BY <1>1, <1>2, <2>1 DEF ConfirmPasswordReset, Reasons, TypeInv, TypeOK
  <2>2. CASE DeactivateAccount(u)
    BY <1>1, <1>2, <2>2 DEF DeactivateAccount, Reasons, TypeInv, TypeOK
  <2>3. CASE ActivateAccount(u)
    BY <1>3, <2>3 DEF ActivateAccount, TypeInv, TypeOK
  <2>4. CASE ChangeAccountRole(u)
    BY <1>1, <1>2, <2>4 DEF ChangeAccountRole, Reasons, TypeInv, TypeOK
  <2>5. CASE RevokeAccountSessions(u)
    BY <1>1, <1>2, <2>5 DEF RevokeAccountSessions, Reasons, TypeInv, TypeOK
  <2> QED
    BY <1>5, <2>1, <2>2, <2>3, <2>4, <2>5 DEF AccountStep
<1>6. ASSUME NEW u \in Users, AdminStep(u) PROVE TypeInv'
  BY <1>1, <1>3, <1>6
  DEF AdminStep, AdminDeactivate, AdminActivate, AdminSetPasswordOrRole, TypeInv, TypeOK
<1>7. ASSUME NEW w \in Workers, DepartCommit(w) PROVE TypeInv'
  <2>1. /\ task[w].listed \subseteq Tokens
        /\ \A s \in task[w].found : s \in Sessions /\ Opened(s)
    BY <1>7, TaskShape, SentinelsAreFresh
    DEF DepartCommit, TypeInv, TypeOK, Provenance, Grounded, Opened
  <2>2. blacklisted' \subseteq Tokens
    BY <1>7, <2>1 DEF DepartCommit, TypeInv, TypeOK
  <2>3. active' \in [Users -> BOOLEAN] /\ events' \in [Users -> 0..MaxEvents]
    BY <1>1, <1>7 DEF DepartCommit, TypeInv, TypeOK
  <2> QED
    BY <1>7, <2>2, <2>3, RevocationTypeInv DEF DepartCommit, Reasons
<1> QED
  BY <1>4, <1>5, <1>6, <1>7

LEMMA ExpireTypeInv ==
  ASSUME TypeInv, NEW s \in Sessions, SessionExpires(s)
  PROVE  TypeInv'
BY DEF SessionExpires, TypeInv, TypeOK, Provenance, Grounded, Opened, Issued,
       accountVars, tokenVars

LEMMA WorkerTypeInv ==
  ASSUME TypeInv, NEW w \in Workers, WorkerStep(w)
  PROVE  TypeInv'
<1>1. ASSUME NEW u \in Users, LoginCheck(w, u) PROVE TypeInv'
  BY <1>1, TaskTypeInv DEF LoginCheck, Begin, Task, LoginTask, Grounded
<1>2. ASSUME NEW s \in Sessions, NEW j \in Tokens, LoginIssue(w, s, j) PROVE TypeInv'
  BY <1>2, LoginIssueTypeInv
<1>3. ASSUME NEW j \in Tokens, RefreshCheck(w, j) PROVE TypeInv'
  BY <1>3, TaskTypeInv DEF RefreshCheck, Begin, Task, RefreshTask, Grounded
<1>4. ASSUME NEW j \in Tokens, RefreshRotate(w, j) PROVE TypeInv'
  BY <1>4, RefreshRotateTypeInv
<1>5. CASE RefreshReject(w) \/ OtherRequest(w)
  BY <1>5, TaskTypeInv DEF RefreshReject, OtherRequest, Finish, Task, Idle, Grounded
<1>6. ASSUME NEW s \in Sessions, Authenticate(w, s) PROVE TypeInv'
  BY <1>6, TaskTypeInv DEF Authenticate, Begin, Task, RequestTask, Unrevoked, Grounded
<1>7. ASSUME NEW u \in Users, LogoutAllSelect(w, u) PROVE TypeInv'
  <2> DEFINE t == [op |-> "logout_all", user |-> u, found |-> LiveSessionsOf(u)]
  <2>1. t \in Task /\ Grounded(t)
    BY DEF LiveSessionsOf, Task, LogoutAllTask, Grounded
  <2> QED
    BY <1>7, <2>1, TaskTypeInv DEF LogoutAllSelect, Begin
<1>8. ASSUME NEW u \in Users, DepartRead(w, u) PROVE TypeInv'
  BY <1>8, TaskTypeInv DEF DepartRead, Begin, Task, DepartTask, Grounded
<1>9. CASE DepartSelect(w)
  <2> DEFINE t == [op |-> "depart_select", user |-> task[w].user,
                   found |-> LiveSessionsOf(task[w].user)]
  <2>1. t \in Task /\ Grounded(t)
    BY <1>9, TaskShape
    DEF DepartSelect, LiveSessionsOf, Task, DepartTask, Grounded, TypeInv, TypeOK
  <2> QED
    BY <1>9, <2>1, TaskTypeInv DEF DepartSelect
<1>10. CASE DepartTokens(w)
  <2> DEFINE t == [op |-> "depart_tokens", user |-> task[w].user, found |-> task[w].found,
                   listed |-> TokensOf(task[w].user)]
  <2>1. t \in Task
    BY <1>10, TaskShape DEF DepartTokens, TokensOf, Task, DepartTask, TypeInv, TypeOK
  <2>2. Grounded(t)
    BY <1>10 DEF DepartTokens, Grounded, TypeInv, Provenance
  <2> QED
    BY <1>10, <2>1, <2>2, TaskTypeInv DEF DepartTokens
<1> QED
  BY <1>1, <1>2, <1>3, <1>4, <1>5, <1>6, <1>7, <1>8, <1>9, <1>10, RevokeTypeInv, AccountTypeInv
  DEF WorkerStep

LEMMA TypeInvStep == TypeInv /\ [Next]_vars => TypeInv'
<1> SUFFICES ASSUME TypeInv, [Next]_vars PROVE TypeInv'
  OBVIOUS
<1>1. CASE \E w \in Workers : WorkerStep(w)
  BY <1>1, WorkerTypeInv
<1>2. CASE \E u \in Users : AccountStep(u) \/ AdminStep(u)
  BY <1>2, AccountTypeInv
<1>3. ASSUME NEW s \in Sessions, NEW j \in Tokens, Logout(s, j) PROVE TypeInv'
  <2>1. blacklisted' \subseteq Tokens
    BY <1>3 DEF Logout, TypeInv, TypeOK, Unrevoked
  <2> QED
    BY <1>3, <2>1, RevocationTypeInv DEF Logout, TypeInv, TypeOK, Reasons, accountVars
<1>4. CASE \E s \in Sessions : SessionExpires(s)
  BY <1>4, ExpireTypeInv
<1>5. CASE UNCHANGED vars
  BY <1>5 DEF vars, accountVars, sessionVars, tokenVars, TypeInv, TypeOK, Provenance,
              Grounded, Opened, Issued
<1> QED
  BY <1>1, <1>2, <1>3, <1>4, <1>5 DEF Next, ApiNext

\* Every reachable state is well typed, and an inserted session always names a
\* refresh token of its own (issue_session_tokens, rotate_session_refresh).
THEOREM TypeCorrect == Spec => []TypeOK
<1>1. Spec => []TypeInv
  BY InitTypeInv, TypeInvStep, PTL DEF Spec
<1>2. TypeInv => TypeOK
  BY DEF TypeInv
<1> QED
  BY <1>1, <1>2, PTL
-----------------------------------------------------------------------------
(***************************************************************************)
(* OnlyCurrentRefreshUsable.  Steps fall into three kinds: those that      *)
(* leave sessions and tokens alone, those that revoke sessions together    *)
(* with their current tokens, and the two that issue a token.              *)
(***************************************************************************)

\* Revoking a set of sessions is safe when their current tokens are listed.
LEMMA RevocationKeepsUsable ==
  ASSUME TypeInv, OnlyCurrentRefreshUsable, NEW ending, NEW why,
         MarkRevoked(ending, why), blacklisted \subseteq blacklisted',
         UNCHANGED <<owner, currentRefresh, sid>>,
         \A s \in Sessions : s \in ending /\ Unrevoked(s) => currentRefresh[s] \in blacklisted'
  PROVE  OnlyCurrentRefreshUsable'
<1> SUFFICES ASSUME NEW j \in Tokens, Issued(j)', j \notin blacklisted'
             PROVE  Unrevoked(sid[j])' /\ (currentRefresh[sid[j]] = j)'
  BY DEF OnlyCurrentRefreshUsable
<1>1. Issued(j) /\ j \notin blacklisted /\ sid[j] \in Sessions
  BY DEF Issued, TypeInv, TypeOK
<1>2. Unrevoked(sid[j]) /\ currentRefresh[sid[j]] = j
  BY <1>1 DEF OnlyCurrentRefreshUsable
<1>3. sid[j] \notin ending
  BY <1>1, <1>2
<1> QED
  BY <1>1, <1>2, <1>3 DEF MarkRevoked, Unrevoked, Opened

LEMMA EndAccountKeepsUsable ==
  ASSUME TypeInv, OnlyCurrentRefreshUsable, NEW u, u # NoUser, NEW why,
         EndAccountSessions(u, why)
  PROVE  OnlyCurrentRefreshUsable'
<1>1. \A s \in LiveSessionsOf(u) : currentRefresh[s] \in TokensOf(u)
  BY SentinelsAreFresh
  DEF LiveSessionsOf, TokensOf, TypeInv, TypeOK, Opened, Issued
<1>2. MarkRevoked(LiveSessionsOf(u), why)
  BY DEF EndAccountSessions
<1>3. blacklisted \subseteq blacklisted' /\ UNCHANGED <<owner, currentRefresh, sid>>
  BY DEF EndAccountSessions
<1>4. \A s \in Sessions : s \in LiveSessionsOf(u) /\ Unrevoked(s)
         => currentRefresh[s] \in blacklisted'
  BY <1>1 DEF EndAccountSessions
<1> QED
  BY <1>2, <1>3, <1>4, RevocationKeepsUsable

LEMMA IssueKeepsUsable ==
  ASSUME TypeInv, OnlyCurrentRefreshUsable, NEW w \in Workers, NEW s \in Sessions,
         NEW j \in Tokens, LoginIssue(w, s, j)
  PROVE  OnlyCurrentRefreshUsable'
<1>1. task[w].user \in Users
  BY TaskShape DEF LoginIssue, TypeInv, TypeOK, LoginTask
<1>2. /\ ~Opened(s) /\ ~Issued(j) /\ revokedReason[s] = "none"
      /\ owner' = [owner EXCEPT ![s] = task[w].user]
      /\ sid' = [sid EXCEPT ![j] = s]
      /\ currentRefresh' = [currentRefresh EXCEPT ![s] = j]
      /\ UNCHANGED <<revokedReason, blacklisted>>
  BY DEF LoginIssue, IssueToken, TypeInv, Provenance
<1> SUFFICES ASSUME NEW k \in Tokens, Issued(k)', k \notin blacklisted'
             PROVE  Unrevoked(sid[k])' /\ (currentRefresh[sid[k]] = k)'
  BY DEF OnlyCurrentRefreshUsable
<1>3. CASE k = j
  BY <1>1, <1>2, <1>3, SentinelsAreFresh DEF TypeInv, TypeOK, Unrevoked, Opened
<1>4. CASE k # j
  <2>1. Issued(k) /\ sid'[k] = sid[k] /\ sid[k] \in Sessions
    BY <1>2, <1>4 DEF Issued, TypeInv, TypeOK
  <2>2. Unrevoked(sid[k]) /\ currentRefresh[sid[k]] = k /\ sid[k] # s
    BY <1>2, <2>1 DEF OnlyCurrentRefreshUsable, Unrevoked
  <2> QED
    BY <1>2, <2>1, <2>2 DEF TypeInv, TypeOK, Unrevoked, Opened
<1> QED
  BY <1>3, <1>4

LEMMA RotateKeepsUsable ==
  ASSUME TypeInv, OnlyCurrentRefreshUsable, NEW w \in Workers, NEW j \in Tokens,
         RefreshRotate(w, j)
  PROVE  OnlyCurrentRefreshUsable'
<1> DEFINE presented == task[w].token
           s == sid[presented]
<1>1. presented \in Tokens /\ s \in Sessions
  BY PresentedToken DEF RefreshRotate
<1>2. /\ ~Issued(j) /\ Unrevoked(s) /\ currentRefresh[s] = presented
      /\ sid' = [sid EXCEPT ![j] = s]
      /\ currentRefresh' = [currentRefresh EXCEPT ![s] = j]
      /\ blacklisted' = blacklisted \cup {presented}
      /\ UNCHANGED <<owner, revokedReason>>
  BY DEF RefreshRotate, RefreshAllowed, Spend, IssueToken
<1> HIDE DEF presented, s
<1> SUFFICES ASSUME NEW k \in Tokens, Issued(k)', k \notin blacklisted'
             PROVE  Unrevoked(sid[k])' /\ (currentRefresh[sid[k]] = k)'
  BY DEF OnlyCurrentRefreshUsable
<1>3. CASE k = j
  BY <1>1, <1>2, <1>3 DEF TypeInv, TypeOK, Unrevoked, Opened
<1>4. CASE k # j
  <2>1. Issued(k) /\ k \notin blacklisted /\ k # presented /\ sid'[k] = sid[k]
    BY <1>2, <1>4 DEF Issued, TypeInv, TypeOK
  <2>2. Unrevoked(sid[k]) /\ currentRefresh[sid[k]] = k /\ sid[k] # s
    BY <1>2, <2>1 DEF OnlyCurrentRefreshUsable
  <2> QED
    BY <1>2, <2>1, <2>2 DEF Unrevoked, Opened
<1> QED
  BY <1>3, <1>4

LEMMA WorkerKeepsUsable ==
  ASSUME TypeInv, OnlyCurrentRefreshUsable, NEW w \in Workers, WorkerStep(w)
  PROVE  OnlyCurrentRefreshUsable'
<1>0. ASSUME UNCHANGED <<accountVars, sessionVars, tokenVars>> PROVE OnlyCurrentRefreshUsable'
  BY <1>0 DEF OnlyCurrentRefreshUsable, Issued, Unrevoked, Opened, accountVars, sessionVars, tokenVars
<1>1. CASE \/ \E u \in Users : LoginCheck(w, u) \/ LogoutAllSelect(w, u)
           \/ \E j \in Tokens : RefreshCheck(w, j)
           \/ RefreshReject(w) \/ OtherRequest(w)
           \/ \E s \in Sessions : Authenticate(w, s)
           \/ \E u \in Users : DepartRead(w, u)
           \/ DepartSelect(w) \/ DepartTokens(w)
  BY <1>0, <1>1
  DEF LoginCheck, LogoutAllSelect, RefreshCheck, RefreshReject, OtherRequest, Authenticate,
      DepartRead, DepartSelect, DepartTokens
<1>2. ASSUME NEW s \in Sessions, RevokeSession(w, s) PROVE OnlyCurrentRefreshUsable'
  <2>1. \A t \in Sessions : t \in {s} /\ Unrevoked(t) => currentRefresh[t] \in blacklisted'
    BY <1>2 DEF RevokeSession
  <2> QED
    BY <1>2, <2>1, RevocationKeepsUsable DEF RevokeSession
<1>3. CASE RevokeOtherSessions(w)
  <2> DEFINE others == LiveSessionsOf(owner[task[w].session]) \ {task[w].session}
  <2>1. MarkRevoked(others, "other_sessions_revoked")
    BY <1>3 DEF RevokeOtherSessions
  <2>2. \A t \in Sessions : t \in others /\ Unrevoked(t) => currentRefresh[t] \in blacklisted'
    BY <1>3 DEF RevokeOtherSessions
  <2>3. blacklisted \subseteq blacklisted' /\ UNCHANGED <<owner, currentRefresh, sid>>
    BY <1>3 DEF RevokeOtherSessions
  <2> HIDE DEF others
  <2> QED
    BY <2>1, <2>2, <2>3, RevocationKeepsUsable
<1>4. CASE LogoutAllCommit(w)
  \* Sessions found by the first statement are the user's, so the second
  \* statement lists their tokens.
  <2>1. \A t \in task[w].found : owner[t] = task[w].user
    BY <1>4 DEF LogoutAllCommit, TypeInv, Provenance, Grounded
  <2>2. \A t \in Sessions : t \in task[w].found /\ Unrevoked(t)
           => currentRefresh[t] \in TokensOf(task[w].user)
    BY <2>1, SentinelsAreFresh DEF TokensOf, TypeInv, TypeOK, Unrevoked, Opened, Issued
  <2>3. \A t \in Sessions : t \in task[w].found /\ Unrevoked(t)
           => currentRefresh[t] \in blacklisted'
    BY <1>4, <2>2 DEF LogoutAllCommit
  <2>4. /\ MarkRevoked(task[w].found, "logout_all")
        /\ blacklisted \subseteq blacklisted' /\ UNCHANGED <<owner, currentRefresh, sid>>
    BY <1>4 DEF LogoutAllCommit
  <2> QED
    BY <2>3, <2>4, RevocationKeepsUsable
<1>5. CASE ChangePassword(w)
  <2>1. task[w].op = "request" /\ task[w] \in Task
    BY <1>5 DEF ChangePassword, TypeInv, TypeOK
  <2>2. Opened(task[w].session)
    BY <2>1 DEF TypeInv, Provenance, Grounded
  <2> QED
    BY <1>5, <2>2, EndAccountKeepsUsable DEF ChangePassword, Opened
<1>6. CASE DepartCommit(w)
  <2>1. \A s \in Sessions : s \in task[w].found /\ Unrevoked(s) => currentRefresh[s] \in blacklisted'
    BY <1>6 DEF DepartCommit
  <2>2. /\ MarkRevoked(task[w].found, "employee_departed")
        /\ blacklisted \subseteq blacklisted' /\ UNCHANGED <<owner, currentRefresh, sid>>
    BY <1>6 DEF DepartCommit
  <2> QED
    BY <2>1, <2>2, RevocationKeepsUsable
<1> QED
  BY <1>1, <1>2, <1>3, <1>4, <1>5, <1>6, IssueKeepsUsable, RotateKeepsUsable DEF WorkerStep

LEMMA UsableStep == TypeInv /\ OnlyCurrentRefreshUsable /\ [Next]_vars => OnlyCurrentRefreshUsable'
<1> SUFFICES ASSUME TypeInv, OnlyCurrentRefreshUsable, [Next]_vars
             PROVE  OnlyCurrentRefreshUsable'
  OBVIOUS
<1>1. ASSUME UNCHANGED <<owner, revokedReason, currentRefresh, sid, blacklisted>>
      PROVE  OnlyCurrentRefreshUsable'
  BY <1>1 DEF OnlyCurrentRefreshUsable, Issued, Unrevoked, Opened
<1>2. CASE \E w \in Workers : WorkerStep(w)
  BY <1>2, WorkerKeepsUsable
<1>3. ASSUME NEW u \in Users, AccountStep(u) PROVE OnlyCurrentRefreshUsable'
  <2>1. CASE ActivateAccount(u)
    BY <1>1, <2>1 DEF ActivateAccount, sessionVars, tokenVars
  <2> QED
    BY <1>3, <2>1, EndAccountKeepsUsable, SentinelsAreFresh
    DEF AccountStep, ConfirmPasswordReset, DeactivateAccount, ChangeAccountRole,
        RevokeAccountSessions
<1>4. ASSUME NEW s \in Sessions, NEW j \in Tokens, Logout(s, j)
      PROVE  OnlyCurrentRefreshUsable'
  <2>1. /\ MarkRevoked({s}, "logout")
        /\ \A t \in Sessions : t \in {s} /\ Unrevoked(t) => currentRefresh[t] \in blacklisted'
        /\ blacklisted \subseteq blacklisted' /\ UNCHANGED <<owner, currentRefresh, sid>>
    BY <1>4 DEF Logout
  <2> QED
    BY <2>1, RevocationKeepsUsable
<1>5. ASSUME NEW s \in Sessions, SessionExpires(s) PROVE OnlyCurrentRefreshUsable'
  BY <1>1, <1>5 DEF SessionExpires, tokenVars
<1>6. ASSUME NEW u \in Users, AdminStep(u) PROVE OnlyCurrentRefreshUsable'
  BY <1>1, <1>6
  DEF AdminStep, AdminDeactivate, AdminActivate, AdminSetPasswordOrRole, sessionVars, tokenVars
<1>7. CASE UNCHANGED vars
  BY <1>1, <1>7 DEF vars, sessionVars, tokenVars
<1> QED
  BY <1>2, <1>3, <1>4, <1>5, <1>6, <1>7 DEF Next, ApiNext

\* In every reachable state, Django Admin edits included, the only refresh token
\* of a session outside the blacklist is the one its unrevoked row names.
THEOREM RefreshAuthority == Spec => []OnlyCurrentRefreshUsable
<1>1. Init => OnlyCurrentRefreshUsable
  BY DEF Init, OnlyCurrentRefreshUsable, Issued
<1> QED
  BY <1>1, InitTypeInv, TypeInvStep, UsableStep, PTL DEF Spec
-----------------------------------------------------------------------------
(***************************************************************************)
(* Refinement of RefreshChain and finality of revocation.                  *)
(***************************************************************************)

\* What every step does to the sessions, seen as RefreshChain sees it.
LEMMA RevocationCloses ==
  ASSUME TypeInv, NEW ending, NEW why \in Reasons, MarkRevoked(ending, why),
         UNCHANGED <<owner, currentRefresh, redeemed>>
  PROVE  /\ \E closing \in SUBSET Sessions : Chain!Close(closing)
         /\ \A s \in Sessions : Opened(s) /\ ~Unrevoked(s) => revokedReason'[s] = revokedReason[s]
<1> DEFINE closing == {s \in Sessions : s \in ending /\ Unrevoked(s)}
<1>1. \A s \in closing : phaseOf[s] = "open"
  BY DEF phaseOf, Unrevoked
<1>2. phaseOf' = [s \in Sessions |-> IF s \in closing THEN "closed" ELSE phaseOf[s]]
  BY DEF phaseOf, MarkRevoked, Unrevoked, Opened, Reasons, TypeInv, TypeOK
<1>3. Chain!Close(closing)
  BY <1>1, <1>2 DEF Chain!Close
<1>4. closing \in SUBSET Sessions
  OBVIOUS
<1> QED
  BY <1>3, <1>4 DEF MarkRevoked

LEMMA LoginOpens ==
  ASSUME TypeInv, NEW w \in Workers, NEW s \in Sessions, NEW j \in Tokens,
         LoginIssue(w, s, j)
  PROVE  Chain!Open(s)
<1>1. task[w].user \in Users
  BY TaskShape DEF LoginIssue, TypeInv, TypeOK, LoginTask
<1>2. /\ ~Opened(s) /\ ~Issued(j) /\ revokedReason[s] = "none"
      /\ owner' = [owner EXCEPT ![s] = task[w].user]
      /\ currentRefresh' = [currentRefresh EXCEPT ![s] = j]
      /\ UNCHANGED <<revokedReason, redeemed>>
  BY DEF LoginIssue, IssueToken, TypeInv, Provenance
<1>3. phaseOf[s] = "unopened" /\ phaseOf' = [phaseOf EXCEPT ![s] = "open"]
  <2>1. Opened(s)' /\ Unrevoked(s)'
    BY <1>1, <1>2, SentinelsAreFresh DEF Unrevoked, Opened, TypeInv, TypeOK
  <2>2. \A t \in Sessions \ {s} :
          (Opened(t)' <=> Opened(t)) /\ (Unrevoked(t)' <=> Unrevoked(t))
    BY <1>2 DEF Unrevoked, Opened, TypeInv, TypeOK
  <2> QED
    BY <1>2, <2>1, <2>2 DEF phaseOf
<1>4. j \in Chain!Unheld
  BY <1>2, SentinelsAreFresh DEF Chain!Unheld, TypeInv, TypeOK, Provenance, Issued, Opened
<1> QED
  BY <1>2, <1>3, <1>4 DEF Chain!Open

LEMMA RotationHandsOn ==
  ASSUME TypeInv, NEW w \in Workers, NEW j \in Tokens, RefreshRotate(w, j)
  PROVE  Chain!HandOn(sid[task[w].token]) /\ UNCHANGED revokedReason
<1> DEFINE presented == task[w].token
           s == sid[presented]
<1>1. presented \in Tokens /\ s \in Sessions
  BY PresentedToken DEF RefreshRotate
<1>2. /\ ~Issued(j) /\ Unrevoked(s) /\ currentRefresh[s] = presented
      /\ currentRefresh' = [currentRefresh EXCEPT ![s] = j]
      /\ redeemed' = redeemed \cup {presented}
      /\ UNCHANGED <<owner, revokedReason>>
  BY DEF RefreshRotate, RefreshAllowed, Spend, IssueToken
<1> HIDE DEF presented, s
<1>3. phaseOf[s] = "open" /\ phaseOf' = phaseOf
  BY <1>1, <1>2 DEF phaseOf, Unrevoked, Opened
<1>4. j \in Chain!Unheld
  BY <1>2, SentinelsAreFresh DEF Chain!Unheld, TypeInv, TypeOK, Provenance, Issued, Opened
<1>5. Chain!HandOn(s)
  BY <1>2, <1>3, <1>4 DEF Chain!HandOn
<1> QED
  BY <1>2, <1>5 DEF s, presented

LEMMA ChainStep ==
  TypeInv /\ [Next]_vars =>
    /\ [Chain!ChainNext]_Chain!chainVars
    /\ \A s \in Sessions : Opened(s) /\ ~Unrevoked(s) => revokedReason'[s] = revokedReason[s]
<1> DEFINE Final == \A s \in Sessions :
              Opened(s) /\ ~Unrevoked(s) => revokedReason'[s] = revokedReason[s]
           Goal == [Chain!ChainNext]_Chain!chainVars /\ Final
<1> SUFFICES ASSUME TypeInv, [Next]_vars PROVE Goal
  OBVIOUS
<1>1. ASSUME UNCHANGED <<owner, revokedReason, currentRefresh, redeemed>> PROVE Goal
  <2>1. phaseOf' = phaseOf
    BY <1>1 DEF phaseOf, Unrevoked, Opened
  <2> QED
    BY <1>1, <2>1 DEF Chain!chainVars
<1>2. ASSUME NEW ending, NEW why \in Reasons, MarkRevoked(ending, why),
             UNCHANGED <<owner, currentRefresh, redeemed>>
      PROVE  Goal
  BY <1>2, RevocationCloses DEF Chain!ChainNext
<1>3. ASSUME NEW w \in Workers, NEW s \in Sessions, NEW j \in Tokens, LoginIssue(w, s, j)
      PROVE  Goal
  BY <1>3, LoginOpens DEF Chain!ChainNext, LoginIssue
<1>4. ASSUME NEW w \in Workers, NEW j \in Tokens, RefreshRotate(w, j) PROVE Goal
  <2>1. sid[task[w].token] \in Sessions
    BY <1>4, PresentedToken DEF RefreshRotate
  <2> QED
    BY <1>4, <2>1, RotationHandsOn DEF Chain!ChainNext
<1>5. ASSUME NEW u, NEW why \in Reasons, EndAccountSessions(u, why) PROVE Goal
  BY <1>2, <1>5 DEF EndAccountSessions
<1>6. ASSUME NEW w \in Workers, WorkerStep(w) PROVE Goal
  <2>1. CASE \/ \E u \in Users : LoginCheck(w, u) \/ LogoutAllSelect(w, u)
             \/ \E j \in Tokens : RefreshCheck(w, j)
             \/ RefreshReject(w) \/ OtherRequest(w)
             \/ \E s \in Sessions : Authenticate(w, s)
             \/ \E u \in Users : DepartRead(w, u)
             \/ DepartSelect(w) \/ DepartTokens(w)
    BY <1>1, <2>1
    DEF LoginCheck, LogoutAllSelect, RefreshCheck, RefreshReject, OtherRequest, Authenticate,
        DepartRead, DepartSelect, DepartTokens, sessionVars, tokenVars
  <2>2. CASE \E s \in Sessions : RevokeSession(w, s)
    BY <1>2, <2>2 DEF RevokeSession, Reasons
  <2>3. CASE RevokeOtherSessions(w)
    BY <1>2, <2>3 DEF RevokeOtherSessions, Reasons
  <2>4. CASE LogoutAllCommit(w)
    BY <1>2, <2>4 DEF LogoutAllCommit, Reasons
  <2>5. CASE ChangePassword(w)
    BY <1>5, <2>5 DEF ChangePassword, Reasons
  <2>6. CASE DepartCommit(w)
    BY <1>2, <2>6 DEF DepartCommit, Reasons
  <2> QED
    BY <1>3, <1>4, <1>6, <2>1, <2>2, <2>3, <2>4, <2>5, <2>6 DEF WorkerStep
<1>7. ASSUME NEW u \in Users, AccountStep(u) PROVE Goal
  <2>1. CASE ActivateAccount(u)
    BY <1>1, <2>1 DEF ActivateAccount, sessionVars, tokenVars
  <2> QED
    BY <1>5, <1>7, <2>1
    DEF AccountStep, ConfirmPasswordReset, DeactivateAccount, ChangeAccountRole,
        RevokeAccountSessions, Reasons
<1>8. ASSUME NEW s \in Sessions, NEW j \in Tokens, Logout(s, j) PROVE Goal
  BY <1>2, <1>8 DEF Logout, Reasons
<1>9. ASSUME NEW u \in Users, AdminStep(u) PROVE Goal
  BY <1>1, <1>9
  DEF AdminStep, AdminDeactivate, AdminActivate, AdminSetPasswordOrRole, sessionVars, tokenVars
<1>10. ASSUME NEW s \in Sessions, SessionExpires(s) PROVE Goal
  BY <1>1, <1>10 DEF SessionExpires, tokenVars
<1>11. CASE UNCHANGED vars
  BY <1>1, <1>11 DEF vars, sessionVars, tokenVars
<1> QED
  BY <1>6, <1>7, <1>8, <1>9, <1>10, <1>11 DEF Next, ApiNext

\* SessionAuthority implements RefreshChain: no refresh token is redeemed twice,
\* and a revoked session hands out no further token.
THEOREM RefinesRefreshChain == Spec => ImplementsRefreshChain
<1>1. Init => Chain!ChainInit
  BY DEF Init, Chain!ChainInit, phaseOf, Opened
<1>2. TypeInv /\ [Next]_vars => [Chain!ChainNext]_Chain!chainVars
  BY ChainStep
<1> QED
  BY <1>1, <1>2, InitTypeInv, TypeInvStep, PTL DEF Spec, ImplementsRefreshChain, Chain!ChainSpec

\* A revoked session is never reopened and keeps its first reason.
THEOREM RevocationFinal == Spec => RevocationIsFinal
<1>1. TypeInv /\ [Next]_vars =>
        [\A s \in Sessions : Opened(s) /\ ~Unrevoked(s) => revokedReason'[s] = revokedReason[s]]_vars
  BY ChainStep
<1> QED
  BY <1>1, InitTypeInv, TypeInvStep, PTL DEF Spec, RevocationIsFinal
-----------------------------------------------------------------------------
(***************************************************************************)
(* What holds as long as accounts are managed through the business API.    *)
(***************************************************************************)

\* A refresh in flight whose session is still live belongs to an active user,
\* or its session has passed a departure: every other step that deactivates
\* the account ends the session.
RefreshersActive ==
  \A w \in Workers : task[w].op = "refresh" /\ Unrevoked(sid[task[w].token])
                       => \/ active[owner[sid[task[w].token]]]
                          \/ PassedDeparture(sid[task[w].token])

\* The live sessions a departure has not found were inserted during it.
DeparturesCover ==
  \A w \in Workers : task[w].op \in {"depart_select", "depart_tokens"} =>
     \A s \in Sessions : owner[s] = task[w].user /\ Unrevoked(s) =>
        \/ s \in task[w].found
        \/ bornAt[s].departing /\ bornAt[s].events = events[owner[s]]

\* The lock of the employee admits one departure of an account at a time.
DeparturesAlone ==
  \A v, w \in Workers :
     task[v] \in DepartTask /\ task[w] \in DepartTask /\ task[v].user = task[w].user => v = w

ApiInv ==
  LiveSessionsPostdateEvents /\ RefreshersActive /\ DeparturesCover /\ DeparturesAlone

LEMMA DepartOps ==
  ASSUME TypeInv, NEW w \in Workers
  PROVE  task[w] \in DepartTask
           <=> task[w].op \in {"depart_read", "depart_select", "depart_tokens"}
BY TaskShape DEF TypeInv, TypeOK

LEMMA IdleIsNoDeparture == Idle \notin DepartTask
BY DEF Idle, DepartTask

\* A step that ends all sessions of u may count an event of u and switch it off.
LEMMA EndAccountKeepsApiInv ==
  ASSUME TypeInv, ApiInv, NEW u \in Users, NEW why \in Reasons, EndAccountSessions(u, why),
         \A v \in Users \ {u} : events'[v] = events[v] /\ active'[v] = active[v],
         \A w \in Workers : task'[w] = task[w] \/ task'[w] = Idle
  PROVE  ApiInv'
<1>1. \A s \in Sessions : Unrevoked(s)' => Unrevoked(s) /\ owner[s] \in Users \ {u}
  BY DEF EndAccountSessions, MarkRevoked, LiveSessionsOf, Unrevoked, Opened, Reasons,
         TypeInv, TypeOK
<1>2. UNCHANGED <<sid, owner, bornAt>>
  BY DEF EndAccountSessions
<1>3. LiveSessionsPostdateEvents'
  BY <1>1, <1>2 DEF ApiInv, LiveSessionsPostdateEvents, PassedDeparture
<1>4. RefreshersActive'
  <2> SUFFICES ASSUME NEW w \in Workers, (task[w].op = "refresh")',
                      Unrevoked(sid[task[w].token])'
               PROVE  (\/ active[owner[sid[task[w].token]]]
                       \/ PassedDeparture(sid[task[w].token]))'
    BY DEF RefreshersActive
  <2>1. task'[w] = task[w] /\ task[w].op = "refresh"
    BY DEF Idle
  <2>2. sid[task[w].token] \in Sessions
    BY <2>1, PresentedToken
  <2> QED
    BY <1>1, <1>2, <2>1, <2>2 DEF ApiInv, RefreshersActive, PassedDeparture
<1>5. DeparturesCover'
  <2> SUFFICES ASSUME NEW w \in Workers,
                      (task[w].op \in {"depart_select", "depart_tokens"})',
                      NEW s \in Sessions, (owner[s] = task[w].user)', Unrevoked(s)'
               PROVE  (\/ s \in task[w].found
                       \/ bornAt[s].departing /\ bornAt[s].events = events[owner[s]])'
    BY DEF DeparturesCover
  <2>1. task'[w] = task[w]
    BY DEF Idle
  <2> QED
    BY <1>1, <1>2, <2>1 DEF ApiInv, DeparturesCover
<1>6. DeparturesAlone'
  BY IdleIsNoDeparture DEF ApiInv, DeparturesAlone
<1> QED
  BY <1>3, <1>4, <1>5, <1>6 DEF ApiInv

\* Steps that revoke or leave sessions alone, and touch no account.
LEMMA QuietKeepsApiInv ==
  ASSUME TypeInv, ApiInv, UNCHANGED <<owner, bornAt, sid>>, UNCHANGED events,
         \A s \in Sessions : Unrevoked(s)' => Unrevoked(s),
         \A u \in Users : active[u] => active'[u],
         \A w \in Workers : \/ task'[w] = task[w]
                            \/ /\ task'[w] \in Task \ DepartTask
                               /\ task'[w].op # "refresh"
  PROVE  ApiInv'
<1>1. LiveSessionsPostdateEvents'
  BY DEF ApiInv, LiveSessionsPostdateEvents, PassedDeparture
<1>2. RefreshersActive'
  <2> SUFFICES ASSUME NEW w \in Workers, (task[w].op = "refresh")',
                      Unrevoked(sid[task[w].token])'
               PROVE  (\/ active[owner[sid[task[w].token]]]
                       \/ PassedDeparture(sid[task[w].token]))'
    BY DEF RefreshersActive
  <2>1. task'[w] = task[w] /\ task[w].op = "refresh"
    OBVIOUS
  <2>2. sid[task[w].token] \in Sessions
    BY <2>1, PresentedToken
  <2>3. Unrevoked(sid[task[w].token]) /\ owner[sid[task[w].token]] \in Users
    BY <2>1, <2>2 DEF Unrevoked, Opened, TypeInv, TypeOK
  <2> QED
    BY <2>1, <2>3 DEF ApiInv, RefreshersActive, PassedDeparture
<1>3. DeparturesCover'
  <2> SUFFICES ASSUME NEW w \in Workers,
                      (task[w].op \in {"depart_select", "depart_tokens"})',
                      NEW s \in Sessions, (owner[s] = task[w].user)', Unrevoked(s)'
               PROVE  (\/ s \in task[w].found
                       \/ bornAt[s].departing /\ bornAt[s].events = events[owner[s]])'
    BY DEF DeparturesCover
  <2>1. task'[w] = task[w]
    BY TaskShape
  <2> QED
    BY <2>1 DEF ApiInv, DeparturesCover
<1>4. DeparturesAlone'
  BY DEF ApiInv, DeparturesAlone
<1> QED
  BY <1>1, <1>2, <1>3, <1>4 DEF ApiInv

LEMMA TaskMoves ==
  ASSUME TypeInv, NEW w \in Workers, NEW t, task' = [task EXCEPT ![w] = t]
  PROVE  /\ task'[w] = t
         /\ \A v \in Workers \ {w} : task'[v] = task[v]
         /\ \A v \in Workers : task'[v] = task[v] \/ task'[v] = t
BY DEF TypeInv, TypeOK

LEMMA IssueKeepsApiInv ==
  ASSUME TypeInv, ApiInv, NEW w \in Workers, NEW s \in Sessions, NEW j \in Tokens,
         LoginIssue(w, s, j)
  PROVE  ApiInv'
<1>1. task[w].user \in Users
  BY TaskShape DEF LoginIssue, TypeInv, TypeOK, LoginTask
<1>2. /\ ~Opened(s) /\ ~Issued(j)
      /\ owner' = [owner EXCEPT ![s] = task[w].user]
      /\ bornAt' = [bornAt EXCEPT ![s] = [events |-> events[task[w].user],
                                         departing |-> ~UserFree(task[w].user)]]
      /\ sid' = [sid EXCEPT ![j] = s]
      /\ UNCHANGED <<accountVars, revokedReason>>
      /\ \A v \in Workers : task'[v] = task[v] \/ task'[v] = Idle
  BY TaskMoves DEF LoginIssue, IssueToken, Finish
<1>3. /\ owner'[s] = task[w].user /\ bornAt'[s].events = events[owner'[s]]
      /\ bornAt'[s].departing = ~UserFree(owner'[s])
      /\ \A t \in Sessions \ {s} : owner'[t] = owner[t] /\ bornAt'[t] = bornAt[t]
  BY <1>2 DEF TypeInv, TypeOK
<1>4. \A t \in Sessions \ {s} : /\ Unrevoked(t)' <=> Unrevoked(t)
                                /\ PassedDeparture(t)' <=> PassedDeparture(t)
  BY <1>2, <1>3 DEF Unrevoked, Opened, PassedDeparture, accountVars
<1> HIDE DEF UserFree
<1>5. LiveSessionsPostdateEvents'
  BY <1>2, <1>3, <1>4 DEF ApiInv, LiveSessionsPostdateEvents, accountVars
<1>6. RefreshersActive'
  <2> SUFFICES ASSUME NEW v \in Workers, (task[v].op = "refresh")',
                      Unrevoked(sid[task[v].token])'
               PROVE  (\/ active[owner[sid[task[v].token]]]
                       \/ PassedDeparture(sid[task[v].token]))'
    BY DEF RefreshersActive
  <2>1. task'[v] = task[v] /\ task[v].op = "refresh"
    BY <1>2 DEF Idle
  <2>2. /\ task[v].token \in Tokens /\ Issued(task[v].token)
        /\ sid[task[v].token] \in Sessions /\ Opened(sid[task[v].token])
    BY <2>1, PresentedToken DEF TypeInv, Provenance
  <2>3. /\ sid'[task[v].token] = sid[task[v].token]
        /\ sid[task[v].token] \in Sessions \ {s}
    BY <1>2, <2>2 DEF TypeInv, TypeOK
  <2>4. /\ owner'[sid[task[v].token]] = owner[sid[task[v].token]]
        /\ bornAt'[sid[task[v].token]] = bornAt[sid[task[v].token]]
    BY <1>3, <2>3
  <2>5. Unrevoked(sid[task[v].token])
    BY <1>2, <2>1, <2>3, <2>4 DEF Unrevoked, Opened
  <2>6. active[owner[sid[task[v].token]]] \/ PassedDeparture(sid[task[v].token])
    BY <2>1, <2>5 DEF ApiInv, RefreshersActive
  <2> QED
    BY <1>2, <2>1, <2>3, <2>4, <2>6 DEF PassedDeparture, accountVars
<1>7. DeparturesCover'
  <2> SUFFICES ASSUME NEW v \in Workers,
                      (task[v].op \in {"depart_select", "depart_tokens"})',
                      NEW t \in Sessions, (owner[t] = task[v].user)', Unrevoked(t)'
               PROVE  (\/ t \in task[v].found
                       \/ bornAt[t].departing /\ bornAt[t].events = events[owner[t]])'
    BY DEF DeparturesCover
  <2>1. task'[v] = task[v]
    BY <1>2 DEF Idle
  <2>2. CASE t = s
    <3>1. ~UserFree(owner'[s])
      BY <2>1, <2>2 DEF UserFree, DeparturesOf
    <3> QED
      BY <1>2, <1>3, <2>2, <3>1 DEF accountVars
  <2>3. CASE t # s
    BY <1>2, <1>3, <1>4, <2>1, <2>3 DEF ApiInv, DeparturesCover, accountVars
  <2> QED
    BY <2>2, <2>3
<1>8. DeparturesAlone'
  BY <1>2, IdleIsNoDeparture DEF ApiInv, DeparturesAlone
<1> QED
  BY <1>5, <1>6, <1>7, <1>8 DEF ApiInv

LEMMA RefreshKeepsApiInv ==
  ASSUME TypeInv, ApiInv, NEW w \in Workers, NEW j \in Tokens,
         RefreshCheck(w, j) \/ RefreshRotate(w, j)
  PROVE  ApiInv'
<1> DEFINE checked == [op |-> "refresh", token |-> j]
<1>1. /\ UNCHANGED <<accountVars, owner, revokedReason, bornAt>>
      /\ \A v \in Workers : task'[v] \in {task[v], Idle, checked}
  BY TaskMoves DEF RefreshCheck, RefreshRotate, Begin, Finish, sessionVars
<1>2. checked.op = "refresh" /\ checked \notin DepartTask /\ Idle.op = "idle"
  BY DEF DepartTask, Idle
<1> HIDE DEF checked
<1>3. LiveSessionsPostdateEvents' /\ DeparturesAlone'
  BY <1>1, <1>2, IdleIsNoDeparture
  DEF ApiInv, LiveSessionsPostdateEvents, DeparturesAlone, PassedDeparture, Unrevoked, Opened,
      accountVars
<1>4. DeparturesCover'
  BY <1>1, <1>2 DEF ApiInv, DeparturesCover, Unrevoked, Opened, accountVars
<1>5. CASE RefreshCheck(w, j)
  <2>1. /\ active[owner[sid[j]]]
        /\ UNCHANGED <<accountVars, sessionVars, tokenVars>>
        /\ \A v \in Workers : task'[v] = task[v] \/ task'[v] = [op |-> "refresh", token |-> j]
    BY <1>5, TaskMoves DEF RefreshCheck, Begin
  <2>2. RefreshersActive'
    BY <2>1 DEF ApiInv, RefreshersActive, PassedDeparture, Unrevoked, Opened,
                accountVars, sessionVars, tokenVars
  <2> QED
    BY <1>3, <1>4, <2>2 DEF ApiInv
<1>6. CASE RefreshRotate(w, j)
  <2>1. /\ ~Issued(j) /\ sid' = [sid EXCEPT ![j] = sid[task[w].token]]
        /\ \A v \in Workers : task'[v] = task[v] \/ task'[v] = Idle
    BY <1>6, TaskMoves DEF RefreshRotate, IssueToken, Finish
  <2>2. RefreshersActive'
    <3> SUFFICES ASSUME NEW v \in Workers, (task[v].op = "refresh")',
                        Unrevoked(sid[task[v].token])'
                 PROVE  (\/ active[owner[sid[task[v].token]]]
                         \/ PassedDeparture(sid[task[v].token]))'
      BY DEF RefreshersActive
    <3>1. task'[v] = task[v] /\ task[v].op = "refresh"
      BY <2>1 DEF Idle
    <3>2. task[v].token \in Tokens /\ Issued(task[v].token)
      BY <3>1, PresentedToken
    <3>3. sid'[task[v].token] = sid[task[v].token]
      BY <2>1, <3>2 DEF TypeInv, TypeOK
    <3> QED
      BY <1>1, <3>1, <3>3
      DEF ApiInv, RefreshersActive, PassedDeparture, Unrevoked, Opened, accountVars
  <2> QED
    BY <1>3, <1>4, <2>2 DEF ApiInv
<1> QED
  BY <1>5, <1>6

LEMMA RevokedStays ==
  ASSUME NEW ending, NEW why \in Reasons, MarkRevoked(ending, why), UNCHANGED owner
  PROVE  \A s \in Sessions : Unrevoked(s)' => Unrevoked(s)
BY DEF MarkRevoked, Unrevoked, Opened, Reasons

\* Up to its commit a departure changes only what it remembers, and what it
\* finds is every live session of the account.
LEMMA DepartReadsKeepApiInv ==
  ASSUME TypeInv, ApiInv, NEW w \in Workers,
         \/ \E u \in Users : DepartRead(w, u)
         \/ DepartSelect(w)
         \/ DepartTokens(w)
  PROVE  ApiInv'
<1>1. /\ UNCHANGED <<accountVars, sessionVars, tokenVars>>
      /\ \A v \in Workers \ {w} : task'[v] = task[v]
      /\ task'[w].op # "refresh"
  BY TaskMoves DEF DepartRead, DepartSelect, DepartTokens, Begin
<1> USE DEF accountVars, sessionVars, tokenVars
<1>2. LiveSessionsPostdateEvents' /\ RefreshersActive'
  BY <1>1
  DEF ApiInv, LiveSessionsPostdateEvents, RefreshersActive, PassedDeparture, Unrevoked, Opened
<1>3. DeparturesCover'
  <2> SUFFICES ASSUME NEW v \in Workers,
                      (task[v].op \in {"depart_select", "depart_tokens"})',
                      NEW s \in Sessions, (owner[s] = task[v].user)', Unrevoked(s)'
               PROVE  (\/ s \in task[v].found
                       \/ bornAt[s].departing /\ bornAt[s].events = events[owner[s]])'
    BY DEF DeparturesCover
  <2>1. Unrevoked(s) /\ UNCHANGED <<owner, bornAt, events>>
    BY <1>1 DEF Unrevoked, Opened
  <2>2. CASE v # w
    BY <1>1, <2>1, <2>2 DEF ApiInv, DeparturesCover
  <2>3. CASE v = w /\ DepartSelect(w)
    <3>1. task'[w].found = LiveSessionsOf(task[w].user) /\ task'[w].user = task[w].user
      BY <2>3, TaskMoves DEF DepartSelect
    <3> QED
      BY <2>1, <2>3, <3>1 DEF LiveSessionsOf, Unrevoked
  <2>4. CASE v = w /\ DepartTokens(w)
    <3>1. /\ task'[w].found = task[w].found /\ task'[w].user = task[w].user
          /\ task[w].op = "depart_select"
      BY <2>4, TaskMoves DEF DepartTokens
    <3> QED
      BY <2>1, <2>4, <3>1 DEF ApiInv, DeparturesCover
  <2>5. CASE v = w /\ \E u \in Users : DepartRead(w, u)
    <3>1. task'[w].op = "depart_read"
      BY <2>5 DEF DepartRead, Begin, TypeInv, TypeOK
    <3> QED
      BY <2>5, <3>1
  <2> QED
    BY <2>2, <2>3, <2>4, <2>5
<1>4. DeparturesAlone'
  <2>1. \A v \in Workers \ {w} : task[v] \in DepartTask => task[v].user # task'[w].user
    <3>1. ASSUME NEW u \in Users, DepartRead(w, u)
          PROVE  \A v \in Workers \ {w} : task[v] \in DepartTask => task[v].user # task'[w].user
      <4>1. task'[w].user = u
        BY <3>1 DEF DepartRead, Begin, TypeInv, TypeOK
      <4> QED
        BY <3>1, <4>1 DEF DepartRead
    <3>2. CASE DepartSelect(w) \/ DepartTokens(w)
      <4>1. task[w].op \in {"depart_read", "depart_select"}
        BY <3>2 DEF DepartSelect, DepartTokens
      <4>2. task[w] \in DepartTask
        BY <4>1, DepartOps
      <4>3. task'[w].user = task[w].user
        BY <3>2, TaskMoves DEF DepartSelect, DepartTokens
      <4> QED
        BY <4>2, <4>3 DEF ApiInv, DeparturesAlone
    <3> QED
      BY <3>1, <3>2
  <2> QED
    BY <1>1, <2>1 DEF ApiInv, DeparturesAlone
<1> QED
  BY <1>2, <1>3, <1>4 DEF ApiInv

LEMMA DepartCommitKeepsApiInv ==
  ASSUME TypeInv, ApiInv, NEW w \in Workers, DepartCommit(w)
  PROVE  ApiInv'
<1> DEFINE u == task[w].user
<1>1. /\ u \in Users /\ task[w].op = "depart_tokens" /\ task[w] \in DepartTask
      /\ UNCHANGED <<owner, bornAt, sid>>
      /\ events'[u] = events[u] + 1
      /\ \A v \in Users \ {u} : events'[v] = events[v] /\ active'[v] = active[v]
      /\ task'[w] = Idle /\ \A v \in Workers \ {w} : task'[v] = task[v]
      /\ \A v \in Workers : task'[v] = task[v] \/ task'[v] = Idle
  BY TaskShape, TaskMoves DEF DepartCommit, CountEvent, Finish, TypeInv, TypeOK
<1>2. \A s \in Sessions : Unrevoked(s)' =>
        Unrevoked(s) /\ owner[s] \in Users /\ s \notin task[w].found
  BY DEF DepartCommit, MarkRevoked, Unrevoked, Opened, Reasons, TypeInv, TypeOK
<1>3. \A s \in Sessions : Unrevoked(s)' /\ owner[s] = u => PassedDeparture(s)'
  <2> SUFFICES ASSUME NEW s \in Sessions, Unrevoked(s)', owner[s] = u
               PROVE  PassedDeparture(s)'
    OBVIOUS
  <2>1. bornAt[s].departing /\ bornAt[s].events = events[u]
    BY <1>1, <1>2 DEF ApiInv, DeparturesCover
  <2> QED
    BY <1>1, <2>1 DEF PassedDeparture
<1>4. \A s \in Sessions : Unrevoked(s)' /\ owner[s] # u =>
        /\ owner[s] \in Users \ {u}
        /\ PassedDeparture(s)' <=> PassedDeparture(s)
  BY <1>1, <1>2 DEF PassedDeparture
<1> HIDE DEF u
<1>5. LiveSessionsPostdateEvents'
  BY <1>1, <1>2, <1>3, <1>4 DEF ApiInv, LiveSessionsPostdateEvents
<1>6. RefreshersActive'
  <2> SUFFICES ASSUME NEW v \in Workers, (task[v].op = "refresh")',
                      Unrevoked(sid[task[v].token])'
               PROVE  (\/ active[owner[sid[task[v].token]]]
                       \/ PassedDeparture(sid[task[v].token]))'
    BY DEF RefreshersActive
  <2>1. task'[v] = task[v] /\ task[v].op = "refresh"
    BY <1>1 DEF Idle
  <2>2. sid[task[v].token] \in Sessions
    BY <2>1, PresentedToken
  <2> QED
    BY <1>1, <1>2, <1>3, <1>4, <2>1, <2>2 DEF ApiInv, RefreshersActive
<1>7. DeparturesCover'
  <2> SUFFICES ASSUME NEW v \in Workers,
                      (task[v].op \in {"depart_select", "depart_tokens"})',
                      NEW s \in Sessions, (owner[s] = task[v].user)', Unrevoked(s)'
               PROVE  (\/ s \in task[v].found
                       \/ bornAt[s].departing /\ bornAt[s].events = events[owner[s]])'
    BY DEF DeparturesCover
  <2>1. task'[v] = task[v] /\ v # w
    BY <1>1 DEF Idle
  <2>2. task[v].user # u
    BY <1>1, <2>1, DepartOps DEF ApiInv, DeparturesAlone, u
  <2> QED
    BY <1>1, <1>2, <1>4, <2>1, <2>2 DEF ApiInv, DeparturesCover
<1>8. DeparturesAlone'
  BY <1>1, IdleIsNoDeparture DEF ApiInv, DeparturesAlone
<1> QED
  BY <1>5, <1>6, <1>7, <1>8 DEF ApiInv

LEMMA WorkerKeepsApiInv ==
  ASSUME TypeInv, ApiInv, NEW w \in Workers, WorkerStep(w)
  PROVE  ApiInv'
<1> USE DEF accountVars
<1>1. ASSUME NEW t \in Task \ DepartTask, task' = [task EXCEPT ![w] = t], t.op # "refresh",
             UNCHANGED <<accountVars, sessionVars, tokenVars>>
      PROVE  ApiInv'
  BY <1>1, TaskMoves, QuietKeepsApiInv DEF Unrevoked, Opened, sessionVars, tokenVars
<1>2. ASSUME NEW ending, NEW why \in Reasons, MarkRevoked(ending, why), Finish(w),
             UNCHANGED <<accountVars, owner, bornAt, sid>>
      PROVE  ApiInv'
  BY <1>2, TaskMoves, RevokedStays, QuietKeepsApiInv, IdleIsNoDeparture DEF Finish, Idle, Task
<1>3. ASSUME NEW u \in Users, LoginCheck(w, u) \/ LogoutAllSelect(w, u) PROVE ApiInv'
  <2> DEFINE login == [op |-> "login", user |-> u]
             all == [op |-> "logout_all", user |-> u, found |-> LiveSessionsOf(u)]
  <2>0. /\ login.op # "refresh" /\ all.op # "refresh"
        /\ login \in Task \ DepartTask /\ all \in Task \ DepartTask
    BY DEF Task, LoginTask, LogoutAllTask, DepartTask, LiveSessionsOf
  <2>1. CASE LoginCheck(w, u)
    <3>1. /\ task' = [task EXCEPT ![w] = login]
          /\ UNCHANGED <<accountVars, sessionVars, tokenVars>>
      BY <2>1 DEF LoginCheck, Begin
    <3> HIDE DEF login
    <3> QED
      BY <1>1, <2>0, <3>1
  <2>2. CASE LogoutAllSelect(w, u)
    <3>1. /\ task' = [task EXCEPT ![w] = all]
          /\ UNCHANGED <<accountVars, sessionVars, tokenVars>>
      BY <2>2 DEF LogoutAllSelect, Begin
    <3> HIDE DEF all
    <3> QED
      BY <1>1, <2>0, <3>1
  <2> QED
    BY <1>3, <2>1, <2>2
<1>4. CASE RefreshReject(w) \/ OtherRequest(w) \/ \E s \in Sessions : Authenticate(w, s)
  BY <1>1, <1>4, IdleIsNoDeparture
  DEF RefreshReject, OtherRequest, Authenticate, Begin, Finish, Idle, Task, RequestTask, DepartTask
<1>5. CASE \E s \in Sessions : RevokeSession(w, s)
  BY <1>2, <1>5 DEF RevokeSession, Reasons
<1>6. CASE RevokeOtherSessions(w)
  BY <1>2, <1>6 DEF RevokeOtherSessions, Reasons
<1>7. CASE LogoutAllCommit(w)
  BY <1>2, <1>7 DEF LogoutAllCommit, Reasons
<1>8. CASE ChangePassword(w)
  <2>1. task[w].op = "request" /\ task[w] \in Task
    BY <1>8 DEF ChangePassword, TypeInv, TypeOK
  <2>2. Opened(task[w].session) /\ task[w].session \in Sessions
    BY <2>1, TaskShape DEF TypeInv, Provenance, Grounded, RequestTask
  <2>3. owner[task[w].session] \in Users
    BY <2>2 DEF Opened, TypeInv, TypeOK
  <2>4. /\ \A v \in Workers : task'[v] = task[v] \/ task'[v] = Idle
        /\ EndAccountSessions(owner[task[w].session], "password_changed")
        /\ \A v \in Users \ {owner[task[w].session]} :
              events'[v] = events[v] /\ active'[v] = active[v]
    BY <1>8, TaskMoves DEF ChangePassword, CountEvent, Finish, TypeInv, TypeOK
  <2> QED
    BY <2>3, <2>4, EndAccountKeepsApiInv DEF Reasons
<1> QED
  BY <1>3, <1>4, <1>5, <1>6, <1>7, <1>8, IssueKeepsApiInv, RefreshKeepsApiInv,
     DepartReadsKeepApiInv, DepartCommitKeepsApiInv
  DEF WorkerStep

LEMMA ApiInvStep == TypeInv /\ ApiInv /\ [ApiNext]_vars => ApiInv'
<1> SUFFICES ASSUME TypeInv, ApiInv, [ApiNext]_vars PROVE ApiInv'
  OBVIOUS
<1>1. CASE \E w \in Workers : WorkerStep(w)
  BY <1>1, WorkerKeepsApiInv
<1>2. ASSUME NEW u \in Users, AccountStep(u) PROVE ApiInv'
  <2>1. CASE ActivateAccount(u)
    BY <2>1, QuietKeepsApiInv
    DEF ActivateAccount, Unrevoked, Opened, sessionVars, tokenVars, TypeInv, TypeOK
  <2>2. ASSUME NEW why \in Reasons, EndAccountSessions(u, why), CountEvent(u), UNCHANGED task,
               UNCHANGED active \/ active' = [active EXCEPT ![u] = FALSE]
        PROVE  ApiInv'
    <3>1. \A v \in Users \ {u} : events'[v] = events[v] /\ active'[v] = active[v]
      BY <2>2 DEF CountEvent, TypeInv, TypeOK
    <3> QED
      BY <2>2, <3>1, EndAccountKeepsApiInv
  <2> QED
    BY <1>2, <2>1, <2>2
    DEF AccountStep, ConfirmPasswordReset, DeactivateAccount, ChangeAccountRole,
        RevokeAccountSessions, Reasons
<1>3. ASSUME NEW s \in Sessions, NEW j \in Tokens, Logout(s, j) PROVE ApiInv'
  BY <1>3, RevokedStays, QuietKeepsApiInv DEF Logout, Reasons, accountVars
<1>4. ASSUME NEW s \in Sessions, SessionExpires(s) PROVE ApiInv'
  BY <1>4, QuietKeepsApiInv DEF SessionExpires, Unrevoked, Opened, accountVars, tokenVars
<1>5. CASE UNCHANGED vars
  BY <1>5, QuietKeepsApiInv DEF vars, accountVars, sessionVars, tokenVars, Unrevoked, Opened
<1> QED
  BY <1>1, <1>2, <1>3, <1>4, <1>5 DEF ApiNext

LEMMA ApiReachable == ApiSpec => [](TypeInv /\ ApiInv)
<1>1. Init => ApiInv
  BY IdleIsNoDeparture
  DEF Init, ApiInv, LiveSessionsPostdateEvents, RefreshersActive, DeparturesCover,
      DeparturesAlone, Unrevoked, Opened, Idle
<1>2. TypeInv /\ [ApiNext]_vars => TypeInv'
  BY TypeInvStep DEF Next
<1> QED
  BY <1>1, <1>2, InitTypeInv, ApiInvStep, PTL DEF ApiSpec

\* Through the business API, no session outlives a password change or reset, a
\* deactivation, a role change or an admin revocation of its account, and none
\* a departure but what was inserted in the middle of its transaction.
THEOREM SecurityEventsEndSessions == ApiSpec => []LiveSessionsPostdateEvents
<1>1. ApiInv => LiveSessionsPostdateEvents
  BY DEF ApiInv
<1> QED
  BY <1>1, ApiReachable, PTL

\* A refresh hands out a token only for a live session, and for an active account
\* although it reads is_active before it locks the session; the exception is
\* again a session inserted in the middle of a departure.
THEOREM RotationEntitled == ApiSpec => RotationOnlyForEntitled
<1> DEFINE Entitled == \A s \in Sessions : Opened(s) /\ currentRefresh'[s] # currentRefresh[s] =>
                          /\ active[owner[s]] \/ PassedDeparture(s)
                          /\ Unrevoked(s) /\ s \notin expired
<1>1. ASSUME TypeInv, ApiInv, [ApiNext]_vars PROVE Entitled
  <2>1. CASE UNCHANGED currentRefresh
    BY <2>1
  <2>2. ASSUME NEW w \in Workers, NEW j \in Tokens, RefreshRotate(w, j) PROVE Entitled
    <3>1. sid[task[w].token] \in Sessions /\ task[w].op = "refresh"
      BY <1>1, <2>2, PresentedToken DEF RefreshRotate
    <3>2. /\ Unrevoked(sid[task[w].token]) /\ sid[task[w].token] \notin expired
          /\ currentRefresh' = [currentRefresh EXCEPT ![sid[task[w].token]] = j]
      BY <2>2 DEF RefreshRotate, RefreshAllowed, IssueToken
    <3>3. \A s \in Sessions : currentRefresh'[s] # currentRefresh[s] => s = sid[task[w].token]
      BY <3>1, <3>2 DEF TypeInv, TypeOK
    <3> QED
      BY <1>1, <3>1, <3>2, <3>3 DEF ApiInv, RefreshersActive
  <2>3. ASSUME NEW w \in Workers, NEW s \in Sessions, NEW j \in Tokens, LoginIssue(w, s, j)
        PROVE  Entitled
    BY <1>1, <2>3 DEF LoginIssue, IssueToken, TypeInv, TypeOK
  <2>4. ASSUME NEW w \in Workers, WorkerStep(w) PROVE Entitled
    BY <2>1, <2>2, <2>3, <2>4
    DEF WorkerStep, LoginCheck, RefreshCheck, RefreshReject, Authenticate, RevokeSession,
        RevokeOtherSessions, OtherRequest, ChangePassword, LogoutAllSelect, LogoutAllCommit,
        DepartRead, DepartSelect, DepartTokens, DepartCommit,
        EndAccountSessions, sessionVars
  <2>5. CASE \/ \E u \in Users : AccountStep(u)
             \/ \E s \in Sessions, j \in Tokens : Logout(s, j)
             \/ \E s \in Sessions : SessionExpires(s)
             \/ UNCHANGED vars
    BY <2>1, <2>5
    DEF AccountStep, ConfirmPasswordReset, DeactivateAccount, ActivateAccount, ChangeAccountRole,
        RevokeAccountSessions, EndAccountSessions, Logout, SessionExpires, vars, sessionVars
  <2> QED
    BY <1>1, <2>4, <2>5 DEF ApiNext
<1>2. TypeInv /\ ApiInv /\ [ApiNext]_vars => [Entitled]_vars
  BY <1>1
<1> QED
  BY <1>2, ApiReachable, PTL DEF ApiSpec, RotationOnlyForEntitled
=============================================================================
