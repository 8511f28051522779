-------------------------- MODULE SessionAuthority --------------------------
(***************************************************************************)
(* AccountSession, refresh rotation and everything that ends a session     *)
(* (backend/modules/accounts).  The database is PostgreSQL READ COMMITTED: *)
(* a transaction that begins with the row lock of its user or session is   *)
(* one action, at its commit; what a request read before taking the lock   *)
(* (the password check of a login, the user read of a refresh, the         *)
(* authentication of a request, the first statement of logout-all) is a    *)
(* step of its own, so other requests run in between.  A departure never   *)
(* takes the lock of its user row: its statements are steps of their own.  *)
(*                                                                         *)
(* A password is represented by the fact that the client presented the     *)
(* current one; requests that present a wrong one change nothing.          *)
(***************************************************************************)
EXTENDS Naturals

CONSTANTS
  Users, Sessions, Tokens,   \* accounts, session ids (sid), refresh jtis
  Workers,                   \* server processes, one request each at a time
  MaxEvents,                 \* bound on the security events of one account
  NoUser, NoSession, NoToken

ASSUME MaxEventsIsNat == MaxEvents \in Nat
ASSUME SentinelsAreFresh ==
  NoUser \notin Users /\ NoSession \notin Sessions /\ NoToken \notin Tokens

VARIABLES
  active,          \* active[u]: User.is_active
  events,          \* events[u]: security events of u so far (history)
  owner,           \* owner[s]: AccountSession.user, NoUser before the insert
  revokedReason,   \* AccountSession.revoked_reason, "none" while revoked_at is null
  expired,         \* sessions whose expires_at has passed
  currentRefresh,  \* AccountSession.current_refresh_jti
  sid,             \* sid[j]: session an OutstandingToken belongs to
  blacklisted,     \* tokens with a BlacklistedToken row
  task,            \* task[w]: the request worker w is in the middle of
  bornAt,          \* bornAt[s]: events[owner[s]] when s was inserted, and whether
                   \* a departure of the owner was under way then (history)
  redeemed         \* tokens exchanged for a successor (history)

accountVars == <<active, events>>
sessionVars == <<owner, revokedReason, expired, currentRefresh, bornAt>>
tokenVars == <<sid, blacklisted, redeemed>>
vars == <<accountVars, sessionVars, tokenVars, task>>

Reasons == {"logout", "logout_all", "user_revoked", "other_sessions_revoked",
            "account_deactivated", "employee_departed", "role_changed",
            "admin_revoked", "password_changed", "password_reset"}

Idle == [op |-> "idle"]
LoginTask == [op : {"login"}, user : Users]
RefreshTask == [op : {"refresh"}, token : Tokens]
RequestTask == [op : {"request"}, session : Sessions]
LogoutAllTask == [op : {"logout_all"}, user : Users, found : SUBSET Sessions]
DepartTask ==
  [op : {"depart_read"}, user : Users] \cup
  [op : {"depart_select"}, user : Users, found : SUBSET Sessions] \cup
  [op : {"depart_tokens"}, user : Users, found : SUBSET Sessions, listed : SUBSET Tokens]
Task == {Idle} \cup LoginTask \cup RefreshTask \cup RequestTask \cup LogoutAllTask
          \cup DepartTask
Birth == [events : 0..MaxEvents, departing : BOOLEAN]

Opened(s) == owner[s] # NoUser
Issued(j) == sid[j] # NoSession
Unrevoked(s) == Opened(s) /\ revokedReason[s] = "none"

\* The sessions revoke_all_account_sessions selects, and a user's tokens.
LiveSessionsOf(u) == {s \in Sessions : owner[s] = u /\ revokedReason[s] = "none"}
TokensOf(u) == {j \in Tokens : Issued(j) /\ owner[sid[j]] = u}

\* Departures of u from the update of the user row to the commit.  The update
\* keeps every FOR UPDATE and UPDATE of that row waiting (UserFree), but not a
\* foreign-key check; the check waits only (KeyFree) once sessions were found
\* and locked, for select_related("user") locks the user row with them.
DeparturesOf(u) ==
  {w \in Workers : task[w].op \in {"depart_select", "depart_tokens"} /\ task[w].user = u}
UserFree(u) == DeparturesOf(u) = {}
KeyFree(u) ==
  ~ \E w \in DeparturesOf(u) : task[w].op = "depart_tokens" /\ task[w].found # {}

\* No departure is about to commit the blacklisting of j.
TokenFree(j) ==
  ~ \E w \in Workers : task[w].op = "depart_tokens" /\ j \in task[w].listed

Init ==
  /\ active = [u \in Users |-> TRUE]
  /\ events = [u \in Users |-> 0]
  /\ owner = [s \in Sessions |-> NoUser]
  /\ revokedReason = [s \in Sessions |-> "none"]
  /\ expired = {}
  /\ currentRefresh = [s \in Sessions |-> NoToken]
  /\ sid = [j \in Tokens |-> NoSession]
  /\ blacklisted = {}
  /\ task = [w \in Workers |-> Idle]
  /\ bornAt = [s \in Sessions |-> [events |-> 0, departing |-> FALSE]]
  /\ redeemed = {}

Begin(w, request) == task[w] = Idle /\ task' = [task EXCEPT ![w] = request]
Finish(w) == task' = [task EXCEPT ![w] = Idle]

\* Deviation: a second revocation overwrites the first.
MarkRevokedAgain(ending, why) ==
  revokedReason' = [s \in Sessions |->
                      IF s \in ending /\ Opened(s) THEN why ELSE revokedReason[s]]

\* revoked_at and revoked_reason are written only where revoked_at was null.
MarkRevoked(ending, why) ==
  revokedReason' = [s \in Sessions |->
                      IF s \in ending /\ Unrevoked(s) THEN why ELSE revokedReason[s]]

(***************************************************************************)
(* Login: authenticate() reads password and is_active without a lock; the  *)
(* session and its first refresh token are inserted in a later transaction *)
(* whose deferred foreign-key check orders its commit before or after any  *)
(* transaction that has the user row FOR UPDATE.                           *)
(***************************************************************************)
LoginCheck(w, u) ==
  /\ active[u]
  /\ Begin(w, [op |-> "login", user |-> u])
  /\ UNCHANGED <<accountVars, sessionVars, tokenVars>>

\* Deviation: the session is not saved with the jti of its new token.
IssueTokenUnsaved(s, j) ==
  /\ ~Issued(j)
  /\ sid' = [sid EXCEPT ![j] = s]
  /\ UNCHANGED currentRefresh

\* RefreshToken.for_user registers a token; its jti is saved on the session.
IssueToken(s, j) ==
  /\ ~Issued(j)
  /\ sid' = [sid EXCEPT ![j] = s]
  /\ currentRefresh' = [currentRefresh EXCEPT ![s] = j]

LoginIssue(w, s, j) ==
  /\ task[w].op = "login"
  /\ ~Opened(s)
  /\ KeyFree(task[w].user)
  /\ owner' = [owner EXCEPT ![s] = task[w].user]
  /\ bornAt' = [bornAt EXCEPT ![s] = [events |-> events[task[w].user],
                                     departing |-> ~UserFree(task[w].user)]]
  /\ IssueToken(s, j)
  /\ Finish(w)
  /\ UNCHANGED <<accountVars, revokedReason, expired, blacklisted, redeemed>>

(***************************************************************************)
(* Refresh: the blacklist and the user are read first, then the session    *)
(* row is locked and decides.  The client may present any token it was     *)
(* ever given.                                                             *)
(***************************************************************************)
RefreshCheck(w, j) ==
  /\ Issued(j) /\ j \notin blacklisted
  /\ active[owner[sid[j]]]
  /\ Begin(w, [op |-> "refresh", token |-> j])
  /\ UNCHANGED <<accountVars, sessionVars, tokenVars>>

\* Deviations: the locked row is not looked at again; its jti is not compared.
RefreshAllowedByFirstRead(j) == currentRefresh[sid[j]] = j
RefreshAllowedForAnyToken(j) == Unrevoked(sid[j]) /\ sid[j] \notin expired

RefreshAllowed(j) ==
  /\ Unrevoked(sid[j]) /\ sid[j] \notin expired
  /\ currentRefresh[sid[j]] = j

\* Deviation: rotation forgets refresh.blacklist().
SpendUnlisted(j) ==
  /\ redeemed' = redeemed \cup {j}
  /\ UNCHANGED blacklisted

Spend(j) ==
  /\ redeemed' = redeemed \cup {j}
  /\ blacklisted' = blacklisted \cup {j}

RefreshRotate(w, fresh) ==
  /\ task[w].op = "refresh"
  /\ LET presented == task[w].token
     IN  /\ RefreshAllowed(presented)
         /\ KeyFree(owner[sid[presented]]) /\ TokenFree(presented)
         /\ Spend(presented)
         /\ IssueToken(sid[presented], fresh)
  /\ Finish(w)
  /\ UNCHANGED <<accountVars, owner, revokedReason, expired, bornAt>>

RefreshReject(w) ==
  /\ task[w].op = "refresh"
  /\ ~RefreshAllowed(task[w].token)
  /\ Finish(w)
  /\ UNCHANGED <<accountVars, sessionVars, tokenVars>>

(***************************************************************************)
(* A protected request: SessionJWTAuthentication reads user and session    *)
(* without a lock; the view acts later, for a session that may have been   *)
(* revoked in the meantime.  revoke_session and                            *)
(* revoke_all_account_sessions lock the user row together with the         *)
(* sessions they find.                                                     *)
(***************************************************************************)
Authenticate(w, s) ==
  /\ Unrevoked(s) /\ s \notin expired
  /\ active[owner[s]]
  /\ Begin(w, [op |-> "request", session |-> s])
  /\ UNCHANGED <<accountVars, sessionVars, tokenVars>>

RevokeSession(w, s) ==
  /\ task[w].op = "request"
  /\ Opened(s) /\ owner[s] = owner[task[w].session]
  /\ UserFree(owner[s])
  /\ MarkRevoked({s}, "user_revoked")
  /\ blacklisted' = blacklisted \cup (IF Unrevoked(s) THEN {currentRefresh[s]} ELSE {})
  /\ Finish(w)
  /\ UNCHANGED <<accountVars, owner, expired, currentRefresh, bornAt, sid, redeemed>>

RevokeOtherSessions(w) ==
  /\ task[w].op = "request"
  /\ LET others == LiveSessionsOf(owner[task[w].session]) \ {task[w].session}
     IN  /\ others # {} => UserFree(owner[task[w].session])
         /\ MarkRevoked(others, "other_sessions_revoked")
         /\ blacklisted' = blacklisted \cup {currentRefresh[s] : s \in others}
  /\ Finish(w)
  /\ UNCHANGED <<accountVars, owner, expired, currentRefresh, bornAt, sid, redeemed>>

\* A view that ends no session: reads, and requests refused by validation.
OtherRequest(w) ==
  /\ task[w].op = "request"
  /\ Finish(w)
  /\ UNCHANGED <<accountVars, sessionVars, tokenVars>>

(***************************************************************************)
(* Logout and logout-all use plain JWTAuthentication: the access token of  *)
(* a revoked session is still accepted while its user is active.  Logout   *)
(* works under the lock of its session.  Logout-all locks the sessions its *)
(* first statement finds and blacklists, in a second statement, the tokens *)
(* that exist by then.                                                     *)
(***************************************************************************)
Logout(s, j) ==
  /\ Opened(s) /\ active[owner[s]]
  /\ sid[j] = s
  /\ UserFree(owner[s])
  /\ MarkRevoked({s}, "logout")
  /\ blacklisted' = blacklisted \cup {j} \cup
                      (IF Unrevoked(s) THEN {currentRefresh[s]} ELSE {})
  /\ UNCHANGED <<accountVars, owner, expired, currentRefresh, bornAt, sid, redeemed, task>>

LogoutAllSelect(w, u) ==
  /\ active[u]
  /\ \E s \in Sessions : owner[s] = u
  /\ Begin(w, [op |-> "logout_all", user |-> u, found |-> LiveSessionsOf(u)])
  /\ UNCHANGED <<accountVars, sessionVars, tokenVars>>

LogoutAllCommit(w) ==
  /\ task[w].op = "logout_all"
  /\ task[w].found # {} => UserFree(task[w].user)
  /\ \A j \in TokensOf(task[w].user) \ blacklisted : TokenFree(j)
  /\ MarkRevoked(task[w].found, "logout_all")
  /\ blacklisted' = blacklisted \cup TokensOf(task[w].user)
  /\ Finish(w)
  /\ UNCHANGED <<accountVars, owner, expired, currentRefresh, bornAt, sid, redeemed>>

(***************************************************************************)
(* The transactions that have the user row FOR UPDATE from their first     *)
(* statement: all of the account's sessions and tokens end with them.      *)
(***************************************************************************)
CountEvent(u) ==
  /\ events[u] < MaxEvents
  /\ events' = [events EXCEPT ![u] = @ + 1]

\* Deviation: only the tokens are blacklisted, the session rows stay live.
EndAccountTokens(u, why) ==
  /\ blacklisted' = blacklisted \cup TokensOf(u)
  /\ UNCHANGED <<revokedReason, owner, expired, currentRefresh, bornAt, sid, redeemed>>

EndAccountSessions(u, why) ==
  /\ MarkRevoked(LiveSessionsOf(u), why)
  /\ blacklisted' = blacklisted \cup TokensOf(u)
  /\ UNCHANGED <<owner, expired, currentRefresh, bornAt, sid, redeemed>>

ChangePassword(w) ==
  /\ task[w].op = "request"
  /\ UserFree(owner[task[w].session])
  /\ CountEvent(owner[task[w].session])
  /\ EndAccountSessions(owner[task[w].session], "password_changed")
  /\ Finish(w)
  /\ UNCHANGED active

ConfirmPasswordReset(u) ==
  /\ active[u] /\ UserFree(u)
  /\ CountEvent(u)
  /\ EndAccountSessions(u, "password_reset")
  /\ UNCHANGED <<active, task>>

DeactivateAccount(u) ==
  /\ active[u] /\ UserFree(u)
  /\ active' = [active EXCEPT ![u] = FALSE]
  /\ CountEvent(u)
  /\ EndAccountSessions(u, "account_deactivated")
  /\ UNCHANGED task

ActivateAccount(u) ==
  /\ ~active[u] /\ UserFree(u)
  /\ active' = [active EXCEPT ![u] = TRUE]
  /\ UNCHANGED <<events, sessionVars, tokenVars, task>>

ChangeAccountRole(u) ==
  /\ UserFree(u)
  /\ CountEvent(u)
  /\ EndAccountSessions(u, "role_changed")
  /\ UNCHANGED <<active, task>>

RevokeAccountSessions(u) ==
  /\ UserFree(u)
  /\ CountEvent(u)
  /\ EndAccountSessions(u, "admin_revoked")
  /\ UNCHANGED <<active, task>>

(***************************************************************************)
(* A departure locks its employee row alone.  It reads is_active with the  *)
(* employee (DepartRead), updates the user row and finds the live sessions *)
(* (DepartSelect), has them locked and lists the tokens (DepartTokens),    *)
(* and commits.  A login can commit at any point up to KeyFree: its        *)
(* session is missed, its token too if it comes after the listing.         *)
(***************************************************************************)

\* The lock of the employee keeps a second departure of u out.
DepartRead(w, u) ==
  /\ active[u]
  /\ \A v \in Workers : task[v] \in DepartTask => task[v].user # u
  /\ Begin(w, [op |-> "depart_read", user |-> u])
  /\ UNCHANGED <<accountVars, sessionVars, tokenVars>>

\* The account may have been deactivated, even activated again, since the read.
DepartSelect(w) ==
  /\ task[w].op = "depart_read"
  /\ task' = [task EXCEPT ![w] = [op |-> "depart_select", user |-> task[w].user,
                                  found |-> LiveSessionsOf(task[w].user)]]
  /\ UNCHANGED <<accountVars, sessionVars, tokenVars>>

DepartTokens(w) ==
  /\ task[w].op = "depart_select"
  /\ task' = [task EXCEPT ![w] = [op |-> "depart_tokens", user |-> task[w].user,
                                  found |-> task[w].found, listed |-> TokensOf(task[w].user)]]
  /\ UNCHANGED <<accountVars, sessionVars, tokenVars>>

DepartCommit(w) ==
  /\ task[w].op = "depart_tokens"
  /\ active' = [active EXCEPT ![task[w].user] = FALSE]
  /\ CountEvent(task[w].user)
  /\ MarkRevoked(task[w].found, "employee_departed")
  /\ blacklisted' = blacklisted \cup task[w].listed
                       \cup {currentRefresh[s] : s \in task[w].found}
  /\ Finish(w)
  /\ UNCHANGED <<owner, expired, currentRefresh, bornAt, sid, redeemed>>

\* Seven days after login: expires_at is set once and no refresh moves it.
SessionExpires(s) ==
  /\ Opened(s) /\ s \notin expired
  /\ expired' = expired \cup {s}
  /\ UNCHANGED <<accountVars, owner, revokedReason, currentRefresh, bornAt, tokenVars, task>>

(***************************************************************************)
(* Django Admin registers User with the stock UserAdmin: a superuser may   *)
(* set a password, is_active or the groups there, and no session ends.     *)
(***************************************************************************)
AdminDeactivate(u) ==
  /\ active[u] /\ UserFree(u)
  /\ active' = [active EXCEPT ![u] = FALSE]
  /\ CountEvent(u)
  /\ UNCHANGED <<sessionVars, tokenVars, task>>

AdminActivate(u) ==
  /\ ~active[u] /\ UserFree(u)
  /\ active' = [active EXCEPT ![u] = TRUE]
  /\ UNCHANGED <<events, sessionVars, tokenVars, task>>

AdminSetPasswordOrRole(u) ==
  /\ UserFree(u)
  /\ CountEvent(u)
  /\ UNCHANGED <<active, sessionVars, tokenVars, task>>

WorkerStep(w) ==
  \/ \E u \in Users : LoginCheck(w, u)
  \/ \E s \in Sessions, j \in Tokens : LoginIssue(w, s, j)
  \/ \E j \in Tokens : RefreshCheck(w, j)
  \/ \E j \in Tokens : RefreshRotate(w, j)
  \/ RefreshReject(w)
  \/ \E s \in Sessions : Authenticate(w, s)
  \/ \E s \in Sessions : RevokeSession(w, s)
  \/ RevokeOtherSessions(w)
  \/ OtherRequest(w)
  \/ ChangePassword(w)
  \/ \E u \in Users : LogoutAllSelect(w, u)
  \/ LogoutAllCommit(w)
  \/ \E u \in Users : DepartRead(w, u)
  \/ DepartSelect(w)
  \/ DepartTokens(w)
  \/ DepartCommit(w)

AccountStep(u) ==
  \/ ConfirmPasswordReset(u)
  \/ DeactivateAccount(u)
  \/ ActivateAccount(u)
  \/ ChangeAccountRole(u)
  \/ RevokeAccountSessions(u)

AdminStep(u) == AdminDeactivate(u) \/ AdminActivate(u) \/ AdminSetPasswordOrRole(u)

ApiNext ==
  \/ \E w \in Workers : WorkerStep(w)
  \/ \E u \in Users : AccountStep(u)
  \/ \E s \in Sessions, j \in Tokens : Logout(s, j)
  \/ \E s \in Sessions : SessionExpires(s)

Next == ApiNext \/ \E u \in Users : AdminStep(u)

\* The whole system, and the system in which accounts are managed only
\* through the business API.
Spec == Init /\ [][Next]_vars
ApiSpec == Init /\ [][ApiNext]_vars
-----------------------------------------------------------------------------
(***************************************************************************)
(* Properties.                                                             *)
(***************************************************************************)

\* Types; and an inserted session names, in current_refresh_jti, a token of
\* its own (issue_session_tokens and rotate_session_refresh both save it).
TypeOK ==
  /\ active \in [Users -> BOOLEAN]
  /\ events \in [Users -> 0..MaxEvents]
  /\ owner \in [Sessions -> Users \cup {NoUser}]
  /\ revokedReason \in [Sessions -> Reasons \cup {"none"}]
  /\ expired \subseteq Sessions
  /\ currentRefresh \in [Sessions -> Tokens \cup {NoToken}]
  /\ sid \in [Tokens -> Sessions \cup {NoSession}]
  /\ blacklisted \subseteq Tokens
  /\ task \in [Workers -> Task]
  /\ bornAt \in [Sessions -> Birth]
  /\ redeemed \subseteq Tokens
  /\ \A s \in Sessions : Opened(s) =>
        currentRefresh[s] \in Tokens /\ sid[currentRefresh[s]] = s

\* At most one refresh token per session is outside the blacklist, it is the
\* one current_refresh_jti names, and none is once the session is revoked:
\* whatever the order of rotations, logouts and account changes, the two
\* records of what may still be refreshed (the blacklist and the session row)
\* never disagree in the client's favour.
OnlyCurrentRefreshUsable ==
  \A j \in Tokens : Issued(j) /\ j \notin blacklisted =>
     Unrevoked(sid[j]) /\ currentRefresh[sid[j]] = j

\* A departure of the owner was in its transaction when s was inserted, and
\* nothing that ends sessions has happened since but its commit.
PassedDeparture(s) ==
  bornAt[s].departing /\ events[owner[s]] = bornAt[s].events + 1

\* A password change or reset, a deactivation, a departure, a role change or an
\* admin revocation leaves no earlier session alive, whatever refreshes and
\* logins were in flight when it committed (security-baseline.md, line 15), but
\* for one case: a session inserted while the departure was in its transaction,
\* which every later event then ends.
LiveSessionsPostdateEvents ==
  \A s \in Sessions : Unrevoked(s) =>
     bornAt[s].events = events[owner[s]] \/ PassedDeparture(s)

\* revoked_at and revoked_reason are final: a session is never reopened, and a
\* second revocation, by whatever path it races in, keeps the first reason.
RevocationIsFinal ==
  [][\A s \in Sessions : Opened(s) /\ ~Unrevoked(s) =>
        revokedReason'[s] = revokedReason[s]]_vars

\* Although is_active is read before the session row is locked, a refresh that
\* goes through has, at its commit, a session that is neither revoked nor
\* expired and an active user; or else the session has passed a departure.
RotationOnlyForEntitled ==
  [][\A s \in Sessions : Opened(s) /\ currentRefresh'[s] # currentRefresh[s] =>
        /\ active[owner[s]] \/ PassedDeparture(s)
        /\ Unrevoked(s) /\ s \notin expired]_vars

(***************************************************************************)
(* The promise of RefreshChain, with current_refresh_jti as the bearer.    *)
(***************************************************************************)
phaseOf == [s \in Sessions |-> IF ~Opened(s) THEN "unopened"
                               ELSE IF Unrevoked(s) THEN "open" ELSE "closed"]

Chain == INSTANCE RefreshChain WITH phase <- phaseOf, bearer <- currentRefresh

\* Every behaviour is a behaviour of RefreshChain: no refresh token is redeemed
\* twice and a revoked session hands out nothing more.
ImplementsRefreshChain == Chain!ChainSpec
=============================================================================
