---------------------------- MODULE ClientSession ----------------------------
(***************************************************************************)
(* The session the app holds (apps/employee_app: ApiClient, TokenStorage,  *)
(* NetworkAuthRepository, AuthController) against a server that keeps the  *)
(* promise of RefreshChain.  Every await is a place where something else   *)
(* runs: other calls, a login, a logout, the loss of the session.          *)
(*                                                                         *)
(* A session stands for who is signed in by it.  <<s, n>> is the n-th pair *)
(* of tokens of session s: its refresh token, and the access token that    *)
(* came with it, which names s and may have expired at any time.           *)
(*                                                                         *)
(* A call repeated after a refresh whose repetition fails is stuck: nobody *)
(* catches the DioException, and the future of its caller never completes. *)
(***************************************************************************)
EXTENDS Naturals, FiniteSets

CONSTANTS
  Sessions,       \* the logins that may happen
  Pairs,          \* bound: the token pairs the server may give out
  Pages,          \* the calls pages make, one at a time each
  Logouts,        \* bound: logouts that run at one time
  Me,             \* the call that asks who is signed in
  NoToken, NoSession

ASSUME ClientAssumption ==
  /\ Pairs \subseteq Sessions \X Nat
  /\ Me \notin Pages \cup Logouts
  /\ Pages \cap Logouts = {}
  /\ NoSession \notin Sessions
  /\ NoToken \notin Pairs \cup Pages \cup Logouts \cup {Me}

VARIABLES
  phase, bearer, redeemed,  \* the server: see RefreshChain
  access, refresh,          \* the two keys of the secure storage
  call,       \* call[c]: where the call c of ApiClient stands
  op,         \* op[c]: the _performRefresh that c began
  current,    \* the c whose operation is _refreshFuture, or none of them
  login,      \* AuthRepository.login or restoreSession under way
  logout,     \* logout[l]: AuthController.logout under way
  lost,       \* an event of authenticationLost is not yet delivered
  shown,      \* CurrentUser of AuthController
  interrupted,\* refresh tokens stored when the app was killed during a refresh (history)
  overtaken   \* writes of two origins met: a refresh was under way when a login,
              \* logout or failure wrote, or the app was killed between two writes (history)

server == <<phase, bearer, redeemed>>
store == <<access, refresh>>
history == <<interrupted, overtaken>>
vars == <<server, store, call, op, current, login, logout, lost, shown, history>>

Calls == Pages \cup Logouts \cup {Me}
Owner(pair) == pair[1]

Server == INSTANCE RefreshChain WITH Tokens <- Pairs

NoCall == [at |-> "none"]
Stuck == [at |-> "stuck"]
CallStates ==
  {NoCall, Stuck} \cup [at : {"sent", "resent"}, token : Pairs \cup {NoToken}]
           \cup [at : {"waiting"}, on : Calls] \cup [at : {"resumed"}]
           \cup [at : {"settled"}, result : {"failed", "unauthorized"}]
           \cup [at : {"settled"}, result : {"ok"}, token : Pairs]

NoOp == [at |-> "none"]
OpStates ==
  {NoOp} \cup [at : {"read", "lose"}]
         \cup [at : {"posted"}, token : Pairs]
         \cup [at : {"granted", "half"}, pair : Pairs]

NoLogin == [at |-> "none"]
LoginStates == {NoLogin} \cup [at : {"posted", "me", "restore", "restoring"}]
                         \cup [at : {"opened", "half"}, pair : Pairs]

LogoutStates == {"none", "read", "posted", "clear"}

Underway == \E c \in Calls : op[c] # NoOp

Init ==
  /\ Server!ChainInit
  /\ access = NoToken /\ refresh = NoToken
  /\ call = [c \in Calls |-> NoCall]
  /\ op = [c \in Calls |-> NoOp]
  /\ current = NoToken
  /\ login = NoLogin
  /\ logout = [l \in Logouts |-> "none"]
  /\ lost = FALSE
  /\ shown = NoSession
  /\ interrupted = {} /\ overtaken = FALSE

\* The tokens or their owner change: does a refresh still work for the old ones?
Overtake == overtaken' = (overtaken \/ Underway)

(***************************************************************************)
(* The server: requests are judged by the session of their access token.   *)
(***************************************************************************)
OpenWith(s) ==
  /\ Server!Open(s)
  /\ bearer'[s] = <<s, 1>>

HandOnNext(s) ==
  /\ Server!HandOn(s)
  /\ bearer'[s] = <<s, bearer[s][2] + 1>>

\* A revocation, deactivation, role or password change (SessionAuthority).
ServerCloses(s) ==
  /\ Server!Close({s})
  /\ UNCHANGED <<store, call, op, current, login, logout, lost, shown, history>>

(***************************************************************************)
(* ApiClient: a call, its 401, one refresh for all of them, one retry.     *)
(***************************************************************************)
Begin(c) == [call EXCEPT ![c] = [at |-> "sent", token |-> access]]

\* Nothing is under way for c; a call that is stuck never does anything again.
Over(c) == call[c] \in {NoCall, Stuck}

PageCall(c) ==
  /\ c \in Pages /\ Over(c)
  /\ shown # NoSession
  /\ call' = Begin(c)
  /\ UNCHANGED <<server, store, op, current, login, logout, lost, shown, history>>

IsSent(c) == call[c].at \in {"sent", "resent"}

\* What the caller gets; a page takes it and is done.
Settle(c, outcome) ==
  call' = [call EXCEPT ![c] = IF c \in Pages THEN NoCall ELSE outcome]

Failed(kind) == [at |-> "settled", result |-> kind]
Succeeded(pair) == [at |-> "settled", result |-> "ok", token |-> pair]

Succeed(c) ==
  /\ IsSent(c) /\ call[c].token # NoToken
  /\ LET s == Owner(call[c].token)
     IN  IF c \in Logouts
           THEN \/ phase[s] = "open" /\ Server!Close({s})
                \/ UNCHANGED server   \* closed already, or the body names another session
           ELSE phase[s] = "open" /\ UNCHANGED server
  /\ Settle(c, Succeeded(call[c].token))
  /\ UNCHANGED <<store, op, current, login, logout, lost, shown, history>>

\* Another status, no connection, or a timeout of the first try.
Fail(c) ==
  /\ call[c].at = "sent"
  /\ Settle(c, Failed("failed"))
  /\ UNCHANGED <<server, store, op, current, login, logout, lost, shown, history>>

\* Deviation: every 401 starts a refresh of its own.
RefreshUnshared(c) == c

\* _refreshAccessToken: the operation under way, or a new one.
SharedRefresh(c) == IF current \in Calls THEN current ELSE c

\* A 401 on the first try.
Unauthorized(c) ==
  /\ call[c].at = "sent"
  /\ LET o == SharedRefresh(c)
     IN  /\ call' = [call EXCEPT ![c] = [at |-> "waiting", on |-> o]]
         /\ op' = IF op[o] = NoOp THEN [op EXCEPT ![o] = [at |-> "read"]] ELSE op
         /\ current' = o
  /\ UNCHANGED <<server, store, login, logout, lost, shown, history>>

\* A second 401, another status, no connection, or a timeout of the
\* repetition: only AppException is caught there, so that the handler of the
\* first try is never told.
RepeatFails(c) ==
  /\ call[c].at = "resent"
  /\ call' = [call EXCEPT ![c] = Stuck]
  /\ UNCHANGED <<server, store, op, current, login, logout, lost, shown, history>>

\* The refresh was fine: the access token is read again and the call repeated.
Resume(c) ==
  /\ call[c].at = "resumed"
  /\ IF access = NoToken
       THEN Settle(c, Failed("unauthorized"))
       ELSE call' = [call EXCEPT ![c] = [at |-> "resent", token |-> access]]
  /\ UNCHANGED <<server, store, op, current, login, logout, lost, shown, history>>

(***************************************************************************)
(* _performRefresh, begun by c.                                            *)
(***************************************************************************)
GotoOp(c, state) == op' = [op EXCEPT ![c] = state]

RefreshRead(c) ==
  /\ op[c].at = "read"
  /\ GotoOp(c, IF refresh = NoToken THEN [at |-> "lose"] ELSE [at |-> "posted", token |-> refresh])
  /\ UNCHANGED <<server, store, call, current, login, logout, lost, shown, history>>

\* The server exchanges the token (rotate_session_refresh).
RefreshGranted(c) ==
  /\ op[c].at = "posted"
  /\ LET s == Owner(op[c].token)
     IN  /\ bearer[s] = op[c].token
         /\ HandOnNext(s)
         /\ GotoOp(c, [at |-> "granted", pair |-> bearer'[s]])
  /\ UNCHANGED <<store, call, current, login, logout, lost, shown, history>>

\* The server refuses; or no answer arrives in time, whatever the server did.
RefreshFails(c) ==
  /\ op[c].at \in {"posted", "granted"}
  /\ GotoOp(c, [at |-> "lose"])
  /\ UNCHANGED <<server, store, call, current, login, logout, lost, shown, history>>

\* saveTokens: the access token, then the refresh token.  The server always
\* hands on a refresh token, so that saveAccessToken alone is never called.
RefreshSaveAccess(c) ==
  /\ op[c].at = "granted"
  /\ access' = op[c].pair
  /\ GotoOp(c, [at |-> "half", pair |-> op[c].pair])
  /\ UNCHANGED <<server, refresh, call, current, login, logout, lost, shown, history>>

\* Deviation: only the call that began the refresh hears of it.
WakeFirst(c, outcome) ==
  [d \in Calls |-> IF d = c /\ call[d] = [at |-> "waiting", on |-> c] THEN outcome ELSE call[d]]

\* Everybody who waits for c's refresh goes on.
Wake(c, outcome) ==
  [d \in Calls |-> IF call[d] = [at |-> "waiting", on |-> c] THEN outcome ELSE call[d]]

FinishOp(c) ==
  /\ GotoOp(c, NoOp)
  /\ current' = IF current = c THEN NoToken ELSE current

RefreshSaveRefresh(c) ==
  /\ op[c].at = "half"
  /\ refresh' = op[c].pair
  /\ call' = Wake(c, [at |-> "resumed"])
  /\ FinishOp(c)
  /\ UNCHANGED <<server, access, login, logout, lost, shown, history>>

\* Deviation: the tokens stay although the refresh failed.
KeepTokens == UNCHANGED store

ClearTokens == access' = NoToken /\ refresh' = NoToken

\* Deviation: nobody is told that the tokens are gone.
LoseSilently == UNCHANGED lost

AnnounceLoss == lost' = TRUE

\* _loseAuthentication, then the exception for all who wait.
RefreshLoses(c) ==
  /\ op[c].at = "lose"
  /\ ClearTokens
  /\ AnnounceLoss
  /\ LET woken == Wake(c, Failed("unauthorized"))
     IN  call' = [d \in Calls |-> IF woken[d] # call[d] /\ d \in Pages THEN NoCall ELSE woken[d]]
  /\ FinishOp(c)
  /\ UNCHANGED <<server, login, logout, shown, history>>

(***************************************************************************)
(* AuthRepository: login, restoreSession, logout.                          *)
(***************************************************************************)
LoginPost ==
  /\ shown = NoSession /\ login = NoLogin
  /\ login' = [at |-> "posted"]
  /\ UNCHANGED <<server, store, call, op, current, logout, lost, shown, history>>

LoginOpened ==
  /\ login.at = "posted"
  /\ \E s \in Sessions : OpenWith(s) /\ login' = [at |-> "opened", pair |-> <<s, 1>>]
  /\ UNCHANGED <<store, call, op, current, logout, lost, shown, history>>

LoginSaveAccess ==
  /\ login.at = "opened"
  /\ access' = login.pair
  /\ login' = [at |-> "half", pair |-> login.pair]
  /\ Overtake
  /\ UNCHANGED <<server, refresh, call, op, current, logout, lost, shown, interrupted>>

\* Deviation: a refresh token found in the storage is kept.
StoredRefreshIfNone(pair) == IF refresh = NoToken THEN pair ELSE refresh

StoredRefresh(pair) == pair

LoginSaveRefresh ==
  /\ login.at = "half"
  /\ refresh' = StoredRefresh(login.pair)
  /\ login' = [at |-> "me"]
  /\ call' = Begin(Me)
  /\ UNCHANGED <<server, access, op, current, logout, lost, shown, history>>

\* Login refused, not answered, or answered with rubbish.
LoginFails ==
  /\ login.at \in {"posted", "opened"}
  /\ login' = NoLogin
  /\ ClearTokens /\ Overtake
  /\ UNCHANGED <<server, call, op, current, logout, lost, shown, interrupted>>

\* restoreSession when the app has started.
Restore ==
  /\ login.at = "restore"
  /\ IF refresh = NoToken
       THEN login' = NoLogin /\ UNCHANGED call
       ELSE login' = [at |-> "restoring"] /\ call' = Begin(Me)
  /\ UNCHANGED <<server, store, op, current, logout, lost, shown, history>>

\* The user that GET /auth/me/ names is shown.
MeAnswered ==
  /\ call[Me].at = "settled" /\ call[Me].result = "ok"
  /\ shown' = Owner(call[Me].token)
  /\ login' = NoLogin
  /\ call' = [call EXCEPT ![Me] = NoCall]
  /\ UNCHANGED <<server, store, op, current, logout, lost, history>>

\* A login clears the tokens again; a restored session only after a 401.
MeFailed ==
  /\ call[Me].at = "settled" /\ call[Me].result # "ok"
  /\ IF login.at = "me" \/ call[Me].result = "unauthorized"
       THEN ClearTokens /\ Overtake
       ELSE UNCHANGED <<store, overtaken>>
  /\ login' = NoLogin
  /\ shown' = NoSession
  /\ call' = [call EXCEPT ![Me] = NoCall]
  /\ UNCHANGED <<server, op, current, logout, lost, interrupted>>

\* A logout whose call is stuck does nothing any more and counts as none.
StartLogout(l) ==
  /\ logout[l] = "none" \/ call[l] = Stuck
  /\ logout' = [logout EXCEPT ![l] = "read"]
  /\ call' = [call EXCEPT ![l] = NoCall]

UserLogout(l) ==
  /\ shown # NoSession
  /\ StartLogout(l)
  /\ UNCHANGED <<server, store, op, current, login, lost, shown, history>>

\* AuthController listens to authenticationLost.
HandleAuthenticationLost(l) ==
  /\ lost /\ lost' = FALSE
  /\ StartLogout(l)
  /\ UNCHANGED <<server, store, op, current, login, shown, history>>

LogoutRead(l) ==
  /\ logout[l] = "read"
  /\ IF refresh = NoToken
       THEN logout' = [logout EXCEPT ![l] = "clear"] /\ UNCHANGED call
       ELSE logout' = [logout EXCEPT ![l] = "posted"] /\ call' = Begin(l)
  /\ UNCHANGED <<server, store, op, current, login, lost, shown, history>>

\* Deviation: the local part waits for the server to agree.
LogoutGoesOnIfRevoked(l) == call[l].result = "ok"

\* Whatever the server answers, the local part follows (catch and finally).
LogoutGoesOn(l) == TRUE

LogoutPosted(l) ==
  /\ logout[l] = "posted" /\ call[l].at = "settled"
  /\ LogoutGoesOn(l)
  /\ logout' = [logout EXCEPT ![l] = "clear"]
  /\ call' = [call EXCEPT ![l] = NoCall]
  /\ UNCHANGED <<server, store, op, current, login, lost, shown, history>>

LogoutClear(l) ==
  /\ logout[l] = "clear"
  /\ ClearTokens /\ Overtake
  /\ logout' = [logout EXCEPT ![l] = "none"]
  /\ shown' = NoSession
  /\ UNCHANGED <<server, call, op, current, login, lost, interrupted>>

\* The app is killed and started again: only the storage is still there.
Restart ==
  /\ interrupted' = interrupted \cup (IF Underway THEN {refresh} \ {NoToken} ELSE {})
  /\ call' = [c \in Calls |-> NoCall]
  /\ op' = [c \in Calls |-> NoOp]
  /\ current' = NoToken
  /\ login' = [at |-> "restore"]
  /\ logout' = [l \in Logouts |-> "none"]
  /\ lost' = FALSE
  /\ shown' = NoSession
  /\ overtaken' = (overtaken \/ login.at = "half")
  /\ UNCHANGED <<server, store>>

CallStep(c) == Succeed(c) \/ Fail(c) \/ Unauthorized(c) \/ RepeatFails(c) \/ Resume(c)

RefreshStep(c) ==
  \/ RefreshRead(c) \/ RefreshGranted(c) \/ RefreshFails(c)
  \/ RefreshSaveAccess(c) \/ RefreshSaveRefresh(c) \/ RefreshLoses(c)

LoginStep ==
  \/ LoginOpened \/ LoginSaveAccess \/ LoginSaveRefresh \/ LoginFails
  \/ Restore \/ MeAnswered \/ MeFailed

LogoutStep(l) == LogoutRead(l) \/ LogoutPosted(l) \/ LogoutClear(l)

Next ==
  \/ \E c \in Calls : PageCall(c) \/ CallStep(c) \/ RefreshStep(c)
  \/ LoginPost \/ LoginStep
  \/ \E l \in Logouts : UserLogout(l) \/ HandleAuthenticationLost(l) \/ LogoutStep(l)
  \/ \E s \in Sessions : ServerCloses(s)
  \/ Restart

\* What has begun goes on: the event loop runs every continuation, and a
\* request has a connect and a receive timeout; what is stuck has no step.  Users, the server and the
\* operating system owe nothing.
Fairness ==
  /\ \A c \in Calls : WF_vars(CallStep(c)) /\ WF_vars(RefreshStep(c))
  /\ WF_vars(LoginStep)
  /\ \A l \in Logouts : WF_vars(LogoutStep(l)) /\ WF_vars(HandleAuthenticationLost(l))

Spec == Init /\ [][Next]_vars /\ Fairness
-----------------------------------------------------------------------------
\* Types; one refresh runs at a time, and it is the one calls join.
TypeOK ==
  /\ Server!ChainTypeOK
  /\ access \in Pairs \cup {NoToken} /\ refresh \in Pairs \cup {NoToken}
  /\ call \in [Calls -> CallStates]
  /\ op \in [Calls -> OpStates]
  /\ current \in Calls \cup {NoToken}
  /\ \A c \in Calls : op[c] # NoOp <=> current = c
  /\ login \in LoginStates
  /\ logout \in [Logouts -> LogoutStates]
  /\ lost \in BOOLEAN
  /\ shown \in Sessions \cup {NoSession}
  /\ interrupted \subseteq Pairs /\ overtaken \in BOOLEAN

\* The app presents no refresh token twice, whatever times out, unless it was
\* killed while one was under way.
NoTokenReplayed ==
  \A c \in Calls :
    op[c].at = "posted" /\ op[c].token \in redeemed => op[c].token \in interrupted

\* At every moment the tokens kept are of the user who is shown
\* (employee-directory-mvp.md:63: cleared after a failed refresh or a logout),
\* unless a refresh outlived a logout, a login or a failed login, or the app
\* was killed between the two writes of a login.
TokensAreOfTheShownUser ==
  ~overtaken /\ shown # NoSession =>
    \A pair \in {access, refresh} \ {NoToken} : Owner(pair) = shown

\* Every call comes to its end, also those that wait for another's refresh,
\* unless its repetition failed.
CallsSettle == \A c \in Calls : call[c] # NoCall ~> Over(c)

\* A logout ends on this device, server or no server, unless its own call was
\* repeated and the repetition failed.
LogoutsFinish ==
  \A l \in Logouts : logout[l] = "read" ~> logout[l] = "none" \/ call[l] = Stuck

\* What ADR-0004 says at line 117 and auth_repository.dart at line 132: the
\* local logout completes whatever the server does.  In the code it does not.
LogoutsAlwaysFinish == \A l \in Logouts : logout[l] = "read" ~> logout[l] = "none"

\* When a refresh has lost the session, nobody stays signed in.
LossSignsOut == (\E c \in Calls : op[c].at = "lose") ~> shown = NoSession
=============================================================================
