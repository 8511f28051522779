------------------------- MODULE ClientSessionProofs -------------------------
(***************************************************************************)
(* Theorems about ClientSession, for any sessions, token pairs, calls of   *)
(* pages and number of logouts at one time.                                *)
(***************************************************************************)
EXTENDS ClientSession, TLAPS

Given(pair) == bearer[Owner(pair)] # NoToken

\* The n-th pair of a session is redeemed when the next one is given out.
ServerInv ==
  /\ \A s \in Sessions : phase[s] = "unopened" <=> bearer[s] = NoToken
  /\ \A s \in Sessions : bearer[s] # NoToken => Owner(bearer[s]) = s /\ bearer[s][2] > 0
  /\ \A p \in redeemed : Given(p) /\ p[2] < bearer[Owner(p)][2]

\* What a refresh holds: the token it posts was not redeemed before, unless the
\* app was killed, and the pair it was granted is the latest of its session.
OpHolds(c) ==
  /\ op[c].at = "posted" =>
       Given(op[c].token) /\ (op[c].token \in redeemed => op[c].token \in interrupted)
  /\ op[c].at \in {"granted", "half"} =>
       bearer[Owner(op[c].pair)] = op[c].pair /\ op[c].pair[2] > 1

\* The stored token is redeemed only while a refresh has its successor, or
\* after the app was killed then.
StoredIsLive ==
  /\ refresh # NoToken => Given(refresh)
  /\ refresh \in redeemed =>
       refresh \in interrupted \/ \E c \in Calls : op[c].at \in {"granted", "half", "lose"}

\* The pair of a login is nowhere else until it is stored.
LoginIsFresh ==
  login.at \in {"opened", "half"} =>
    /\ Given(login.pair) /\ login.pair[2] = 1
    /\ login.pair \notin redeemed /\ login.pair # refresh
    /\ \A c \in Calls : op[c].at = "posted" => op[c].token # login.pair

TokenInv ==
  /\ \A c \in Calls : OpHolds(c)
  /\ StoredIsLive /\ LoginIsFresh

\* The call for the signed-in user runs while a login or a restart waits for
\* it, and neither runs once a user is shown.
MeInv ==
  /\ call[Me] # NoCall <=> login.at \in {"me", "restoring"}
  /\ shown # NoSession => login = NoLogin

OfOne(owner) == \A pair \in {access, refresh} \ {NoToken} : Owner(pair) = owner

\* The two keys are of one session, but for a login between its two writes.
KeysAgree ==
  IF login.at = "half"
    THEN access \in {login.pair, NoToken}
    ELSE access # NoToken /\ refresh # NoToken => Owner(access) = Owner(refresh)

\* A refresh works for the session that is stored, and never between the two
\* writes of a login.
OpAgrees(c) ==
  /\ op[c].at = "posted" => refresh = op[c].token
  /\ op[c].at \in {"granted", "half"} => refresh # NoToken /\ Owner(refresh) = Owner(op[c].pair)
  /\ op[c].at \in {"posted", "granted", "half"} => login.at # "half"

\* Tokens that are stored while nobody is shown were left by the last run of
\* the app: nothing of this run works with them but the restoring itself.
StoredUnseen ==
  shown = NoSession /\ refresh # NoToken /\ login.at # "me" =>
    /\ ~lost /\ \A l \in Logouts : logout[l] = "none"
    /\ \A c \in Calls \ {Me} : call[c] = NoCall /\ op[c] = NoOp
    /\ op[Me] # NoOp => call[Me].at = "waiting"

\* Who is about to be shown, or is shown, owns what is stored.
MeAgrees ==
  /\ call[Me].at \in {"sent", "resent"} /\ call[Me].token # NoToken => OfOne(Owner(call[Me].token))
  /\ call[Me].at = "settled" /\ call[Me].result = "ok" => OfOne(Owner(call[Me].token))
  /\ shown # NoSession => OfOne(shown)

Agreement ==
  /\ KeysAgree /\ StoredUnseen /\ MeAgrees
  /\ \A c \in Calls : OpAgrees(c)

OwnerInv == ~overtaken => Agreement

IInv == TypeOK /\ ServerInv /\ TokenInv /\ MeInv /\ OwnerInv
-----------------------------------------------------------------------------
\* A pair names its session and its number.
LEMMA PairShape ==
  ASSUME NEW pair \in Pairs
  PROVE  /\ Owner(pair) \in Sessions /\ pair[2] \in Nat
         /\ pair = <<Owner(pair), pair[2]>>
         /\ pair # NoToken
BY ClientAssumption DEF Owner

\* The calls there are, and what stands for none of them.
LEMMA CallsApart ==
  /\ Me \in Calls /\ Me \notin Pages /\ Me \notin Logouts
  /\ Pages \subseteq Calls /\ Logouts \subseteq Calls
  /\ NoToken \notin Calls /\ NoToken \notin Pairs /\ NoSession \notin Sessions
BY ClientAssumption DEF Calls

\* A call has the fields of the place it stands at.
LEMMA CallShape ==
  ASSUME NEW x \in CallStates
  PROVE  /\ x.at \in {"sent", "resent"} => x.token \in Pairs \cup {NoToken}
         /\ x.at = "waiting" => x.on \in Calls
         /\ x.at = "settled" => /\ x.result \in {"failed", "unauthorized", "ok"}
                                /\ x.result = "ok" => x.token \in Pairs
         /\ x = NoCall <=> x.at = "none"
BY DEF CallStates, NoCall, Stuck

\* The places a call can be sent to.
LEMMA CallForms ==
  /\ NoCall \in CallStates /\ NoCall.at = "none" /\ [at |-> "resumed"] \in CallStates
  /\ Stuck \in CallStates /\ Stuck.at = "stuck"
  /\ \A t \in Pairs \cup {NoToken} :
       [at |-> "sent", token |-> t] \in CallStates /\ [at |-> "resent", token |-> t] \in CallStates
  /\ \A c \in Calls : [at |-> "waiting", on |-> c] \in CallStates
  /\ \A pair \in Pairs : Succeeded(pair) \in CallStates
  /\ \A k \in {"failed", "unauthorized"} : Failed(k) \in CallStates
BY DEF CallStates, NoCall, Stuck, Succeeded, Failed

\* A refresh has the fields of the place it stands at.
LEMMA OpShape ==
  ASSUME NEW x \in OpStates
  PROVE  /\ x.at \in {"none", "read", "lose", "posted", "granted", "half"}
         /\ x.at = "posted" => x.token \in Pairs
         /\ x.at \in {"granted", "half"} => x.pair \in Pairs
         /\ x = NoOp <=> x.at = "none"
BY DEF OpStates, NoOp

LEMMA OpForms ==
  /\ NoOp \in OpStates /\ NoOp.at = "none"
  /\ [at |-> "read"] \in OpStates /\ [at |-> "lose"] \in OpStates
  /\ \A t \in Pairs :
       /\ [at |-> "posted", token |-> t] \in OpStates
       /\ [at |-> "granted", pair |-> t] \in OpStates
       /\ [at |-> "half", pair |-> t] \in OpStates
BY DEF OpStates, NoOp

\* A login has the fields of the place it stands at.
LEMMA LoginShape ==
  ASSUME NEW x \in LoginStates
  PROVE  /\ x.at \in {"opened", "half"} => x.pair \in Pairs
         /\ x = NoLogin <=> x.at = "none"
BY DEF LoginStates, NoLogin

LEMMA LoginForms ==
  /\ NoLogin \in LoginStates /\ NoLogin.at = "none"
  /\ \A k \in {"posted", "me", "restore", "restoring"} : [at |-> k] \in LoginStates
  /\ \A t \in Pairs : /\ [at |-> "opened", pair |-> t] \in LoginStates
                       /\ [at |-> "half", pair |-> t] \in LoginStates
BY DEF LoginStates, NoLogin

\* What opening, handing on and closing a session do to the server's state.
LEMMA OpenShape ==
  ASSUME TypeOK, NEW s \in Sessions, OpenWith(s)
  PROVE  /\ phase[s] = "unopened"
         /\ <<s, 1>> \in Pairs /\ <<s, 1>> \notin redeemed
         /\ bearer' = [bearer EXCEPT ![s] = <<s, 1>>]
         /\ phase' = [phase EXCEPT ![s] = "open"] /\ redeemed' = redeemed
<1>1. PICK j \in Server!Unheld : bearer' = [bearer EXCEPT ![s] = j]
  BY DEF OpenWith, Server!Open
<1>2. j = <<s, 1>>
  BY <1>1 DEF OpenWith, TypeOK, Server!ChainTypeOK
<1> QED
  BY <1>1, <1>2 DEF OpenWith, Server!Open, Server!Unheld

LEMMA HandOnShape ==
  ASSUME TypeOK, NEW s \in Sessions, HandOnNext(s)
  PROVE  /\ phase[s] = "open"
         /\ <<s, bearer[s][2] + 1>> \in Pairs /\ <<s, bearer[s][2] + 1>> \notin redeemed
         /\ bearer' = [bearer EXCEPT ![s] = <<s, bearer[s][2] + 1>>]
         /\ phase' = phase /\ redeemed' = redeemed \cup {bearer[s]}
<1>1. PICK j \in Server!Unheld : bearer' = [bearer EXCEPT ![s] = j]
  BY DEF HandOnNext, Server!HandOn
<1>2. j = <<s, bearer[s][2] + 1>>
  BY <1>1 DEF HandOnNext, TypeOK, Server!ChainTypeOK
<1> QED
  BY <1>1, <1>2 DEF HandOnNext, Server!HandOn, Server!Unheld

LEMMA CloseShape ==
  ASSUME TypeOK, NEW s \in Sessions, Server!Close({s})
  PROVE  /\ phase' \in [Sessions -> {"unopened", "open", "closed"}]
         /\ \A t \in Sessions : phase'[t] = "unopened" <=> phase[t] = "unopened"
         /\ bearer' = bearer /\ redeemed' = redeemed
BY DEF Server!Close, TypeOK, Server!ChainTypeOK
LEMMA InitTypes == Init => TypeOK
<1> SUFFICES ASSUME Init PROVE TypeOK
  OBVIOUS
<1>1. Server!ChainTypeOK
  BY DEF Init, Server!ChainInit, Server!ChainTypeOK
<1>2. /\ call \in [Calls -> CallStates] /\ op \in [Calls -> OpStates] /\ login \in LoginStates
      /\ current = NoToken /\ \A c \in Calls : op[c] = NoOp /\ current # c
  BY CallForms, OpForms, LoginForms, CallsApart DEF Init
<1> QED
  BY <1>1, <1>2 DEF Init, TypeOK, LogoutStates

\* What a settled call becomes.
LEMMA SettleShape ==
  ASSUME TypeOK, NEW c \in Calls, NEW x \in CallStates, Settle(c, x)
  PROVE  call' \in [Calls -> CallStates]
<1>1. (IF c \in Pages THEN NoCall ELSE x) \in CallStates
  BY CallForms
<1> QED
  BY <1>1 DEF Settle, TypeOK

LEMMA CallStepTypes ==
  ASSUME TypeOK, NEW c \in Calls, CallStep(c) \/ PageCall(c)
  PROVE  TypeOK'
<1> USE CallsApart
<1>1. /\ call[c] \in CallStates /\ access \in Pairs \cup {NoToken}
      /\ call \in [Calls -> CallStates] /\ op \in [Calls -> OpStates]
  BY DEF TypeOK
<1>2. CASE PageCall(c)
  <2>1. call' \in [Calls -> CallStates]
    BY <1>1, <1>2, CallForms DEF PageCall, Begin
  <2> QED
    BY <1>2, <2>1 DEF PageCall, TypeOK, Server!ChainTypeOK, server, store, history
<1>3. CASE Succeed(c)
  <2>1. call[c].token \in Pairs
    BY <1>1, <1>3, CallShape DEF Succeed, IsSent
  <2>2. Owner(call[c].token) \in Sessions
    BY <2>1, PairShape
  <2>3. call' \in [Calls -> CallStates]
    BY <1>3, <2>1, CallForms, SettleShape DEF Succeed
  <2>4. Server!ChainTypeOK'
    BY <1>3, <2>2, CloseShape DEF Succeed, TypeOK, Server!ChainTypeOK, server
  <2> QED
    BY <1>3, <2>3, <2>4 DEF Succeed, TypeOK, store, history
<1>4. CASE Fail(c) \/ RepeatFails(c)
  <2>1. call' \in [Calls -> CallStates]
    BY <1>1, <1>4, CallForms, SettleShape DEF Fail, RepeatFails
  <2> QED
    BY <1>4, <2>1 DEF Fail, RepeatFails, TypeOK, Server!ChainTypeOK, server, store, history
<1>5. CASE Unauthorized(c)
  <2> DEFINE o == SharedRefresh(c)
  <2>1. o \in Calls
    BY DEF SharedRefresh
  <2>2. call' \in [Calls -> CallStates]
    BY <1>1, <1>5, <2>1, CallForms DEF Unauthorized
  <2>3. op' \in [Calls -> OpStates]
    BY <1>1, <1>5, <2>1, OpForms DEF Unauthorized
  <2>4. \A d \in Calls : op'[d] # NoOp <=> o = d
    <3>1. [at |-> "read"] # NoOp
      BY DEF NoOp
    <3>2. CASE current \in Calls
      <4>1. o = current /\ op[o] # NoOp /\ op' = op
        BY <1>5, <3>2 DEF Unauthorized, SharedRefresh, TypeOK
      <4> QED
        BY <4>1, <3>2 DEF TypeOK
    <3>3. CASE current \notin Calls
      <4>1. o = c /\ \A d \in Calls : op[d] = NoOp
        BY <3>3 DEF SharedRefresh, TypeOK
      <4>2. op' = [op EXCEPT ![c] = [at |-> "read"]]
        BY <1>5, <4>1 DEF Unauthorized
      <4> QED
        BY <1>1, <3>1, <4>1, <4>2
    <3> QED
      BY <3>2, <3>3
  <2>5. current' = o
    BY <1>5 DEF Unauthorized
  <2> QED
    BY <1>5, <2>1, <2>2, <2>3, <2>4, <2>5
    DEF Unauthorized, TypeOK, Server!ChainTypeOK, server, store, history
<1>6. CASE Resume(c)
  <2>1. CASE access = NoToken
    BY <1>6, <2>1, CallForms, SettleShape
    DEF Resume, TypeOK, Server!ChainTypeOK, server, store, history
  <2>2. CASE access # NoToken
    <3>1. call' \in [Calls -> CallStates]
      BY <1>1, <1>6, <2>2, CallForms DEF Resume
    <3> QED
      BY <1>6, <3>1 DEF Resume, TypeOK, Server!ChainTypeOK, server, store, history
  <2> QED
    BY <2>1, <2>2
<1> QED
  BY <1>2, <1>3, <1>4, <1>5, <1>6 DEF CallStep

\* Those who wait for a refresh go on, the others stay where they are.
LEMMA WakeShape ==
  ASSUME TypeOK, NEW c \in Calls, NEW x \in CallStates
  PROVE  /\ Wake(c, x) \in [Calls -> CallStates]
         /\ \A d \in Calls : Wake(c, x)[d] = IF call[d] = [at |-> "waiting", on |-> c] THEN x ELSE call[d]
BY DEF Wake, TypeOK

\* The end of the one refresh there is.
LEMMA FinishOpShape ==
  ASSUME TypeOK, NEW c \in Calls, op[c] # NoOp, FinishOp(c)
  PROVE  /\ op' \in [Calls -> OpStates] /\ current' = NoToken
         /\ \A d \in Calls : op'[d] = NoOp
BY OpForms, CallsApart DEF FinishOp, GotoOp, TypeOK

\* A refresh that goes on stays the one refresh there is.
LEMMA GotoOpShape ==
  ASSUME TypeOK, NEW c \in Calls, op[c] # NoOp, NEW x \in OpStates, x # NoOp,
         GotoOp(c, x), UNCHANGED current
  PROVE  /\ op' \in [Calls -> OpStates] /\ op'[c] = x /\ current' = c
         /\ \A d \in Calls : op'[d] # NoOp <=> current' = d
         /\ \A d \in Calls \ {c} : op[d] = NoOp /\ op'[d] = NoOp
BY DEF GotoOp, TypeOK
LEMMA RefreshStepTypes ==
  ASSUME TypeOK, NEW c \in Calls, RefreshStep(c)
  PROVE  TypeOK'
<1> USE CallsApart
<1>1. /\ op[c] \in OpStates /\ refresh \in Pairs \cup {NoToken}
      /\ call \in [Calls -> CallStates]
  BY DEF TypeOK
<1>2. op[c].at \in {"read", "posted", "granted", "half", "lose"} => op[c] # NoOp
  BY <1>1, OpShape
<1>3. CASE RefreshRead(c)
  <2> DEFINE x == IF refresh = NoToken THEN [at |-> "lose"] ELSE [at |-> "posted", token |-> refresh]
  <2>1. x \in OpStates /\ x # NoOp
    BY <1>1, OpForms DEF NoOp
  <2>2. GotoOp(c, x) /\ UNCHANGED current /\ op[c] # NoOp
    BY <1>2, <1>3 DEF RefreshRead
  <2> HIDE DEF x
  <2>3. /\ op' \in [Calls -> OpStates] /\ current' = c
        /\ \A d \in Calls : op'[d] # NoOp <=> current' = d
    BY <2>1, <2>2, GotoOpShape
  <2> QED
    BY <1>3, <2>3 DEF RefreshRead, TypeOK, Server!ChainTypeOK, server, store, history
<1>4. CASE RefreshGranted(c)
  <2> DEFINE s == Owner(op[c].token)
             x == [at |-> "granted", pair |-> bearer'[s]]
  <2>1. s \in Sessions
    BY <1>1, <1>4, OpShape, PairShape DEF RefreshGranted
  <2>2. /\ bearer[s] = op[c].token /\ op[c].token \in Pairs
        /\ HandOnNext(s)
    BY <1>1, <1>4, OpShape DEF RefreshGranted
  <2>3. /\ <<s, bearer[s][2] + 1>> \in Pairs
        /\ bearer' = [bearer EXCEPT ![s] = <<s, bearer[s][2] + 1>>]
        /\ phase' = phase /\ redeemed' = redeemed \cup {bearer[s]}
    BY <2>1, <2>2, HandOnShape
  <2>4. Server!ChainTypeOK' /\ bearer'[s] \in Pairs
    BY <2>1, <2>2, <2>3 DEF TypeOK, Server!ChainTypeOK
  <2>5. x \in OpStates /\ x # NoOp
    BY <2>4, OpForms DEF NoOp
  <2>6. GotoOp(c, x) /\ UNCHANGED current /\ op[c] # NoOp
    BY <1>2, <1>4 DEF RefreshGranted
  <2> HIDE DEF x
  <2>7. /\ op' \in [Calls -> OpStates] /\ current' = c
        /\ \A d \in Calls : op'[d] # NoOp <=> current' = d
    BY <2>5, <2>6, GotoOpShape
  <2> QED
    BY <1>4, <2>4, <2>7 DEF RefreshGranted, TypeOK, store, history
<1>5. CASE RefreshFails(c)
  <2> DEFINE x == [at |-> "lose"]
  <2>1. x \in OpStates /\ x # NoOp
    BY OpForms DEF NoOp
  <2>2. GotoOp(c, x) /\ UNCHANGED current /\ op[c] # NoOp
    BY <1>2, <1>5 DEF RefreshFails
  <2> HIDE DEF x
  <2>3. /\ op' \in [Calls -> OpStates] /\ current' = c
        /\ \A d \in Calls : op'[d] # NoOp <=> current' = d
    BY <2>1, <2>2, GotoOpShape
  <2> QED
    BY <1>5, <2>3 DEF RefreshFails, TypeOK, Server!ChainTypeOK, server, store, history
<1>6. CASE RefreshSaveAccess(c)
  <2> DEFINE x == [at |-> "half", pair |-> op[c].pair]
  <2>1. op[c].pair \in Pairs
    BY <1>1, <1>6, OpShape DEF RefreshSaveAccess
  <2>2. x \in OpStates /\ x # NoOp
    BY <2>1, OpForms DEF NoOp
  <2>3. GotoOp(c, x) /\ UNCHANGED current /\ op[c] # NoOp
    BY <1>2, <1>6 DEF RefreshSaveAccess
  <2> HIDE DEF x
  <2>4. /\ op' \in [Calls -> OpStates] /\ current' = c
        /\ \A d \in Calls : op'[d] # NoOp <=> current' = d
    BY <2>2, <2>3, GotoOpShape
  <2> QED
    BY <1>6, <2>1, <2>4 DEF RefreshSaveAccess, TypeOK, Server!ChainTypeOK, server, history
<1>7. CASE RefreshSaveRefresh(c)
  <2>1. op[c].pair \in Pairs /\ op[c] # NoOp
    BY <1>1, <1>2, <1>7, OpShape DEF RefreshSaveRefresh
  <2>2. call' \in [Calls -> CallStates]
    BY <1>7, WakeShape, CallForms DEF RefreshSaveRefresh
  <2>3. op' \in [Calls -> OpStates] /\ current' = NoToken /\ \A d \in Calls : op'[d] = NoOp
    BY <1>7, <2>1, FinishOpShape DEF RefreshSaveRefresh
  <2> QED
    BY <1>7, <2>1, <2>2, <2>3
    DEF RefreshSaveRefresh, TypeOK, Server!ChainTypeOK, server, history
<1>8. CASE RefreshLoses(c)
  <2>1. op[c] # NoOp
    BY <1>2, <1>8 DEF RefreshLoses
  <2> DEFINE woken == Wake(c, Failed("unauthorized"))
  <2>2. woken \in [Calls -> CallStates]
    BY WakeShape, CallForms
  <2>3. call' = [d \in Calls |-> IF woken[d] # call[d] /\ d \in Pages THEN NoCall ELSE woken[d]]
    BY <1>8 DEF RefreshLoses
  <2> HIDE DEF woken
  <2>4. call' \in [Calls -> CallStates]
    BY <2>2, <2>3, CallForms
  <2>5. op' \in [Calls -> OpStates] /\ current' = NoToken /\ \A d \in Calls : op'[d] = NoOp
    BY <1>8, <2>1, FinishOpShape DEF RefreshLoses
  <2> QED
    BY <1>8, <2>4, <2>5
    DEF RefreshLoses, ClearTokens, AnnounceLoss, TypeOK, Server!ChainTypeOK, server, history
<1> QED
  BY <1>3, <1>4, <1>5, <1>6, <1>7, <1>8 DEF RefreshStep

LEMMA LoginStepTypes ==
  ASSUME TypeOK, LoginPost \/ LoginStep
  PROVE  TypeOK'
<1> USE CallsApart
<1>1. /\ login \in LoginStates /\ call \in [Calls -> CallStates] /\ call[Me] \in CallStates
      /\ access \in Pairs \cup {NoToken} /\ refresh \in Pairs \cup {NoToken}
  BY DEF TypeOK
<1>2. Begin(Me) \in [Calls -> CallStates]
  BY <1>1, CallForms DEF Begin
<1>3. CASE LoginPost
  BY <1>3, LoginForms DEF LoginPost, TypeOK, Server!ChainTypeOK, server, store, history
<1>4. CASE LoginOpened
  <2>1. PICK s \in Sessions : OpenWith(s) /\ login' = [at |-> "opened", pair |-> <<s, 1>>]
    BY <1>4 DEF LoginOpened
  <2>2. /\ <<s, 1>> \in Pairs
        /\ bearer' = [bearer EXCEPT ![s] = <<s, 1>>]
        /\ phase' = [phase EXCEPT ![s] = "open"] /\ redeemed' = redeemed
    BY <2>1, OpenShape
  <2>3. login' \in LoginStates
    BY <2>1, <2>2, LoginForms
  <2>4. Server!ChainTypeOK'
    BY <2>2 DEF TypeOK, Server!ChainTypeOK
  <2> QED
    BY <1>4, <2>3, <2>4 DEF LoginOpened, TypeOK, store, history
<1>5. CASE LoginSaveAccess
  <2>1. login.pair \in Pairs /\ login' \in LoginStates
    BY <1>1, <1>5, LoginShape, LoginForms DEF LoginSaveAccess
  <2>2. overtaken' \in BOOLEAN
    BY <1>5 DEF LoginSaveAccess, Overtake, TypeOK
  <2> QED
    BY <1>5, <2>1, <2>2 DEF LoginSaveAccess, TypeOK, Server!ChainTypeOK, server
<1>6. CASE LoginSaveRefresh
  <2>1. login.pair \in Pairs /\ login' \in LoginStates
    BY <1>1, <1>6, LoginShape, LoginForms DEF LoginSaveRefresh
  <2> QED
    BY <1>2, <1>6, <2>1
    DEF LoginSaveRefresh, StoredRefresh, TypeOK, Server!ChainTypeOK, server, history
<1>7. CASE LoginFails
  <2>1. overtaken' \in BOOLEAN
    BY <1>7 DEF LoginFails, Overtake, TypeOK
  <2> QED
    BY <1>7, <2>1, LoginForms DEF LoginFails, ClearTokens, TypeOK, Server!ChainTypeOK, server
<1>8. CASE Restore
  BY <1>1, <1>2, <1>8, LoginForms DEF Restore, TypeOK, Server!ChainTypeOK, server, store, history
<1>9. CASE MeAnswered
  <2>1. Owner(call[Me].token) \in Sessions
    BY <1>1, <1>9, CallShape, PairShape DEF MeAnswered
  <2>2. call' \in [Calls -> CallStates]
    BY <1>1, <1>9, CallForms DEF MeAnswered
  <2> QED
    BY <1>9, <2>1, <2>2, LoginForms
    DEF MeAnswered, TypeOK, Server!ChainTypeOK, server, store, history
<1>10. CASE MeFailed
  <2>1. call' \in [Calls -> CallStates]
    BY <1>1, <1>10, CallForms DEF MeFailed
  <2>2. access' \in Pairs \cup {NoToken} /\ refresh' \in Pairs \cup {NoToken} /\ overtaken' \in BOOLEAN
    BY <1>1, <1>10 DEF MeFailed, ClearTokens, Overtake, TypeOK, store
  <2> QED
    BY <1>10, <2>1, <2>2, LoginForms DEF MeFailed, TypeOK, Server!ChainTypeOK, server
<1> QED
  BY <1>3, <1>4, <1>5, <1>6, <1>7, <1>8, <1>9, <1>10 DEF LoginStep

LEMMA LogoutStepTypes ==
  ASSUME TypeOK, NEW l \in Logouts,
         UserLogout(l) \/ HandleAuthenticationLost(l) \/ LogoutStep(l)
  PROVE  TypeOK'
<1> USE CallsApart
<1>1. /\ logout \in [Logouts -> LogoutStates] /\ call \in [Calls -> CallStates] /\ l \in Calls
      /\ access \in Pairs \cup {NoToken}
  BY DEF TypeOK
<1>2. CASE UserLogout(l) \/ HandleAuthenticationLost(l)
  <2>1. StartLogout(l)
    BY <1>2 DEF UserLogout, HandleAuthenticationLost
  <2>2. call' \in [Calls -> CallStates] /\ logout' \in [Logouts -> LogoutStates]
    BY <1>1, <2>1, CallForms DEF StartLogout, LogoutStates
  <2>3. lost' \in BOOLEAN /\ UNCHANGED <<server, store, op, current, login, shown, history>>
    BY <1>2 DEF UserLogout, HandleAuthenticationLost, TypeOK
  <2> QED
    BY <2>2, <2>3 DEF TypeOK, Server!ChainTypeOK, server, store, history
<1>3. CASE LogoutRead(l)
  <2>1. Begin(l) \in [Calls -> CallStates]
    BY <1>1, CallForms DEF Begin
  <2>2. call' \in [Calls -> CallStates] /\ logout' \in [Logouts -> LogoutStates]
    BY <1>1, <1>3, <2>1 DEF LogoutRead, LogoutStates
  <2> QED
    BY <1>3, <2>2 DEF LogoutRead, TypeOK, Server!ChainTypeOK, server, store, history
<1>4. CASE LogoutPosted(l)
  <2>1. call' \in [Calls -> CallStates] /\ logout' \in [Logouts -> LogoutStates]
    BY <1>1, <1>4, CallForms DEF LogoutPosted, LogoutStates
  <2> QED
    BY <1>4, <2>1 DEF LogoutPosted, TypeOK, Server!ChainTypeOK, server, store, history
<1>5. CASE LogoutClear(l)
  <2>1. logout' \in [Logouts -> LogoutStates] /\ overtaken' \in BOOLEAN
    BY <1>1, <1>5 DEF LogoutClear, LogoutStates, Overtake, TypeOK
  <2> QED
    BY <1>5, <2>1 DEF LogoutClear, ClearTokens, TypeOK, Server!ChainTypeOK, server
<1> QED
  BY <1>2, <1>3, <1>4, <1>5 DEF LogoutStep

LEMMA OtherStepTypes ==
  ASSUME TypeOK, Restart \/ \E s \in Sessions : ServerCloses(s)
  PROVE  TypeOK'
<1> USE CallsApart
<1>1. CASE Restart
  <2>1. /\ call' \in [Calls -> CallStates] /\ op' \in [Calls -> OpStates]
        /\ \A c \in Calls : op'[c] = NoOp /\ current' # c
    BY <1>1, CallForms, OpForms DEF Restart
  <2>2. logout' \in [Logouts -> LogoutStates] /\ login' \in LoginStates
    BY <1>1, LoginForms DEF Restart, LogoutStates
  <2>3. interrupted' \subseteq Pairs /\ overtaken' \in BOOLEAN
    BY <1>1 DEF Restart, TypeOK
  <2> QED
    BY <1>1, <2>1, <2>2, <2>3 DEF Restart, TypeOK, Server!ChainTypeOK, server, store
<1>2. ASSUME NEW s \in Sessions, ServerCloses(s)
      PROVE  TypeOK'
  <2>1. Server!ChainTypeOK'
    BY <1>2, CloseShape DEF ServerCloses, TypeOK, Server!ChainTypeOK
  <2> QED
    BY <1>2, <2>1 DEF ServerCloses, TypeOK, store, history
<1> QED
  BY <1>1, <1>2

LEMMA NextTypes == TypeOK /\ [Next]_vars => TypeOK'
<1> SUFFICES ASSUME TypeOK, [Next]_vars PROVE TypeOK'
  OBVIOUS
<1>1. CASE UNCHANGED vars
  BY <1>1 DEF vars, server, store, history, TypeOK, Server!ChainTypeOK
<1>2. ASSUME NEW c \in Calls, PageCall(c) \/ CallStep(c) \/ RefreshStep(c)
      PROVE  TypeOK'
  BY <1>2, CallStepTypes, RefreshStepTypes
<1>3. ASSUME NEW l \in Logouts, UserLogout(l) \/ HandleAuthenticationLost(l) \/ LogoutStep(l)
      PROVE  TypeOK'
  BY <1>3, LogoutStepTypes
<1> QED
  BY <1>1, <1>2, <1>3, LoginStepTypes, OtherStepTypes DEF Next

\* Every variable keeps its type, and there is at most one refresh at a time:
\* the one that _refreshFuture names and every 401 joins.
THEOREM Types == Spec => []TypeOK
<1>1. Init => TypeOK
  BY InitTypes
<1>2. TypeOK /\ [Next]_vars => TypeOK'
  BY NextTypes
<1> QED
  BY <1>1, <1>2, PTL DEF Spec
-----------------------------------------------------------------------------
\* A refresh that goes on, or the step that ends it, is the only one.
LEMMA OnlyRefresh ==
  ASSUME TypeOK, NEW c \in Calls, op[c].at # "none"
  PROVE  \A d \in Calls \ {c} : op[d] = NoOp /\ op[d].at = "none"
<1>1. op[c] # NoOp
  BY OpShape DEF TypeOK
<1> QED
  BY <1>1, OpForms DEF TypeOK

\* Nobody but the refreshes changes what the tokens are judged by.
LEMMA TokensStay ==
  ASSUME ServerInv, TokenInv, UNCHANGED <<phase, bearer, redeemed, op, interrupted, refresh, login>>
  PROVE  ServerInv' /\ TokenInv'
BY DEF ServerInv, TokenInv, OpHolds, StoredIsLive, LoginIsFresh, Given

LEMMA CloseTokens ==
  ASSUME TypeOK, ServerInv, TokenInv, NEW s \in Sessions, Server!Close({s}),
         UNCHANGED <<op, interrupted, refresh, login>>
  PROVE  ServerInv' /\ TokenInv'
BY CloseShape DEF ServerInv, TokenInv, OpHolds, StoredIsLive, LoginIsFresh, Given

LEMMA CallStepTokens ==
  ASSUME TypeOK, ServerInv, TokenInv, NEW c \in Calls, CallStep(c) \/ PageCall(c)
  PROVE  ServerInv' /\ TokenInv'
<1>1. CASE Succeed(c)
  <2>1. call[c].token \in Pairs
    BY <1>1, CallShape DEF Succeed, IsSent, TypeOK
  <2>2. Owner(call[c].token) \in Sessions
    BY <2>1, PairShape
  <2>3. UNCHANGED <<op, interrupted, refresh, login>>
    BY <1>1 DEF Succeed, store, history
  <2>4. Server!Close({Owner(call[c].token)}) \/ UNCHANGED server
    BY <1>1 DEF Succeed
  <2> QED
    BY <2>2, <2>3, <2>4, CloseTokens, TokensStay DEF server
<1>2. CASE PageCall(c) \/ Fail(c) \/ RepeatFails(c) \/ Resume(c)
  BY <1>2, TokensStay DEF PageCall, Fail, RepeatFails, Resume, server, store, history
<1>3. CASE Unauthorized(c)
  <2> DEFINE o == SharedRefresh(c)
  <2>1. o \in Calls
    BY DEF SharedRefresh
  <2>2. /\ op' = IF op[o] = NoOp THEN [op EXCEPT ![o] = [at |-> "read"]] ELSE op
        /\ UNCHANGED <<phase, bearer, redeemed, interrupted, refresh, login>>
    BY <1>3 DEF Unauthorized, server, store, history
  <2> HIDE DEF o
  <2>3. CASE op[o] # NoOp
    BY <2>2, <2>3, TokensStay
  <2>4. CASE op[o] = NoOp
    <3>1. \A d \in Calls : op'[d] = IF d = o THEN [at |-> "read"] ELSE op[d]
      BY <2>1, <2>2, <2>4 DEF TypeOK
    <3>2. op[o].at = "none" /\ op'[o].at = "read"
      BY <2>1, <2>4, <3>1, OpForms
    <3>3. ServerInv'
      BY <2>2 DEF ServerInv, Given
    <3>4. ASSUME NEW d \in Calls
          PROVE  OpHolds(d)'
      <4>1. OpHolds(d)
        BY DEF TokenInv
      <4> QED
        BY <2>2, <3>1, <3>2, <4>1 DEF OpHolds, Given
    <3>5. StoredIsLive'
      BY <2>2, <3>1, <3>2 DEF TokenInv, StoredIsLive, Given
    <3>6. LoginIsFresh'
      BY <2>2, <3>1, <3>2 DEF TokenInv, LoginIsFresh, Given
    <3> QED
      BY <3>3, <3>4, <3>5, <3>6 DEF TokenInv
  <2> QED
    BY <2>3, <2>4
<1> QED
  BY <1>1, <1>2, <1>3 DEF CallStep

\* The steps of the one refresh: it posts the stored token, redeems it for a
\* new pair, and stores that pair or clears what is stored.
LEMMA RefreshStepTokens ==
  ASSUME TypeOK, ServerInv, TokenInv, NEW c \in Calls, RefreshStep(c)
  PROVE  ServerInv' /\ TokenInv'
<1>1. /\ op[c] \in OpStates /\ op \in [Calls -> OpStates] /\ refresh \in Pairs \cup {NoToken}
      /\ redeemed \subseteq Pairs /\ bearer \in [Sessions -> Pairs \cup {NoToken}]
      /\ login \in LoginStates
  BY DEF TypeOK, Server!ChainTypeOK
<1>2. op[c].at # "none"
  BY <1>1 DEF RefreshStep, RefreshRead, RefreshGranted, RefreshFails, RefreshSaveAccess,
     RefreshSaveRefresh, RefreshLoses
<1>3. \A d \in Calls \ {c} : op[d].at = "none" /\ op'[d] = op[d]
  <2>1. \A d \in Calls \ {c} : op[d].at = "none"
    BY <1>2, OnlyRefresh
  <2>2. \A d \in Calls \ {c} : op'[d] = op[d]
    BY <1>1 DEF RefreshStep, RefreshRead, RefreshGranted, RefreshFails, RefreshSaveAccess,
       RefreshSaveRefresh, RefreshLoses, FinishOp, GotoOp
  <2> QED
    BY <2>1, <2>2
<1>4. OpHolds(c) /\ StoredIsLive /\ LoginIsFresh
  BY DEF TokenInv
<1>5. ASSUME OpHolds(c)'
      PROVE  \A d \in Calls : OpHolds(d)'
  BY <1>3, <1>5 DEF OpHolds
<1>6. CASE RefreshRead(c)
  <2>1. /\ UNCHANGED <<phase, bearer, redeemed, interrupted, refresh, login>>
        /\ op[c].at = "read"
        /\ op'[c] = IF refresh = NoToken THEN [at |-> "lose"] ELSE [at |-> "posted", token |-> refresh]
    BY <1>1, <1>6 DEF RefreshRead, GotoOp, server, store, history
  <2>2. refresh \in redeemed => refresh \in interrupted
    BY <1>3, <1>4, <2>1 DEF StoredIsLive
  <2>3. ServerInv'
    BY <2>1 DEF ServerInv, Given
  <2>4. OpHolds(c)'
    BY <1>4, <2>1, <2>2 DEF OpHolds, StoredIsLive, Given
  <2>5. StoredIsLive'
    BY <1>4, <2>1, <2>2 DEF StoredIsLive, Given
  <2>6. LoginIsFresh'
    BY <1>3, <1>4, <2>1 DEF LoginIsFresh, Given
  <2> QED
    BY <1>5, <2>3, <2>4, <2>5, <2>6 DEF TokenInv
<1>7. CASE RefreshGranted(c)
  <2> DEFINE t == op[c].token
             s == Owner(t)
             q == <<s, bearer[s][2] + 1>>
  <2>1. t \in Pairs /\ s \in Sessions /\ t[2] \in Nat /\ bearer[s] = t /\ HandOnNext(s)
    BY <1>1, <1>7, OpShape, PairShape DEF RefreshGranted
  <2>2. /\ q \in Pairs /\ q # NoToken
        /\ bearer' = [bearer EXCEPT ![s] = q]
        /\ phase' = phase /\ phase[s] = "open" /\ redeemed' = redeemed \cup {t}
    BY <2>1, HandOnShape, PairShape
  <2>3. /\ UNCHANGED <<interrupted, refresh, login>>
        /\ op'[c] = [at |-> "granted", pair |-> bearer'[s]] /\ op[c].at = "posted"
    BY <1>1, <1>7 DEF RefreshGranted, GotoOp, store, history
  <2>4. Owner(q) = s /\ q[2] = t[2] + 1
    BY <2>1 DEF Owner
  <2>5. t[2] > 0
    BY <2>1, PairShape DEF ServerInv
  <2> HIDE DEF s, q, t
  <2>6. bearer'[s] = q /\ \A r \in Sessions \ {s} : bearer'[r] = bearer[r]
    BY <1>1, <2>1, <2>2
  <2>7. \A p \in Pairs : Given(p) => Given(p)'
    BY <2>2, <2>6, PairShape DEF Given
  <2>8. ServerInv'
    <3>1. ASSUME NEW r \in Sessions
          PROVE  /\ phase'[r] = "unopened" <=> bearer'[r] = NoToken
                 /\ bearer'[r] # NoToken => Owner(bearer'[r]) = r /\ bearer'[r][2] > 0
      BY <2>1, <2>2, <2>4, <2>5, <2>6 DEF ServerInv
    <3>2. ASSUME NEW p \in redeemed'
          PROVE  Given(p)' /\ p[2] < bearer'[Owner(p)][2]
      <4>1. CASE p = t
        <5>1. Owner(p) = s
          BY <4>1 DEF s
        <5> QED
          BY <2>1, <2>2, <2>4, <2>6, <4>1, <5>1 DEF Given
      <4>2. CASE p \in redeemed
        <5>1. Given(p) /\ p[2] < bearer[Owner(p)][2] /\ p \in Pairs
          BY <1>1, <4>2 DEF ServerInv
        <5>2. Owner(p) \in Sessions /\ p[2] \in Nat
          BY <5>1, PairShape
        <5>3. CASE Owner(p) = s
          BY <2>1, <2>4, <2>6, <2>7, <5>1, <5>2, <5>3
        <5>4. CASE Owner(p) # s
          BY <2>6, <2>7, <5>1, <5>2, <5>4
        <5> QED
          BY <5>3, <5>4
      <4> QED
        BY <2>2, <4>1, <4>2
    <3> QED
      BY <3>1, <3>2 DEF ServerInv
  <2>9. OpHolds(c)'
    <3>1. op'[c].at = "granted" /\ op'[c].pair = q
      BY <2>3, <2>6
    <3>2. bearer'[Owner(q)] = q /\ q[2] > 1
      BY <2>1, <2>4, <2>5, <2>6
    <3> QED
      BY <3>1, <3>2 DEF OpHolds
  <2>10. StoredIsLive'
    BY <1>1, <1>4, <2>3, <2>7 DEF StoredIsLive
  <2>11. LoginIsFresh'
    <3> SUFFICES ASSUME login.at \in {"opened", "half"}
                 PROVE  LoginIsFresh'
      BY <2>3 DEF LoginIsFresh
    <3>1. login.pair \in Pairs /\ login.pair # t
      BY <1>1, <1>4, <2>3, LoginShape DEF LoginIsFresh, t
    <3>2. \A d \in Calls : op'[d].at # "posted"
      BY <1>3, <2>3
    <3> QED
      BY <1>4, <2>2, <2>3, <2>7, <3>1, <3>2 DEF LoginIsFresh
  <2> QED
    BY <1>5, <2>8, <2>9, <2>10, <2>11 DEF TokenInv
<1>8. CASE RefreshFails(c) \/ RefreshSaveAccess(c)
  <2>1. /\ UNCHANGED <<phase, bearer, redeemed, interrupted, refresh, login>>
        /\ \/ op'[c] = [at |-> "lose"] /\ op[c].at \in {"posted", "granted"}
           \/ op'[c] = [at |-> "half", pair |-> op[c].pair] /\ op[c].at = "granted"
    BY <1>1, <1>8 DEF RefreshFails, RefreshSaveAccess, GotoOp, server, store, history
  <2>2. op'[c].at \in {"lose", "half"}
    BY <2>1
  <2>3. ServerInv'
    BY <2>1 DEF ServerInv, Given
  <2>4. OpHolds(c)'
    BY <1>4, <2>1 DEF OpHolds, Given
  <2>5. StoredIsLive'
    BY <1>4, <2>1, <2>2 DEF StoredIsLive, Given
  <2>6. LoginIsFresh'
    BY <1>3, <1>4, <2>1, <2>2 DEF LoginIsFresh, Given
  <2> QED
    BY <1>5, <2>3, <2>4, <2>5, <2>6 DEF TokenInv
<1>9. CASE RefreshSaveRefresh(c)
  <2> DEFINE q == op[c].pair
  <2>1. /\ UNCHANGED <<phase, bearer, redeemed, interrupted, login>>
        /\ op[c].at = "half" /\ refresh' = q /\ q \in Pairs /\ op'[c] = NoOp
    BY <1>1, <1>9, OpShape DEF RefreshSaveRefresh, FinishOp, GotoOp, server, history
  <2>2. bearer[Owner(q)] = q /\ q[2] > 1 /\ q # NoToken
    BY <1>4, <2>1, PairShape DEF OpHolds
  <2> HIDE DEF q
  <2>3. q \notin redeemed
    <3>1. q[2] \in Nat
      BY <2>1, PairShape
    <3> QED
      BY <2>2, <3>1 DEF ServerInv
  <2>4. op'[c].at = "none"
    BY <2>1, OpForms
  <2>5. ServerInv'
    BY <2>1 DEF ServerInv, Given
  <2>6. OpHolds(c)'
    BY <2>4 DEF OpHolds
  <2>7. StoredIsLive'
    BY <2>1, <2>2, <2>3 DEF StoredIsLive, Given
  <2>8. LoginIsFresh'
    BY <1>3, <1>4, <2>1, <2>2, <2>4 DEF LoginIsFresh, Given
  <2> QED
    BY <1>5, <2>5, <2>6, <2>7, <2>8 DEF TokenInv
<1>10. CASE RefreshLoses(c)
  <2>1. /\ UNCHANGED <<phase, bearer, redeemed, interrupted, login>>
        /\ refresh' = NoToken /\ op'[c] = NoOp
    BY <1>1, <1>10 DEF RefreshLoses, ClearTokens, FinishOp, GotoOp, server, history
  <2>2. op'[c].at = "none"
    BY <2>1, OpForms
  <2>3. ServerInv'
    BY <2>1 DEF ServerInv, Given
  <2>4. OpHolds(c)'
    BY <2>2 DEF OpHolds
  <2>5. StoredIsLive'
    BY <1>1, <2>1, CallsApart DEF StoredIsLive
  <2>6. LoginIsFresh'
    <3> SUFFICES ASSUME login.at \in {"opened", "half"}
                 PROVE  LoginIsFresh'
      BY <2>1 DEF LoginIsFresh
    <3>1. login.pair # NoToken
      BY <1>1, LoginShape, CallsApart
    <3> QED
      BY <1>3, <1>4, <2>1, <2>2, <3>1 DEF LoginIsFresh, Given
  <2> QED
    BY <1>5, <2>3, <2>4, <2>5, <2>6 DEF TokenInv
<1> QED
  BY <1>6, <1>7, <1>8, <1>9, <1>10 DEF RefreshStep
\* Clearing the store, or ending a login, takes tokens out of reach.
LEMMA ClearedTokens ==
  ASSUME TypeOK, ServerInv, TokenInv,
         UNCHANGED <<phase, bearer, redeemed, op, interrupted>>,
         refresh' \in {refresh, NoToken},
         login' = login \/ login'.at \notin {"opened", "half"}
  PROVE  ServerInv' /\ TokenInv'
<1>1. redeemed \subseteq Pairs /\ login \in LoginStates
  BY DEF TypeOK, Server!ChainTypeOK
<1>2. ServerInv'
  BY DEF ServerInv, Given
<1>3. ASSUME NEW d \in Calls PROVE OpHolds(d)'
  <2>1. OpHolds(d)
    BY DEF TokenInv
  <2> QED
    BY <2>1 DEF OpHolds, Given
<1>4. StoredIsLive'
  BY <1>1, CallsApart DEF TokenInv, StoredIsLive, Given
<1>5. LoginIsFresh'
  <2> SUFFICES ASSUME login'.at \in {"opened", "half"}
               PROVE  LoginIsFresh'
    BY DEF LoginIsFresh
  <2>1. login' = login /\ login.pair # NoToken
    BY <1>1, LoginShape, CallsApart
  <2> QED
    BY <2>1 DEF TokenInv, LoginIsFresh, Given
<1> QED
  BY <1>2, <1>3, <1>4, <1>5 DEF TokenInv

LEMMA LoginOpenedTokens ==
  ASSUME TypeOK, ServerInv, TokenInv, LoginOpened
  PROVE  ServerInv' /\ TokenInv'
<1>1. PICK s \in Sessions : OpenWith(s) /\ login' = [at |-> "opened", pair |-> <<s, 1>>]
  BY DEF LoginOpened
<1> DEFINE q == <<s, 1>>
<1>2. /\ UNCHANGED <<op, interrupted, refresh>>
      /\ op \in [Calls -> OpStates] /\ redeemed \subseteq Pairs
      /\ bearer \in [Sessions -> Pairs \cup {NoToken}]
      /\ refresh \in Pairs \cup {NoToken}
  BY DEF LoginOpened, store, history, TypeOK, Server!ChainTypeOK
<1>3. /\ phase[s] = "unopened" /\ q \in Pairs /\ q \notin redeemed
      /\ bearer' = [bearer EXCEPT ![s] = q]
      /\ phase' = [phase EXCEPT ![s] = "open"] /\ redeemed' = redeemed
  BY <1>1, OpenShape
<1>4. Owner(q) = s /\ q[2] = 1 /\ q # NoToken /\ bearer[s] = NoToken
  BY <1>3, PairShape DEF Owner, ServerInv
<1>5. login'.at = "opened" /\ login'.pair = q
  BY <1>1
<1> HIDE DEF q
<1>6. bearer'[s] = q /\ \A r \in Sessions \ {s} : bearer'[r] = bearer[r]
  BY <1>2, <1>3
<1>7. \A p \in Pairs : Given(p) => Given(p)' /\ p # q /\ bearer'[Owner(p)] = bearer[Owner(p)]
  BY <1>4, <1>6, PairShape DEF Given
<1>8. ServerInv'
  <2>1. ASSUME NEW r \in Sessions
        PROVE  /\ phase'[r] = "unopened" <=> bearer'[r] = NoToken
               /\ bearer'[r] # NoToken => Owner(bearer'[r]) = r /\ bearer'[r][2] > 0
    BY <1>3, <1>4, <1>6 DEF ServerInv, TypeOK, Server!ChainTypeOK
  <2>2. ASSUME NEW p \in redeemed'
        PROVE  Given(p)' /\ p[2] < bearer'[Owner(p)][2]
    BY <1>2, <1>3, <1>7 DEF ServerInv
  <2> QED
    BY <2>1, <2>2 DEF ServerInv
<1>9. ASSUME NEW d \in Calls PROVE OpHolds(d)'
  <2>1. OpHolds(d) /\ op'[d] = op[d] /\ op[d] \in OpStates
    BY <1>2 DEF TokenInv
  <2>2. op[d].at = "posted" => Given(op[d].token)'
    BY <1>7, <2>1, OpShape DEF OpHolds
  <2>3. op[d].at \in {"granted", "half"} =>
          bearer'[Owner(op[d].pair)] = op[d].pair /\ op[d].pair[2] > 1
    BY <1>7, <2>1, OpShape, PairShape DEF OpHolds, Given
  <2> QED
    BY <1>2, <1>3, <2>1, <2>2, <2>3 DEF OpHolds
<1>10. StoredIsLive'
  BY <1>2, <1>3, <1>7 DEF TokenInv, StoredIsLive
<1>11. LoginIsFresh'
  <2>1. Given(q)'
    BY <1>4, <1>6 DEF Given
  <2>2. q # refresh
    BY <1>2, <1>4, <1>7 DEF TokenInv, StoredIsLive
  <2>3. \A d \in Calls : op[d].at = "posted" => op[d].token # q
    BY <1>2, <1>7, OpShape DEF TokenInv, OpHolds
  <2> QED
    BY <1>2, <1>3, <1>4, <1>5, <2>1, <2>2, <2>3 DEF LoginIsFresh
<1> QED
  BY <1>8, <1>9, <1>10, <1>11 DEF TokenInv

LEMMA LoginStepTokens ==
  ASSUME TypeOK, ServerInv, TokenInv, LoginPost \/ LoginStep
  PROVE  ServerInv' /\ TokenInv'
<1>1. CASE LoginPost \/ LoginFails \/ Restore \/ MeAnswered \/ MeFailed
  <2>1. UNCHANGED <<phase, bearer, redeemed, op, interrupted>>
    BY <1>1 DEF LoginPost, LoginFails, Restore, MeAnswered, MeFailed, server, history
  <2>2. refresh' \in {refresh, NoToken}
    BY <1>1 DEF LoginPost, LoginFails, Restore, MeAnswered, MeFailed, store, ClearTokens
  <2>3. login'.at \notin {"opened", "half"}
    BY <1>1, LoginForms DEF LoginPost, LoginFails, Restore, MeAnswered, MeFailed
  <2> QED
    BY <2>1, <2>2, <2>3, ClearedTokens
<1>2. CASE LoginSaveAccess
  <2>1. /\ UNCHANGED <<phase, bearer, redeemed, op, interrupted, refresh>>
        /\ login'.at = "half" /\ login'.pair = login.pair /\ login.at = "opened"
    BY <1>2 DEF LoginSaveAccess, server
  <2> QED
    BY <2>1 DEF ServerInv, TokenInv, OpHolds, StoredIsLive, LoginIsFresh, Given
<1>3. CASE LoginSaveRefresh
  <2>1. /\ UNCHANGED <<phase, bearer, redeemed, op, interrupted>>
        /\ login'.at = "me" /\ login.at = "half" /\ refresh' = login.pair
    BY <1>3 DEF LoginSaveRefresh, StoredRefresh, server, history
  <2> QED
    BY <2>1 DEF ServerInv, TokenInv, OpHolds, StoredIsLive, LoginIsFresh, Given
<1> QED
  BY <1>1, <1>2, <1>3, LoginOpenedTokens DEF LoginStep

LEMMA OtherStepTokens ==
  ASSUME TypeOK, ServerInv, TokenInv,
         \/ \E l \in Logouts : UserLogout(l) \/ HandleAuthenticationLost(l) \/ LogoutStep(l)
         \/ \E s \in Sessions : ServerCloses(s)
         \/ Restart
         \/ UNCHANGED vars
  PROVE  ServerInv' /\ TokenInv'
<1>1. ASSUME NEW l \in Logouts, UserLogout(l) \/ HandleAuthenticationLost(l) \/ LogoutStep(l)
      PROVE  ServerInv' /\ TokenInv'
  <2>1. UNCHANGED <<phase, bearer, redeemed, op, interrupted, login>> /\ refresh' \in {refresh, NoToken}
    BY <1>1 DEF UserLogout, HandleAuthenticationLost, LogoutStep, LogoutRead, LogoutPosted,
       LogoutClear, ClearTokens, server, store, history
  <2> QED
    BY <2>1, ClearedTokens
<1>2. ASSUME NEW s \in Sessions, ServerCloses(s)
      PROVE  ServerInv' /\ TokenInv'
  BY <1>2, CloseTokens DEF ServerCloses, store, history
<1>3. CASE Restart
  <2>1. /\ UNCHANGED <<phase, bearer, redeemed, refresh>>
        /\ \A c \in Calls : op'[c].at = "none"
        /\ login'.at = "restore"
        /\ interrupted' = interrupted \cup (IF Underway THEN {refresh} \ {NoToken} ELSE {})
    BY <1>3, OpForms DEF Restart, server, store
  <2>2. redeemed \subseteq Pairs /\ \A c \in Calls : op[c] \in OpStates
    BY DEF TypeOK, Server!ChainTypeOK
  <2>3. ServerInv'
    BY <2>1 DEF ServerInv, Given
  <2>4. refresh \in redeemed => refresh \in interrupted'
    <3>1. (\E c \in Calls : op[c].at \in {"granted", "half", "lose"}) => Underway
      BY <2>2, OpShape DEF Underway
    <3>2. refresh \in redeemed => refresh # NoToken
      BY <2>2, CallsApart
    <3> QED
      BY <2>1, <3>1, <3>2 DEF TokenInv, StoredIsLive
  <2>5. StoredIsLive'
    BY <2>1, <2>4 DEF TokenInv, StoredIsLive, Given
  <2>6. LoginIsFresh' /\ \A c \in Calls : OpHolds(c)'
    BY <2>1 DEF LoginIsFresh, OpHolds
  <2> QED
    BY <2>3, <2>5, <2>6 DEF TokenInv
<1> QED
  BY <1>1, <1>2, <1>3, TokensStay DEF vars, server, store, history

LEMMA InitTokens == Init => ServerInv /\ TokenInv
<1> SUFFICES ASSUME Init PROVE ServerInv /\ TokenInv
  OBVIOUS
<1>1. /\ \A s \in Sessions : phase[s] = "unopened" /\ bearer[s] = NoToken
      /\ redeemed = {} /\ refresh = NoToken /\ login.at = "none"
      /\ \A c \in Calls : op[c].at = "none"
  BY OpForms, LoginForms DEF Init, Server!ChainInit
<1> QED
  BY <1>1 DEF ServerInv, TokenInv, OpHolds, StoredIsLive, LoginIsFresh

LEMMA NextTokens ==
  ASSUME TypeOK, ServerInv, TokenInv, [Next]_vars
  PROVE  ServerInv' /\ TokenInv'
<1>1. ASSUME NEW c \in Calls, PageCall(c) \/ CallStep(c) \/ RefreshStep(c)
      PROVE  ServerInv' /\ TokenInv'
  BY <1>1, CallStepTokens, RefreshStepTokens
<1> QED
  BY <1>1, LoginStepTokens, OtherStepTokens DEF Next

\* No refresh token is presented twice by the app, unless the app was killed
\* while a refresh was under way: a refresh posts what is stored, no other is
\* posted meanwhile, and whatever becomes of it either its successor is stored
\* or the storage is cleared.
THEOREM PresentedOnce == Spec => []NoTokenReplayed
<1>1. Init => TypeOK /\ ServerInv /\ TokenInv
  BY InitTypes, InitTokens
<1>2. TypeOK /\ ServerInv /\ TokenInv /\ [Next]_vars => (TypeOK /\ ServerInv /\ TokenInv)'
  BY NextTypes, NextTokens
<1>3. TokenInv => NoTokenReplayed
  BY DEF TokenInv, OpHolds, NoTokenReplayed
<1> QED
  BY <1>1, <1>2, <1>3, PTL DEF Spec
-----------------------------------------------------------------------------
\* What a step of a call does to the call itself, and to no other.
LEMMA CallStepShape ==
  ASSUME TypeOK, NEW c \in Calls, CallStep(c)
  PROVE  /\ \A d \in Calls \ {c} : call'[d] = call[d]
         /\ call[c].at \in {"sent", "resent", "resumed"}
         /\ c = Me => /\ call'[Me].at # "none"
                      /\ call'[Me].at \in {"sent", "resent"} => call'[Me].token = access
                      /\ call'[Me].at = "settled" /\ call'[Me].result = "ok" =>
                           /\ call[Me].at \in {"sent", "resent"} /\ call[Me].token # NoToken
                           /\ call'[Me].token = call[Me].token
<1>1. call \in [Calls -> CallStates]
  BY DEF TypeOK
<1>2. CASE Succeed(c)
  BY <1>1, <1>2, CallsApart DEF Succeed, IsSent, Settle, Succeeded
<1>3. CASE Fail(c) \/ RepeatFails(c)
  BY <1>1, <1>3, CallsApart DEF Fail, RepeatFails, Settle, Failed, Stuck
<1>4. CASE Unauthorized(c)
  BY <1>1, <1>4, CallsApart DEF Unauthorized
<1>5. CASE Resume(c)
  BY <1>1, <1>5, CallsApart DEF Resume, Settle, Failed
<1> QED
  BY <1>2, <1>3, <1>4, <1>5 DEF CallStep

\* Steps of a refresh wake who waits for it.
LEMMA RefreshStepCalls ==
  ASSUME TypeOK, NEW c \in Calls, RefreshStep(c)
  PROVE  \A d \in Calls :
           \/ call'[d] = call[d]
           \/ /\ call[d].at = "waiting"
              /\ \/ call'[d].at = "resumed"
                 \/ call'[d].at = "settled" /\ call'[d].result = "unauthorized"
                 \/ d \in Pages
<1>1. CASE RefreshSaveRefresh(c)
  <2> DEFINE x == [at |-> "resumed"]
  <2>1. call' = Wake(c, x) /\ x \in CallStates /\ x.at = "resumed"
    BY <1>1, CallForms DEF RefreshSaveRefresh
  <2> HIDE DEF x
  <2>2. \A d \in Calls : call'[d] = IF call[d] = [at |-> "waiting", on |-> c] THEN x ELSE call[d]
    BY <2>1, WakeShape
  <2>3. \A d \in Calls : call[d] = [at |-> "waiting", on |-> c] => call[d].at = "waiting"
    OBVIOUS
  <2> QED
    BY <2>1, <2>2, <2>3
<1>2. CASE RefreshLoses(c)
  <2> DEFINE x == Failed("unauthorized")
             woken == Wake(c, x)
  <2>1. call' = [d \in Calls |-> IF woken[d] # call[d] /\ d \in Pages THEN NoCall ELSE woken[d]]
    BY <1>2 DEF RefreshLoses
  <2>2. x \in CallStates /\ x.at = "settled" /\ x.result = "unauthorized"
    BY CallForms DEF Failed
  <2> HIDE DEF x
  <2>3. \A d \in Calls : woken[d] = IF call[d] = [at |-> "waiting", on |-> c] THEN x ELSE call[d]
    BY <2>2, WakeShape
  <2> HIDE DEF woken
  <2>4. \A d \in Calls : call[d] = [at |-> "waiting", on |-> c] => call[d].at = "waiting"
    OBVIOUS
  <2> QED
    BY <2>1, <2>2, <2>3, <2>4
<1>3. CASE RefreshRead(c) \/ RefreshGranted(c) \/ RefreshFails(c) \/ RefreshSaveAccess(c)
  BY <1>3 DEF RefreshRead, RefreshGranted, RefreshFails, RefreshSaveAccess
<1> QED
  BY <1>1, <1>2, <1>3 DEF RefreshStep

LEMMA InitMe == Init => MeInv /\ OwnerInv
<1> SUFFICES ASSUME Init PROVE MeInv /\ OwnerInv
  OBVIOUS
<1>1. /\ call[Me] = NoCall /\ call[Me].at = "none" /\ login = NoLogin /\ login.at = "none"
      /\ shown = NoSession /\ refresh = NoToken /\ access = NoToken
      /\ \A c \in Calls : op[c].at = "none"
  BY CallForms, OpForms, LoginForms, CallsApart DEF Init
<1> QED
  BY <1>1 DEF MeInv, OwnerInv, Agreement, KeysAgree, StoredUnseen, MeAgrees, OpAgrees

LEMMA NextMe ==
  ASSUME TypeOK, MeInv, [Next]_vars
  PROVE  MeInv'
<1>1. /\ call \in [Calls -> CallStates] /\ call[Me] \in CallStates /\ Me \in Calls
      /\ login \in LoginStates
      /\ (call[Me] = NoCall <=> call[Me].at = "none") /\ (login = NoLogin <=> login.at = "none")
  BY CallsApart, CallShape, LoginShape DEF TypeOK
<1>2. call'[Me] \in CallStates /\ (call'[Me] = NoCall <=> call'[Me].at = "none")
  <2>1. TypeOK'
    BY NextTypes
  <2>2. call'[Me] \in CallStates
    BY <1>1, <2>1 DEF TypeOK
  <2> QED
    BY <2>2, CallShape
<1>3. ASSUME NEW c \in Calls, PageCall(c) \/ CallStep(c) \/ RefreshStep(c)
      PROVE  MeInv'
  <2>1. UNCHANGED <<login, shown>>
    BY <1>3 DEF PageCall, CallStep, Succeed, Fail, Unauthorized, RepeatFails, Resume,
       RefreshStep, RefreshRead, RefreshGranted, RefreshFails, RefreshSaveAccess,
       RefreshSaveRefresh, RefreshLoses, history
  <2>2. call'[Me].at = "none" <=> call[Me].at = "none"
    <3>1. CASE PageCall(c)
      BY <1>1, <3>1, CallsApart DEF PageCall, Begin
    <3>2. CASE CallStep(c)
      BY <1>1, <3>2, CallStepShape
    <3>3. CASE RefreshStep(c)
      BY <1>1, <3>3, CallsApart, RefreshStepCalls
    <3> QED
      BY <1>3, <3>1, <3>2, <3>3
  <2> QED
    BY <1>1, <1>2, <2>1, <2>2 DEF MeInv
<1>4. CASE LoginPost \/ LoginOpened \/ LoginSaveAccess \/ LoginFails
  <2>1. /\ call' = call /\ shown' = shown /\ shown = NoSession
        /\ login.at \notin {"me", "restoring"} /\ login'.at \notin {"me", "restoring"}
    BY <1>1, <1>4, LoginForms
    DEF LoginPost, LoginOpened, LoginSaveAccess, LoginFails, history, MeInv
  <2> QED
    BY <2>1 DEF MeInv
<1>5. CASE LoginSaveRefresh
  <2>1. call'[Me].at = "sent" /\ login'.at = "me" /\ shown' = shown /\ login.at = "half"
    BY <1>1, <1>5 DEF LoginSaveRefresh, Begin
  <2> QED
    BY <1>1, <1>2, <2>1 DEF MeInv
<1>6. CASE Restore
  <2>1. shown' = NoSession
    BY <1>1, <1>6 DEF Restore, MeInv
  <2>2. CASE refresh = NoToken
    BY <1>1, <1>6, <2>1, <2>2, LoginForms DEF Restore, MeInv
  <2>3. CASE refresh # NoToken
    <3>1. call'[Me].at = "sent" /\ login'.at = "restoring"
      BY <1>1, <1>6, <2>3 DEF Restore, Begin
    <3> QED
      BY <1>2, <2>1, <3>1 DEF MeInv
  <2> QED
    BY <2>2, <2>3
<1>7. CASE MeAnswered \/ MeFailed
  <2>1. call'[Me] = NoCall /\ login' = NoLogin
    BY <1>1, <1>7 DEF MeAnswered, MeFailed
  <2> QED
    BY <2>1, LoginForms DEF MeInv
<1>8. ASSUME NEW l \in Logouts, UserLogout(l) \/ HandleAuthenticationLost(l) \/ LogoutStep(l)
      PROVE  MeInv'
  <2>1. call'[Me] = call[Me] /\ login' = login /\ shown' \in {shown, NoSession}
    BY <1>1, <1>8, CallsApart DEF UserLogout, HandleAuthenticationLost, LogoutStep, LogoutRead,
       LogoutPosted, LogoutClear, StartLogout, Begin
  <2> QED
    BY <2>1 DEF MeInv
<1>9. CASE Restart
  BY <1>9, CallsApart DEF Restart, MeInv
<1>10. ASSUME NEW s \in Sessions, ServerCloses(s)
       PROVE  MeInv'
  BY <1>10 DEF ServerCloses, MeInv
<1>11. CASE UNCHANGED vars
  BY <1>11 DEF vars, MeInv
<1> QED
  BY <1>3, <1>4, <1>5, <1>6, <1>7, <1>8, <1>9, <1>10, <1>11 DEF Next, LoginStep
\* No refresh goes on while the pair of a login is half stored.
LEMMA HalfIsQuiet ==
  ASSUME MeInv, Agreement, login.at = "half", NEW c \in Calls, op[c].at = "read",
         op[c] # NoOp
  PROVE  refresh = NoToken
<1> SUFFICES ASSUME refresh # NoToken PROVE FALSE
  OBVIOUS
<1>1. shown = NoSession
  BY LoginForms DEF MeInv
<1>2. c = Me /\ call[Me].at = "waiting"
  BY <1>1 DEF Agreement, StoredUnseen
<1>3. call[Me] # NoCall
  BY <1>2, CallForms
<1> QED
  BY <1>3 DEF MeInv

\* Steps of the calls leave the store and the user alone, and start a refresh
\* at most for a call that is waiting.
LEMMA CallStepAgreement ==
  ASSUME TypeOK, MeInv, Agreement, NEW c \in Calls, CallStep(c) \/ PageCall(c)
  PROVE  Agreement'
<1>1. /\ UNCHANGED <<access, refresh, login, logout, lost, shown>>
      /\ op \in [Calls -> OpStates] /\ call \in [Calls -> CallStates] /\ Me \in Calls
  BY CallsApart DEF CallStep, PageCall, Succeed, Fail, Unauthorized, RepeatFails, Resume,
     store, history, TypeOK
<1>2. KeysAgree'
  BY <1>1 DEF Agreement, KeysAgree
<1>3. /\ \A d \in Calls : op'[d].at = op[d].at \/ op'[d].at = "read"
      /\ \A d \in Calls : op'[d].at = op[d].at => op'[d] = op[d] \/ op'[d].at = "read"
  <2>1. CASE Unauthorized(c)
    <3>1. SharedRefresh(c) \in Calls
      BY DEF SharedRefresh
    <3> QED
      BY <1>1, <2>1, <3>1 DEF Unauthorized
  <2>2. CASE ~Unauthorized(c)
    BY <2>2 DEF CallStep, PageCall, Succeed, Fail, RepeatFails, Resume
  <2> QED
    BY <2>1, <2>2
<1>4. ASSUME NEW d \in Calls PROVE OpAgrees(d)'
  BY <1>1, <1>3 DEF Agreement, OpAgrees
<1>5. MeAgrees'
  <2>1. CASE PageCall(c)
    <3>1. call'[Me] = call[Me]
      BY <1>1, <2>1, CallsApart DEF PageCall, Begin
    <3> QED
      BY <1>1, <3>1 DEF Agreement, MeAgrees, OfOne
  <2>2. CASE CallStep(c) /\ c # Me
    <3>1. call'[Me] = call[Me]
      BY <1>1, <2>2, CallStepShape
    <3> QED
      BY <1>1, <3>1 DEF Agreement, MeAgrees, OfOne
  <2>3. CASE CallStep(c) /\ c = Me
    <3>1. /\ call[Me].at \in {"sent", "resent", "resumed"}
          /\ call'[Me].at \in {"sent", "resent"} => call'[Me].token = access
          /\ call'[Me].at = "settled" /\ call'[Me].result = "ok" =>
               /\ call[Me].at \in {"sent", "resent"} /\ call[Me].token # NoToken
               /\ call'[Me].token = call[Me].token
      BY <2>3, CallStepShape
    <3>2. login.at # "half"
      BY <3>1, CallForms DEF MeInv
    <3>3. access # NoToken => OfOne(Owner(access))
      BY <3>2 DEF Agreement, KeysAgree, OfOne
    <3>4. /\ call'[Me].at \in {"sent", "resent"} /\ call'[Me].token # NoToken
                => OfOne(Owner(call'[Me].token))
          /\ call'[Me].at = "settled" /\ call'[Me].result = "ok"
                => OfOne(Owner(call'[Me].token))
          /\ shown # NoSession => OfOne(shown)
      BY <3>1, <3>3 DEF Agreement, MeAgrees
    <3> QED
      BY <1>1, <3>4 DEF MeAgrees, OfOne
  <2> QED
    BY <2>1, <2>2, <2>3
<1>6. StoredUnseen'
  <2> SUFFICES ASSUME shown = NoSession, refresh # NoToken, login.at # "me"
               PROVE  /\ ~lost /\ \A l \in Logouts : logout[l] = "none"
                      /\ \A d \in Calls \ {Me} : call'[d] = NoCall /\ op'[d] = NoOp
                      /\ op'[Me] # NoOp => call'[Me].at = "waiting"
    BY <1>1 DEF StoredUnseen
  <2>1. /\ ~lost /\ \A l \in Logouts : logout[l] = "none"
        /\ \A d \in Calls \ {Me} : call[d] = NoCall /\ op[d] = NoOp
        /\ op[Me] # NoOp => call[Me].at = "waiting"
    BY DEF Agreement, StoredUnseen
  <2>2. CallStep(c)
    BY DEF PageCall
  <2>3. c = Me /\ op[Me] = NoOp
    BY <2>1, <2>2, CallStepShape, CallForms
  <2>4. \A d \in Calls \ {Me} : call'[d] = NoCall
    BY <2>1, <2>2, <2>3, CallStepShape
  <2>5. CASE Unauthorized(c)
    <3>1. \A d \in Calls : current # d
      BY <2>1, <2>3 DEF TypeOK
    <3>2. SharedRefresh(c) = Me
      BY <2>3, <3>1 DEF SharedRefresh
    <3>3. /\ call' = [call EXCEPT ![Me] = [at |-> "waiting", on |-> Me]]
          /\ op' = [op EXCEPT ![Me] = [at |-> "read"]]
      BY <2>3, <2>5, <3>2 DEF Unauthorized
    <3> QED
      BY <1>1, <2>1, <2>4, <3>3
  <2>6. CASE ~Unauthorized(c)
    <3>1. op' = op
      BY <2>2, <2>6 DEF CallStep, Succeed, Fail, RepeatFails, Resume
    <3> QED
      BY <2>1, <2>3, <2>4, <3>1
  <2> QED
    BY <2>5, <2>6
<1> QED
  BY <1>2, <1>4, <1>5, <1>6 DEF Agreement

\* A refresh stores only tokens of the session that is stored.
LEMMA RefreshStepAgreement ==
  ASSUME TypeOK, MeInv, Agreement, NEW c \in Calls, RefreshStep(c)
  PROVE  Agreement'
<1>1. /\ UNCHANGED <<login, logout, shown>>
      /\ op \in [Calls -> OpStates] /\ call \in [Calls -> CallStates] /\ Me \in Calls
      /\ op[c] \in OpStates
  BY CallsApart DEF RefreshStep, RefreshRead, RefreshGranted, RefreshFails, RefreshSaveAccess,
     RefreshSaveRefresh, RefreshLoses, history, TypeOK
<1>2. op[c].at # "none" /\ op[c] # NoOp
  BY <1>1, OpForms DEF RefreshStep, RefreshRead, RefreshGranted, RefreshFails, RefreshSaveAccess,
     RefreshSaveRefresh, RefreshLoses
<1>3. \A d \in Calls \ {c} : op[d] = NoOp /\ op'[d] = NoOp /\ op'[d].at = "none"
  <2>1. \A d \in Calls \ {c} : op[d] = NoOp /\ op[d].at = "none"
    BY <1>2, OnlyRefresh
  <2>2. \A d \in Calls \ {c} : op'[d] = op[d]
    BY <1>1 DEF RefreshStep, RefreshRead, RefreshGranted, RefreshFails, RefreshSaveAccess,
       RefreshSaveRefresh, RefreshLoses, FinishOp, GotoOp
  <2> QED
    BY <2>1, <2>2
<1>4. ASSUME OpAgrees(c)'
      PROVE  \A d \in Calls : OpAgrees(d)'
  BY <1>3, <1>4 DEF OpAgrees
<1>5. KeysAgree /\ StoredUnseen /\ MeAgrees /\ OpAgrees(c)
  BY DEF Agreement
\* Me's call is where it was, or was woken.
<1>6. ASSUME \A owner : OfOne(owner) => OfOne(owner)'
      PROVE  MeAgrees'
  <2>1. \/ call'[Me] = call[Me]
        \/ call'[Me].at = "resumed"
        \/ call'[Me].at = "settled" /\ call'[Me].result = "unauthorized"
    BY <1>1, CallsApart, RefreshStepCalls
  <2> QED
    BY <1>1, <1>5, <1>6, <2>1 DEF MeAgrees
\* What was stored unseen stays so, if the refresh is the restoring's own.
<1>7. ASSUME refresh' # NoToken => refresh # NoToken /\ lost' = lost,
             op'[c] # NoOp => call' = call
      PROVE  StoredUnseen'
  <2> SUFFICES ASSUME shown = NoSession, refresh' # NoToken, login.at # "me"
               PROVE  /\ ~lost' /\ \A l \in Logouts : logout[l] = "none"
                      /\ \A d \in Calls \ {Me} : call'[d] = NoCall /\ op'[d] = NoOp
                      /\ op'[Me] # NoOp => call'[Me].at = "waiting"
    BY <1>1 DEF StoredUnseen
  <2>1. /\ ~lost /\ \A l \in Logouts : logout[l] = "none"
        /\ \A d \in Calls \ {Me} : call[d] = NoCall /\ op[d] = NoOp
        /\ op[Me] # NoOp => call[Me].at = "waiting"
    BY <1>5, <1>7 DEF StoredUnseen
  <2>2. c = Me
    BY <1>2, <2>1
  <2>3. \A d \in Calls \ {Me} : call'[d] = call[d]
    <3>1. \A d \in Calls \ {Me} : call[d].at = "none"
      BY <2>1, CallForms
    <3> QED
      BY <3>1, RefreshStepCalls
  <2> QED
    BY <1>2, <1>3, <1>7, <2>1, <2>2, <2>3
<1>8. CASE RefreshRead(c) \/ RefreshGranted(c) \/ RefreshFails(c)
  <2>1. UNCHANGED <<access, refresh, call, lost>>
    BY <1>8 DEF RefreshRead, RefreshGranted, RefreshFails, store
  <2>2. KeysAgree' /\ MeAgrees' /\ StoredUnseen'
    BY <1>1, <1>5, <1>6, <1>7, <2>1 DEF KeysAgree, OfOne
  <2>3. CASE RefreshRead(c)
    <3>1. /\ op'[c] = IF refresh = NoToken THEN [at |-> "lose"] ELSE [at |-> "posted", token |-> refresh]
          /\ op[c].at = "read"
      BY <1>1, <2>3 DEF RefreshRead, GotoOp
    <3>2. refresh # NoToken => login.at # "half"
      BY <1>2, <3>1, HalfIsQuiet
    <3>3. OpAgrees(c)'
      BY <1>1, <2>1, <3>1, <3>2 DEF OpAgrees
    <3> QED
      BY <1>4, <2>2, <3>3 DEF Agreement
  <2>4. CASE RefreshGranted(c)
    <3> DEFINE t == op[c].token
               s == Owner(t)
    <3>1. /\ op[c].at = "posted" /\ t \in Pairs /\ s \in Sessions
          /\ bearer[s] = t /\ HandOnNext(s)
          /\ op'[c] = [at |-> "granted", pair |-> bearer'[s]]
      BY <1>1, <2>4, OpShape, PairShape DEF RefreshGranted, GotoOp
    <3>2. bearer' = [bearer EXCEPT ![s] = <<s, bearer[s][2] + 1>>]
      BY <3>1, HandOnShape
    <3>3. bearer'[s] = <<s, t[2] + 1>>
      BY <3>1, <3>2 DEF TypeOK, Server!ChainTypeOK
    <3>4. Owner(bearer'[s]) = s
      BY <3>3 DEF Owner
    <3>5. refresh = t /\ login.at # "half" /\ refresh # NoToken
      BY <1>5, <3>1, CallsApart DEF OpAgrees
    <3>6. op'[c].at = "granted" /\ Owner(op'[c].pair) = Owner(refresh)
      BY <3>1, <3>4, <3>5
    <3>7. OpAgrees(c)'
      BY <1>1, <2>1, <3>5, <3>6 DEF OpAgrees
    <3> QED
      BY <1>4, <2>2, <3>7 DEF Agreement
  <2>5. CASE RefreshFails(c)
    <3>1. op'[c].at = "lose"
      BY <1>1, <2>5 DEF RefreshFails, GotoOp
    <3>2. OpAgrees(c)'
      BY <3>1 DEF OpAgrees
    <3> QED
      BY <1>4, <2>2, <3>2 DEF Agreement
  <2> QED
    BY <1>8, <2>3, <2>4, <2>5
<1>9. CASE RefreshSaveAccess(c)
  <2>1. /\ UNCHANGED <<refresh, call, lost>> /\ access' = op[c].pair
        /\ op[c].at = "granted"
        /\ op'[c] = [at |-> "half", pair |-> op[c].pair]
    BY <1>1, <1>9 DEF RefreshSaveAccess, GotoOp, history
  <2>2. refresh # NoToken /\ Owner(refresh) = Owner(access') /\ login.at # "half"
    BY <1>5, <2>1 DEF OpAgrees
  <2>3. KeysAgree'
    BY <1>1, <2>1, <2>2 DEF KeysAgree
  <2>4. MeAgrees'
    BY <1>6, <2>1, <2>2 DEF OfOne
  <2>5. StoredUnseen'
    BY <1>7, <2>1
  <2>6. op'[c].at = "half" /\ op'[c].pair = op[c].pair
    BY <2>1
  <2>7. OpAgrees(c)'
    BY <1>1, <1>5, <2>1, <2>2, <2>6 DEF OpAgrees
  <2> QED
    BY <1>4, <2>3, <2>4, <2>5, <2>7 DEF Agreement
<1>10. CASE RefreshSaveRefresh(c)
  <2>1. /\ UNCHANGED <<access, lost>> /\ refresh' = op[c].pair
        /\ op[c].at = "half" /\ op'[c] = NoOp
    BY <1>1, <1>10 DEF RefreshSaveRefresh, FinishOp, GotoOp, history
  <2>2. refresh # NoToken /\ Owner(refresh) = Owner(refresh') /\ login.at # "half"
    BY <1>5, <2>1 DEF OpAgrees
  <2>3. KeysAgree'
    BY <1>1, <1>5, <2>1, <2>2 DEF KeysAgree
  <2>4. MeAgrees'
    BY <1>6, <2>1, <2>2 DEF OfOne
  <2>5. StoredUnseen'
    BY <1>7, <2>1, <2>2
  <2>6. OpAgrees(c)'
    BY <2>1, OpForms DEF OpAgrees
  <2> QED
    BY <1>4, <2>3, <2>4, <2>5, <2>6 DEF Agreement
<1>11. CASE RefreshLoses(c)
  <2>1. access' = NoToken /\ refresh' = NoToken /\ op'[c] = NoOp
    BY <1>1, <1>11 DEF RefreshLoses, ClearTokens, FinishOp, GotoOp
  <2>2. KeysAgree' /\ StoredUnseen'
    BY <2>1 DEF KeysAgree, StoredUnseen
  <2>3. MeAgrees'
    BY <1>6, <2>1 DEF OfOne
  <2>4. OpAgrees(c)'
    BY <2>1, OpForms DEF OpAgrees
  <2> QED
    BY <1>4, <2>2, <2>3, <2>4 DEF Agreement
<1> QED
  BY <1>8, <1>9, <1>10, <1>11 DEF RefreshStep
\* Where a step had found no refresh under way, a cleared store agrees with
\* whatever is shown.
LEMMA ClearedAgreement ==
  ASSUME TypeOK, access' = NoToken, refresh' = NoToken, op' = op, ~Underway
  PROVE  Agreement'
<1>1. \A d \in Calls : op'[d].at = "none"
  BY OpForms DEF Underway
<1>2. KeysAgree' /\ StoredUnseen' /\ MeAgrees'
  BY DEF KeysAgree, StoredUnseen, MeAgrees, OfOne
<1> QED
  BY <1>1, <1>2 DEF Agreement, OpAgrees

LEMMA LoginStepAgreement ==
  ASSUME TypeOK, MeInv, Agreement, ~overtaken', LoginPost \/ LoginStep
  PROVE  Agreement'
<1>1. /\ call \in [Calls -> CallStates] /\ Me \in Calls /\ login \in LoginStates
      /\ call[Me] \in CallStates
      /\ access \in Pairs \cup {NoToken}
  BY CallsApart DEF TypeOK
<1>2. /\ call[Me] = NoCall <=> call[Me].at = "none"
      /\ login = NoLogin <=> login.at = "none"
  BY <1>1, CallShape, LoginShape
<1>3. KeysAgree /\ StoredUnseen /\ MeAgrees /\ \A c \in Calls : OpAgrees(c)
  BY DEF Agreement
<1>4. CASE LoginPost \/ LoginOpened
  <2>1. /\ UNCHANGED <<access, refresh, call, op, logout, lost, shown>>
        /\ login.at # "half" /\ login.at # "me"
        /\ login'.at # "half" /\ login'.at # "me"
    BY <1>2, <1>4 DEF LoginPost, LoginOpened, store, history
  <2>2. KeysAgree' /\ StoredUnseen' /\ MeAgrees'
    BY <1>3, <2>1 DEF KeysAgree, StoredUnseen, MeAgrees, OfOne
  <2>3. \A c \in Calls : OpAgrees(c)'
    BY <1>3, <2>1 DEF OpAgrees
  <2> QED
    BY <2>2, <2>3 DEF Agreement
<1>5. CASE LoginSaveAccess
  <2>1. /\ UNCHANGED <<refresh, call, op, logout, lost, shown>>
        /\ login.at = "opened" /\ login'.at = "half"
        /\ access' = login.pair /\ login'.pair = login.pair /\ ~Underway
    BY <1>5 DEF LoginSaveAccess, Overtake
  <2>2. shown = NoSession /\ call[Me].at = "none"
    BY <1>2, <2>1, LoginForms DEF MeInv
  <2>3. \A c \in Calls : op'[c].at = "none"
    BY <2>1, OpForms DEF Underway
  <2>4. KeysAgree' /\ StoredUnseen' /\ MeAgrees'
    BY <1>3, <2>1, <2>2 DEF KeysAgree, StoredUnseen, MeAgrees
  <2>5. \A c \in Calls : OpAgrees(c)'
    BY <2>3 DEF OpAgrees
  <2> QED
    BY <2>4, <2>5 DEF Agreement
<1>6. CASE LoginSaveRefresh
  <2>1. /\ UNCHANGED <<access, op, logout, lost, shown>>
        /\ login.at = "half" /\ login'.at = "me" /\ refresh' = login.pair
        /\ call'[Me] = [at |-> "sent", token |-> access]
    BY <1>1, <1>6 DEF LoginSaveRefresh, StoredRefresh, Begin, history
  <2>2. shown = NoSession
    BY <1>2, <2>1 DEF MeInv
  <2>3. access \in {login.pair, NoToken}
    BY <1>3, <2>1 DEF KeysAgree
  <2>4. KeysAgree' /\ StoredUnseen'
    BY <2>1, <2>3 DEF KeysAgree, StoredUnseen
  <2>5. call'[Me].at = "sent" /\ call'[Me].token = access
    BY <2>1
  <2>6. MeAgrees'
    BY <2>1, <2>2, <2>3, <2>5 DEF MeAgrees, OfOne
  <2>7. \A c \in Calls : OpAgrees(c)'
    BY <1>3, <2>1 DEF OpAgrees
  <2> QED
    BY <2>4, <2>6, <2>7 DEF Agreement
<1>7. CASE LoginFails
  BY <1>7, ClearedAgreement DEF LoginFails, ClearTokens, Overtake
<1>8. CASE Restore
  <2>1. /\ UNCHANGED <<access, refresh, op, logout, lost, shown>> /\ login.at = "restore"
    BY <1>8 DEF Restore, store, history
  <2>2. shown = NoSession /\ call[Me].at = "none"
    BY <1>2, <2>1, LoginForms DEF MeInv
  <2>3. CASE refresh = NoToken
    <3>1. login'.at = "none" /\ call' = call
      BY <1>8, <2>3, LoginForms DEF Restore
    <3>2. KeysAgree' /\ StoredUnseen' /\ MeAgrees'
      BY <1>3, <2>1, <2>2, <2>3, <3>1 DEF KeysAgree, StoredUnseen, MeAgrees
    <3>3. \A c \in Calls : OpAgrees(c)'
      BY <1>3, <2>1, <3>1 DEF OpAgrees
    <3> QED
      BY <3>2, <3>3 DEF Agreement
  <2>4. CASE refresh # NoToken
    <3>1. /\ login'.at = "restoring" /\ call' = Begin(Me)
          /\ call'[Me].at = "sent" /\ call'[Me].token = access
      BY <1>1, <1>8, <2>4 DEF Restore, Begin
    <3>2. KeysAgree'
      BY <1>3, <2>1, <3>1 DEF KeysAgree
    <3>3. access # NoToken => OfOne(Owner(access))
      BY <1>3, <2>1 DEF KeysAgree, OfOne
    <3>4. MeAgrees'
      BY <2>1, <2>2, <3>1, <3>3 DEF MeAgrees, OfOne
    <3>5. StoredUnseen'
      <4>1. /\ ~lost /\ \A l \in Logouts : logout[l] = "none"
            /\ \A d \in Calls \ {Me} : call[d] = NoCall /\ op[d] = NoOp
            /\ op[Me] = NoOp
        BY <1>3, <2>1, <2>2, <2>4 DEF StoredUnseen
      <4>2. \A d \in Calls \ {Me} : call'[d] = call[d]
        BY <1>1, <3>1 DEF Begin
      <4> QED
        BY <2>1, <4>1, <4>2 DEF StoredUnseen
    <3>6. \A c \in Calls : OpAgrees(c)'
      BY <1>3, <2>1, <3>1 DEF OpAgrees
    <3> QED
      BY <3>2, <3>4, <3>5, <3>6 DEF Agreement
  <2> QED
    BY <2>3, <2>4
<1>9. CASE MeAnswered
  <2>1. /\ UNCHANGED <<access, refresh, op>> /\ login'.at = "none"
        /\ call[Me].at = "settled" /\ call[Me].result = "ok"
        /\ shown' = Owner(call[Me].token)
        /\ call'[Me] = NoCall
    BY <1>1, <1>9, LoginForms DEF MeAnswered, store
  <2>2. login.at # "half"
    BY <1>2, <2>1 DEF MeInv
  <2>3. shown' # NoSession
    BY <1>1, <2>1, CallShape, PairShape, CallsApart
  <2>4. call'[Me].at = "none"
    BY <2>1, CallForms
  <2>5. KeysAgree' /\ StoredUnseen' /\ MeAgrees'
    BY <1>3, <2>1, <2>2, <2>3, <2>4 DEF KeysAgree, StoredUnseen, MeAgrees, OfOne
  <2>6. \A c \in Calls : OpAgrees(c)'
    BY <1>3, <2>1 DEF OpAgrees
  <2> QED
    BY <2>5, <2>6 DEF Agreement
<1>10. CASE MeFailed
  <2>1. CASE login.at = "me" \/ call[Me].result = "unauthorized"
    BY <1>10, <2>1, ClearedAgreement DEF MeFailed, ClearTokens, Overtake
  <2>2. CASE ~(login.at = "me" \/ call[Me].result = "unauthorized")
    <3>1. /\ UNCHANGED <<access, refresh, op, logout, lost>> /\ login'.at = "none"
          /\ call[Me].at = "settled" /\ shown' = NoSession
          /\ call'[Me] = NoCall /\ \A d \in Calls \ {Me} : call'[d] = call[d]
      BY <1>1, <1>10, <2>2, LoginForms DEF MeFailed, store
    <3>2. login.at = "restoring" /\ shown = NoSession
      BY <1>2, <2>2, <3>1, LoginForms DEF MeInv
    <3>3. KeysAgree'
      BY <1>3, <3>1, <3>2 DEF KeysAgree
    <3>4. StoredUnseen'
      BY <1>3, <3>1, <3>2 DEF StoredUnseen
    <3>5. call'[Me].at = "none"
      BY <3>1, CallForms
    <3>6. MeAgrees'
      BY <3>1, <3>5 DEF MeAgrees
    <3>7. \A c \in Calls : OpAgrees(c)'
      BY <1>3, <3>1 DEF OpAgrees
    <3> QED
      BY <3>3, <3>4, <3>6, <3>7 DEF Agreement
  <2> QED
    BY <2>1, <2>2
<1> QED
  BY <1>4, <1>5, <1>6, <1>7, <1>8, <1>9, <1>10 DEF LoginStep

LEMMA LogoutStepAgreement ==
  ASSUME TypeOK, MeInv, Agreement, ~overtaken', NEW l \in Logouts,
         UserLogout(l) \/ HandleAuthenticationLost(l) \/ LogoutStep(l)
  PROVE  Agreement'
<1>1. call \in [Calls -> CallStates] /\ Me \in Calls /\ l \in Calls /\ l # Me
  BY CallsApart DEF TypeOK
<1>2. KeysAgree /\ StoredUnseen /\ MeAgrees /\ \A c \in Calls : OpAgrees(c)
  BY DEF Agreement
<1>3. CASE LogoutClear(l)
  BY <1>3, ClearedAgreement DEF LogoutClear, ClearTokens, Overtake
<1>4. CASE ~LogoutClear(l)
  <2>1. /\ UNCHANGED <<access, refresh, op, login, shown>> /\ call'[Me] = call[Me]
        /\ shown # NoSession \/ lost \/ logout[l] # "none"
    BY <1>1, <1>4 DEF UserLogout, HandleAuthenticationLost, LogoutStep, LogoutRead, LogoutPosted,
       StartLogout, Begin, store, history
  <2>2. KeysAgree' /\ StoredUnseen' /\ MeAgrees'
    BY <1>2, <2>1 DEF KeysAgree, StoredUnseen, MeAgrees, OfOne
  <2>3. \A c \in Calls : OpAgrees(c)'
    BY <1>2, <2>1 DEF OpAgrees
  <2> QED
    BY <2>2, <2>3 DEF Agreement
<1> QED
  BY <1>3, <1>4

LEMMA OtherStepAgreement ==
  ASSUME TypeOK, Agreement, ~overtaken',
         Restart \/ (\E s \in Sessions : ServerCloses(s)) \/ UNCHANGED vars
  PROVE  Agreement'
<1>1. CASE Restart
  <2>1. /\ UNCHANGED <<access, refresh>> /\ login.at # "half" /\ login'.at = "restore"
        /\ ~lost' /\ \A l \in Logouts : logout'[l] = "none"
        /\ \A c \in Calls : call'[c] = NoCall /\ op'[c] = NoOp
        /\ shown' = NoSession
    BY <1>1 DEF Restart, store
  <2>2. call'[Me].at = "none" /\ \A c \in Calls : op'[c].at = "none"
    BY <2>1, CallForms, OpForms, CallsApart
  <2>3. KeysAgree' /\ StoredUnseen' /\ MeAgrees'
    BY <2>1, <2>2, CallsApart DEF Agreement, KeysAgree, StoredUnseen, MeAgrees
  <2>4. \A c \in Calls : OpAgrees(c)'
    BY <2>2 DEF OpAgrees
  <2> QED
    BY <2>3, <2>4 DEF Agreement
<1>2. CASE (\E s \in Sessions : ServerCloses(s)) \/ UNCHANGED vars
  <2>1. UNCHANGED <<access, refresh, op, login, shown, call, logout, lost>>
    BY <1>2 DEF ServerCloses, vars, store, history
  <2> QED
    BY <2>1 DEF Agreement, KeysAgree, StoredUnseen, MeAgrees, OfOne, OpAgrees
<1> QED
  BY <1>1, <1>2

\* What has been overtaken stays so.
LEMMA OvertakenStays ==
  ASSUME [Next]_vars, ~overtaken'
  PROVE  ~overtaken
<1>1. ASSUME NEW c \in Calls, PageCall(c) \/ CallStep(c) \/ RefreshStep(c)
      PROVE  ~overtaken
  BY <1>1 DEF PageCall, CallStep, Succeed, Fail, Unauthorized, RepeatFails, Resume,
     RefreshStep, RefreshRead, RefreshGranted, RefreshFails, RefreshSaveAccess,
     RefreshSaveRefresh, RefreshLoses, history
<1>2. CASE LoginPost \/ LoginStep
  BY <1>2 DEF LoginPost, LoginStep, LoginOpened, LoginSaveAccess, LoginSaveRefresh, LoginFails,
     Restore, MeAnswered, MeFailed, Overtake, history
<1>3. ASSUME NEW l \in Logouts, UserLogout(l) \/ HandleAuthenticationLost(l) \/ LogoutStep(l)
      PROVE  ~overtaken
  BY <1>3 DEF UserLogout, HandleAuthenticationLost, LogoutStep, LogoutRead, LogoutPosted,
     LogoutClear, Overtake, history
<1>4. CASE Restart \/ (\E s \in Sessions : ServerCloses(s)) \/ UNCHANGED vars
  BY <1>4 DEF Restart, ServerCloses, vars, history
<1> QED
  BY <1>1, <1>2, <1>3, <1>4 DEF Next

LEMMA NextOwner ==
  ASSUME TypeOK, MeInv, OwnerInv, [Next]_vars
  PROVE  OwnerInv'
<1> SUFFICES ASSUME ~overtaken' PROVE Agreement'
  BY DEF OwnerInv
<1>1. Agreement
  BY OvertakenStays DEF OwnerInv
<1>2. ASSUME NEW c \in Calls, PageCall(c) \/ CallStep(c) \/ RefreshStep(c)
      PROVE  Agreement'
  BY <1>1, <1>2, CallStepAgreement, RefreshStepAgreement
<1>3. ASSUME NEW l \in Logouts, UserLogout(l) \/ HandleAuthenticationLost(l) \/ LogoutStep(l)
      PROVE  Agreement'
  BY <1>1, <1>3, LogoutStepAgreement
<1> QED
  BY <1>1, <1>2, <1>3, LoginStepAgreement, OtherStepAgreement DEF Next

LEMMA Invariance == Spec => []IInv
<1>1. Init => IInv
  BY InitTypes, InitTokens, InitMe DEF IInv
<1>2. IInv /\ [Next]_vars => IInv'
  BY NextTypes, NextTokens, NextMe, NextOwner DEF IInv
<1> QED
  BY <1>1, <1>2, PTL DEF Spec

\* At every moment, calls and refreshes under way or not, the tokens kept on the
\* device are of the user who is shown, unless a refresh outlived a login or a
\* logout, or the app was killed between the two writes of a login.
THEOREM StoreBelongsToShown == Spec => []TokensAreOfTheShownUser
<1>1. IInv => TokensAreOfTheShownUser
  BY DEF IInv, OwnerInv, Agreement, MeAgrees, OfOne, TokensAreOfTheShownUser
<1> QED
  BY <1>1, Invariance, PTL
=============================================================================
