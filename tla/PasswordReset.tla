---------------------------- MODULE PasswordReset ----------------------------
(***************************************************************************)
(* Forgotten passwords (backend/modules/accounts): the limiter in the      *)
(* cache, the challenge rows, the mail, and the keys their codes are       *)
(* digested with.  PostgreSQL READ COMMITTED: a request for a code is the  *)
(* task of a worker from its first cache operation to its commit, one      *)
(* action per statement whose outcome another request can change; what     *)
(* runs under the row locks of challenge and account is one action.        *)
(*                                                                         *)
(* A code stands for its challenge row; the random part of a code never    *)
(* repeats.  An account has one identifier (the code counts requests per   *)
(* spelling: a username and an email are two counters).                    *)
(***************************************************************************)
EXTENDS Naturals, FiniteSets, SequencesExt

CONSTANTS
  Users, Codes, Workers,
  OldKey, NewKey,     \* account token keys before and after a rotation
  Limit,              \* PASSWORD_RESET_REQUEST_LIMIT
  NoUser, NoCode, NoKey

ASSUME LimitAssumption == Limit \in Nat \ {0}
ASSUME WorkersAreFinite == IsFiniteSet(Workers)
ASSUME SentinelsAreFresh ==
  NoUser \notin Users /\ NoCode \notin Codes /\ NoKey \notin {OldKey, NewKey}

VARIABLES
  active,     \* accounts that are active and have an email
  status,     \* status[c]: none, open, used (used_at) or revoked (revoked_at)
  holder,     \* PasswordResetChallenge.user
  keyOf,      \* PasswordResetChallenge.token_key_id
  lapsed,     \* challenges whose expires_at has passed
  inbox,      \* inbox[u]: the codes mailed to u, in order
  counter,    \* counter[u]: the cached count of requests, 0 while the key is absent
  granted,    \* granted[u]: requests let through since the key last expired (history)
  config,     \* the key ring the processes were started with
  report,     \* the keys account_token_key_report last found in use, and when
  task        \* task[w]: the request worker w is in the middle of

challengeVars == <<status, holder, keyOf, lapsed>>
limiterVars == <<counter, granted>>
keyVars == <<config, report>>
vars == <<active, challengeVars, inbox, limiterVars, keyVars, task>>

Keys == {OldKey, NewKey}
Ring(stage) == CASE stage = "before" -> {OldKey}
                 [] stage = "rotating" -> Keys
                 [] stage = "after" -> {NewKey}
ActiveKey == IF config = "before" THEN OldKey ELSE NewKey

Idle == [op |-> "idle"]
Task == {Idle}
          \cup [op : {"count", "restart", "resolve", "open"}, user : Users]
          \cup [op : {"update", "insert"}, user : Users, found : SUBSET Codes]
          \cup [op : {"send"}, user : Users, found : SUBSET Codes, code : Codes]

Open(c) == status[c] = "open"
Valid(c) == Open(c) /\ c \notin lapsed
OpenOf(u) == {c \in Codes : Open(c) /\ holder[c] = u}

\* Challenges a request has revoked and not yet committed.
Locked(c) == \E w \in Workers : task[w].op \in {"insert", "send"} /\ c \in task[w].found

Unmailed == {c \in Codes : \A u \in Users : ~Contains(inbox[u], c)}

Init ==
  /\ active = Users
  /\ status = [c \in Codes |-> "none"]
  /\ holder = [c \in Codes |-> NoUser]
  /\ keyOf = [c \in Codes |-> NoKey]
  /\ lapsed = {}
  /\ inbox = [u \in Users |-> <<>>]
  /\ counter = [u \in Users |-> 0]
  /\ granted = [u \in Users |-> 0]
  /\ config = "before"
  /\ report = Keys
  /\ task = [w \in Workers |-> Idle]

Goto(w, next) == task' = [task EXCEPT ![w] = next]
Finish(w) == Goto(w, Idle)

(***************************************************************************)
(* The limiter: add, incr and set are three operations on the cache; the   *)
(* key may expire between them.  A count above the limit is one value.     *)
(***************************************************************************)
Grant(w, u) ==
  /\ granted' = [granted EXCEPT ![u] = @ + 1]
  /\ Goto(w, [op |-> "resolve", user |-> u])

LimitAdd(w, u) ==
  /\ task[w] = Idle
  /\ IF counter[u] = 0
       THEN counter' = [counter EXCEPT ![u] = 1] /\ Grant(w, u)
       ELSE Goto(w, [op |-> "count", user |-> u]) /\ UNCHANGED limiterVars
  /\ UNCHANGED <<active, challengeVars, inbox, keyVars>>

\* Deviation: one attempt too many passes.
AttemptAllowedInclusive(attempts) == attempts <= Limit + 1

AttemptAllowed(attempts) == attempts <= Limit

LimitIncrement(w) ==
  /\ task[w].op = "count"
  /\ LET u == task[w].user
         attempts == counter[u] + 1
     IN  /\ counter[u] > 0
         /\ counter' = [counter EXCEPT ![u] = IF @ > Limit THEN @ ELSE attempts]
         /\ IF AttemptAllowed(attempts) THEN Grant(w, u)
                                        ELSE Finish(w) /\ UNCHANGED granted
  /\ UNCHANGED <<active, challengeVars, inbox, keyVars>>

\* incr raises ValueError: the key expired after add() found it.
LimitKeyGone(w) ==
  /\ task[w].op = "count"
  /\ counter[task[w].user] = 0
  /\ Goto(w, [op |-> "restart", user |-> task[w].user])
  /\ UNCHANGED <<active, challengeVars, inbox, limiterVars, keyVars>>

LimitRestart(w) ==
  /\ task[w].op = "restart"
  /\ counter' = [counter EXCEPT ![task[w].user] = 1]
  /\ Grant(w, task[w].user)
  /\ UNCHANGED <<active, challengeVars, inbox, keyVars>>

WindowExpires(u) ==
  /\ counter[u] > 0
  /\ counter' = [counter EXCEPT ![u] = 0]
  /\ granted' = [granted EXCEPT ![u] = 0]
  /\ UNCHANGED <<active, challengeVars, inbox, keyVars, task>>

(***************************************************************************)
(* The request.  The account is read before the transaction.  The UPDATE   *)
(* revokes what its snapshot showed and is still open when the rows are    *)
(* free; the INSERT waits for another insert of the account and fails on   *)
(* the unique constraint if that one committed.                            *)
(***************************************************************************)
ResolveIdentifier(w) ==
  /\ task[w].op = "resolve"
  /\ IF task[w].user \in active
       THEN Goto(w, [op |-> "open", user |-> task[w].user])
       ELSE Finish(w)
  /\ UNCHANGED <<active, challengeVars, inbox, limiterVars, keyVars>>

SnapshotOpen(w) ==
  /\ task[w].op = "open"
  /\ Goto(w, [op |-> "update", user |-> task[w].user, found |-> OpenOf(task[w].user)])
  /\ UNCHANGED <<active, challengeVars, inbox, limiterVars, keyVars>>

RevokeOpen(w) ==
  /\ task[w].op = "update"
  /\ \A c \in task[w].found : ~Locked(c)
  /\ Goto(w, [op |-> "insert", user |-> task[w].user,
              found |-> {c \in task[w].found : Open(c)}])
  /\ UNCHANGED <<active, challengeVars, inbox, limiterVars, keyVars>>

\* Deviation: no unique constraint on open challenges.
NothingElseOpenUnconstrained(w, u, revoked) == TRUE

\* accounts_one_open_password_reset
NothingElseOpen(w, u, revoked) ==
  /\ OpenOf(u) \subseteq revoked
  /\ \A v \in Workers : task[v].op = "send" => task[v].user # u

\* The code is mailed before the transaction commits.
InsertAndSend(w, c) ==
  /\ task[w].op = "insert"
  /\ NothingElseOpen(w, task[w].user, task[w].found)
  /\ c \in Unmailed
  /\ inbox' = [inbox EXCEPT ![task[w].user] = Append(@, c)]
  /\ Goto(w, [op |-> "send", user |-> task[w].user, found |-> task[w].found, code |-> c])
  /\ UNCHANGED <<active, challengeVars, limiterVars, keyVars>>

\* IntegrityError, which nobody catches.
InsertConflict(w) ==
  /\ task[w].op = "insert"
  /\ \E c \in OpenOf(task[w].user) \ task[w].found : ~Locked(c)
  /\ Finish(w)
  /\ UNCHANGED <<active, challengeVars, inbox, limiterVars, keyVars>>

Supersede(c, revoked) ==
  status' = [d \in Codes |-> IF d = c THEN "open"
                             ELSE IF d \in revoked THEN "revoked" ELSE status[d]]

\* Deviation: the row does not name its account.
NameNobody(c, u) == UNCHANGED holder

NameHolder(c, u) == holder' = [holder EXCEPT ![c] = u]

RequestCommit(w) ==
  /\ task[w].op = "send"
  /\ LET c == task[w].code
     IN  /\ Supersede(c, task[w].found)
         /\ NameHolder(c, task[w].user)
         /\ keyOf' = [keyOf EXCEPT ![c] = ActiveKey]
  /\ Finish(w)
  /\ UNCHANGED <<active, lapsed, inbox, limiterVars, keyVars>>

\* The mail server refuses the mail, or the process dies before the commit.
RequestAbort(w) ==
  /\ task[w].op \in {"insert", "send"}
  /\ Finish(w)
  /\ UNCHANGED <<active, challengeVars, inbox, limiterVars, keyVars>>

(***************************************************************************)
(* Confirmation, under the locks of the challenge and of its account; the  *)
(* digest needs the key the code names.                                    *)
(***************************************************************************)

\* Deviation: a revoked challenge is as good as an open one.
ConfirmableUnlessUsed(c) == status[c] \in {"open", "revoked"} /\ c \notin lapsed

Confirmable(c) == Open(c) /\ c \notin lapsed

ConfirmPasswordReset(c) ==
  /\ ~Locked(c)
  /\ keyOf[c] \in Ring(config)
  /\ Confirmable(c)
  /\ holder[c] \in active
  /\ status' = [status EXCEPT ![c] = "used"]
  /\ UNCHANGED <<active, holder, keyOf, lapsed, inbox, limiterVars, keyVars, task>>

ChallengeLapses(c) ==
  /\ Valid(c)
  /\ lapsed' = lapsed \cup {c}
  /\ UNCHANGED <<active, status, holder, keyOf, inbox, limiterVars, keyVars, task>>

SetActive(u) ==
  /\ active' = IF u \in active THEN active \ {u} ELSE active \cup {u}
  /\ UNCHANGED <<challengeVars, inbox, limiterVars, keyVars, task>>

(***************************************************************************)
(* Rotation of the account token keys (production-configuration.md): add   *)
(* the new key and make it active, keep the old one until the report shows *)
(* that no valid code needs it.  Settings are read when a process starts;  *)
(* the restart of the one backend container ends every transaction.        *)
(***************************************************************************)
Restart(stage) ==
  /\ config' = stage
  /\ task' = [w \in Workers |-> Idle]

IntroduceKey ==
  /\ config = "before"
  /\ Restart("rotating")
  /\ report' = Keys
  /\ UNCHANGED <<active, challengeVars, inbox, limiterVars>>

\* Deviation: only codes nobody can use any more are counted.
KeysReportedOfLapsed == {keyOf[c] : c \in {d \in Codes : Open(d) /\ d \in lapsed}}

KeysReported == {keyOf[c] : c \in {d \in Codes : Valid(d)}}

ReportKeys ==
  /\ config = "rotating"
  /\ report' = KeysReported
  /\ UNCHANGED <<active, challengeVars, inbox, limiterVars, config, task>>

RetireKey ==
  /\ config = "rotating"
  /\ OldKey \notin report
  /\ Restart("after")
  /\ UNCHANGED <<active, challengeVars, inbox, limiterVars, report>>

RequestStep(w) ==
  \/ \E u \in Users : LimitAdd(w, u)
  \/ LimitIncrement(w) \/ LimitKeyGone(w) \/ LimitRestart(w)
  \/ ResolveIdentifier(w) \/ SnapshotOpen(w) \/ RevokeOpen(w)
  \/ \E c \in Codes : InsertAndSend(w, c)
  \/ InsertConflict(w) \/ RequestCommit(w) \/ RequestAbort(w)

Next ==
  \/ \E w \in Workers : RequestStep(w)
  \/ \E c \in Codes : ConfirmPasswordReset(c) \/ ChallengeLapses(c)
  \/ \E u \in Users : SetActive(u) \/ WindowExpires(u)
  \/ IntroduceKey \/ ReportKeys \/ RetireKey

Spec == Init /\ [][Next]_vars
-----------------------------------------------------------------------------
\* Types; and every challenge names its account.
TypeOK ==
  /\ active \subseteq Users
  /\ status \in [Codes -> {"none", "open", "used", "revoked"}]
  /\ holder \in [Codes -> Users \cup {NoUser}]
  /\ keyOf \in [Codes -> Keys \cup {NoKey}]
  /\ lapsed \subseteq Codes
  /\ inbox \in [Users -> Seq(Codes)]
  /\ counter \in [Users -> 0..(Limit + 1)]
  /\ granted \in [Users -> Nat]
  /\ config \in {"before", "rotating", "after"}
  /\ report \subseteq Keys
  /\ task \in [Workers -> Task]
  /\ \A c \in Codes : status[c] # "none" => holder[c] # NoUser

\* Of the codes that were mailed to somebody and reached the database, only the
\* one mailed last can still be open: requests that overlap never leave the
\* older mail working instead of the newer one.
NewestMailWins ==
  \A u \in Users : \A i, j \in 1..Len(inbox[u]) :
     i < j /\ Open(inbox[u][i]) => status[inbox[u][j]] = "none"

\* Every code that is still valid can be checked: whatever was issued around a
\* rotation, its key is on the ring until the report no longer needs it
\* (production-configuration.md, line 23).
ValidCodesVerify == \A c \in Codes : Valid(c) => keyOf[c] \in Ring(config)

\* However add, incr, set and the expiry of the counter interleave, between two
\* expiries each worker can at most once restart the count: no identifier gets
\* more than Limit requests per worker through.
GrantsBounded == \A u \in Users : granted[u] <= Limit * Cardinality(Workers)

(***************************************************************************)
(* The promise of OneTimeCode; the holders are the accounts.               *)
(***************************************************************************)
workingCode ==
  [u \in Users |-> IF OpenOf(u) = {} THEN NoCode ELSE CHOOSE c \in OpenOf(u) : TRUE]

ResetCode == INSTANCE OneTimeCode WITH
  Holders <- Users, working <- workingCode,
  issued <- {c \in Codes : status[c] # "none"},
  redeemed <- {c \in Codes : status[c] = "used"}

\* An account has one code that works at a time, and a code resets the password
\* at most once and never after a newer one was issued.
ImplementsOneTimeCode == ResetCode!CodeSpec
=============================================================================
