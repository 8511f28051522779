------------------------- MODULE PasswordResetProofs -------------------------
(***************************************************************************)
(* Theorems about PasswordReset, for any accounts, codes, limit and finite *)
(* set of workers; among them that it implements OneTimeCode.              *)
(***************************************************************************)
EXTENDS PasswordReset, FiniteSetTheorems, TLAPS

Issued(c) == status[c] # "none"
Revoking(w) == task[w].op \in {"insert", "send"}
Sending(w) == task[w].op = "send"

\* What a request has found are challenges of its account; those it has revoked
\* are its alone and stay open for everybody else until it commits.
FoundAreOwn ==
  /\ \A w \in Workers : task[w].op = "update" =>
       \A c \in task[w].found : Issued(c) /\ holder[c] = task[w].user
  /\ \A w \in Workers : Revoking(w) =>
       \A c \in task[w].found : Open(c) /\ holder[c] = task[w].user
  /\ \A v, w \in Workers : Revoking(v) /\ Revoking(w) /\ v # w =>
       task[v].found \cap task[w].found = {}

\* A request that has mailed its code is the only one of its account, its code
\* is the last mail, and every open challenge of the account is among those it
\* revokes.
SendersAreAlone ==
  /\ \A w \in Workers : Sending(w) =>
       /\ ~Issued(task[w].code)
       /\ OpenOf(task[w].user) \subseteq task[w].found
       /\ LET box == inbox[task[w].user]
          IN  Len(box) > 0 /\ box[Len(box)] = task[w].code
  /\ \A v, w \in Workers : Sending(v) /\ Sending(w) /\ task[v].user = task[w].user => v = w

\* A challenge in the database was mailed to its account, and no code twice.
MailedOnce ==
  /\ \A c \in Codes : Issued(c) =>
       \E i \in 1..Len(inbox[holder[c]]) : inbox[holder[c]][i] = c
  /\ \A u, v \in Users : \A i \in 1..Len(inbox[u]), j \in 1..Len(inbox[v]) :
       inbox[u][i] = inbox[v][j] => u = v /\ i = j

\* accounts_one_open_password_reset
OneOpen == \A c, d \in Codes : Open(c) /\ Open(d) /\ holder[c] = holder[d] => c = d

ChallengeInv == FoundAreOwn /\ SendersAreAlone /\ MailedOnce /\ OneOpen /\ NewestMailWins

\* The old key is gone from the report, or from the ring, only when no code that
\* is still valid needs it.
KeyInv ==
  /\ \A c \in Codes : Issued(c) => keyOf[c] \in Keys
  /\ config = "before" => \A c \in Codes : Issued(c) => keyOf[c] = OldKey
  /\ config = "after" \/ (config = "rotating" /\ OldKey \notin report) =>
       \A c \in Codes : Valid(c) => keyOf[c] = NewKey

\* The workers that found the counter expired and are about to start it again.
Restarting(u) == {w \in Workers : task[w].op = "restart" /\ task[w].user = u}

\* Requests that the current count still lets through.
Left(u) == IF counter[u] > Limit THEN 0 ELSE Limit - counter[u]

\* What was let through and what the count still allows is paid for by the
\* workers that are not about to start it again.
LimiterInv ==
  \A u \in Users :
    IF counter[u] = 0
      THEN granted[u] = 0
      ELSE granted[u] + Left(u) <= Limit * (Cardinality(Workers) - Cardinality(Restarting(u)))

IInv == TypeOK /\ ChallengeInv /\ KeyInv /\ LimiterInv
-----------------------------------------------------------------------------
\* A task has the fields of the record of its operation.
LEMMA TaskShape ==
  ASSUME TypeOK, NEW w \in Workers
  PROVE  /\ task[w] # Idle => task[w].user \in Users
         /\ task[w].op # "idle" => task[w].user \in Users
         /\ task[w].op \in {"update", "insert", "send"} => task[w].found \subseteq Codes
         /\ task[w].op = "send" => task[w].code \in Codes
<1>1. task[w] \in Task
  BY DEF TypeOK
<1> QED
  BY <1>1 DEF Task, Idle

\* A step of one worker leaves the tasks of the others alone.
LEMMA TaskMoves ==
  ASSUME TypeOK, NEW w \in Workers, NEW t \in Task, Goto(w, t)
  PROVE  /\ task' \in [Workers -> Task]
         /\ task'[w] = t
         /\ \A v \in Workers \ {w} : task'[v] = task[v]
BY DEF TypeOK, Goto

LEMMA Tasks ==
  /\ Idle \in Task
  /\ \A op \in {"count", "restart", "resolve", "open"}, u \in Users : [op |-> op, user |-> u] \in Task
  /\ \A op \in {"update", "insert"}, u \in Users, found \in SUBSET Codes :
       [op |-> op, user |-> u, found |-> found] \in Task
  /\ \A u \in Users, found \in SUBSET Codes, c \in Codes :
       [op |-> "send", user |-> u, found |-> found, code |-> c] \in Task
BY DEF Task

LEMMA InitIInv == Init => IInv
<1> SUFFICES ASSUME Init
             PROVE  IInv
  OBVIOUS
<1>1. TypeOK
  BY LimitAssumption, SentinelsAreFresh DEF Init, TypeOK, Task
<1>2. ChallengeInv
  BY SentinelsAreFresh
  DEF Init, ChallengeInv, FoundAreOwn, SendersAreAlone, MailedOnce, OneOpen, NewestMailWins,
      Issued, Open, Revoking, Sending, Idle
<1>3. KeyInv
  BY DEF Init, KeyInv, Issued, Valid, Open
<1>4. LimiterInv
  BY DEF Init, LimiterInv
<1> QED
  BY <1>1, <1>2, <1>3, <1>4 DEF IInv

-----------------------------------------------------------------------------
(***************************************************************************)
(* Types.                                                                  *)
(***************************************************************************)
LEMMA GrantTypes ==
  ASSUME TypeOK, NEW w \in Workers, NEW u \in Users, Grant(w, u)
  PROVE  granted' \in [Users -> Nat] /\ task' \in [Workers -> Task]
BY Tasks, TaskMoves DEF Grant, TypeOK

LEMMA RequestTypes ==
  ASSUME TypeOK, FoundAreOwn, NEW w \in Workers, RequestStep(w)
  PROVE  TypeOK'
<1>1. ASSUME NEW u \in Users, LimitAdd(w, u)
      PROVE  TypeOK'
  <2>1. counter' \in [Users -> 0..(Limit + 1)]
    <3>1. 1 \in 0..(Limit + 1)
      BY LimitAssumption
    <3> QED
      BY <1>1, <3>1 DEF LimitAdd, limiterVars, TypeOK
  <2>2. granted' \in [Users -> Nat] /\ task' \in [Workers -> Task]
    BY <1>1, GrantTypes, Tasks, TaskMoves DEF LimitAdd, limiterVars, TypeOK
  <2> QED
    BY <1>1, <2>1, <2>2 DEF LimitAdd, TypeOK, challengeVars, keyVars
<1>2. CASE LimitIncrement(w)
  <2>1. task[w].user \in Users
    BY <1>2, TaskShape DEF LimitIncrement
  <2>2. counter' \in [Users -> 0..(Limit + 1)]
    <3>1. counter[task[w].user] \in 0..(Limit + 1)
      BY <2>1 DEF TypeOK
    <3>2. (IF counter[task[w].user] > Limit THEN counter[task[w].user]
                                            ELSE counter[task[w].user] + 1) \in 0..(Limit + 1)
      BY <3>1, LimitAssumption
    <3> QED
      BY <1>2, <2>1, <3>2 DEF LimitIncrement, TypeOK
  <2>3. granted' \in [Users -> Nat] /\ task' \in [Workers -> Task]
    BY <1>2, <2>1, GrantTypes, Tasks, TaskMoves DEF LimitIncrement, Finish, TypeOK
  <2> QED
    BY <1>2, <2>2, <2>3 DEF LimitIncrement, TypeOK, challengeVars, keyVars
<1>3. CASE LimitKeyGone(w)
  <2>1. task' \in [Workers -> Task]
    BY <1>3, TaskShape, Tasks, TaskMoves DEF LimitKeyGone
  <2> QED
    BY <1>3, <2>1 DEF LimitKeyGone, TypeOK, challengeVars, limiterVars, keyVars
<1>4. CASE LimitRestart(w)
  <2>1. task[w].user \in Users
    BY <1>4, TaskShape DEF LimitRestart
  <2>2. counter' \in [Users -> 0..(Limit + 1)]
    <3>1. 1 \in 0..(Limit + 1)
      BY LimitAssumption
    <3> QED
      BY <1>4, <2>1, <3>1 DEF LimitRestart, TypeOK
  <2> QED
    BY <1>4, <2>1, <2>2, GrantTypes DEF LimitRestart, TypeOK, challengeVars, keyVars
<1>5. CASE ResolveIdentifier(w)
  <2>1. task' \in [Workers -> Task]
    BY <1>5, TaskShape, Tasks, TaskMoves DEF ResolveIdentifier, Finish
  <2> QED
    BY <1>5, <2>1 DEF ResolveIdentifier, TypeOK, challengeVars, limiterVars, keyVars
<1>6. CASE SnapshotOpen(w)
  <2>1. task' \in [Workers -> Task]
    BY <1>6, TaskShape, Tasks, TaskMoves DEF SnapshotOpen, OpenOf
  <2> QED
    BY <1>6, <2>1 DEF SnapshotOpen, TypeOK, challengeVars, limiterVars, keyVars
<1>7. CASE RevokeOpen(w)
  <2>1. {c \in task[w].found : Open(c)} \in SUBSET Codes /\ task[w].user \in Users
    BY <1>7, TaskShape DEF RevokeOpen
  <2>2. task' \in [Workers -> Task]
    BY <1>7, <2>1, Tasks, TaskMoves DEF RevokeOpen
  <2> QED
    BY <1>7, <2>2 DEF RevokeOpen, TypeOK, challengeVars, limiterVars, keyVars
<1>8. ASSUME NEW c \in Codes, InsertAndSend(w, c)
      PROVE  TypeOK'
  <2>1. task[w].user \in Users /\ task[w].found \subseteq Codes
    BY <1>8, TaskShape DEF InsertAndSend
  <2>2. task' \in [Workers -> Task]
    BY <1>8, <2>1, Tasks, TaskMoves DEF InsertAndSend
  <2>3. inbox' \in [Users -> Seq(Codes)]
    BY <1>8, <2>1 DEF InsertAndSend, TypeOK
  <2> QED
    BY <1>8, <2>2, <2>3 DEF InsertAndSend, TypeOK, challengeVars, limiterVars, keyVars
<1>9. CASE InsertConflict(w)
  BY <1>9, Tasks, TaskMoves
  DEF InsertConflict, Finish, TypeOK, challengeVars, limiterVars, keyVars
<1>10. CASE RequestCommit(w)
  <2>1. task[w].user \in Users /\ task[w].code \in Codes
    BY <1>10, TaskShape DEF RequestCommit
  <2>2. task' \in [Workers -> Task]
    BY <1>10, Tasks, TaskMoves DEF RequestCommit, Finish
  <2>3. /\ status' \in [Codes -> {"none", "open", "used", "revoked"}]
        /\ holder' \in [Codes -> Users \cup {NoUser}]
        /\ \A c \in Codes : status'[c] # "none" => holder'[c] # NoUser
    <3>1. \A c \in Codes : status'[c] # "none" => c = task[w].code \/ status[c] # "none"
      BY <1>10, <2>1 DEF RequestCommit, Supersede, FoundAreOwn, Revoking, Open
    <3> QED
      BY <1>10, <2>1, <3>1, SentinelsAreFresh
      DEF RequestCommit, Supersede, NameHolder, TypeOK
  <2>4. keyOf' \in [Codes -> Keys \cup {NoKey}]
    BY <1>10, <2>1 DEF RequestCommit, TypeOK, ActiveKey, Keys
  <2> QED
    BY <1>10, <2>2, <2>3, <2>4 DEF RequestCommit, TypeOK, limiterVars, keyVars
<1>11. CASE RequestAbort(w)
  BY <1>11, Tasks, TaskMoves
  DEF RequestAbort, Finish, TypeOK, challengeVars, limiterVars, keyVars
<1> QED
  BY <1>1, <1>2, <1>3, <1>4, <1>5, <1>6, <1>7, <1>8, <1>9, <1>10, <1>11 DEF RequestStep

LEMMA TypesKept == TypeOK /\ FoundAreOwn /\ KeyInv /\ [Next]_vars => TypeOK'
<1> SUFFICES ASSUME TypeOK, FoundAreOwn, KeyInv, [Next]_vars
             PROVE  TypeOK'
  OBVIOUS
<1>1. ASSUME NEW c \in Codes, ConfirmPasswordReset(c) \/ ChallengeLapses(c)
      PROVE  TypeOK'
  BY <1>1 DEF ConfirmPasswordReset, ChallengeLapses, Confirmable, Open, TypeOK, limiterVars,
              keyVars
<1>2. ASSUME NEW u \in Users, SetActive(u)
      PROVE  TypeOK'
  BY <1>2 DEF SetActive, TypeOK, challengeVars, limiterVars, keyVars
<1>3. ASSUME NEW u \in Users, WindowExpires(u)
      PROVE  TypeOK'
  <2>1. 0 \in 0..(Limit + 1) /\ 0 \in Nat
    BY LimitAssumption
  <2> QED
    BY <1>3, <2>1 DEF WindowExpires, TypeOK, challengeVars, keyVars
<1>4. CASE IntroduceKey \/ ReportKeys \/ RetireKey
  <2>1. task' \in [Workers -> Task]
    BY <1>4, Tasks DEF IntroduceKey, ReportKeys, RetireKey, Restart, TypeOK
  <2>2. config' \in {"before", "rotating", "after"}
    BY <1>4 DEF IntroduceKey, ReportKeys, RetireKey, Restart, TypeOK
  <2>3. report' \subseteq Keys
    <3>1. CASE ReportKeys
      <4>1. \A c \in Codes : Valid(c) => keyOf[c] \in Keys
        BY DEF Valid, Open, Issued, KeyInv
      <4> QED
        BY <3>1, <4>1 DEF ReportKeys, KeysReported
    <3> QED
      BY <1>4, <3>1 DEF IntroduceKey, RetireKey, TypeOK
  <2> QED
    BY <1>4, <2>1, <2>2, <2>3
    DEF IntroduceKey, ReportKeys, RetireKey, TypeOK, challengeVars, limiterVars
<1>5. CASE UNCHANGED vars
  BY <1>5 DEF vars, TypeOK, challengeVars, limiterVars, keyVars
<1> QED
  BY <1>1, <1>2, <1>3, <1>4, <1>5, RequestTypes DEF Next

-----------------------------------------------------------------------------
(***************************************************************************)
(* Challenges and mails.                                                   *)
(***************************************************************************)

\* Requests that neither found nor revoked anything, and steps that leave the
\* challenges and the mails alone, keep their invariant.
LEMMA QuietKeepsChallenges ==
  ASSUME ChallengeInv, UNCHANGED <<status, holder, inbox>>,
         \A v \in Workers : task'[v] = task[v] \/ task'[v].op \notin {"update", "insert", "send"}
  PROVE  ChallengeInv'
<1>1. \A v \in Workers :
        task'[v].op \in {"update", "insert", "send"} => task'[v] = task[v]
  OBVIOUS
<1>2. FoundAreOwn'
  BY <1>1 DEF ChallengeInv, FoundAreOwn, Revoking, Issued, Open
<1>3. SendersAreAlone'
  BY <1>1 DEF ChallengeInv, SendersAreAlone, Sending, Issued, OpenOf, Open
<1> QED
  BY <1>2, <1>3 DEF ChallengeInv, MailedOnce, OneOpen, NewestMailWins, Issued, Open

LEMMA SnapshotKeepsChallenges ==
  ASSUME TypeOK, ChallengeInv, NEW w \in Workers, SnapshotOpen(w)
  PROVE  ChallengeInv'
<1>1. /\ task'[w] = [op |-> "update", user |-> task[w].user, found |-> OpenOf(task[w].user)]
      /\ \A v \in Workers \ {w} : task'[v] = task[v]
      /\ UNCHANGED <<status, holder, inbox>>
  BY DEF SnapshotOpen, Goto, TypeOK, challengeVars
<1>2. FoundAreOwn'
  BY <1>1 DEF ChallengeInv, FoundAreOwn, Revoking, Issued, Open, OpenOf
<1>3. SendersAreAlone'
  BY <1>1 DEF ChallengeInv, SendersAreAlone, Sending, Issued, OpenOf, Open
<1> QED
  BY <1>1, <1>2, <1>3 DEF ChallengeInv, MailedOnce, OneOpen, NewestMailWins, Issued, Open

LEMMA RevokeKeepsChallenges ==
  ASSUME TypeOK, ChallengeInv, NEW w \in Workers, RevokeOpen(w)
  PROVE  ChallengeInv'
<1>1. /\ task[w].op = "update"
      /\ task'[w] = [op |-> "insert", user |-> task[w].user,
                     found |-> {c \in task[w].found : Open(c)}]
      /\ \A v \in Workers \ {w} : task'[v] = task[v]
      /\ UNCHANGED <<status, holder, inbox>>
  BY DEF RevokeOpen, Goto, TypeOK, challengeVars
<1>2. FoundAreOwn'
  <2>1. \A v \in Workers \ {w} : Revoking(v) => task[v].found \cap task[w].found = {}
    BY DEF RevokeOpen, Locked, Revoking
  <2> QED
    BY <1>1, <2>1 DEF ChallengeInv, FoundAreOwn, Revoking, Issued, Open
<1>3. SendersAreAlone'
  BY <1>1 DEF ChallengeInv, SendersAreAlone, Sending, Issued, OpenOf, Open
<1> QED
  BY <1>1, <1>2, <1>3 DEF ChallengeInv, MailedOnce, OneOpen, NewestMailWins, Issued, Open

LEMMA SendKeepsChallenges ==
  ASSUME TypeOK, ChallengeInv, NEW w \in Workers, NEW c \in Codes, InsertAndSend(w, c)
  PROVE  ChallengeInv'
<1> DEFINE u == task[w].user
           last == Len(inbox[u]) + 1
<1>0. MailedOnce /\ NewestMailWins
  BY DEF ChallengeInv
<1>1. /\ task[w].op = "insert" /\ u \in Users
      /\ task'[w] = [op |-> "send", user |-> u, found |-> task[w].found, code |-> c]
      /\ \A v \in Workers \ {w} : task'[v] = task[v]
      /\ UNCHANGED <<status, holder>>
  BY TaskShape DEF InsertAndSend, Goto, TypeOK, challengeVars
<1>2. \A v \in Users : \A i \in 1..Len(inbox[v]) : inbox[v][i] # c
  BY DEF InsertAndSend, Unmailed, Contains
<1>3. ~Issued(c)
  <2>1. Issued(c) => holder[c] \in Users
    BY DEF TypeOK, Issued
  <2> QED
    BY <1>2, <2>1 DEF ChallengeInv, MailedOnce
<1>4. /\ \A v \in Users \ {u} : inbox'[v] = inbox[v]
      /\ inbox'[u] = Append(inbox[u], c)
  BY <1>1 DEF InsertAndSend, TypeOK
<1>5. /\ Len(inbox'[u]) = last /\ inbox'[u][last] = c
      /\ \A i \in 1..Len(inbox[u]) : inbox'[u][i] = inbox[u][i]
      /\ Len(inbox[u]) \in Nat
      /\ \A i \in 1..last : i = last \/ i \in 1..Len(inbox[u])
  <2>1. inbox[u] \in Seq(Codes)
    BY <1>1 DEF TypeOK
  <2> QED
    BY <1>4, <2>1
<1>6. FoundAreOwn'
  BY <1>1 DEF ChallengeInv, FoundAreOwn, Revoking, Issued, Open
<1>7. SendersAreAlone'
  <2>1. OpenOf(u) \subseteq task[w].found /\ \A v \in Workers : Sending(v) => task[v].user # u
    BY DEF InsertAndSend, NothingElseOpen, Sending
  <2>2. ASSUME NEW v \in Workers, v # w, Sending(v)'
        PROVE  /\ Sending(v) /\ task'[v] = task[v] /\ task[v].user # u
               /\ inbox'[task[v].user] = inbox[task[v].user]
    BY <1>1, <1>4, <2>1, <2>2, TaskShape DEF Sending
  <2>3. ASSUME NEW v \in Workers, Sending(v)'
        PROVE  /\ ~Issued(task[v].code)'
               /\ OpenOf(task[v].user)' \subseteq task'[v].found
               /\ LET box == inbox'[task'[v].user]
                  IN  Len(box) > 0 /\ box[Len(box)] = task'[v].code
    <3>1. CASE v = w
      <4>1. task'[v].user = u /\ task'[v].code = c /\ task'[v].found = task[w].found
        BY <1>1, <3>1
      <4>2. ~Issued(c)' /\ OpenOf(u)' \subseteq task[w].found
        BY <1>1, <1>3, <2>1 DEF Issued, OpenOf, Open
      <4>3. Len(inbox'[u]) > 0 /\ inbox'[u][Len(inbox'[u])] = c
        BY <1>5
      <4> QED
        BY <4>1, <4>2, <4>3, <3>1 DEF OpenOf
    <3>2. CASE v # w
      BY <1>1, <2>2, <2>3, <3>2 DEF ChallengeInv, SendersAreAlone, Issued, OpenOf, Open
    <3> QED
      BY <3>1, <3>2
  <2>4. ASSUME NEW v \in Workers, NEW x \in Workers, Sending(v)', Sending(x)',
               task'[v].user = task'[x].user
        PROVE  v = x
    BY <1>1, <2>2, <2>4 DEF ChallengeInv, SendersAreAlone
  <2> QED
    BY <2>3, <2>4 DEF SendersAreAlone
<1>8. MailedOnce'
  <2>1. ASSUME NEW d \in Codes, Issued(d)'
        PROVE  \E i \in 1..Len(inbox'[holder'[d]]) : inbox'[holder'[d]][i] = d
    <3>1. Issued(d) /\ holder'[d] = holder[d] /\ holder[d] \in Users
      BY <1>1, <2>1 DEF Issued, TypeOK
    <3>2. PICK i \in 1..Len(inbox[holder[d]]) : inbox[holder[d]][i] = d
      BY <3>1 DEF ChallengeInv, MailedOnce
    <3>3. CASE holder[d] = u
      BY <1>5, <3>1, <3>2, <3>3
    <3>4. CASE holder[d] # u
      BY <1>4, <3>1, <3>2, <3>4
    <3> QED
      BY <3>3, <3>4
  <2>2. ASSUME NEW x \in Users, NEW y \in Users,
               NEW i \in 1..Len(inbox'[x]), NEW j \in 1..Len(inbox'[y]),
               inbox'[x][i] = inbox'[y][j]
        PROVE  x = y /\ i = j
    <3>1. /\ \/ i \in 1..Len(inbox[x]) /\ inbox'[x][i] = inbox[x][i]
             \/ x = u /\ i = last /\ inbox'[x][i] = c
          /\ \/ j \in 1..Len(inbox[y]) /\ inbox'[y][j] = inbox[y][j]
             \/ y = u /\ j = last /\ inbox'[y][j] = c
      BY <1>4, <1>5
    <3>2. /\ i \in 1..Len(inbox[x]) => inbox[x][i] # c
          /\ j \in 1..Len(inbox[y]) => inbox[y][j] # c
      BY <1>2
    <3>3. CASE i \in 1..Len(inbox[x]) /\ j \in 1..Len(inbox[y])
      <4>1. inbox[x][i] = inbox[y][j]
        BY <2>2, <3>1, <3>2, <3>3
      <4> QED
        BY <1>0, <3>3, <4>1 DEF MailedOnce
    <3> QED
      BY <2>2, <3>1, <3>2, <3>3
  <2> QED
    BY <2>1, <2>2 DEF MailedOnce
<1>9. OneOpen'
  BY <1>1 DEF ChallengeInv, OneOpen, Open
<1>10. NewestMailWins'
  <2>1. ASSUME NEW v \in Users, NEW i \in 1..Len(inbox'[v]), NEW j \in 1..Len(inbox'[v]),
               i < j, status'[inbox'[v][i]] = "open"
        PROVE  status'[inbox'[v][j]] = "none"
    <3>1. CASE v # u
      BY <1>0, <1>1, <1>4, <2>1, <3>1 DEF NewestMailWins, Open
    <3>2. CASE v = u
      <4>1. i \in 1..Len(inbox[u]) /\ inbox'[u][i] = inbox[u][i]
        BY <1>5, <2>1, <3>2
      <4>2. CASE j = last
        BY <1>1, <1>3, <1>5, <3>2, <4>2 DEF Issued
      <4>3. CASE j # last
        <5>1. j \in 1..Len(inbox[u]) /\ inbox'[u][j] = inbox[u][j]
          BY <1>5, <2>1, <3>2, <4>3
        <5>2. status[inbox[u][i]] = "open"
          BY <1>1, <2>1, <3>2, <4>1
        <5>3. status[inbox[u][j]] = "none"
          BY <1>0, <1>1, <2>1, <4>1, <5>1, <5>2 DEF NewestMailWins, Open
        <5> QED
          BY <1>1, <3>2, <5>1, <5>3
      <4> QED
        BY <4>2, <4>3
    <3> QED
      BY <3>1, <3>2
  <2> QED
    BY <2>1 DEF NewestMailWins, Open
<1> QED
  BY <1>6, <1>7, <1>8, <1>9, <1>10 DEF ChallengeInv

\* What a commit changes: its code is the open one of its account, the codes it
\* found are revoked, all others are left alone.
LEMMA CommitShape ==
  ASSUME TypeOK, ChallengeInv, NEW w \in Workers, RequestCommit(w)
  PROVE  /\ task[w].user \in Users /\ task[w].code \in Codes /\ Sending(w) /\ Revoking(w)
         /\ ~Issued(task[w].code) /\ task[w].code \notin task[w].found
         /\ status'[task[w].code] = "open" /\ holder'[task[w].code] = task[w].user
         /\ \A c \in Codes \ {task[w].code} :
              /\ status'[c] = IF c \in task[w].found THEN "revoked" ELSE status[c]
              /\ holder'[c] = holder[c]
         /\ task'[w] = Idle /\ \A v \in Workers \ {w} : task'[v] = task[v]
         /\ \A c \in task[w].found : Open(c) /\ holder[c] = task[w].user
         /\ UNCHANGED inbox
<1>1. /\ task[w].user \in Users /\ task[w].code \in Codes /\ Sending(w) /\ Revoking(w)
      /\ task[w].found \subseteq Codes
  BY TaskShape DEF RequestCommit, Sending, Revoking
<1>2. /\ ~Issued(task[w].code)
      /\ \A c \in task[w].found : Open(c) /\ holder[c] = task[w].user
  BY <1>1 DEF ChallengeInv, SendersAreAlone, FoundAreOwn
<1>3. task[w].code \notin task[w].found
  BY <1>2 DEF Open, Issued
<1> QED
  BY <1>1, <1>2, <1>3 DEF RequestCommit, Supersede, NameHolder, Finish, Goto, TypeOK

LEMMA CommitKeepsChallenges ==
  ASSUME TypeOK, ChallengeInv, NEW w \in Workers, RequestCommit(w)
  PROVE  ChallengeInv'
<1> DEFINE u == task[w].user
           c == task[w].code
<1>0. FoundAreOwn /\ SendersAreAlone /\ MailedOnce /\ OneOpen /\ NewestMailWins
  BY DEF ChallengeInv
<1>1. /\ u \in Users /\ c \in Codes /\ Sending(w) /\ Revoking(w) /\ ~Issued(c)
      /\ c \notin task[w].found
      /\ status'[c] = "open" /\ holder'[c] = u
      /\ \A d \in Codes \ {c} : /\ status'[d] = IF d \in task[w].found THEN "revoked" ELSE status[d]
                                /\ holder'[d] = holder[d]
      /\ task'[w] = Idle /\ \A v \in Workers \ {w} : task'[v] = task[v]
      /\ \A d \in task[w].found : Open(d) /\ holder[d] = u
      /\ UNCHANGED inbox
  BY CommitShape
<1> HIDE DEF u, c
<1>2. \A d \in Codes : Issued(d) => d # c /\ Issued(d)' /\ holder'[d] = holder[d]
  BY <1>1 DEF Issued, Open
<1>3. \A v \in Workers : task'[v].op # "idle" => v # w /\ task'[v] = task[v]
  BY <1>1 DEF Idle
<1>4. FoundAreOwn'
  <2>1. ASSUME NEW v \in Workers, task'[v].op = "update", NEW d \in task'[v].found
        PROVE  status'[d] # "none" /\ holder'[d] = task'[v].user
    <3>1. /\ task[v].op = "update" /\ d \in task[v].found /\ task'[v] = task[v]
          /\ d \in Codes
      BY <1>3, <2>1, TaskShape
    <3> QED
      BY <1>0, <1>2, <3>1 DEF FoundAreOwn, Issued
  <2>2. ASSUME NEW v \in Workers, Revoking(v)', NEW d \in task'[v].found
        PROVE  status'[d] = "open" /\ holder'[d] = task'[v].user
    <3>1. /\ v # w /\ Revoking(v) /\ d \in task[v].found /\ task'[v] = task[v]
          /\ d \in Codes
      BY <1>3, <2>2, TaskShape DEF Revoking
    <3>2. d \notin task[w].found /\ Open(d) /\ holder[d] = task[v].user
      BY <1>0, <1>1, <3>1 DEF FoundAreOwn
    <3> QED
      BY <1>1, <1>2, <3>1, <3>2 DEF Open, Issued
  <2>3. ASSUME NEW x \in Workers, NEW y \in Workers, Revoking(x)', Revoking(y)', x # y
        PROVE  task'[x].found \cap task'[y].found = {}
    BY <1>0, <1>3, <2>3 DEF FoundAreOwn, Revoking
  <2> QED
    BY <2>1, <2>2, <2>3 DEF FoundAreOwn, Issued, Open
<1>5. SendersAreAlone'
  <2>1. ASSUME NEW v \in Workers, Sending(v)'
        PROVE  /\ v # w /\ Sending(v) /\ task'[v] = task[v] /\ task[v].user # u
               /\ task[v].code \in Codes /\ task[v].user \in Users /\ ~Issued(task[v].code)
    BY <1>0, <1>1, <1>3, <2>1, TaskShape DEF SendersAreAlone, Sending, u
  <2>2. ASSUME NEW v \in Workers, Sending(v)'
        PROVE  /\ status'[task'[v].code] = "none"
               /\ \A d \in Codes : status'[d] = "open" /\ holder'[d] = task'[v].user =>
                    d \in task'[v].found
    <3>1. task[v].code # c
      <4>1. Len(inbox[u]) \in Nat /\ Len(inbox[task[v].user]) \in Nat
        BY <1>1, <2>1, <2>2 DEF TypeOK
      <4>2. /\ Len(inbox[u]) > 0 /\ inbox[u][Len(inbox[u])] = c
            /\ Len(inbox[task[v].user]) > 0
            /\ inbox[task[v].user][Len(inbox[task[v].user])] = task[v].code
        BY <1>0, <1>1, <2>1, <2>2 DEF SendersAreAlone, u, c
      <4> QED
        BY <1>0, <1>1, <2>1, <2>2, <4>1, <4>2 DEF MailedOnce
    <3>2. status'[task[v].code] = "none"
      <4>1. task[v].code \notin task[w].found
        BY <1>1, <2>1, <2>2 DEF Open, Issued
      <4> QED
        BY <1>1, <2>1, <2>2, <3>1, <4>1 DEF Issued
    <3>3. ASSUME NEW d \in Codes, status'[d] = "open", holder'[d] = task[v].user
          PROVE  d \in task[v].found
      <4>1. d # c /\ Open(d) /\ holder[d] = task[v].user
        BY <1>1, <2>1, <2>2, <3>3 DEF Open
      <4> QED
        BY <1>0, <2>1, <2>2, <4>1 DEF SendersAreAlone, OpenOf
    <3> QED
      BY <2>1, <2>2, <3>2, <3>3
  <2> QED
    BY <1>0, <1>1, <2>1, <2>2 DEF SendersAreAlone, Issued, Open, OpenOf
<1>6. MailedOnce'
  <2>1. ASSUME NEW d \in Codes, status'[d] # "none"
        PROVE  \E i \in 1..Len(inbox[holder'[d]]) : inbox[holder'[d]][i] = d
    <3>1. CASE d = c
      <4>1. Len(inbox[u]) \in Nat
        BY <1>1 DEF TypeOK
      <4>2. Len(inbox[u]) > 0 /\ inbox[u][Len(inbox[u])] = c
        BY <1>0, <1>1 DEF SendersAreAlone, u, c
      <4> QED
        BY <1>1, <3>1, <4>1, <4>2
    <3>2. CASE d # c
      <4>1. Issued(d) /\ holder'[d] = holder[d]
        BY <1>1, <2>1, <3>2 DEF Issued, Open
      <4> QED
        BY <1>0, <4>1 DEF MailedOnce
    <3> QED
      BY <3>1, <3>2
  <2> QED
    BY <1>0, <1>1, <2>1 DEF MailedOnce, Issued
<1>7. \A d \in Codes : status'[d] = "open" /\ holder'[d] = u => d = c
  BY <1>0, <1>1 DEF SendersAreAlone, OpenOf, Open, u
<1>8. OneOpen'
  BY <1>0, <1>1, <1>7 DEF OneOpen, Open
<1>9. NewestMailWins'
  <2>1. ASSUME NEW x \in Users, NEW i \in 1..Len(inbox[x]), NEW j \in 1..Len(inbox[x]), i < j,
               status'[inbox[x][i]] = "open"
        PROVE  status'[inbox[x][j]] = "none"
    <3>1. inbox[x][i] \in Codes /\ inbox[x][j] \in Codes /\ inbox[x][i] # inbox[x][j]
      <4>1. inbox[x] \in Seq(Codes)
        BY DEF TypeOK
      <4> QED
        BY <1>0, <2>1, <4>1 DEF MailedOnce
    <3>2. /\ Len(inbox[u]) \in Nat /\ Len(inbox[u]) > 0 /\ inbox[u][Len(inbox[u])] = c
      BY <1>0, <1>1 DEF SendersAreAlone, TypeOK, u, c
    <3>3. inbox[x][i] # c
      BY <1>0, <1>1, <2>1, <3>2 DEF MailedOnce
    <3>4. Open(inbox[x][i]) /\ inbox[x][i] \notin task[w].found /\ holder'[inbox[x][i]] # u
      BY <1>1, <1>7, <2>1, <3>1, <3>3 DEF Open
    <3>5. status[inbox[x][j]] = "none"
      BY <1>0, <2>1, <3>4 DEF NewestMailWins
    <3>6. inbox[x][j] # c
      <4>1. SUFFICES ASSUME inbox[x][j] = c
                     PROVE  FALSE
        OBVIOUS
      <4>2. x = u
        BY <1>0, <1>1, <3>2, <4>1 DEF MailedOnce
      <4>3. holder[inbox[x][i]] = u
        <5>1. holder[inbox[x][i]] \in Users
          BY <3>1, <3>4 DEF TypeOK, Open
        <5>2. PICK k \in 1..Len(inbox[holder[inbox[x][i]]]) :
                inbox[holder[inbox[x][i]]][k] = inbox[x][i]
          BY <1>0, <3>1, <3>4 DEF MailedOnce, Issued, Open
        <5> QED
          BY <1>0, <2>1, <4>2, <5>1, <5>2 DEF MailedOnce
      <4> QED
        BY <1>1, <3>1, <3>3, <3>4, <4>3
    <3> QED
      BY <1>1, <3>1, <3>5, <3>6 DEF Open
  <2> QED
    BY <1>1, <2>1 DEF NewestMailWins, Open
<1> QED
  BY <1>4, <1>5, <1>6, <1>8, <1>9 DEF ChallengeInv

LEMMA ConfirmKeepsChallenges ==
  ASSUME TypeOK, ChallengeInv, NEW c \in Codes, ConfirmPasswordReset(c)
  PROVE  ChallengeInv'
<1>1. /\ status[c] = "open" /\ status'[c] = "used"
      /\ \A d \in Codes \ {c} : status'[d] = status[d]
      /\ UNCHANGED <<holder, inbox, task>>
  BY DEF ConfirmPasswordReset, Confirmable, Open, TypeOK
<1>2. \A w \in Workers : Revoking(w) => c \notin task[w].found
  BY DEF ConfirmPasswordReset, Locked, Revoking
<1>3. \A d \in Codes : (Issued(d)' <=> Issued(d)) /\ (Open(d)' => Open(d))
  BY <1>1 DEF Issued, Open
<1>4. FoundAreOwn'
  <2>1. ASSUME NEW w \in Workers, task[w].op = "update", NEW d \in task[w].found
        PROVE  Issued(d)' /\ holder[d] = task[w].user
    BY <1>3, <2>1, TaskShape DEF ChallengeInv, FoundAreOwn
  <2>2. ASSUME NEW w \in Workers, Revoking(w), NEW d \in task[w].found
        PROVE  Open(d)' /\ holder[d] = task[w].user
    <3>1. d \in Codes \ {c}
      BY <1>2, <2>2, TaskShape DEF Revoking
    <3> QED
      BY <1>1, <2>2, <3>1 DEF ChallengeInv, FoundAreOwn, Open
  <2> QED
    BY <1>1, <2>1, <2>2 DEF ChallengeInv, FoundAreOwn, Revoking
<1>5. SendersAreAlone'
  <2>1. ASSUME NEW w \in Workers, Sending(w)
        PROVE  ~Issued(task[w].code)' /\ OpenOf(task[w].user)' \subseteq task[w].found
    <3>1. task[w].code \in Codes
      BY <2>1, TaskShape DEF Sending
    <3>2. ~Issued(task[w].code)'
      BY <1>1, <1>3, <2>1, <3>1 DEF ChallengeInv, SendersAreAlone
    <3>3. OpenOf(task[w].user)' \subseteq OpenOf(task[w].user)
      BY <1>1, <1>3 DEF OpenOf
    <3> QED
      BY <2>1, <3>2, <3>3 DEF ChallengeInv, SendersAreAlone
  <2> QED
    BY <1>1, <2>1 DEF ChallengeInv, SendersAreAlone, Sending
<1>6. MailedOnce' /\ OneOpen'
  BY <1>1, <1>3 DEF ChallengeInv, MailedOnce, OneOpen
<1>7. NewestMailWins'
  <2>1. ASSUME NEW u \in Users, NEW i \in 1..Len(inbox[u]), NEW j \in 1..Len(inbox[u]), i < j,
               Open(inbox[u][i])'
        PROVE  status'[inbox[u][j]] = "none"
    <3>1. inbox[u][i] \in Codes /\ inbox[u][j] \in Codes
      <4>1. inbox[u] \in Seq(Codes)
        BY DEF TypeOK
      <4> QED
        BY <2>1, <4>1
    <3> QED
      BY <1>1, <1>3, <2>1, <3>1 DEF ChallengeInv, NewestMailWins
  <2> QED
    BY <1>1, <2>1 DEF NewestMailWins
<1> QED
  BY <1>4, <1>5, <1>6, <1>7 DEF ChallengeInv

LEMMA ChallengesKept == TypeOK /\ ChallengeInv /\ [Next]_vars => ChallengeInv'
<1> SUFFICES ASSUME TypeOK, ChallengeInv, [Next]_vars
             PROVE  ChallengeInv'
  OBVIOUS
<1>1. ASSUME NEW w \in Workers,
             \/ \E u \in Users : LimitAdd(w, u)
             \/ LimitIncrement(w) \/ LimitKeyGone(w) \/ LimitRestart(w)
             \/ ResolveIdentifier(w) \/ InsertConflict(w) \/ RequestAbort(w)
      PROVE  ChallengeInv'
  <2>1. UNCHANGED <<status, holder, inbox>>
    BY <1>1
    DEF LimitAdd, LimitIncrement, LimitKeyGone, LimitRestart, ResolveIdentifier,
        InsertConflict, RequestAbort, challengeVars
  <2>2. /\ \A v \in Workers \ {w} : task'[v] = task[v]
        /\ task'[w].op \notin {"update", "insert", "send"}
    BY <1>1
    DEF LimitAdd, LimitIncrement, LimitKeyGone, LimitRestart, ResolveIdentifier,
        InsertConflict, RequestAbort, Grant, Finish, Goto, Idle, TypeOK
  <2> QED
    BY <2>1, <2>2, QuietKeepsChallenges
<1>2. ASSUME NEW w \in Workers, RequestStep(w)
      PROVE  ChallengeInv'
  BY <1>1, <1>2, SnapshotKeepsChallenges, RevokeKeepsChallenges, SendKeepsChallenges,
     CommitKeepsChallenges DEF RequestStep
<1>3. CASE \/ \E c \in Codes : ChallengeLapses(c)
           \/ \E u \in Users : SetActive(u) \/ WindowExpires(u)
           \/ ReportKeys
           \/ UNCHANGED vars
  BY <1>3, QuietKeepsChallenges
  DEF ChallengeLapses, SetActive, WindowExpires, ReportKeys, vars, challengeVars
<1>4. CASE IntroduceKey \/ RetireKey
  <2>1. \A v \in Workers : task'[v].op = "idle"
    BY <1>4 DEF IntroduceKey, RetireKey, Restart, Idle
  <2> QED
    BY <1>4, <2>1, QuietKeepsChallenges DEF IntroduceKey, RetireKey, challengeVars
<1> QED
  BY <1>2, <1>3, <1>4, ConfirmKeepsChallenges DEF Next

-----------------------------------------------------------------------------
(***************************************************************************)
(* Keys.                                                                   *)
(***************************************************************************)
LEMMA KeysKept == TypeOK /\ ChallengeInv /\ KeyInv /\ [Next]_vars => KeyInv'
<1> SUFFICES ASSUME TypeOK, ChallengeInv, KeyInv, [Next]_vars
             PROVE  KeyInv'
  OBVIOUS
<1>1. ASSUME UNCHANGED <<keyOf, config, report>>, lapsed \subseteq lapsed',
             \A c \in Codes : (Issued(c)' => Issued(c)) /\ (Open(c)' => Open(c))
      PROVE  KeyInv'
  BY <1>1 DEF KeyInv, Valid
<1>2. ASSUME NEW w \in Workers, RequestCommit(w)
      PROVE  KeyInv'
  <2>1. /\ task[w].code \in Codes
        /\ \A c \in Codes \ {task[w].code} : (Issued(c)' => Issued(c)) /\ (Open(c)' => Open(c))
    BY <1>2, CommitShape DEF Issued, Open
  <2>2. /\ keyOf'[task[w].code] = ActiveKey
        /\ \A c \in Codes \ {task[w].code} : keyOf'[c] = keyOf[c]
        /\ UNCHANGED <<config, report, lapsed>>
    BY <1>2, <2>1 DEF RequestCommit, keyVars, TypeOK
  <2>3. \A c \in Codes \ {task[w].code} : Valid(c)' => Valid(c)
    BY <2>1, <2>2 DEF Valid
  <2> QED
    BY <2>1, <2>2, <2>3 DEF KeyInv, ActiveKey, Keys
<1>3. ASSUME NEW c \in Codes, ConfirmPasswordReset(c)
      PROVE  KeyInv'
  <2>1. \A d \in Codes : (Issued(d)' => Issued(d)) /\ (Open(d)' => Open(d))
    BY <1>3 DEF ConfirmPasswordReset, Confirmable, Issued, Open, TypeOK
  <2> QED
    BY <1>1, <1>3, <2>1 DEF ConfirmPasswordReset, keyVars
<1>4. CASE UNCHANGED <<challengeVars, keyVars>>
  BY <1>1, <1>4 DEF challengeVars, keyVars, Issued, Open
<1>5. CASE \E c \in Codes : ChallengeLapses(c)
  BY <1>1, <1>5 DEF ChallengeLapses, keyVars, Issued, Open
<1>6. CASE IntroduceKey
  BY <1>6 DEF IntroduceKey, Restart, KeyInv, Issued, Keys, challengeVars
<1>7. CASE ReportKeys
  <2>1. OldKey \notin report' => \A c \in Codes : Valid(c) => keyOf[c] = NewKey
    <3>1. \A c \in Codes : Valid(c) => keyOf[c] \in report' /\ keyOf[c] \in Keys
      BY <1>7 DEF ReportKeys, KeysReported, KeyInv, Valid, Open, Issued
    <3> QED
      BY <3>1 DEF Keys
  <2> QED
    BY <1>7, <2>1 DEF ReportKeys, KeyInv, Issued, Valid, Open, challengeVars
<1>8. CASE RetireKey
  BY <1>8 DEF RetireKey, Restart, KeyInv, Issued, Valid, Open, challengeVars
<1>9. ASSUME NEW w \in Workers, RequestStep(w), ~RequestCommit(w)
      PROVE  UNCHANGED <<challengeVars, keyVars>>
  BY <1>9
  DEF RequestStep, LimitAdd, LimitIncrement, LimitKeyGone, LimitRestart, ResolveIdentifier,
      SnapshotOpen, RevokeOpen, InsertAndSend, InsertConflict, RequestAbort
<1>10. CASE (\E u \in Users : SetActive(u) \/ WindowExpires(u)) \/ UNCHANGED vars
  BY <1>4, <1>10 DEF SetActive, WindowExpires, vars, challengeVars, keyVars
<1> QED
  BY <1>2, <1>3, <1>4, <1>5, <1>6, <1>7, <1>8, <1>9, <1>10 DEF Next

\* Every valid code names a key that is on the ring.
LEMMA KeysOnRing == TypeOK /\ KeyInv => ValidCodesVerify
<1> SUFFICES ASSUME TypeOK, KeyInv, NEW c \in Codes, Valid(c)
             PROVE  keyOf[c] \in Ring(config)
  BY DEF ValidCodesVerify
<1>1. Issued(c)
  BY DEF Valid, Open, Issued
<1>2. CASE config = "before"
  BY <1>1, <1>2 DEF KeyInv, Ring
<1>3. CASE config = "rotating"
  BY <1>1, <1>3 DEF KeyInv, Ring
<1>4. CASE config = "after"
  BY <1>1, <1>4 DEF KeyInv, Ring
<1> QED
  BY <1>2, <1>3, <1>4 DEF TypeOK

-----------------------------------------------------------------------------
(***************************************************************************)
(* The limiter.                                                            *)
(***************************************************************************)

\* Multiplication by a natural number is monotonic and distributes.
LEMMA Multiples ==
  ASSUME NEW a \in Nat, NEW m \in Int, NEW n \in Int
  PROVE  /\ m <= n => a * m <= a * n
         /\ a * (m + 1) = a * m + a
         /\ a * 1 = a
<1>1. ASSUME m <= n
      PROVE  a * m <= a * n
  <2>1. (n - m) \in Nat /\ n = m + (n - m)
    BY <1>1
  <2>2. a * (n - m) \in Nat
    BY <2>1
  <2>3. a * n = a * m + a * (n - m)
    OBVIOUS
  <2> QED
    BY <2>2, <2>3
<1> QED
  BY <1>1

\* The workers about to start the count again are among all workers; when one of
\* them has started it, they are one less.
LEMMA RestartersCounted ==
  ASSUME NEW u, NEW S, S = Restarting(u)
  PROVE  /\ Cardinality(Workers) \in Nat /\ Cardinality(S) \in Nat
         /\ Cardinality(S) <= Cardinality(Workers)
         /\ \A w \in S : Cardinality(S \ {w}) = Cardinality(S) - 1
         /\ \A T \in SUBSET S : Cardinality(T) \in Nat /\ Cardinality(T) <= Cardinality(S)
<1>1. S \subseteq Workers /\ IsFiniteSet(S)
  BY WorkersAreFinite, FS_Subset DEF Restarting
<1>2. Cardinality(Workers) \in Nat /\ Cardinality(S) \in Nat
      /\ Cardinality(S) <= Cardinality(Workers)
  BY <1>1, WorkersAreFinite, FS_Subset, FS_CardinalityType
<1>3. \A w \in S : Cardinality(S \ {w}) = Cardinality(S) - 1
  BY <1>1, FS_RemoveElement
<1>4. \A T \in SUBSET S : Cardinality(T) \in Nat /\ Cardinality(T) <= Cardinality(S)
  BY <1>1, FS_Subset, FS_CardinalityType
<1> QED
  BY <1>2, <1>3, <1>4

\* The bound of one identifier: LimiterInv says it of all.
WithinBudget(u) ==
  IF counter[u] = 0
    THEN granted[u] = 0
    ELSE granted[u] + Left(u) <= Limit * (Cardinality(Workers) - Cardinality(Restarting(u)))

\* Nothing counted, nothing granted, and no worker newly about to start again.
LEMMA QuietKeepsBudget ==
  ASSUME TypeOK, NEW u \in Users, WithinBudget(u), counter'[u] = counter[u],
         granted'[u] = granted[u], Restarting(u)' \subseteq Restarting(u)
  PROVE  WithinBudget(u)'
<1> DEFINE N == Cardinality(Workers)
           R == Cardinality(Restarting(u))
           S == Cardinality(Restarting(u)')
<1>1. N \in Nat /\ R \in Nat /\ S \in Nat /\ S <= R /\ R <= N
  BY RestartersCounted
<1>2. Limit * (N - R) <= Limit * (N - S) /\ Limit * (N - R) \in Int /\ Limit * (N - S) \in Int
  <2> HIDE DEF N, R, S
  <2>1. (N - R) \in Int /\ (N - S) \in Int /\ N - R <= N - S /\ Limit \in Nat
    BY <1>1, LimitAssumption
  <2> QED
    BY <2>1, Multiples
<1>3. Left(u)' = Left(u) /\ granted[u] \in Nat /\ Left(u) \in Nat
  BY LimitAssumption DEF Left, TypeOK
<1>4. CASE counter[u] = 0
  BY <1>4 DEF WithinBudget
<1>5. CASE counter[u] # 0
  <2>1. granted[u] + Left(u) <= Limit * (N - R)
    BY <1>5 DEF WithinBudget
  <2>2. granted'[u] + Left(u)' <= Limit * (N - S)
    BY <1>2, <1>3, <2>1
  <2> QED
    BY <1>5, <2>2 DEF WithinBudget
<1> QED
  BY <1>4, <1>5

\* A worker that is not about to start again starts the count.
LEMMA FirstGrantKeepsBudget ==
  ASSUME TypeOK, NEW u \in Users, NEW w \in Workers, WithinBudget(u), counter[u] = 0,
         counter'[u] = 1, granted'[u] = granted[u] + 1,
         w \notin Restarting(u)', Restarting(u)' \subseteq Restarting(u)
  PROVE  WithinBudget(u)'
<1> DEFINE N == Cardinality(Workers)
           S == Cardinality(Restarting(u)')
<1>1. N \in Nat /\ S \in Nat /\ S + 1 <= N
  <2>1. S \in Nat /\ N \in Nat
    BY RestartersCounted
  <2>2. Restarting(u)' \subseteq Workers \ {w} /\ IsFiniteSet(Workers \ {w})
    BY WorkersAreFinite, FS_RemoveElement DEF Restarting
  <2>3. S <= Cardinality(Workers \ {w})
    BY <2>2, FS_Subset
  <2>4. Cardinality(Workers \ {w}) = N - 1
    BY WorkersAreFinite, FS_RemoveElement
  <2> QED
    BY <2>1, <2>3, <2>4
<1>2. Limit <= Limit * (N - S) /\ Limit * (N - S) \in Int
  <2> HIDE DEF N, S
  <2>1. (N - S) \in Int /\ 1 <= N - S /\ Limit \in Nat
    BY <1>1, LimitAssumption
  <2>2. Limit * 1 <= Limit * (N - S) /\ Limit * 1 = Limit
    BY <2>1, Multiples
  <2> QED
    BY <2>1, <2>2
<1>3. granted'[u] = 1 /\ Left(u)' = Limit - 1
  BY LimitAssumption DEF WithinBudget, Left
<1>4. granted'[u] + Left(u)' <= Limit * (N - S)
  BY <1>2, <1>3, LimitAssumption
<1> QED
  BY <1>4 DEF WithinBudget

\* A worker about to start again does so while somebody else's count runs: its
\* share of the budget is free from now on.
LEMMA RestartKeepsBudget ==
  ASSUME TypeOK, NEW u \in Users, NEW w \in Workers, WithinBudget(u), counter[u] # 0,
         counter'[u] = 1, granted'[u] = granted[u] + 1,
         w \in Restarting(u), Restarting(u)' = Restarting(u) \ {w}
  PROVE  WithinBudget(u)'
<1> DEFINE N == Cardinality(Workers)
           R == Cardinality(Restarting(u))
           S == Cardinality(Restarting(u)')
<1>1. N \in Nat /\ R \in Nat /\ S = R - 1
  BY RestartersCounted
<1>2. Limit * (N - S) = Limit * (N - R) + Limit /\ Limit * (N - R) \in Int
  <2> HIDE DEF N, R, S
  <2>1. (N - R) \in Int /\ N - S = (N - R) + 1 /\ Limit \in Nat
    BY <1>1, LimitAssumption
  <2> QED
    BY <2>1, Multiples
<1>3. granted[u] \in Nat /\ Left(u) \in Nat /\ Left(u)' = Limit - 1
  BY LimitAssumption DEF Left, TypeOK
<1>4. granted[u] + Left(u) <= Limit * (N - R)
  BY DEF WithinBudget
<1>5. granted'[u] + Left(u)' <= Limit * (N - S)
  BY <1>2, <1>3, <1>4, LimitAssumption
<1> QED
  BY <1>5 DEF WithinBudget

\* A request counted within the limit uses what the count still allowed; one
\* beyond the limit is not granted.
LEMMA CountKeepsBudget ==
  ASSUME TypeOK, NEW u \in Users, NEW w \in Workers, WithinBudget(u),
         LimitIncrement(w), task[w].user = u
  PROVE  WithinBudget(u)'
<1> DEFINE B == Limit * (Cardinality(Workers) - Cardinality(Restarting(u)))
<1>1. counter[u] \in 1..(Limit + 1) /\ granted[u] \in Nat /\ Limit \in Nat \ {0}
  BY LimitAssumption DEF LimitIncrement, TypeOK
<1>2. Restarting(u)' = Restarting(u)
  <2>1. \A v \in Workers \ {w} : task'[v] = task[v]
    BY DEF LimitIncrement, Grant, Finish, Goto, TypeOK
  <2>2. w \in Workers /\ task'[w].op # "restart" /\ task[w].op # "restart"
    BY DEF LimitIncrement, Grant, Finish, Goto, Idle, TypeOK
  <2> QED
    BY <2>1, <2>2 DEF Restarting
<1>3. B \in Int
  <2>1. Cardinality(Workers) \in Nat /\ Cardinality(Restarting(u)) \in Nat
    BY RestartersCounted
  <2> QED
    BY <1>1, <2>1
<1>4. granted[u] + Left(u) <= B
  BY <1>1 DEF WithinBudget
<1>5. counter'[u] = IF counter[u] > Limit THEN counter[u] ELSE counter[u] + 1
  BY DEF LimitIncrement, TypeOK
<1>6. granted'[u] = IF counter[u] + 1 <= Limit THEN granted[u] + 1 ELSE granted[u]
  BY DEF LimitIncrement, AttemptAllowed, Grant, TypeOK
<1> HIDE DEF B
<1>7. counter'[u] # 0 /\ granted'[u] + Left(u)' <= B
  BY <1>1, <1>3, <1>4, <1>5, <1>6 DEF Left
<1> QED
  BY <1>2, <1>7 DEF WithinBudget, B

LEMMA LimiterKept == TypeOK /\ LimiterInv /\ [Next]_vars => LimiterInv'
<1> SUFFICES ASSUME TypeOK, LimiterInv, [Next]_vars, NEW u \in Users
             PROVE  WithinBudget(u)'
  BY DEF LimiterInv, WithinBudget
<1>1. WithinBudget(u) /\ counter[u] \in Nat /\ granted[u] \in Nat
  BY LimitAssumption DEF LimiterInv, WithinBudget, TypeOK
<1>2. ASSUME NEW w \in Workers, NEW x \in Users, LimitAdd(w, x)
      PROVE  WithinBudget(u)'
  <2>1. /\ \A v \in Workers \ {w} : task'[v] = task[v]
        /\ task'[w].op # "restart"
    BY <1>2 DEF LimitAdd, Grant, Goto, TypeOK
  <2>2. Restarting(u)' \subseteq Restarting(u) /\ w \notin Restarting(u)'
    BY <2>1 DEF Restarting
  <2>3. CASE x = u /\ counter[u] = 0
    <3>1. counter'[u] = 1 /\ granted'[u] = granted[u] + 1
      BY <1>2, <2>3 DEF LimitAdd, Grant, TypeOK
    <3> QED
      BY <1>1, <2>2, <2>3, <3>1, FirstGrantKeepsBudget
  <2>4. CASE x # u \/ counter[u] # 0
    <3>1. counter'[u] = counter[u] /\ granted'[u] = granted[u]
      BY <1>2, <2>4 DEF LimitAdd, Grant, limiterVars, TypeOK
    <3> QED
      BY <1>1, <2>2, <3>1, QuietKeepsBudget
  <2> QED
    BY <2>3, <2>4
<1>3. ASSUME NEW w \in Workers, LimitIncrement(w)
      PROVE  WithinBudget(u)'
  <2>1. CASE task[w].user = u
    BY <1>1, <1>3, <2>1, CountKeepsBudget
  <2>2. CASE task[w].user # u
    <3>1. /\ \A v \in Workers \ {w} : task'[v] = task[v]
          /\ task'[w].op # "restart"
          /\ counter'[u] = counter[u] /\ granted'[u] = granted[u]
      BY <1>3, <2>2 DEF LimitIncrement, Grant, Finish, Goto, Idle, TypeOK
    <3>2. Restarting(u)' \subseteq Restarting(u)
      BY <3>1 DEF Restarting
    <3> QED
      BY <1>1, <3>1, <3>2, QuietKeepsBudget
  <2> QED
    BY <2>1, <2>2
<1>4. ASSUME NEW w \in Workers, LimitKeyGone(w)
      PROVE  WithinBudget(u)'
  <2>1. /\ \A v \in Workers \ {w} : task'[v] = task[v]
        /\ task'[w].user = task[w].user
        /\ UNCHANGED limiterVars
    BY <1>4 DEF LimitKeyGone, Goto, TypeOK
  <2>2. CASE task[w].user = u
    BY <1>1, <1>4, <2>1, <2>2 DEF LimitKeyGone, WithinBudget, limiterVars
  <2>3. CASE task[w].user # u
    <3>1. Restarting(u)' \subseteq Restarting(u)
      BY <2>1, <2>3 DEF Restarting
    <3> QED
      BY <1>1, <2>1, <3>1, QuietKeepsBudget DEF limiterVars
  <2> QED
    BY <2>2, <2>3
<1>5. ASSUME NEW w \in Workers, LimitRestart(w)
      PROVE  WithinBudget(u)'
  <2>1. /\ \A v \in Workers \ {w} : task'[v] = task[v]
        /\ task[w].op = "restart" /\ task'[w].op # "restart" /\ task[w].user \in Users
    BY <1>5, TaskShape DEF LimitRestart, Grant, Goto, TypeOK
  <2>2. Restarting(u)' \subseteq Restarting(u) /\ w \notin Restarting(u)'
    BY <2>1 DEF Restarting
  <2>3. CASE task[w].user = u
    <3>1. counter'[u] = 1 /\ granted'[u] = granted[u] + 1
      BY <1>5, <2>1, <2>3 DEF LimitRestart, Grant, TypeOK
    <3>2. w \in Restarting(u) /\ Restarting(u)' = Restarting(u) \ {w}
      BY <2>1, <2>3 DEF Restarting
    <3> QED
      BY <1>1, <2>2, <3>1, <3>2, FirstGrantKeepsBudget, RestartKeepsBudget
  <2>4. CASE task[w].user # u
    <3>1. counter'[u] = counter[u] /\ granted'[u] = granted[u]
      BY <1>5, <2>1, <2>4 DEF LimitRestart, Grant, TypeOK
    <3> QED
      BY <1>1, <2>2, <3>1, QuietKeepsBudget
  <2> QED
    BY <2>3, <2>4
<1>6. ASSUME NEW x \in Users, WindowExpires(x)
      PROVE  WithinBudget(u)'
  <2>1. CASE x = u
    BY <1>6, <2>1 DEF WindowExpires, WithinBudget, TypeOK
  <2>2. CASE x # u
    BY <1>1, <1>6, <2>2, QuietKeepsBudget DEF WindowExpires, TypeOK, Restarting
  <2> QED
    BY <2>1, <2>2
<1>7. ASSUME NEW w \in Workers,
             \/ ResolveIdentifier(w) \/ SnapshotOpen(w) \/ RevokeOpen(w)
             \/ \E c \in Codes : InsertAndSend(w, c)
             \/ InsertConflict(w) \/ RequestCommit(w) \/ RequestAbort(w)
      PROVE  WithinBudget(u)'
  <2>1. UNCHANGED limiterVars
    BY <1>7
    DEF ResolveIdentifier, SnapshotOpen, RevokeOpen, InsertAndSend, InsertConflict,
        RequestCommit, RequestAbort
  <2>2. /\ \A v \in Workers \ {w} : task'[v] = task[v]
        /\ task'[w].op # "restart"
    BY <1>7
    DEF ResolveIdentifier, SnapshotOpen, RevokeOpen, InsertAndSend, InsertConflict,
        RequestCommit, RequestAbort, Finish, Goto, Idle, TypeOK
  <2>3. Restarting(u)' \subseteq Restarting(u)
    BY <2>2 DEF Restarting
  <2> QED
    BY <1>1, <2>1, <2>3, QuietKeepsBudget DEF limiterVars
<1>8. CASE \/ \E c \in Codes : ConfirmPasswordReset(c) \/ ChallengeLapses(c)
           \/ \E x \in Users : SetActive(x)
           \/ ReportKeys
           \/ UNCHANGED vars
  <2>1. UNCHANGED <<limiterVars, task>>
    BY <1>8 DEF ConfirmPasswordReset, ChallengeLapses, SetActive, ReportKeys, vars
  <2> QED
    BY <1>1, <2>1, QuietKeepsBudget DEF limiterVars, Restarting
<1>9. CASE IntroduceKey \/ RetireKey
  <2>1. UNCHANGED limiterVars /\ \A v \in Workers : task'[v] = Idle
    BY <1>9 DEF IntroduceKey, RetireKey, Restart
  <2>2. Restarting(u)' \subseteq Restarting(u)
    BY <2>1 DEF Restarting, Idle
  <2> QED
    BY <1>1, <2>1, <2>2, QuietKeepsBudget DEF limiterVars
<1> QED
  BY <1>2, <1>3, <1>4, <1>5, <1>6, <1>7, <1>8, <1>9 DEF Next, RequestStep

\* A budget that is kept bounds what was granted.
LEMMA BudgetBounds == TypeOK /\ LimiterInv => GrantsBounded
<1> SUFFICES ASSUME TypeOK, LimiterInv, NEW u \in Users
             PROVE  granted[u] <= Limit * Cardinality(Workers)
  BY DEF GrantsBounded
<1> DEFINE N == Cardinality(Workers)
           R == Cardinality(Restarting(u))
<1>1. N \in Nat /\ R \in Nat
  BY RestartersCounted
<1>2. Limit * (N - R) <= Limit * N /\ Limit * (N - R) \in Int /\ Limit * N \in Nat
  <2> HIDE DEF N, R
  <2>1. (N - R) \in Int /\ N - R <= N /\ Limit \in Nat
    BY <1>1, LimitAssumption
  <2> QED
    BY <1>1, <2>1, Multiples
<1>3. granted[u] \in Nat /\ Left(u) \in Nat
  BY LimitAssumption DEF Left, TypeOK
<1>4. granted[u] = 0 \/ granted[u] + Left(u) <= Limit * (N - R)
  BY DEF LimiterInv
<1> HIDE DEF N, R
<1>5. granted[u] <= Limit * N
  BY <1>2, <1>3, <1>4
<1> QED
  BY <1>5 DEF N

-----------------------------------------------------------------------------
LEMMA Reachable == Spec => []IInv
<1>1. IInv /\ [Next]_vars => IInv'
  BY TypesKept, ChallengesKept, KeysKept, LimiterKept DEF IInv, ChallengeInv
<1> QED
  BY InitIInv, <1>1, PTL DEF Spec

\* Every state has the types of TypeOK, and every challenge names its account.
THEOREM Types == Spec => []TypeOK
<1>1. IInv => TypeOK
  BY DEF IInv
<1> QED
  BY <1>1, Reachable, PTL

\* However requests for a code overlap, no mail works after a later one that
\* reached the database.
THEOREM NewestMail == Spec => []NewestMailWins
<1>1. IInv => NewestMailWins
  BY DEF IInv, ChallengeInv
<1> QED
  BY <1>1, Reachable, PTL

\* A rotation of the keys that waits for the report invalidates no code.
THEOREM RotationKeepsCodes == Spec => []ValidCodesVerify
<1>1. IInv => ValidCodesVerify
  BY KeysOnRing DEF IInv
<1> QED
  BY <1>1, Reachable, PTL

\* Between two expiries of its counter no identifier gets more than Limit
\* requests per worker through.
THEOREM RequestsBounded == Spec => []GrantsBounded
<1>1. IInv => GrantsBounded
  BY BudgetBounds DEF IInv
<1> QED
  BY <1>1, Reachable, PTL

-----------------------------------------------------------------------------
(***************************************************************************)
(* PasswordReset implements OneTimeCode.                                   *)
(***************************************************************************)

\* The code of an account that works is its only open challenge.
LEMMA WorkingIsOpen ==
  ASSUME OneOpen, NEW u \in Users
  PROVE  /\ OpenOf(u) = {} => workingCode[u] = NoCode
         /\ \A c \in OpenOf(u) : workingCode[u] = c
<1>1. ASSUME NEW c \in OpenOf(u)
      PROVE  workingCode[u] = c
  <2>1. (CHOOSE d \in OpenOf(u) : TRUE) \in OpenOf(u)
    BY <1>1
  <2>2. \A d \in OpenOf(u) : d = c
    BY <1>1 DEF OneOpen, OpenOf
  <2> QED
    BY <1>1, <2>1, <2>2 DEF workingCode
<1> QED
  BY <1>1 DEF workingCode

\* A step that changes no challenge is a stutter of OneTimeCode.
LEMMA QuietStutters ==
  ASSUME UNCHANGED <<status, holder>>
  PROVE  UNCHANGED ResetCode!codeVars
BY DEF ResetCode!codeVars, workingCode, OpenOf, Open

LEMMA CommitIssues ==
  ASSUME TypeOK, ChallengeInv, ChallengeInv', NEW w \in Workers, RequestCommit(w),
         NEW u \in Users, NEW c \in Codes, u = task[w].user, c = task[w].code
  PROVE  ResetCode!Issue(u)
<1>1. /\ ~Issued(c)
      /\ status'[c] = "open" /\ holder'[c] = u
      /\ \A d \in Codes \ {c} : /\ status'[d] = IF d \in task[w].found THEN "revoked" ELSE status[d]
                                /\ holder'[d] = holder[d]
      /\ \A d \in task[w].found : Open(d) /\ holder[d] = u
      /\ c \notin task[w].found
  BY CommitShape
<1>2. {d \in Codes : status'[d] # "none"} = {d \in Codes : status[d] # "none"} \cup {c}
  BY <1>1 DEF Open, Issued
<1>3. {d \in Codes : status'[d] = "used"} = {d \in Codes : status[d] = "used"}
  BY <1>1 DEF Open, Issued
<1>4. workingCode' = [workingCode EXCEPT ![u] = c]
  <2>1. workingCode'[u] = c
    <3>1. c \in OpenOf(u)'
      BY <1>1 DEF OpenOf, Open
    <3>2. OpenOf(u)' = {c}
      BY <1>1, <3>1 DEF ChallengeInv, OneOpen, OpenOf, Open
    <3> QED
      BY <1>1, <3>2 DEF workingCode
  <2>2. ASSUME NEW v \in Users \ {u}
        PROVE  workingCode'[v] = workingCode[v]
    <3>1. OpenOf(v)' = OpenOf(v)
      BY <1>1 DEF OpenOf, Open, Issued
    <3> QED
      BY <3>1 DEF workingCode
  <2> QED
    BY <2>1, <2>2 DEF workingCode
<1>5. c \in Codes \ {d \in Codes : status[d] # "none"}
  BY <1>1 DEF Issued
<1> QED
  BY <1>2, <1>3, <1>4, <1>5 DEF ResetCode!Issue

LEMMA ConfirmRedeems ==
  ASSUME TypeOK, ChallengeInv, NEW c \in Codes, ConfirmPasswordReset(c),
         NEW u \in Users, u = holder[c]
  PROVE  ResetCode!Redeem(u)
<1>1. /\ status[c] = "open" /\ status'[c] = "used"
      /\ \A d \in Codes \ {c} : status'[d] = status[d]
      /\ UNCHANGED holder
  BY DEF ConfirmPasswordReset, Confirmable, Open, TypeOK
<1>2. c \in OpenOf(u) /\ workingCode[u] = c
  BY <1>1, WorkingIsOpen DEF ChallengeInv, OpenOf, Open
<1>3. OpenOf(u)' = {}
  BY <1>1, <1>2 DEF ChallengeInv, OneOpen, OpenOf, Open
<1>4. workingCode' = [workingCode EXCEPT ![u] = NoCode]
  <2>1. workingCode'[u] = NoCode
    BY <1>1, <1>3 DEF workingCode
  <2>2. ASSUME NEW v \in Users \ {u}
        PROVE  workingCode'[v] = workingCode[v]
    <3>1. OpenOf(v)' = OpenOf(v)
      BY <1>1 DEF OpenOf, Open
    <3> QED
      BY <3>1 DEF workingCode
  <2> QED
    BY <2>1, <2>2 DEF workingCode
<1>5. {d \in Codes : status'[d] # "none"} = {d \in Codes : status[d] # "none"}
  BY <1>1
<1>6. {d \in Codes : status'[d] = "used"} = {d \in Codes : status[d] = "used"} \cup {c}
  BY <1>1
<1> QED
  BY <1>1, <1>2, <1>4, <1>5, <1>6, SentinelsAreFresh DEF ResetCode!Redeem

\* Every step of the resets is a step of OneTimeCode or invisible to it.
LEMMA StepImplements ==
  TypeOK /\ ChallengeInv /\ [Next]_vars => [ResetCode!CodeNext]_(ResetCode!codeVars)
<1> SUFFICES ASSUME TypeOK, ChallengeInv, [Next]_vars
             PROVE  ResetCode!CodeNext \/ UNCHANGED ResetCode!codeVars
  OBVIOUS
<1>1. ASSUME NEW w \in Workers, RequestCommit(w)
      PROVE  ResetCode!CodeNext
  <2>1. PICK u \in Users, c \in Codes : u = task[w].user /\ c = task[w].code
    BY <1>1, CommitShape
  <2>2. ResetCode!Issue(u)
    BY <1>1, <2>1, CommitKeepsChallenges, CommitIssues
  <2> QED
    BY <2>2 DEF ResetCode!CodeNext
<1>2. ASSUME NEW c \in Codes, ConfirmPasswordReset(c)
      PROVE  ResetCode!CodeNext
  <2>1. PICK u \in Users : u = holder[c]
    BY <1>2 DEF ConfirmPasswordReset, TypeOK
  <2>2. ResetCode!Redeem(u)
    BY <1>2, <2>1, ConfirmRedeems
  <2> QED
    BY <2>2 DEF ResetCode!CodeNext
<1>3. ASSUME NEW w \in Workers, RequestStep(w), ~RequestCommit(w)
      PROVE  UNCHANGED <<status, holder>>
  BY <1>3
  DEF RequestStep, LimitAdd, LimitIncrement, LimitKeyGone, LimitRestart, ResolveIdentifier,
      SnapshotOpen, RevokeOpen, InsertAndSend, InsertConflict, RequestAbort, challengeVars
<1>4. CASE \/ \E c \in Codes : ChallengeLapses(c)
           \/ \E u \in Users : SetActive(u) \/ WindowExpires(u)
           \/ IntroduceKey \/ ReportKeys \/ RetireKey
           \/ UNCHANGED vars
  BY <1>4, QuietStutters
  DEF ChallengeLapses, SetActive, WindowExpires, IntroduceKey, ReportKeys, RetireKey, vars,
      challengeVars
<1> QED
  BY <1>1, <1>2, <1>3, <1>4, QuietStutters DEF Next

\* An account has one code that works at a time, and a code resets the password
\* at most once and never after a newer one was issued.
THEOREM ResetImplementsOneTimeCode == Spec => ImplementsOneTimeCode
<1>1. Init => ResetCode!CodeInit
  BY DEF Init, ResetCode!CodeInit, workingCode, OpenOf, Open
<1>2. IInv /\ [Next]_vars => [ResetCode!CodeNext]_(ResetCode!codeVars)
  BY StepImplements DEF IInv
<1> QED
  BY <1>1, <1>2, Reachable, PTL DEF Spec, ImplementsOneTimeCode, ResetCode!CodeSpec
=============================================================================
