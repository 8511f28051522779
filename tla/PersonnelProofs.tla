--------------------------- MODULE PersonnelProofs ---------------------------
(***************************************************************************)
(* Theorems about Personnel, for any employees, accounts, emails,          *)
(* invitations, codes and workers; among them that it implements           *)
(* OneTimeCode.                                                            *)
(***************************************************************************)
EXTENDS PersonnelHistory, TLAPS

Sent(i) == status[i] # "none"

\* What a transaction found before its commit still holds there: the employee it
\* invites has no account, the account it activates exists.
TasksAreGrounded ==
  \A w \in Workers :
    /\ task[w].op = "invite" => userOf[task[w].employee] = NoUser
    /\ task[w].op = "activate" => Exists(task[w].user)

\* An invitation that was sent names an employee and a code that was mailed.
SentAreComplete ==
  \A i \in Invitations : Sent(i) => employeeOf[i] \in Employees /\ code[i] \in mailed

\* Accounts come from invitations only.
AccountsAreCreated == \A u \in Users : Exists(u) <=> createdBy[u] # NoInvitation

\* accounts_one_open_invitation
OneOpen == \A i, k \in Invitations : Open(i) /\ Open(k) /\ employeeOf[i] = employeeOf[k] => i = k

LinkInv ==
  /\ TasksAreGrounded /\ SentAreComplete /\ AccountsAreCreated /\ OneOpen
  /\ OpenInvitationsAwaitAccount /\ AccountsMatchInvitations

IInv == TypeOK /\ LinkInv
-----------------------------------------------------------------------------
\* A task has the fields of the record of its operation.
LEMMA TaskShape ==
  ASSUME TypeOK, NEW w \in Workers
  PROVE  /\ task[w].op \in {"invite", "depart"} => task[w].employee \in Employees
         /\ task[w].op = "invite" => task[w].email \in Emails
         /\ task[w].op = "depart" => task[w].found \subseteq Users
         /\ task[w].op = "activate" => task[w].user \in Users
<1>1. task[w] \in Task
  BY DEF TypeOK
<1> QED
  BY <1>1 DEF Task, Idle

LEMMA Tasks ==
  /\ Idle \in Task
  /\ \A e \in Employees, m \in Emails : [op |-> "invite", employee |-> e, email |-> m] \in Task
  /\ \A e \in Employees, found \in SUBSET Users :
       [op |-> "depart", employee |-> e, found |-> found] \in Task
  /\ \A u \in Users : [op |-> "activate", user |-> u] \in Task
BY DEF Task

\* A step of one worker leaves the tasks of the others alone.
LEMMA TaskMoves ==
  ASSUME TypeOK, NEW w \in Workers, NEW t \in Task, task' = [task EXCEPT ![w] = t]
  PROVE  /\ task' \in [Workers -> Task]
         /\ task'[w] = t
         /\ \A v \in Workers \ {w} : task'[v] = task[v]
BY DEF TypeOK

LEMMA InitIInv == Init => IInv
<1> SUFFICES ASSUME Init
             PROVE  IInv
  OBVIOUS
<1>1. TypeOK
  BY Tasks DEF Init, TypeOK
<1>2. LinkInv
  BY DEF Init, LinkInv, TasksAreGrounded, SentAreComplete, AccountsAreCreated, OneOpen,
         OpenInvitationsAwaitAccount, AccountsMatchInvitations, Exists, Sent, Open, Idle
<1> QED
  BY <1>1, <1>2 DEF IInv

-----------------------------------------------------------------------------
(***************************************************************************)
(* Types.                                                                  *)
(***************************************************************************)
LEMMA InvitationTypes ==
  ASSUME TypeOK, SentAreComplete, InvitationStep
  PROVE  TypeOK'
<1>1. ASSUME NEW w \in Workers, NEW e \in Employees, NEW m \in Emails, InvitationCheck(w, e, m)
      PROVE  TypeOK'
  <2>1. task' \in [Workers -> Task]
    BY <1>1, Tasks, TaskMoves DEF InvitationCheck, Begin
  <2> QED
    BY <1>1, <2>1 DEF InvitationCheck, TypeOK, Exists, staffVars, accountVars, invitationVars
<1>2. ASSUME NEW w \in Workers, NEW i \in Invitations, NEW c \in Codes, InvitationCommit(w, i, c)
      PROVE  TypeOK'
  <2>1. task[w].employee \in Employees /\ task[w].email \in Emails
    BY <1>2, TaskShape DEF InvitationCommit
  <2>2. task' \in [Workers -> Task]
    BY <1>2, Tasks, TaskMoves DEF InvitationCommit, Finish
  <2>3. status' \in [Invitations -> {"none", "open", "accepted", "revoked"}]
    BY <1>2 DEF InvitationCommit, TypeOK
  <2> QED
    BY <1>2, <2>1, <2>2, <2>3
    DEF InvitationCommit, GenerateCode, TypeOK, Exists, staffVars, accountVars
<1>3. ASSUME NEW w \in Workers, InvitationAbort(w)
      PROVE  TypeOK'
  <2>1. task' \in [Workers -> Task]
    BY <1>3, Tasks, TaskMoves DEF InvitationAbort, Finish
  <2> QED
    BY <1>3, <2>1 DEF InvitationAbort, TypeOK, Exists, staffVars, accountVars, invitationVars
<1>4. ASSUME NEW i \in Invitations, NEW c \in Codes, ResendInvitation(i, c)
      PROVE  TypeOK'
  BY <1>4 DEF ResendInvitation, GenerateCode, TypeOK, Exists, staffVars, accountVars
<1>5. ASSUME NEW i \in Invitations, RevokeInvitation(i) \/ InvitationLapses(i)
      PROVE  TypeOK'
  BY <1>5 DEF RevokeInvitation, InvitationLapses, TypeOK, Exists, staffVars, accountVars
<1>6. ASSUME NEW i \in Invitations, NEW c \in Codes, NEW u \in Users, AcceptInvitation(i, c, u)
      PROVE  TypeOK'
  <2>1. employeeOf[i] \in Employees
    BY <1>6 DEF AcceptInvitation, Valid, Open, Sent, SentAreComplete
  <2>2. invitedEmail[i] \in Emails \cup {NoEmail}
    BY DEF TypeOK
  <2>3. email[u] = NoEmail
    BY <1>6 DEF AcceptInvitation, Exists
  <2>4. invitedEmail[i] # NoEmail
    BY <1>6, <2>3 DEF AcceptInvitation
  <2>5. email' \in [Users -> Emails \cup {NoEmail}] /\ email'[u] # NoEmail
        /\ \A v \in Users \ {u} : email'[v] = email[v]
    BY <1>6, <2>2, <2>4 DEF AcceptInvitation, TypeOK
  <2>6. active' \subseteq {v \in Users : Exists(v)'}
    BY <1>6, <2>5 DEF AcceptInvitation, TypeOK, Exists
  <2> QED
    BY <1>6, <2>1, <2>5, <2>6 DEF AcceptInvitation, LinkAccount, TypeOK, Exists
<1> QED
  BY <1>1, <1>2, <1>3, <1>4, <1>5, <1>6 DEF InvitationStep

LEMMA TypesKept == TypeOK /\ TasksAreGrounded /\ SentAreComplete /\ [Next]_vars => TypeOK'
<1> SUFFICES ASSUME TypeOK, TasksAreGrounded, SentAreComplete, [Next]_vars
             PROVE  TypeOK'
  OBVIOUS
<1>1. CASE EmploymentStep
  <2>1. ASSUME NEW w \in Workers, NEW e \in Employees, DepartRead(w, e)
        PROVE  TypeOK'
    <3>1. task' \in [Workers -> Task]
      BY <2>1, Tasks, TaskMoves DEF DepartRead, Begin, AccountsFound
    <3> QED
      BY <2>1, <3>1 DEF DepartRead, TypeOK, Exists, staffVars, accountVars, invitationVars
  <2>2. ASSUME NEW w \in Workers, DepartCommit(w) \/ DepartAgain(w)
        PROVE  TypeOK'
    <3>1. task' \in [Workers -> Task] /\ task[w].employee \in Employees
      BY <2>2, Tasks, TaskMoves, TaskShape DEF DepartCommit, DepartAgain, Finish
    <3> QED
      BY <2>2, <3>1
      DEF DepartCommit, DepartAgain, TypeOK, Exists, staffVars, accountVars, invitationVars
  <2>3. ASSUME NEW e \in Employees, ReactivateEmployee(e)
        PROVE  TypeOK'
    BY <2>3 DEF ReactivateEmployee, TypeOK, Exists, accountVars, invitationVars
  <2> QED
    BY <1>1, <2>1, <2>2, <2>3 DEF EmploymentStep
<1>2. CASE AccountStep
  <2>1. ASSUME NEW w \in Workers, NEW u \in Users, ActivateCheck(w, u)
        PROVE  TypeOK'
    <3>1. task' \in [Workers -> Task]
      BY <2>1, Tasks, TaskMoves DEF ActivateCheck, Begin
    <3> QED
      BY <2>1, <3>1 DEF ActivateCheck, TypeOK, Exists, staffVars, accountVars, invitationVars
  <2>2. ASSUME NEW w \in Workers, ActivateCommit(w)
        PROVE  TypeOK'
    <3>1. task' \in [Workers -> Task] /\ task[w].user \in Users /\ Exists(task[w].user)
      BY <2>2, Tasks, TaskMoves, TaskShape DEF ActivateCommit, Finish, TasksAreGrounded
    <3> QED
      BY <2>2, <3>1 DEF ActivateCommit, TypeOK, Exists, staffVars, invitationVars
  <2>3. ASSUME NEW u \in Users, DeactivateAccount(u)
        PROVE  TypeOK'
    BY <2>3 DEF DeactivateAccount, TypeOK, Exists, staffVars, invitationVars
  <2>4. ASSUME NEW u \in Users, NEW m \in Emails, UpdateAccountEmail(u, m)
        PROVE  TypeOK'
    BY <2>4, SentinelsAreFresh DEF UpdateAccountEmail, TypeOK, Exists, staffVars, invitationVars
  <2> QED
    BY <1>2, <2>1, <2>2, <2>3, <2>4 DEF AccountStep
<1>3. CASE UNCHANGED vars
  BY <1>3 DEF vars, TypeOK, Exists, staffVars, accountVars, invitationVars
<1> QED
  BY <1>1, <1>2, <1>3, InvitationTypes DEF Next

-----------------------------------------------------------------------------
(***************************************************************************)
(* Accounts, employees and invitations.                                    *)
(***************************************************************************)

\* A step that changes none of the links between them, and starts only tasks
\* that are grounded, keeps their invariant.
LEMMA QuietKeepsLinks ==
  ASSUME LinkInv, UNCHANGED <<userOf, createdBy, employeeOf, status, code, mailed>>,
         \A u \in Users : Exists(u)' <=> Exists(u),
         \A w \in Workers :
           \/ task'[w] = task[w] /\ (task[w].op = "activate" => task[w].user \in Users)
           \/ /\ task'[w].op = "invite" => userOf[task'[w].employee] = NoUser
              /\ task'[w].op = "activate" => task'[w].user \in Users /\ Exists(task'[w].user)
  PROVE  LinkInv'
<1>1. TasksAreGrounded'
  <2>1. ASSUME NEW w \in Workers
        PROVE  /\ task'[w].op = "invite" => userOf[task'[w].employee] = NoUser
               /\ task'[w].op = "activate" => task'[w].user \in Users /\ Exists(task'[w].user)
    BY DEF LinkInv, TasksAreGrounded
  <2> QED
    BY <2>1 DEF TasksAreGrounded, Exists
<1>2. SentAreComplete' /\ OneOpen' /\ OpenInvitationsAwaitAccount'
  BY DEF LinkInv, SentAreComplete, OneOpen, OpenInvitationsAwaitAccount, Sent, Open
<1>3. AccountsAreCreated' /\ AccountsMatchInvitations'
  BY DEF LinkInv, AccountsAreCreated, AccountsMatchInvitations
<1> QED
  BY <1>1, <1>2, <1>3 DEF LinkInv

\* What the insert of an invitation does to the invitations.
LEMMA CommitShape ==
  ASSUME TypeOK, LinkInv, NEW w \in Workers, NEW i \in Invitations, NEW c \in Codes,
         InvitationCommit(w, i, c), NEW e, e = task[w].employee
  PROVE  /\ e \in Employees /\ userOf[e] = NoUser
         /\ status[i] = "none" /\ status'[i] = "open" /\ employeeOf'[i] = e /\ code'[i] = c
         /\ \A k \in Invitations \ {i} :
              /\ employeeOf'[k] = employeeOf[k] /\ code'[k] = code[k]
              /\ status'[k] = IF Open(k) /\ employeeOf[k] = e THEN "revoked" ELSE status[k]
         /\ c \notin mailed /\ mailed' = mailed \cup {c}
         /\ UNCHANGED <<userOf, email, createdBy>>
<1>1. e \in Employees /\ userOf[e] = NoUser
  BY TaskShape DEF InvitationCommit, LinkInv, TasksAreGrounded
<1>2. status[i] = "none" /\ status'[i] = "open"
      /\ \A k \in Invitations \ {i} :
           status'[k] = IF Open(k) /\ employeeOf[k] = e THEN "revoked" ELSE status[k]
  BY DEF InvitationCommit, OpenOf
<1>3. /\ employeeOf'[i] = e /\ code'[i] = c
      /\ \A k \in Invitations \ {i} : employeeOf'[k] = employeeOf[k] /\ code'[k] = code[k]
  BY DEF InvitationCommit, GenerateCode, TypeOK
<1> QED
  BY <1>1, <1>2, <1>3 DEF InvitationCommit, GenerateCode, staffVars, accountVars

LEMMA CommitKeepsLinks ==
  ASSUME TypeOK, LinkInv, NEW w \in Workers, NEW i \in Invitations, NEW c \in Codes,
         InvitationCommit(w, i, c)
  PROVE  LinkInv'
<1>0. PICK e : e = task[w].employee
  OBVIOUS
<1>1. /\ e \in Employees /\ userOf[e] = NoUser
      /\ status[i] = "none" /\ status'[i] = "open" /\ employeeOf'[i] = e /\ code'[i] = c
      /\ \A k \in Invitations \ {i} :
           /\ employeeOf'[k] = employeeOf[k] /\ code'[k] = code[k]
           /\ status'[k] = IF Open(k) /\ employeeOf[k] = e THEN "revoked" ELSE status[k]
      /\ c \notin mailed /\ mailed' = mailed \cup {c}
      /\ UNCHANGED <<userOf, email, createdBy>>
  BY <1>0, CommitShape
<1>2. TasksAreGrounded'
  <2>1. task'[w] = Idle /\ \A v \in Workers \ {w} : task'[v] = task[v]
    BY Tasks, TaskMoves DEF InvitationCommit, Finish
  <2>2. ASSUME NEW v \in Workers, v # w
        PROVE  /\ task[v].op = "invite" => userOf[task[v].employee] = NoUser
               /\ task[v].op = "activate" => email[task[v].user] # NoEmail
    BY DEF LinkInv, TasksAreGrounded, Exists
  <2>3. task'[w].op = "idle"
    BY <2>1 DEF Idle
  <2> QED
    BY <1>1, <2>1, <2>2, <2>3 DEF TasksAreGrounded, Exists
<1>3. SentAreComplete'
  BY <1>1 DEF LinkInv, SentAreComplete, Sent, Open
<1>4. OneOpen' /\ OpenInvitationsAwaitAccount'
  BY <1>1 DEF LinkInv, OneOpen, OpenInvitationsAwaitAccount, Open
<1>5. AccountsAreCreated'
  BY <1>1 DEF LinkInv, AccountsAreCreated, Exists
<1>6. AccountsMatchInvitations'
  <2>1. ASSUME NEW u \in Users, Exists(u)
        PROVE  /\ status'[createdBy[u]] = "accepted"
               /\ userOf[employeeOf'[createdBy[u]]] = u
    <3>1. createdBy[u] \in Invitations /\ status[createdBy[u]] = "accepted"
          /\ userOf[employeeOf[createdBy[u]]] = u
      BY <2>1 DEF LinkInv, AccountsAreCreated, AccountsMatchInvitations, TypeOK
    <3> QED
      BY <1>1, <3>1 DEF Open
  <2>2. ASSUME NEW k \in Invitations, status'[k] = "accepted"
        PROVE  \E u \in Users : createdBy[u] = k
    BY <1>1, <2>2 DEF LinkInv, AccountsMatchInvitations, Open
  <2> QED
    BY <1>1, <2>1, <2>2 DEF AccountsMatchInvitations, Exists
<1> QED
  BY <1>2, <1>3, <1>4, <1>5, <1>6 DEF LinkInv

\* A resend is a new code on an open invitation; a revocation closes it.
LEMMA ResendKeepsLinks ==
  ASSUME TypeOK, LinkInv, NEW i \in Invitations, NEW c \in Codes, ResendInvitation(i, c)
  PROVE  LinkInv'
<1>1. /\ status[i] = "open" /\ status' = status /\ code'[i] = c
      /\ \A k \in Invitations \ {i} : code'[k] = code[k]
      /\ mailed' = mailed \cup {c}
      /\ UNCHANGED <<userOf, email, createdBy, employeeOf, task>>
  BY DEF ResendInvitation, ResendAllowed, Open, GenerateCode, TypeOK, staffVars, accountVars
<1>2. TasksAreGrounded' /\ OneOpen' /\ OpenInvitationsAwaitAccount' /\ AccountsAreCreated'
      /\ AccountsMatchInvitations'
  BY <1>1
  DEF LinkInv, TasksAreGrounded, OneOpen, OpenInvitationsAwaitAccount, AccountsAreCreated,
      AccountsMatchInvitations, Exists, Open
<1>3. SentAreComplete'
  BY <1>1 DEF LinkInv, SentAreComplete, Sent
<1> QED
  BY <1>2, <1>3 DEF LinkInv

LEMMA RevokeKeepsLinks ==
  ASSUME TypeOK, LinkInv, NEW i \in Invitations, RevokeInvitation(i)
  PROVE  LinkInv'
<1>1. /\ status[i] = "open" /\ status'[i] = "revoked"
      /\ \A k \in Invitations \ {i} : status'[k] = status[k]
      /\ UNCHANGED <<userOf, email, createdBy, employeeOf, code, mailed, task>>
  BY DEF RevokeInvitation, Open, TypeOK, staffVars, accountVars
<1>2. TasksAreGrounded' /\ OneOpen' /\ OpenInvitationsAwaitAccount' /\ AccountsAreCreated'
  BY <1>1
  DEF LinkInv, TasksAreGrounded, OneOpen, OpenInvitationsAwaitAccount, AccountsAreCreated,
      Exists, Open
<1>3. SentAreComplete'
  BY <1>1 DEF LinkInv, SentAreComplete, Sent
<1>4. AccountsMatchInvitations'
  <2>1. \A u \in Users : Exists(u) => createdBy[u] \in Invitations /\ createdBy[u] # i
    BY <1>1 DEF LinkInv, AccountsAreCreated, AccountsMatchInvitations, TypeOK
  <2> QED
    BY <1>1, <2>1 DEF LinkInv, AccountsMatchInvitations, Exists
<1> QED
  BY <1>2, <1>3, <1>4 DEF LinkInv

\* What an acceptance does to accounts, employees and invitations.
LEMMA AcceptShape ==
  ASSUME TypeOK, LinkInv, NEW i \in Invitations, NEW c \in Codes, NEW u \in Users,
         AcceptInvitation(i, c, u), NEW e, e = employeeOf[i]
  PROVE  /\ e \in Employees /\ userOf[e] = NoUser /\ userOf'[e] = u
         /\ \A f \in Employees \ {e} : userOf'[f] = userOf[f]
         /\ status[i] = "open" /\ status'[i] = "accepted"
         /\ \A k \in Invitations \ {i} : status'[k] = status[k]
         /\ ~Exists(u) /\ Exists(u)' /\ createdBy'[u] = i
         /\ \A v \in Users \ {u} : email'[v] = email[v] /\ createdBy'[v] = createdBy[v]
         /\ \A w \in Workers : task[w].op = "invite" => task[w].employee # e
         /\ UNCHANGED <<employeeOf, code, mailed, task>>
<1>1. status[i] = "open" /\ status'[i] = "accepted"
      /\ \A k \in Invitations \ {i} : status'[k] = status[k]
  BY DEF AcceptInvitation, Valid, Open, TypeOK
<1>2. e \in Employees /\ userOf[e] = NoUser
  BY <1>1 DEF AcceptInvitation, TargetAllowed, LinkInv, SentAreComplete, Sent
<1>3. userOf'[e] = u /\ \A f \in Employees \ {e} : userOf'[f] = userOf[f]
  BY <1>2 DEF AcceptInvitation, LinkAccount, TypeOK
<1>4. email[u] = NoEmail /\ invitedEmail[i] # NoEmail
  <2>1. email[u] = NoEmail
    BY DEF AcceptInvitation, Exists
  <2> QED
    BY <2>1 DEF AcceptInvitation
<1>5. ~Exists(u) /\ Exists(u)' /\ createdBy'[u] = i
      /\ \A v \in Users \ {u} : email'[v] = email[v] /\ createdBy'[v] = createdBy[v]
  BY <1>4 DEF AcceptInvitation, TypeOK, Exists
<1> QED
  BY <1>1, <1>2, <1>3, <1>5 DEF AcceptInvitation, EmployeeFree

LEMMA AcceptKeepsLinks ==
  ASSUME TypeOK, LinkInv, NEW i \in Invitations, NEW c \in Codes, NEW u \in Users,
         AcceptInvitation(i, c, u)
  PROVE  LinkInv'
<1>0. PICK e : e = employeeOf[i]
  OBVIOUS
<1>1. /\ e \in Employees /\ userOf[e] = NoUser /\ userOf'[e] = u
      /\ \A f \in Employees \ {e} : userOf'[f] = userOf[f]
      /\ status[i] = "open" /\ status'[i] = "accepted"
      /\ \A k \in Invitations \ {i} : status'[k] = status[k]
      /\ ~Exists(u) /\ Exists(u)' /\ createdBy'[u] = i
      /\ \A v \in Users \ {u} : email'[v] = email[v] /\ createdBy'[v] = createdBy[v]
      /\ \A w \in Workers : task[w].op = "invite" => task[w].employee # e
      /\ UNCHANGED <<employeeOf, code, mailed, task>>
  BY <1>0, AcceptShape
<1>2. TasksAreGrounded'
  <2>1. ASSUME NEW w \in Workers, task[w].op = "invite"
        PROVE  userOf'[task[w].employee] = NoUser
    <3>1. task[w].employee \in Employees \ {e} /\ userOf[task[w].employee] = NoUser
      BY <1>1, <2>1, TaskShape DEF LinkInv, TasksAreGrounded
    <3> QED
      BY <1>1, <3>1
  <2>2. ASSUME NEW w \in Workers, task[w].op = "activate"
        PROVE  Exists(task[w].user)'
    <3>1. task[w].user \in Users /\ email[task[w].user] # NoEmail
      BY <2>2, TaskShape DEF LinkInv, TasksAreGrounded, Exists
    <3>2. email'[task[w].user] = email[task[w].user]
      BY <1>1, <3>1 DEF Exists
    <3> QED
      BY <1>1, <3>1, <3>2 DEF Exists
  <2> QED
    BY <1>1, <2>1, <2>2 DEF TasksAreGrounded, Exists
<1>3. SentAreComplete' /\ OneOpen'
  BY <1>1 DEF LinkInv, SentAreComplete, OneOpen, Sent, Open
<1>4. OpenInvitationsAwaitAccount'
  <2>1. ASSUME NEW k \in Invitations, status'[k] = "open"
        PROVE  userOf'[employeeOf[k]] = NoUser
    <3>1. k # i /\ status[k] = "open"
      BY <1>1, <2>1
    <3>2. employeeOf[k] # e /\ employeeOf[k] \in Employees
      BY <1>0, <1>1, <3>1 DEF LinkInv, OneOpen, SentAreComplete, Sent, Open
    <3>3. userOf[employeeOf[k]] = NoUser
      BY <3>1 DEF LinkInv, OpenInvitationsAwaitAccount, Open
    <3> QED
      BY <1>1, <3>2, <3>3
  <2> QED
    BY <1>1, <2>1 DEF OpenInvitationsAwaitAccount, Open
<1>5. AccountsAreCreated'
  BY <1>1, SentinelsAreFresh DEF LinkInv, AccountsAreCreated, Exists
<1>6. AccountsMatchInvitations'
  <2>1. ASSUME NEW v \in Users \ {u}, Exists(v)
        PROVE  /\ status'[createdBy[v]] = "accepted"
               /\ userOf'[employeeOf[createdBy[v]]] = v
    <3>1. /\ createdBy[v] \in Invitations /\ status[createdBy[v]] = "accepted"
          /\ userOf[employeeOf[createdBy[v]]] = v
      BY <2>1 DEF LinkInv, AccountsAreCreated, AccountsMatchInvitations, TypeOK
    <3>2. employeeOf[createdBy[v]] \in Employees
      BY <3>1 DEF LinkInv, SentAreComplete, Sent
    <3>3. employeeOf[createdBy[v]] # e
      BY <1>1, <3>1, SentinelsAreFresh
    <3> QED
      BY <1>1, <3>1, <3>2, <3>3
  <2>2. ASSUME NEW k \in Invitations, status'[k] = "accepted"
        PROVE  \E v \in Users : createdBy'[v] = k
    <3>1. CASE k = i
      BY <1>1, <3>1
    <3>2. CASE k # i
      <4>1. PICK v \in Users : createdBy[v] = k
        BY <1>1, <2>2, <3>2 DEF LinkInv, AccountsMatchInvitations
      <4>2. v # u
        BY <1>1, <4>1, SentinelsAreFresh DEF LinkInv, AccountsAreCreated
      <4> QED
        BY <1>1, <4>1, <4>2
    <3> QED
      BY <3>1, <3>2
  <2>3. ASSUME NEW v \in Users, Exists(v)'
        PROVE  /\ status'[createdBy'[v]] = "accepted"
               /\ userOf'[employeeOf'[createdBy'[v]]] = v
    <3>1. CASE v = u
      BY <1>0, <1>1, <3>1
    <3>2. CASE v # u
      <4>1. Exists(v)
        BY <1>1, <2>3, <3>2 DEF Exists
      <4> QED
        BY <1>1, <2>1, <3>2, <4>1
    <3> QED
      BY <3>1, <3>2
  <2> QED
    BY <2>2, <2>3 DEF AccountsMatchInvitations, Exists
<1> QED
  BY <1>2, <1>3, <1>4, <1>5, <1>6 DEF LinkInv

LEMMA LinksKept == TypeOK /\ LinkInv /\ [Next]_vars => LinkInv'
<1> SUFFICES ASSUME TypeOK, LinkInv, [Next]_vars
             PROVE  LinkInv'
  OBVIOUS
<1>0. /\ \A w \in Workers : task[w].op = "activate" => task[w].user \in Users
      /\ \A e \in Employees : TargetAllowed(e) => userOf[e] = NoUser
      /\ \A w \in Workers, t \in Task : task' = [task EXCEPT ![w] = t] =>
           task'[w] = t /\ \A v \in Workers \ {w} : task'[v] = task[v]
  BY TaskShape, TaskMoves DEF TargetAllowed
<1>1. CASE InvitationStep
  <2>1. ASSUME NEW w \in Workers, NEW e \in Employees, NEW m \in Emails,
               InvitationCheck(w, e, m)
        PROVE  LinkInv'
    <3>1. /\ userOf[e] = NoUser
          /\ task'[w] = [op |-> "invite", employee |-> e, email |-> m]
          /\ \A v \in Workers \ {w} : task'[v] = task[v]
      BY <1>0, <2>1, Tasks DEF InvitationCheck, Begin
    <3>2. UNCHANGED <<userOf, email, createdBy, employeeOf, status, code, mailed>>
      BY <2>1 DEF InvitationCheck, staffVars, accountVars, invitationVars
    <3> QED
      BY <1>0, <3>1, <3>2, QuietKeepsLinks DEF Exists
  <2>2. ASSUME NEW w \in Workers, InvitationAbort(w)
        PROVE  LinkInv'
    <3>1. task'[w] = Idle /\ \A v \in Workers \ {w} : task'[v] = task[v]
      BY <1>0, <2>2, Tasks DEF InvitationAbort, Finish
    <3>2. UNCHANGED <<userOf, email, createdBy, employeeOf, status, code, mailed>>
      BY <2>2 DEF InvitationAbort, staffVars, accountVars, invitationVars
    <3> QED
      BY <1>0, <3>1, <3>2, QuietKeepsLinks DEF Exists, Idle
  <2>3. ASSUME NEW i \in Invitations, InvitationLapses(i)
        PROVE  LinkInv'
    BY <1>0, <2>3, QuietKeepsLinks DEF InvitationLapses, staffVars, accountVars, Exists
  <2> QED
    BY <1>1, <2>1, <2>2, <2>3, CommitKeepsLinks, ResendKeepsLinks, RevokeKeepsLinks,
       AcceptKeepsLinks DEF InvitationStep
<1>2. CASE EmploymentStep
  <2>1. UNCHANGED <<userOf, email, createdBy, employeeOf, status, code, mailed>>
    BY <1>2
    DEF EmploymentStep, DepartRead, DepartCommit, DepartAgain, ReactivateEmployee, staffVars,
        accountVars, invitationVars
  <2>2. ASSUME NEW v \in Workers
        PROVE  task'[v] = task[v] \/ task'[v].op \in {"idle", "depart"}
    <3>1. CASE \E e \in Employees : ReactivateEmployee(e)
      BY <3>1 DEF ReactivateEmployee
    <3>2. ASSUME NEW w \in Workers, NEW t \in Task, t.op \in {"idle", "depart"},
                 task' = [task EXCEPT ![w] = t]
          PROVE  task'[v] = task[v] \/ task'[v].op \in {"idle", "depart"}
      BY <1>0, <3>2
    <3>3. ASSUME NEW w \in Workers, DepartCommit(w) \/ DepartAgain(w)
          PROVE  task'[v] = task[v] \/ task'[v].op \in {"idle", "depart"}
      BY <3>2, <3>3, Tasks DEF DepartCommit, DepartAgain, Finish, Idle
    <3>4. ASSUME NEW w \in Workers, NEW e \in Employees, DepartRead(w, e)
          PROVE  task'[v] = task[v] \/ task'[v].op \in {"idle", "depart"}
      BY <3>2, <3>4, Tasks DEF DepartRead, Begin, AccountsFound
    <3> QED
      BY <1>2, <3>1, <3>3, <3>4 DEF EmploymentStep
  <2> QED
    BY <1>0, <2>1, <2>2, QuietKeepsLinks DEF Exists
<1>3. CASE AccountStep
  <2>1. ASSUME NEW w \in Workers, NEW u \in Users, ActivateCheck(w, u)
        PROVE  LinkInv'
    <3>1. task'[w] = [op |-> "activate", user |-> u]
          /\ \A v \in Workers \ {w} : task'[v] = task[v]
      BY <1>0, <2>1, Tasks DEF ActivateCheck, Begin
    <3>2. /\ UNCHANGED <<userOf, email, createdBy, employeeOf, status, code, mailed>>
          /\ Exists(u)
      BY <2>1 DEF ActivateCheck, staffVars, accountVars, invitationVars
    <3> QED
      BY <1>0, <3>1, <3>2, QuietKeepsLinks DEF Exists
  <2>2. ASSUME NEW w \in Workers, ActivateCommit(w)
        PROVE  LinkInv'
    <3>1. task'[w] = Idle /\ \A v \in Workers \ {w} : task'[v] = task[v]
      BY <1>0, <2>2, Tasks DEF ActivateCommit, Finish
    <3>2. UNCHANGED <<userOf, email, createdBy, employeeOf, status, code, mailed>>
      BY <2>2 DEF ActivateCommit, staffVars, invitationVars
    <3> QED
      BY <1>0, <3>1, <3>2, QuietKeepsLinks DEF Exists, Idle
  <2>3. ASSUME NEW u \in Users, DeactivateAccount(u)
        PROVE  LinkInv'
    BY <1>0, <2>3, QuietKeepsLinks DEF DeactivateAccount, staffVars, invitationVars, Exists
  <2>4. ASSUME NEW u \in Users, NEW m \in Emails, UpdateAccountEmail(u, m)
        PROVE  LinkInv'
    <3>1. /\ \A v \in Users : Exists(v)' <=> Exists(v)
          /\ UNCHANGED <<userOf, createdBy, employeeOf, status, code, mailed, task>>
      BY <2>4, SentinelsAreFresh
      DEF UpdateAccountEmail, TypeOK, Exists, staffVars, invitationVars
    <3> QED
      BY <1>0, <3>1, QuietKeepsLinks
  <2> QED
    BY <1>3, <2>1, <2>2, <2>3, <2>4 DEF AccountStep
<1>4. CASE UNCHANGED vars
  BY <1>0, <1>4, QuietKeepsLinks DEF vars, staffVars, accountVars, invitationVars, Exists
<1> QED
  BY <1>1, <1>2, <1>3, <1>4 DEF Next

-----------------------------------------------------------------------------
LEMMA Reachable == Spec => []IInv
<1>1. IInv /\ [Next]_vars => IInv'
  BY TypesKept, LinksKept DEF IInv, LinkInv
<1> QED
  BY InitIInv, <1>1, PTL DEF Spec

\* Every state has the types of TypeOK; only accounts that exist are active.
THEOREM Types == Spec => []TypeOK
<1>1. IInv => TypeOK
  BY DEF IInv
<1> QED
  BY <1>1, Reachable, PTL

\* Accounts and accepted invitations correspond one to one: whatever
\* invitations, resends and departures overlap, nobody gets a second account.
THEOREM OneAccountEach == Spec => []AccountsMatchInvitations
<1>1. IInv => AccountsMatchInvitations
  BY DEF IInv, LinkInv
<1> QED
  BY <1>1, Reachable, PTL

\* While an invitation is open its employee has no account.
THEOREM InviteesHaveNoAccount == Spec => []OpenInvitationsAwaitAccount
<1>1. IInv => OpenInvitationsAwaitAccount
  BY DEF IInv, LinkInv
<1> QED
  BY <1>1, Reachable, PTL

-----------------------------------------------------------------------------
(***************************************************************************)
(* Personnel implements OneTimeCode.                                       *)
(***************************************************************************)
Accepted == {code[i] : i \in {k \in Invitations : status[k] = "accepted"}}

\* The code of an employee that works is the one of the only open invitation.
LEMMA WorkingIsOpen ==
  ASSUME OneOpen, NEW e \in Employees
  PROVE  /\ OpenOf(e) = {} => workingCode[e] = NoCode
         /\ \A i \in OpenOf(e) : workingCode[e] = code[i]
<1>1. ASSUME NEW i \in OpenOf(e)
      PROVE  workingCode[e] = code[i]
  <2>1. (CHOOSE k \in OpenOf(e) : TRUE) \in OpenOf(e)
    BY <1>1
  <2>2. \A k \in OpenOf(e) : k = i
    BY <1>1 DEF OneOpen, OpenOf
  <2> QED
    BY <1>1, <2>1, <2>2 DEF workingCode
<1> QED
  BY <1>1 DEF workingCode

\* A step that changes no invitation is a stutter of OneTimeCode.
LEMMA QuietStutters ==
  ASSUME UNCHANGED <<status, employeeOf, code, mailed>>
  PROVE  UNCHANGED InvitationCode!codeVars
BY DEF InvitationCode!codeVars, workingCode, OpenOf, Open

\* The code a fresh invitation, or a resend, puts on invitation i of e.
LEMMA NewCodeIssues ==
  ASSUME OneOpen', NEW e \in Employees, NEW i \in Invitations, NEW c \in Codes,
         c \notin mailed, mailed' = mailed \cup {c},
         status[i] # "accepted", Open(i) => employeeOf[i] = e,
         status'[i] = "open", employeeOf'[i] = e, code'[i] = c,
         \A k \in Invitations \ {i} :
           /\ employeeOf'[k] = employeeOf[k] /\ code'[k] = code[k]
           /\ status'[k] = "accepted" <=> status[k] = "accepted"
           /\ employeeOf[k] # e => status'[k] = status[k]
  PROVE  InvitationCode!Issue(e)
<1>1. Accepted' = Accepted
  BY DEF Accepted
<1>2. workingCode' = [workingCode EXCEPT ![e] = c]
  <2>1. workingCode'[e] = c
    <3>1. i \in OpenOf(e)'
      BY DEF OpenOf, Open
    <3>2. OpenOf(e)' = {i}
      BY <3>1 DEF OneOpen, OpenOf, Open
    <3> QED
      BY <3>2 DEF workingCode
  <2>2. ASSUME NEW f \in Employees \ {e}
        PROVE  workingCode'[f] = workingCode[f]
    <3>1. OpenOf(f)' = OpenOf(f)
      BY DEF OpenOf, Open
    <3>2. \A k \in OpenOf(f) : code'[k] = code[k]
      BY DEF OpenOf, Open
    <3>3. OpenOf(f) # {} => (CHOOSE k \in OpenOf(f) : TRUE) \in OpenOf(f)
      OBVIOUS
    <3> QED
      BY <3>1, <3>2, <3>3 DEF workingCode
  <2>3. /\ workingCode = [f \in Employees |-> workingCode[f]]
        /\ workingCode' = [f \in Employees |-> workingCode'[f]]
    BY DEF workingCode
  <2> QED
    BY <2>1, <2>2, <2>3
<1> QED
  BY <1>1, <1>2 DEF InvitationCode!Issue, Accepted

\* A step that closes the open invitation i leaves its employee without a code.
LEMMA ClosingEmpties ==
  ASSUME TypeOK, OneOpen, NEW i \in Invitations, status[i] = "open", status'[i] # "open",
         \A k \in Invitations \ {i} : status'[k] = status[k],
         UNCHANGED <<employeeOf, code>>, NEW e \in Employees, e = employeeOf[i]
  PROVE  workingCode[e] = code[i] /\ workingCode' = [workingCode EXCEPT ![e] = NoCode]
<1>1. workingCode[e] = code[i]
  BY WorkingIsOpen DEF OpenOf, Open
<1>2. workingCode'[e] = NoCode
  <2>1. OpenOf(e)' = {}
    BY DEF OneOpen, OpenOf, Open
  <2> QED
    BY <2>1 DEF workingCode
<1>3. ASSUME NEW f \in Employees \ {e}
      PROVE  workingCode'[f] = workingCode[f]
  <2>1. OpenOf(f)' = OpenOf(f)
    BY DEF OpenOf, Open
  <2> QED
    BY <2>1 DEF workingCode
<1>4. /\ workingCode = [f \in Employees |-> workingCode[f]]
      /\ workingCode' = [f \in Employees |-> workingCode'[f]]
  BY DEF workingCode
<1> QED
  BY <1>1, <1>2, <1>3, <1>4

\* Sending, resending, revoking and accepting an invitation are the steps of
\* OneTimeCode for its employee.
LEMMA CommitIssues ==
  ASSUME TypeOK, LinkInv, NEW w \in Workers, NEW i \in Invitations, NEW c \in Codes,
         InvitationCommit(w, i, c)
  PROVE  \E e \in Employees : InvitationCode!Issue(e)
<1>0. PICK e : e = task[w].employee
  OBVIOUS
<1>1. OneOpen'
  BY CommitKeepsLinks DEF LinkInv
<1>2. /\ e \in Employees /\ c \notin mailed /\ mailed' = mailed \cup {c}
      /\ status[i] = "none" /\ status'[i] = "open" /\ employeeOf'[i] = e /\ code'[i] = c
      /\ \A k \in Invitations \ {i} :
           /\ employeeOf'[k] = employeeOf[k] /\ code'[k] = code[k]
           /\ status'[k] = IF Open(k) /\ employeeOf[k] = e THEN "revoked" ELSE status[k]
  BY <1>0, CommitShape
<1>3. \A k \in Invitations \ {i} :
        /\ status'[k] = "accepted" <=> status[k] = "accepted"
        /\ employeeOf[k] # e => status'[k] = status[k]
  BY <1>2 DEF Open
<1>4. InvitationCode!Issue(e)
  BY <1>1, <1>2, <1>3, NewCodeIssues DEF Open
<1> QED
  BY <1>2, <1>4

LEMMA ResendIssues ==
  ASSUME TypeOK, LinkInv, NEW i \in Invitations, NEW c \in Codes, ResendInvitation(i, c)
  PROVE  \E e \in Employees : InvitationCode!Issue(e)
<1>1. OneOpen'
  BY ResendKeepsLinks DEF LinkInv
<1>2. /\ status[i] = "open" /\ status' = status /\ code'[i] = c
      /\ \A k \in Invitations \ {i} : code'[k] = code[k]
      /\ c \notin mailed /\ mailed' = mailed \cup {c}
      /\ UNCHANGED employeeOf
  BY DEF ResendInvitation, ResendAllowed, Open, GenerateCode, TypeOK
<1>3. PICK e \in Employees : e = employeeOf[i]
  BY <1>2 DEF LinkInv, SentAreComplete, Sent
<1>4. InvitationCode!Issue(e)
  BY <1>1, <1>2, <1>3, NewCodeIssues DEF Open
<1> QED
  BY <1>4

LEMMA RevokeWithdraws ==
  ASSUME TypeOK, LinkInv, NEW i \in Invitations, RevokeInvitation(i)
  PROVE  \E e \in Employees : InvitationCode!Withdraw(e)
<1>1. /\ status[i] = "open" /\ status'[i] = "revoked"
      /\ \A k \in Invitations \ {i} : status'[k] = status[k]
      /\ UNCHANGED <<employeeOf, code, mailed>>
  BY DEF RevokeInvitation, Open, TypeOK
<1>2. PICK e \in Employees : e = employeeOf[i]
  BY <1>1 DEF LinkInv, SentAreComplete, Sent
<1>3. workingCode[e] = code[i] /\ workingCode' = [workingCode EXCEPT ![e] = NoCode]
  BY <1>1, <1>2, ClosingEmpties DEF LinkInv
<1>4. code[i] # NoCode
  BY <1>1, SentinelsAreFresh DEF LinkInv, SentAreComplete, Sent, TypeOK
<1>5. Accepted' = Accepted
  BY <1>1 DEF Accepted
<1>6. InvitationCode!Withdraw(e)
  BY <1>1, <1>3, <1>4, <1>5 DEF InvitationCode!Withdraw, Accepted
<1> QED
  BY <1>6

LEMMA AcceptRedeems ==
  ASSUME TypeOK, LinkInv, NEW i \in Invitations, NEW c \in Codes, NEW u \in Users,
         AcceptInvitation(i, c, u)
  PROVE  \E e \in Employees : InvitationCode!Redeem(e)
<1>1. /\ status[i] = "open" /\ status'[i] = "accepted"
      /\ \A k \in Invitations \ {i} : status'[k] = status[k]
      /\ UNCHANGED <<employeeOf, code, mailed>>
  BY DEF AcceptInvitation, Valid, Open, TypeOK
<1>2. PICK e \in Employees : e = employeeOf[i]
  BY <1>1 DEF LinkInv, SentAreComplete, Sent
<1>3. workingCode[e] = code[i] /\ workingCode' = [workingCode EXCEPT ![e] = NoCode]
  BY <1>1, <1>2, ClosingEmpties DEF LinkInv
<1>4. code[i] # NoCode
  BY <1>1, SentinelsAreFresh DEF LinkInv, SentAreComplete, Sent, TypeOK
<1>5. Accepted' = Accepted \cup {code[i]}
  BY <1>1 DEF Accepted
<1>6. InvitationCode!Redeem(e)
  BY <1>1, <1>3, <1>4, <1>5 DEF InvitationCode!Redeem, Accepted
<1> QED
  BY <1>6

\* Every step of Personnel is a step of OneTimeCode or invisible to it.
LEMMA StepImplements ==
  TypeOK /\ LinkInv /\ [Next]_vars => [InvitationCode!CodeNext]_(InvitationCode!codeVars)
<1> SUFFICES ASSUME TypeOK, LinkInv, [Next]_vars
             PROVE  InvitationCode!CodeNext \/ UNCHANGED InvitationCode!codeVars
  OBVIOUS
<1>1. CASE InvitationStep
  <2>1. CASE \/ \E w \in Workers, e \in Employees, m \in Emails : InvitationCheck(w, e, m)
             \/ \E w \in Workers : InvitationAbort(w)
             \/ \E i \in Invitations : InvitationLapses(i)
    BY <2>1, QuietStutters DEF InvitationCheck, InvitationAbort, InvitationLapses, invitationVars
  <2> QED
    BY <1>1, <2>1, CommitIssues, ResendIssues, RevokeWithdraws, AcceptRedeems
    DEF InvitationStep, InvitationCode!CodeNext
<1>2. CASE EmploymentStep
  BY <1>2, QuietStutters
  DEF EmploymentStep, DepartRead, DepartCommit, DepartAgain, ReactivateEmployee, invitationVars
<1>3. CASE AccountStep
  BY <1>3, QuietStutters
  DEF AccountStep, ActivateCheck, ActivateCommit, DeactivateAccount, UpdateAccountEmail,
      invitationVars
<1>4. CASE UNCHANGED vars
  BY <1>4, QuietStutters DEF vars, invitationVars
<1> QED
  BY <1>1, <1>2, <1>3, <1>4 DEF Next

\* An employee has one invitation code that works at a time; after a resend, a
\* revocation, an acceptance or a new invitation the earlier code never opens
\* an account again.
THEOREM InvitationsImplementOneTimeCode == Spec => ImplementsOneTimeCode
<1>1. Init => InvitationCode!CodeInit
  BY DEF Init, InvitationCode!CodeInit, workingCode, OpenOf, Open
<1>2. IInv /\ [Next]_vars => [InvitationCode!CodeNext]_(InvitationCode!codeVars)
  BY StepImplements DEF IInv
<1> QED
  BY <1>1, <1>2, Reachable, PTL DEF Spec, ImplementsOneTimeCode, InvitationCode!CodeSpec

-----------------------------------------------------------------------------
(***************************************************************************)
(* Departure.  A departure closes the account it found, and an activation  *)
(* trusts the employee it read; where neither is overtaken, that is what   *)
(* the employee has then.                                                  *)
(***************************************************************************)

\* An employee's account was created by an invitation of that employee, so it is
\* nobody else's.
LinkedByInvitation ==
  \A e \in Employees : userOf[e] # NoUser =>
    Exists(userOf[e]) /\ employeeOf[createdBy[userOf[e]]] = e

DeparturesSeeAccounts ==
  \A w \in Workers : task[w].op = "depart" =>
    AccountsFound(task[w].employee) \subseteq task[w].found

ActivationsSeeStaff ==
  \A w \in Workers : task[w].op = "activate" => \A e \in departed : userOf[e] # task[w].user

AccessInv == DepartedHaveNoAccess /\ DeparturesSeeAccounts /\ ActivationsSeeStaff

LEMMA OnlyEmployee ==
  ASSUME TypeOK, LinkedByInvitation, NEW e \in Employees, NEW f \in Employees,
         userOf[e] = userOf[f], userOf[e] # NoUser
  PROVE  e = f
BY DEF LinkedByInvitation

LEMMA LinkedKept ==
  ASSUME TypeOK, LinkInv, LinkedByInvitation, [Next]_vars
  PROVE  LinkedByInvitation'
<1>1. ASSUME NEW e \in Employees, userOf[e] # NoUser
      PROVE  /\ userOf[e] \in Users /\ Exists(userOf[e]) /\ employeeOf[createdBy[userOf[e]]] = e
             /\ createdBy[userOf[e]] \in Invitations
             /\ status[createdBy[userOf[e]]] = "accepted"
  BY <1>1
  DEF TypeOK, LinkInv, LinkedByInvitation, AccountsMatchInvitations, AccountsAreCreated
<1>2. ASSUME UNCHANGED <<userOf, createdBy>>,
             \A u \in Users : Exists(u) => Exists(u)',
             \A i \in Invitations : status[i] = "accepted" => employeeOf'[i] = employeeOf[i]
      PROVE  LinkedByInvitation'
  <2>1. ASSUME NEW e \in Employees, userOf[e] # NoUser
        PROVE  email'[userOf[e]] # NoEmail /\ employeeOf'[createdBy[userOf[e]]] = e
    BY <1>1, <1>2, <2>1 DEF Exists
  <2> QED
    BY <1>2, <2>1 DEF LinkedByInvitation, Exists
<1>3. ASSUME NEW i \in Invitations, NEW c \in Codes, NEW u \in Users, AcceptInvitation(i, c, u)
      PROVE  LinkedByInvitation'
  <2>1. PICK e : e = employeeOf[i]
    OBVIOUS
  <2>2. /\ userOf'[e] = u /\ \A f \in Employees \ {e} : userOf'[f] = userOf[f]
        /\ ~Exists(u) /\ Exists(u)' /\ createdBy'[u] = i
        /\ \A v \in Users \ {u} : email'[v] = email[v] /\ createdBy'[v] = createdBy[v]
        /\ UNCHANGED employeeOf
    BY <1>3, <2>1, AcceptShape
  <2>3. ASSUME NEW f \in Employees, userOf'[f] # NoUser
        PROVE  email'[userOf'[f]] # NoEmail /\ employeeOf'[createdBy'[userOf'[f]]] = f
    <3>1. CASE f = e
      BY <2>1, <2>2, <3>1 DEF Exists
    <3>2. CASE f # e
      <4>1. userOf'[f] = userOf[f] /\ userOf[f] # u /\ userOf[f] \in Users
        BY <1>1, <2>2, <2>3, <3>2
      <4> QED
        BY <1>1, <2>2, <2>3, <4>1 DEF Exists
    <3> QED
      BY <3>1, <3>2
  <2> QED
    BY <2>3 DEF LinkedByInvitation, Exists
<1>4. ASSUME NEW w \in Workers, NEW i \in Invitations, NEW c \in Codes, InvitationCommit(w, i, c)
      PROVE  LinkedByInvitation'
  <2>1. status[i] = "none" /\ UNCHANGED <<userOf, email, createdBy>>
        /\ \A k \in Invitations \ {i} : employeeOf'[k] = employeeOf[k]
    BY <1>4 DEF InvitationCommit, TypeOK, staffVars, accountVars
  <2> QED
    BY <1>2, <2>1 DEF Exists
<1>5. CASE InvitationStep
  BY <1>2, <1>3, <1>4, <1>5
  DEF InvitationStep, InvitationCheck, InvitationAbort, ResendInvitation, RevokeInvitation,
      InvitationLapses, Exists, staffVars, accountVars, invitationVars
<1>6. CASE EmploymentStep
  BY <1>2, <1>6
  DEF EmploymentStep, DepartRead, DepartCommit, DepartAgain, ReactivateEmployee, Exists,
      staffVars, accountVars, invitationVars
<1>7. CASE AccountStep
  <2>1. ASSUME NEW u \in Users, NEW m \in Emails, UpdateAccountEmail(u, m)
        PROVE  LinkedByInvitation'
    <3>1. \A v \in Users : Exists(v) => Exists(v)'
      BY <2>1, SentinelsAreFresh DEF UpdateAccountEmail, Exists, TypeOK
    <3> QED
      BY <1>2, <2>1, <3>1 DEF UpdateAccountEmail, staffVars, invitationVars
  <2> QED
    BY <1>2, <1>7, <2>1
    DEF AccountStep, ActivateCheck, ActivateCommit, DeactivateAccount, Exists, staffVars,
        accountVars, invitationVars
<1>8. CASE UNCHANGED vars
  BY <1>2, <1>8 DEF vars, Exists, staffVars, accountVars, invitationVars
<1> QED
  BY <1>5, <1>6, <1>7, <1>8 DEF Next

\* A step that makes nobody departed and no account active or linked, and starts
\* neither a departure nor an activation.
LEMMA QuietKeepsAccess ==
  ASSUME AccessInv, userOf' = userOf, departed' \subseteq departed, active' \subseteq active,
         \A w \in Workers :
           task'[w] = task[w] \/ task'[w].op \notin {"depart", "activate"}
  PROVE  AccessInv'
<1>1. DepartedHaveNoAccess'
  BY DEF AccessInv, DepartedHaveNoAccess
<1>2. DeparturesSeeAccounts'
  <2> SUFFICES ASSUME NEW w \in Workers, task'[w].op = "depart", NEW u \in Users,
                      userOf[task'[w].employee] = u, u \in active'
               PROVE  u \in task'[w].found
    BY DEF DeparturesSeeAccounts, AccountsFound
  <2>1. task'[w] = task[w]
    OBVIOUS
  <2> QED
    BY <2>1 DEF AccessInv, DeparturesSeeAccounts, AccountsFound
<1>3. ActivationsSeeStaff'
  <2> SUFFICES ASSUME NEW w \in Workers, task'[w].op = "activate", NEW e \in departed'
               PROVE  userOf[e] # task'[w].user
    BY DEF ActivationsSeeStaff
  <2>1. task'[w] = task[w]
    OBVIOUS
  <2> QED
    BY <2>1 DEF AccessInv, ActivationsSeeStaff
<1> QED
  BY <1>1, <1>2, <1>3 DEF AccessInv

LEMMA AcceptKeepsAccess ==
  ASSUME TypeOK, LinkInv, LinkedByInvitation, AccessInv, AcceptancesWait,
         NEW i \in Invitations, NEW c \in Codes, NEW u \in Users, AcceptInvitation(i, c, u)
  PROVE  AccessInv'
<1>0. PICK e : e = employeeOf[i]
  OBVIOUS
<1>1. /\ e \in Employees /\ userOf[e] = NoUser /\ userOf'[e] = u
      /\ \A f \in Employees \ {e} : userOf'[f] = userOf[f]
      /\ ~Exists(u) /\ UNCHANGED task
  BY <1>0, AcceptShape
<1>2. e \notin departed /\ departed' = departed /\ active' = active \cup {u}
  BY <1>0 DEF AcceptInvitation, TargetAllowed
<1>3. \A f \in Employees : userOf[f] # u
  BY <1>1, SentinelsAreFresh DEF LinkedByInvitation
<1>4. departed \subseteq Employees
  BY DEF TypeOK
<1>5. DepartedHaveNoAccess'
  BY <1>1, <1>2, <1>3, <1>4 DEF AccessInv, DepartedHaveNoAccess
<1>6. DeparturesSeeAccounts'
  <2> SUFFICES ASSUME NEW w \in Workers, task[w].op = "depart", NEW v \in Users,
                      userOf'[task[w].employee] = v, v \in active'
               PROVE  v \in task[w].found
    BY <1>1 DEF DeparturesSeeAccounts, AccountsFound
  <2>1. task[w].employee \in Employees /\ userOf[task[w].employee] = v
    BY TaskShape DEF AcceptancesWait
  <2>2. v \in active
    BY <1>2, <1>3, <2>1
  <2> QED
    BY <2>1, <2>2 DEF AccessInv, DeparturesSeeAccounts, AccountsFound
<1>7. ActivationsSeeStaff'
  <2> SUFFICES ASSUME NEW w \in Workers, task[w].op = "activate", NEW f \in departed
               PROVE  userOf'[f] # task[w].user
    BY <1>1, <1>2 DEF ActivationsSeeStaff
  <2> QED
    BY <1>1, <1>2, <1>4 DEF AccessInv, ActivationsSeeStaff
<1> QED
  BY <1>5, <1>6, <1>7 DEF AccessInv

LEMMA DepartKeepsAccess ==
  ASSUME TypeOK, LinkInv, AccessInv, ActivationsWait, NEW w \in Workers,
         DepartCommit(w)
  PROVE  AccessInv'
<1>1. PICK e \in Employees : e = task[w].employee
  BY TaskShape DEF DepartCommit
<1>2. /\ task[w].op = "depart" /\ departed' = departed \cup {e} /\ userOf' = userOf
      /\ active' = active \ task[w].found
  BY <1>1 DEF DepartCommit
<1>3. task'[w] = Idle /\ \A v \in Workers \ {w} : task'[v] = task[v]
  BY Tasks, TaskMoves DEF DepartCommit, Finish
<1>4. DepartedHaveNoAccess'
  <2>1. userOf[e] \notin active'
    <3>1. AccountsFound(e) \subseteq task[w].found /\ active \subseteq Users
      BY <1>1, <1>2 DEF AccessInv, DeparturesSeeAccounts, TypeOK
    <3> QED
      BY <1>2, <3>1 DEF AccountsFound
  <2> QED
    BY <1>2, <2>1 DEF AccessInv, DepartedHaveNoAccess
<1>5. DeparturesSeeAccounts'
  <2> SUFFICES ASSUME NEW v \in Workers, task'[v].op = "depart", NEW u \in Users,
                      userOf[task'[v].employee] = u, u \in active'
               PROVE  u \in task'[v].found
    BY <1>2 DEF DeparturesSeeAccounts, AccountsFound
  <2>1. task'[v] = task[v] /\ u \in active
    BY <1>2, <1>3 DEF Idle
  <2> QED
    BY <2>1 DEF AccessInv, DeparturesSeeAccounts, AccountsFound
<1>6. ActivationsSeeStaff'
  <2> SUFFICES ASSUME NEW v \in Workers, task'[v].op = "activate", NEW f \in departed \cup {e}
               PROVE  userOf[f] # task'[v].user
    BY <1>2 DEF ActivationsSeeStaff
  <2>1. task'[v] = task[v]
    BY <1>3 DEF Idle
  <2>2. userOf[e] # task[v].user
    BY <1>1, <1>2, <2>1 DEF ActivationsWait
  <2> QED
    BY <2>1, <2>2 DEF AccessInv, ActivationsSeeStaff
<1> QED
  BY <1>4, <1>5, <1>6 DEF AccessInv

LEMMA ActivationKeepsAccess ==
  ASSUME TypeOK, LinkInv, AccessInv, ActivationsWait, NEW w \in Workers,
         ActivateCommit(w)
  PROVE  AccessInv'
<1>1. PICK u \in Users : u = task[w].user
  BY TaskShape DEF ActivateCommit
<1>2. /\ task[w].op = "activate" /\ departed' = departed /\ userOf' = userOf
      /\ active' = active \cup {u}
  BY <1>1 DEF ActivateCommit, staffVars
<1>3. task'[w] = Idle /\ \A v \in Workers \ {w} : task'[v] = task[v]
  BY Tasks, TaskMoves DEF ActivateCommit, Finish
<1>4. DepartedHaveNoAccess'
  BY <1>1, <1>2 DEF AccessInv, DepartedHaveNoAccess, ActivationsSeeStaff
<1>5. DeparturesSeeAccounts'
  <2> SUFFICES ASSUME NEW v \in Workers, task'[v].op = "depart", NEW x \in Users,
                      userOf[task'[v].employee] = x, x \in active'
               PROVE  x \in task'[v].found
    BY <1>2 DEF DeparturesSeeAccounts, AccountsFound
  <2>1. task'[v] = task[v]
    BY <1>3 DEF Idle
  <2>2. x # u
    BY <1>1, <1>2, <2>1 DEF ActivationsWait
  <2> QED
    BY <1>2, <2>1, <2>2 DEF AccessInv, DeparturesSeeAccounts, AccountsFound
<1>6. ActivationsSeeStaff'
  <2> SUFFICES ASSUME NEW v \in Workers, task'[v].op = "activate", NEW f \in departed
               PROVE  userOf[f] # task'[v].user
    BY <1>2 DEF ActivationsSeeStaff
  <2>1. task'[v] = task[v]
    BY <1>3 DEF Idle
  <2> QED
    BY <2>1 DEF AccessInv, ActivationsSeeStaff
<1> QED
  BY <1>4, <1>5, <1>6 DEF AccessInv

LEMMA AccessKept ==
  ASSUME TypeOK, LinkInv, LinkedByInvitation, AccessInv, ActivationsWait, AcceptancesWait, Next
  PROVE  AccessInv'
<1>1. ASSUME NEW w \in Workers, NEW t \in Task, task' = [task EXCEPT ![w] = t],
             t.op \notin {"depart", "activate"}, userOf' = userOf, departed' \subseteq departed,
             active' \subseteq active
      PROVE  AccessInv'
  <2>1. task'[w] = t /\ \A v \in Workers \ {w} : task'[v] = task[v]
    BY <1>1, TaskMoves
  <2> QED
    BY <1>1, <2>1, QuietKeepsAccess
<1>2. ASSUME NEW w \in Workers, Finish(w), userOf' = userOf, departed' \subseteq departed,
             active' \subseteq active
      PROVE  AccessInv'
  BY <1>1, <1>2, Tasks DEF Finish, Idle
<1>3. CASE InvitationStep
  <2>1. ASSUME NEW w \in Workers, NEW e \in Employees, NEW m \in Emails, InvitationCheck(w, e, m)
        PROVE  AccessInv'
    BY <1>1, <2>1, Tasks DEF InvitationCheck, Begin, staffVars, accountVars
  <2>2. ASSUME NEW w \in Workers, InvitationAbort(w)
        PROVE  AccessInv'
    BY <1>2, <2>2 DEF InvitationAbort, staffVars, accountVars
  <2>3. ASSUME NEW w \in Workers, NEW i \in Invitations, NEW c \in Codes,
               InvitationCommit(w, i, c)
        PROVE  AccessInv'
    BY <1>2, <2>3 DEF InvitationCommit, staffVars, accountVars
  <2>4. ASSUME NEW i \in Invitations,
               \/ \E c \in Codes : ResendInvitation(i, c)
               \/ RevokeInvitation(i) \/ InvitationLapses(i)
        PROVE  AccessInv'
    BY <2>4, QuietKeepsAccess
    DEF ResendInvitation, RevokeInvitation, InvitationLapses, staffVars, accountVars
  <2> QED
    BY <1>3, <2>1, <2>2, <2>3, <2>4, AcceptKeepsAccess DEF InvitationStep
<1>4. CASE EmploymentStep
  <2>1. ASSUME NEW w \in Workers, NEW e \in Employees, DepartRead(w, e)
        PROVE  AccessInv'
    <3> DEFINE t == [op |-> "depart", employee |-> e, found |-> AccountsFound(e)]
    <3>1. t \in Task
      BY Tasks DEF AccountsFound
    <3>2. task' = [task EXCEPT ![w] = t] /\ UNCHANGED <<departed, userOf, active>>
      BY <2>1 DEF DepartRead, Begin, staffVars, accountVars
    <3>3. task'[w] = t /\ \A v \in Workers \ {w} : task'[v] = task[v]
      <4> HIDE DEF t
      <4> QED
        BY <3>1, <3>2, TaskMoves
    <3>4. DepartedHaveNoAccess'
      BY <3>2 DEF AccessInv, DepartedHaveNoAccess
    <3>5. DeparturesSeeAccounts'
      BY <3>2, <3>3 DEF AccessInv, DeparturesSeeAccounts, AccountsFound
    <3>6. ActivationsSeeStaff'
      BY <3>2, <3>3 DEF AccessInv, ActivationsSeeStaff
    <3> QED
      BY <3>4, <3>5, <3>6 DEF AccessInv
  <2>2. ASSUME NEW w \in Workers, DepartAgain(w)
        PROVE  AccessInv'
    BY <1>2, <2>2 DEF DepartAgain, staffVars, accountVars
  <2>3. ASSUME NEW e \in Employees, ReactivateEmployee(e)
        PROVE  AccessInv'
    BY <2>3, QuietKeepsAccess DEF ReactivateEmployee, accountVars
  <2> QED
    BY <1>4, <2>1, <2>2, <2>3, DepartKeepsAccess DEF EmploymentStep
<1>5. CASE AccountStep
  <2>1. ASSUME NEW w \in Workers, NEW u \in Users, ActivateCheck(w, u)
        PROVE  AccessInv'
    <3> DEFINE t == [op |-> "activate", user |-> u]
    <3>1. task' = [task EXCEPT ![w] = t] /\ UNCHANGED <<departed, userOf, active>>
      BY <2>1 DEF ActivateCheck, Begin, staffVars, accountVars
    <3>2. task'[w] = t /\ \A v \in Workers \ {w} : task'[v] = task[v]
      BY <3>1, Tasks, TaskMoves
    <3>3. \A e \in departed : userOf[e] # u
      <4>1. PICK f \in Employees \ departed : userOf[f] = u
        BY <2>1 DEF ActivateCheck
      <4> QED
        BY <4>1, OnlyEmployee, SentinelsAreFresh DEF TypeOK
    <3>4. DepartedHaveNoAccess'
      BY <3>1 DEF AccessInv, DepartedHaveNoAccess
    <3>5. DeparturesSeeAccounts'
      BY <3>1, <3>2 DEF AccessInv, DeparturesSeeAccounts, AccountsFound
    <3>6. ActivationsSeeStaff'
      BY <3>1, <3>2, <3>3 DEF AccessInv, ActivationsSeeStaff
    <3> QED
      BY <3>4, <3>5, <3>6 DEF AccessInv
  <2>2. ASSUME NEW u \in Users, DeactivateAccount(u) \/ \E m \in Emails : UpdateAccountEmail(u, m)
        PROVE  AccessInv'
    BY <2>2, QuietKeepsAccess DEF DeactivateAccount, UpdateAccountEmail, staffVars
  <2> QED
    BY <1>5, <2>1, <2>2, ActivationKeepsAccess DEF AccountStep
<1> QED
  BY <1>3, <1>4, <1>5 DEF Next

LEMMA LinkedAlways == Spec => []LinkedByInvitation
<1>1. Init => LinkedByInvitation
  BY DEF Init, LinkedByInvitation
<1>2. IInv /\ LinkedByInvitation /\ [Next]_vars => LinkedByInvitation'
  BY LinkedKept DEF IInv
<1> QED
  BY <1>1, <1>2, Reachable, PTL DEF Spec

LEMMA AccessAtStart == Init => AccessInv /\ ActivationsWait
BY DEF Init, AccessInv, DepartedHaveNoAccess, DeparturesSeeAccounts, ActivationsSeeStaff,
       ActivationsWait, Idle

LEMMA AccessStays ==
  IInv /\ LinkedByInvitation /\ AccessInv /\ ActivationsWait
    /\ [Next]_vars /\ [AcceptancesWait]_vars => AccessInv'
<1>1. ASSUME AccessInv, UNCHANGED vars
      PROVE  AccessInv'
  BY <1>1, QuietKeepsAccess DEF vars, staffVars, accountVars
<1> QED
  BY <1>1, AccessKept DEF IInv

\* Departure closes the account, with two exceptions only: if no account is being
\* activated, and no invitation accepted, while the departure of its employee is
\* under way, a departed employee never has an active account, whatever
\* invitations, deactivations, rehirings and repeated departures come in between.
THEOREM OrderlyDepartures ==
  Spec /\ []ActivationsWait /\ [][AcceptancesWait]_vars => []DepartedHaveNoAccess
<1>1. AccessInv => DepartedHaveNoAccess
  BY DEF AccessInv
<1> QED
  BY <1>1, AccessAtStart, AccessStays, Reachable, LinkedAlways, PTL DEF Spec

\* The same up to the first overlap: a departed employee has no active account
\* unless an activation or an acceptance has overlapped with a departure.
THEOREM OnlyOverlapsPassDepartures == HistorySpec => []DeparturesCloseAccounts
<1> DEFINE HInv == ~overlapped => AccessInv /\ ActivationsWait
<1>1. HistoryInit => Init /\ HInv
  BY AccessAtStart DEF HistoryInit
<1>2. [HistoryNext]_historyVars => [Next]_vars
  BY DEF HistoryNext, historyVars
<1>3. IInv /\ LinkedByInvitation /\ HInv /\ [HistoryNext]_historyVars => HInv'
  <2>1. ASSUME HInv, UNCHANGED historyVars
        PROVE  HInv'
    <3>1. UNCHANGED vars /\ overlapped' = overlapped
      BY <2>1 DEF historyVars
    <3>2. AccessInv => AccessInv'
      BY <3>1, QuietKeepsAccess DEF vars, staffVars, accountVars
    <3>3. ActivationsWait => ActivationsWait'
      BY <3>1 DEF ActivationsWait, vars, staffVars, accountVars
    <3> QED
      BY <2>1, <3>1, <3>2, <3>3
  <2>2. ASSUME IInv, LinkedByInvitation, HInv, HistoryNext, ~overlapped'
        PROVE  AccessInv' /\ ActivationsWait'
    <3>1. ~overlapped /\ ActivationsWait' /\ AcceptancesWait
      BY <2>2 DEF HistoryNext, Recorded
    <3> QED
      BY <2>2, <3>1, AccessStays DEF HistoryNext
  <2> QED
    BY <2>1, <2>2
<1>4. HInv => DeparturesCloseAccounts
  BY DEF AccessInv, DeparturesCloseAccounts
<1>5. HistorySpec => Spec
  BY <1>1, <1>2, PTL DEF HistorySpec, Spec
<1> QED
  BY <1>1, <1>3, <1>4, <1>5, Reachable, LinkedAlways, PTL DEF HistorySpec
=============================================================================
