------------------------------ MODULE Personnel ------------------------------
(***************************************************************************)
(* Employees, the accounts linked to them and the invitations that create  *)
(* those accounts (backend/modules/employees, backend/modules/accounts).   *)
(* PostgreSQL READ COMMITTED: an action is a transaction at its commit;    *)
(* what a transaction reads without a lock, and what it holds locked       *)
(* meanwhile, is the task of its worker between two actions.               *)
(*                                                                         *)
(* The account email stands for the username too: both are unique among    *)
(* accounts and checked in the same places.  A code is the one-time token  *)
(* mailed to the employee, represented by the identity of its digest.      *)
(***************************************************************************)
EXTENDS FiniteSets

CONSTANTS Employees, Users, Emails, Invitations, Codes, Workers,
          NoUser, NoEmail, NoEmployee, NoInvitation, NoCode

ASSUME SentinelsAreFresh ==
  /\ NoUser \notin Users /\ NoEmail \notin Emails /\ NoEmployee \notin Employees
  /\ NoInvitation \notin Invitations /\ NoCode \notin Codes

VARIABLES
  departed,      \* employees whose employment_status is departed
  userOf,        \* Employee.user
  active,        \* accounts whose is_active is set
  email,         \* email[u]: NoEmail while account u does not exist
  employeeOf,    \* AccountInvitation.employee
  invitedEmail,  \* AccountInvitation.email
  status,        \* status[i]: none, open, accepted (accepted_at) or revoked (revoked_at)
  lapsed,        \* invitations whose expires_at has passed
  code,          \* AccountInvitation.token_digest
  mailed,        \* every code generated so far (history)
  createdBy,     \* createdBy[u]: the invitation account u came from (history)
  task           \* task[w]: the transaction worker w is in the middle of

staffVars == <<departed, userOf>>
accountVars == <<active, email, createdBy>>
invitationVars == <<employeeOf, invitedEmail, status, lapsed, code, mailed>>
vars == <<staffVars, accountVars, invitationVars, task>>

Exists(u) == email[u] # NoEmail
Open(i) == status[i] = "open"
Valid(i) == Open(i) /\ i \notin lapsed
OpenOf(e) == {i \in Invitations : Open(i) /\ employeeOf[i] = e}

Idle == [op |-> "idle"]
Task == {Idle}
          \cup [op : {"invite"}, employee : Employees, email : Emails]
          \cup [op : {"depart"}, employee : Employees, found : SUBSET Users]
          \cup [op : {"activate"}, user : Users]

\* Row locks held between two actions: create_invitation's on its employee (and
\* on the employee's open invitations, all lapsed, which it is about to
\* revoke), activate_account's on its user.
EmployeeFree(e) ==
  \A w \in Workers : task[w].op = "invite" => task[w].employee # e
UserFree(u) ==
  \A w \in Workers : task[w].op = "activate" => task[w].user # u

Init ==
  /\ departed = {}
  /\ userOf = [e \in Employees |-> NoUser]
  /\ active = {}
  /\ email = [u \in Users |-> NoEmail]
  /\ employeeOf = [i \in Invitations |-> NoEmployee]
  /\ invitedEmail = [i \in Invitations |-> NoEmail]
  /\ status = [i \in Invitations |-> "none"]
  /\ lapsed = {}
  /\ code = [i \in Invitations |-> NoCode]
  /\ mailed = {}
  /\ createdBy = [u \in Users |-> NoInvitation]
  /\ task = [w \in Workers |-> Idle]

Begin(w, request) == task[w] = Idle /\ task' = [task EXCEPT ![w] = request]
Finish(w) == task' = [task EXCEPT ![w] = Idle]

GenerateCode(i, c) ==
  /\ c \notin mailed
  /\ mailed' = mailed \cup {c}
  /\ code' = [code EXCEPT ![i] = c]

(***************************************************************************)
(* Invitations.  create_invitation locks the employee, then looks through  *)
(* all accounts and all open invitations for the email without a lock.     *)
(***************************************************************************)

\* Deviation: the check that the employee has no account is dropped.
TargetWithAccount(e) == e \notin departed

\* Deviation: the check that the employee has not left is dropped.
TargetDeparted(e) == userOf[e] = NoUser

TargetAllowed(e) == e \notin departed /\ userOf[e] = NoUser

\* The lapsed invitation of e itself is revoked before the check.
EmailFree(e, m) ==
  /\ \A u \in Users : email[u] # m
  /\ \A i \in Invitations :
        Open(i) /\ invitedEmail[i] = m => employeeOf[i] = e /\ i \in lapsed

InvitationCheck(w, e, m) ==
  /\ EmployeeFree(e)
  /\ \A i \in Invitations : Valid(i) => employeeOf[i] # e
  /\ TargetAllowed(e)
  /\ EmailFree(e, m)
  /\ Begin(w, [op |-> "invite", employee |-> e, email |-> m])
  /\ UNCHANGED <<staffVars, accountVars, invitationVars>>

\* The insert, after the lapsed invitation made way; the partial unique
\* constraint allows one open invitation per employee.
InvitationCommit(w, i, c) ==
  /\ task[w].op = "invite"
  /\ status[i] = "none"
  /\ LET e == task[w].employee
     IN  /\ status' = [k \in Invitations |-> IF k = i THEN "open"
                                             ELSE IF k \in OpenOf(e) THEN "revoked"
                                             ELSE status[k]]
         /\ employeeOf' = [employeeOf EXCEPT ![i] = e]
         /\ invitedEmail' = [invitedEmail EXCEPT ![i] = task[w].email]
  /\ GenerateCode(i, c)
  /\ Finish(w)
  /\ UNCHANGED <<staffVars, accountVars, lapsed>>

\* The mail could not be sent: the transaction rolls back.
InvitationAbort(w) ==
  /\ task[w].op = "invite"
  /\ Finish(w)
  /\ UNCHANGED <<staffVars, accountVars, invitationVars>>

\* Deviation: an invitation that was accepted may be sent again.
ResendUnlessRevoked(i) == status[i] \in {"open", "accepted"}

ResendAllowed(i) == Open(i)

ResendInvitation(i, c) ==
  /\ EmployeeFree(employeeOf[i])
  /\ ResendAllowed(i)
  /\ GenerateCode(i, c)
  /\ status' = [status EXCEPT ![i] = "open"]
  /\ lapsed' = lapsed \ {i}
  /\ UNCHANGED <<staffVars, accountVars, employeeOf, invitedEmail, task>>

RevokeInvitation(i) ==
  /\ EmployeeFree(employeeOf[i])
  /\ Open(i)
  /\ status' = [status EXCEPT ![i] = "revoked"]
  /\ UNCHANGED <<staffVars, accountVars, employeeOf, invitedEmail, lapsed, code, mailed, task>>

InvitationLapses(i) ==
  /\ Valid(i)
  /\ lapsed' = lapsed \cup {i}
  /\ UNCHANGED <<staffVars, accountVars, employeeOf, invitedEmail, status, code, mailed, task>>

\* Deviation: the employee is not saved with the account.
LinkNobody(e, u) == UNCHANGED userOf

LinkAccount(e, u) == userOf' = [userOf EXCEPT ![e] = u]

\* Locks the invitation and its employee; the unique constraints on User make
\* the unlocked email check exact at commit.
AcceptInvitation(i, c, u) ==
  /\ Valid(i) /\ code[i] = c
  /\ EmployeeFree(employeeOf[i])
  /\ TargetAllowed(employeeOf[i])
  /\ \A v \in Users : email[v] # invitedEmail[i]
  /\ ~Exists(u)
  /\ email' = [email EXCEPT ![u] = invitedEmail[i]]
  /\ active' = active \cup {u}
  /\ createdBy' = [createdBy EXCEPT ![u] = i]
  /\ LinkAccount(employeeOf[i], u)
  /\ status' = [status EXCEPT ![i] = "accepted"]
  /\ UNCHANGED <<departed, employeeOf, invitedEmail, lapsed, code, mailed, task>>

(***************************************************************************)
(* Employment.  depart_employee locks the employee row only: the account   *)
(* comes with it through an outer join that is not locked and is not read  *)
(* again when the statement had to wait for the employee row.              *)
(***************************************************************************)

AccountsFound(e) == {u \in Users : userOf[e] = u /\ u \in active}

DepartRead(w, e) ==
  /\ Begin(w, [op |-> "depart", employee |-> e, found |-> AccountsFound(e)])
  /\ UNCHANGED <<staffVars, accountVars, invitationVars>>

DepartCommit(w) ==
  /\ task[w].op = "depart"
  /\ EmployeeFree(task[w].employee)
  /\ task[w].employee \notin departed
  /\ \A u \in task[w].found : UserFree(u)
  /\ departed' = departed \cup {task[w].employee}
  /\ active' = active \ task[w].found
  /\ Finish(w)
  /\ UNCHANGED <<userOf, email, createdBy, invitationVars>>

\* The employee turned out to be departed already: changed=false.
DepartAgain(w) ==
  /\ task[w].op = "depart"
  /\ task[w].employee \in departed
  /\ Finish(w)
  /\ UNCHANGED <<staffVars, accountVars, invitationVars>>

ReactivateEmployee(e) ==
  /\ EmployeeFree(e)
  /\ e \in departed
  /\ departed' = departed \ {e}
  /\ UNCHANGED <<userOf, accountVars, invitationVars, task>>

(***************************************************************************)
(* Accounts.  activate_account locks the user and reads the employee.      *)
(***************************************************************************)
ActivateCheck(w, u) ==
  /\ UserFree(u)
  /\ Exists(u) /\ u \notin active
  /\ \E e \in Employees \ departed : userOf[e] = u
  /\ Begin(w, [op |-> "activate", user |-> u])
  /\ UNCHANGED <<staffVars, accountVars, invitationVars>>

ActivateCommit(w) ==
  /\ task[w].op = "activate"
  /\ active' = active \cup {task[w].user}
  /\ Finish(w)
  /\ UNCHANGED <<staffVars, email, createdBy, invitationVars>>

DeactivateAccount(u) ==
  /\ UserFree(u)
  /\ u \in active
  /\ active' = active \ {u}
  /\ UNCHANGED <<staffVars, email, createdBy, invitationVars, task>>

UpdateAccountEmail(u, m) ==
  /\ UserFree(u)
  /\ Exists(u)
  /\ \A v \in Users : email[v] # m
  /\ email' = [email EXCEPT ![u] = m]
  /\ UNCHANGED <<staffVars, active, createdBy, invitationVars, task>>

InvitationStep ==
  \/ \E w \in Workers, e \in Employees, m \in Emails : InvitationCheck(w, e, m)
  \/ \E w \in Workers, i \in Invitations, c \in Codes : InvitationCommit(w, i, c)
  \/ \E w \in Workers : InvitationAbort(w)
  \/ \E i \in Invitations, c \in Codes : ResendInvitation(i, c)
  \/ \E i \in Invitations : RevokeInvitation(i)
  \/ \E i \in Invitations : InvitationLapses(i)
  \/ \E i \in Invitations, c \in Codes, u \in Users : AcceptInvitation(i, c, u)

EmploymentStep ==
  \/ \E w \in Workers, e \in Employees : DepartRead(w, e)
  \/ \E w \in Workers : DepartCommit(w)
  \/ \E w \in Workers : DepartAgain(w)
  \/ \E e \in Employees : ReactivateEmployee(e)

AccountStep ==
  \/ \E w \in Workers, u \in Users : ActivateCheck(w, u)
  \/ \E w \in Workers : ActivateCommit(w)
  \/ \E u \in Users : DeactivateAccount(u)
  \/ \E u \in Users, m \in Emails : UpdateAccountEmail(u, m)

Next == InvitationStep \/ EmploymentStep \/ AccountStep

Spec == Init /\ [][Next]_vars
-----------------------------------------------------------------------------
TypeOK ==
  /\ departed \subseteq Employees
  /\ userOf \in [Employees -> Users \cup {NoUser}]
  /\ active \subseteq {u \in Users : Exists(u)}
  /\ email \in [Users -> Emails \cup {NoEmail}]
  /\ employeeOf \in [Invitations -> Employees \cup {NoEmployee}]
  /\ invitedEmail \in [Invitations -> Emails \cup {NoEmail}]
  /\ status \in [Invitations -> {"none", "open", "accepted", "revoked"}]
  /\ lapsed \subseteq Invitations
  /\ code \in [Invitations -> Codes \cup {NoCode}]
  /\ mailed \subseteq Codes
  /\ createdBy \in [Users -> Invitations \cup {NoInvitation}]
  /\ task \in [Workers -> Task]

\* Accounts and accepted invitations correspond one to one, and the employee
\* of the invitation is linked to the account it created: nobody gets a second
\* account, whatever invitations, resends and departures overlap.
AccountsMatchInvitations ==
  /\ \A u \in Users : Exists(u) =>
        /\ status[createdBy[u]] = "accepted"
        /\ userOf[employeeOf[createdBy[u]]] = u
  /\ \A i \in Invitations : status[i] = "accepted" =>
        \E u \in Users : createdBy[u] = i

\* While an invitation is open its employee has no account, so no code in
\* anybody's mailbox can reach an employee who already logs in.
OpenInvitationsAwaitAccount ==
  \A i \in Invitations : Open(i) => userOf[employeeOf[i]] = NoUser

(***************************************************************************)
(* The promise of OneTimeCode; the holders are the employees.              *)
(***************************************************************************)
workingCode ==
  [e \in Employees |->
     IF OpenOf(e) = {} THEN NoCode ELSE code[CHOOSE i \in OpenOf(e) : TRUE]]

InvitationCode == INSTANCE OneTimeCode WITH
  Holders <- Employees, working <- workingCode, issued <- mailed,
  redeemed <- {code[i] : i \in {k \in Invitations : status[k] = "accepted"}}

\* An employee has one invitation code that works at a time; after a resend, a
\* revocation, an acceptance or a new invitation the earlier code never opens
\* an account again (ADR-0005, line 51).
ImplementsOneTimeCode == InvitationCode!CodeSpec

\* Departure closes the account: the account of a departed employee is
\* inactive (security-baseline.md, line 19).
DepartedHaveNoAccess ==
  \A e \in departed : userOf[e] \notin active

\* While a departure is under way, nobody activates the account of its employee
\* (a state) and no invitation of its employee is accepted (a step).
ActivationsWait ==
  \A v, w \in Workers : task[v].op = "depart" /\ task[w].op = "activate" =>
     userOf[task[v].employee] # task[w].user
AcceptancesWait ==
  \A v \in Workers : task[v].op = "depart" =>
     userOf'[task[v].employee] = userOf[task[v].employee]
=============================================================================
