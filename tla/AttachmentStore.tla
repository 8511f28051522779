--------------------------- MODULE AttachmentStore ---------------------------
(***************************************************************************)
(* Employee attachments (backend/modules/employees/attachments): a row and *)
(* a file each, written one after the other, the file first.  Rows change  *)
(* in PostgreSQL READ COMMITTED transactions together with their audit     *)
(* event; every operation on the storage stands by itself; a request may   *)
(* fail or die between any two of them.                                    *)
(*                                                                         *)
(* A person is an employee with an account.  A superuser counts as a       *)
(* system administrator with every permission.  Reading is left out: it    *)
(* changes nothing, and so the view permission decides nothing here.  An   *)
(* attachment id stands for the path made from it                          *)
(* (employee/<uuid>/<id>.<type>); Alternates are the names the storage     *)
(* makes up when that path is taken.  A file is what a reader finds in it. *)
(***************************************************************************)
EXTENDS Naturals, FiniteSets

CONSTANTS
  People, Ids, Alternates, Contents, Workers,
  PermissionSets,     \* the sets of permissions an account may be given
  MaxPathAttempts,    \* _MAX_CANONICAL_PATH_ATTEMPTS
  None                \* no row, no file

\* employees.add_employeeattachment and employees.change_employeeattachment
Permissions == {"add", "change"}
ASSUME AttachmentAssumption ==
  /\ PermissionSets \subseteq SUBSET Permissions
  /\ MaxPathAttempts \in Nat \ {0}
  /\ Ids \cap Alternates = {}
  /\ None \notin People \cup Contents \cup {"partial"}

VARIABLES
  perms,       \* perms[p]: permissions of p's account, through a group or its own
  admins,      \* people in the group system_admin
  owner,       \* EmployeeAttachment.employee, None before the insert
  deleted,     \* rows whose deleted_at is set
  file,        \* file[x]: what the storage holds under the name x
  created,     \* created[a]: audit events employee_attachment.create of a
  removed,     \* removed[a]: audit events employee_attachment.delete of a
  sent,        \* sent[a]: what the request that inserted a had uploaded (history)
  abandoned,   \* names a request left behind when it failed or died (history)
  unanswered,  \* rows whose commit took effect but was reported as failed (history)
  task         \* task[w]: the request worker w is in the middle of

rowVars == <<owner, deleted, created, removed, sent>>
roleVars == <<perms, admins>>
vars == <<roleVars, rowVars, file, abandoned, unanswered, task>>

Names == Ids \cup Alternates

Idle == [op |-> "idle"]
Task == {Idle}
          \cup [op : {"save"}, employee : People, content : Contents, attempt : Nat]
          \cup [op : {"unsave"}, employee : People, content : Contents, attempt : Nat,
                path : Alternates]
          \cup [op : {"insert", "discard"}, employee : People, content : Contents, path : Ids]
          \cup [op : {"select", "locked"}, actor : People, attachment : Ids]

Init ==
  /\ perms \in [People -> PermissionSets]
  /\ admins \in SUBSET People
  /\ owner = [a \in Ids |-> None]
  /\ deleted = {}
  /\ file = [x \in Names |-> None]
  /\ created = [a \in Ids |-> 0]
  /\ removed = [a \in Ids |-> 0]
  /\ sent = [a \in Ids |-> None]
  /\ abandoned = {}
  /\ unanswered = {}
  /\ task = [w \in Workers |-> Idle]

Goto(w, next) == task' = [task EXCEPT ![w] = next]
Finish(w) == Goto(w, Idle)

(***************************************************************************)
(* Permissions.  A request loads its account's permissions with the first  *)
(* has_perm and keeps them (held, which is perms[p] at that time); whether *)
(* someone is a system administrator it asks the database anew each time.  *)
(***************************************************************************)
Live == {a \in Ids : owner[a] # None /\ a \notin deleted}

\* get_visible_employee with manage=True: may p manage the attachments of e?
Manageable(p, held, e) ==
  p \in admins \/ (held \cap {"add", "change"} # {} /\ e \notin admins)

ManageableAttachments(p, held) == {a \in Live : Manageable(p, held, owner[a])}

\* change_account_role, or an edit in Django Admin.
ChangePermissions(p, granted) ==
  /\ perms' = [perms EXCEPT ![p] = granted]
  /\ UNCHANGED <<admins, rowVars, file, abandoned, unanswered, task>>

ChangeAdmins(who) ==
  /\ admins' = who
  /\ UNCHANGED <<perms, rowVars, file, abandoned, unanswered, task>>

(***************************************************************************)
(* Upload: the file is stored under the canonical path of a new id.  When  *)
(* that path is taken the storage picks another name; what it stored there *)
(* is deleted and another id is tried, at most MaxPathAttempts times.      *)
(***************************************************************************)
\* Bound: a content is uploaded again only when it is nowhere any more.
Fresh(content) ==
  /\ \A x \in Names : file[x] # content
  /\ \A w \in Workers : task[w].op \in {"save", "unsave", "insert", "discard"} =>
       task[w].content # content

UploadAuthorize(w, p, e, content) ==
  /\ task[w] = Idle /\ Fresh(content)
  /\ "add" \in perms[p] /\ Manageable(p, perms[p], e)
  /\ Goto(w, [op |-> "save", employee |-> e, content |-> content, attempt |-> 1])
  /\ UNCHANGED <<roleVars, rowVars, file, abandoned, unanswered>>

\* Deviation: a storage that may overwrite.
TargetAlwaysCanonical(a, x) == x = a

\* storage.save writes the canonical path if it is free, else a free alternate.
Target(a, x) == IF file[a] = None THEN x = a ELSE x \in Alternates /\ file[x] = None

\* The upload of w, whose file is stored under the name x.
Stored(w, op, x) ==
  [op |-> op, employee |-> task[w].employee, content |-> task[w].content, path |-> x]

SaveCanonical(w, a) ==
  /\ task[w].op = "save"
  /\ Target(a, a)
  /\ file' = [file EXCEPT ![a] = task[w].content]
  /\ Goto(w, Stored(w, "insert", a))
  /\ UNCHANGED <<roleVars, rowVars, abandoned, unanswered>>

SaveElsewhere(w, a, x) ==
  /\ task[w].op = "save"
  /\ x # a /\ Target(a, x)
  /\ file' = [file EXCEPT ![x] = task[w].content]
  /\ Goto(w, [op |-> "unsave", employee |-> task[w].employee, content |-> task[w].content,
              attempt |-> task[w].attempt, path |-> x])
  /\ UNCHANGED <<roleVars, rowVars, abandoned, unanswered>>

\* The disk fills up while the file is written: what was written stays, the
\* exception is raised outside the block that cleans up.
SaveFails(w, a, x) ==
  /\ task[w].op = "save"
  /\ Target(a, x)
  /\ file' = [file EXCEPT ![x] = "partial"]
  /\ abandoned' = abandoned \cup {x}
  /\ Finish(w)
  /\ UNCHANGED <<roleVars, rowVars, unanswered>>

Unsave(w) ==
  /\ task[w].op = "unsave"
  /\ file' = [file EXCEPT ![task[w].path] = None]
  /\ IF task[w].attempt < MaxPathAttempts
       THEN Goto(w, [op |-> "save", employee |-> task[w].employee,
                     content |-> task[w].content, attempt |-> task[w].attempt + 1])
       ELSE Finish(w)
  /\ UNCHANGED <<roleVars, rowVars, abandoned, unanswered>>

\* Deviation: the attachment is not in the audit trail.
RecordCreationSilently(a) == UNCHANGED created

RecordCreation(a) == created' = [created EXCEPT ![a] = @ + 1]

\* The row and its audit event, in one transaction.
InsertRow(w) ==
  LET a == task[w].path
  IN  /\ owner[a] = None
      /\ owner' = [owner EXCEPT ![a] = task[w].employee]
      /\ sent' = [sent EXCEPT ![a] = task[w].content]
      /\ RecordCreation(a)
      /\ UNCHANGED <<roleVars, deleted, removed, file, abandoned>>

InsertCommit(w) ==
  /\ task[w].op = "insert"
  /\ InsertRow(w)
  /\ Finish(w)
  /\ UNCHANGED unanswered

\* The insert or the audit event is refused.
InsertFails(w) ==
  /\ task[w].op = "insert"
  /\ Goto(w, Stored(w, "discard", task[w].path))
  /\ UNCHANGED <<roleVars, rowVars, file, abandoned, unanswered>>

\* The connection is lost after the commit took effect: transaction.atomic
\* raises all the same.
CommitUnanswered(w) ==
  /\ task[w].op = "insert"
  /\ InsertRow(w)
  /\ unanswered' = unanswered \cup {task[w].path}
  /\ Goto(w, Stored(w, "discard", task[w].path))

\* Deviation: the file stays although its row was not inserted.
DiscardNothing(w) == UNCHANGED file

DiscardFile(w) == file' = [file EXCEPT ![task[w].path] = None]

Discard(w) ==
  /\ task[w].op = "discard"
  /\ DiscardFile(w)
  /\ Finish(w)
  /\ UNCHANGED <<roleVars, rowVars, abandoned, unanswered>>

(***************************************************************************)
(* Failures of the request itself: a delete on the storage that raises, or *)
(* the process dies.  Nothing ever returns to what is left behind.         *)
(***************************************************************************)
LeftBehind(w) ==
  IF task[w].op \in {"unsave", "insert", "discard"} THEN {task[w].path} ELSE {}

Die(w) ==
  /\ task[w] # Idle
  /\ abandoned' = abandoned \cup LeftBehind(w)
  /\ Finish(w)
  /\ UNCHANGED <<roleVars, rowVars, file, unanswered>>

(***************************************************************************)
(* Soft deletion: the query selects, locks the row and looks at deleted_at *)
(* again; the employee is judged again under the lock; the file is kept.   *)
(***************************************************************************)
DeleteSelect(w, p, a) ==
  /\ task[w] = Idle
  /\ "change" \in perms[p] /\ a \in ManageableAttachments(p, perms[p])
  /\ Goto(w, [op |-> "select", actor |-> p, attachment |-> a])
  /\ UNCHANGED <<roleVars, rowVars, file, abandoned, unanswered>>

\* Deviation: a row that was deleted while the query waited is taken.
StillSelectedOnce(a) == TRUE

StillSelected(a) == a \notin deleted

DeleteLock(w) ==
  /\ task[w].op = "select"
  /\ \A v \in Workers : task[v].op = "locked" => task[v].attachment # task[w].attachment
  /\ IF StillSelected(task[w].attachment)
       THEN Goto(w, [op |-> "locked", actor |-> task[w].actor,
                     attachment |-> task[w].attachment])
       ELSE Finish(w)
  /\ UNCHANGED <<roleVars, rowVars, file, abandoned, unanswered>>

\* The permissions the request keeps contain the one DeleteSelect asked for.
DeleteCommit(w) ==
  /\ task[w].op = "locked"
  /\ LET a == task[w].attachment
     IN  IF Manageable(task[w].actor, {"change"}, owner[a])
           THEN /\ deleted' = deleted \cup {a}
                /\ removed' = [removed EXCEPT ![a] = @ + 1]
           ELSE UNCHANGED <<deleted, removed>>
  /\ Finish(w)
  /\ UNCHANGED <<roleVars, owner, created, sent, file, abandoned, unanswered>>

UploadStep(w) ==
  \/ \E p, e \in People, content \in Contents : UploadAuthorize(w, p, e, content)
  \/ \E a \in Ids : SaveCanonical(w, a)
  \/ \E a \in Ids, x \in Alternates : SaveElsewhere(w, a, x)
  \/ \E a \in Ids, x \in Names : SaveFails(w, a, x)
  \/ Unsave(w) \/ InsertCommit(w) \/ InsertFails(w) \/ CommitUnanswered(w)
  \/ Discard(w)

DeleteStep(w) ==
  \/ \E p \in People, a \in Ids : DeleteSelect(w, p, a)
  \/ DeleteLock(w) \/ DeleteCommit(w)

Next ==
  \/ \E w \in Workers : UploadStep(w) \/ DeleteStep(w) \/ Die(w)
  \/ \E p \in People, granted \in PermissionSets : ChangePermissions(p, granted)
  \/ \E who \in SUBSET People : ChangeAdmins(who)

Spec == Init /\ [][Next]_vars
-----------------------------------------------------------------------------
\* What a download of a finds once it was judged visible: the file, or
\* attachment_file_missing.
Download(a) == file[a]

\* Types; and each attachment is in the audit trail exactly once.
TypeOK ==
  /\ perms \in [People -> PermissionSets]
  /\ admins \subseteq People
  /\ owner \in [Ids -> People \cup {None}]
  /\ deleted \subseteq Ids
  /\ file \in [Names -> Contents \cup {"partial", None}]
  /\ created \in [Ids -> Nat]
  /\ \A a \in Ids : created[a] = IF owner[a] = None THEN 0 ELSE 1
  /\ removed \in [Ids -> Nat]
  /\ sent \in [Ids -> Contents \cup {None}]
  /\ abandoned \subseteq Names
  /\ unanswered \subseteq Ids
  /\ task \in [Workers -> Task]

\* Whatever collides, fails or dies, a row (also one being deleted while it is
\* downloaded) has under its path what its own upload sent; only a commit
\* that was reported as failed can lose its file.
RowsKeepTheirFile ==
  \A a \in Ids : owner[a] # None => Download(a) = sent[a] \/ a \in unanswered

\* A file without a row belongs to an upload still under way or was left by
\* a request that failed or died: what a refused insert stored is deleted
\* again (ADR-0009, line 67).
OrphansAreAbandoned ==
  \A x \in Names : file[x] # None =>
     \/ x \in abandoned
     \/ x \in Ids /\ owner[x] # None
     \/ \E w \in Workers : x \in LeftBehind(w)

\* However deletions of one attachment overlap, its deletion is recorded once,
\* and only if it happened.
DeletionsAuditedOnce ==
  \A a \in Ids : removed[a] = IF a \in deleted THEN 1 ELSE 0
=============================================================================
