------------------------ MODULE AttachmentStoreProofs ------------------------
(***************************************************************************)
(* Theorems about AttachmentStore, for any people, attachments, alternate  *)
(* names, contents, workers, sets of permissions and path attempts.        *)
(***************************************************************************)
EXTENDS AttachmentStore, TLAPS

Holding(w) == task[w].op \in {"unsave", "insert", "discard"}
Inserting(w) == task[w].op \in {"insert", "discard"}
Locking(w) == task[w].op = "locked"

\* A worker between its save and the end of its request finds its own content
\* under the path it saved to, and no other worker works on that path.
FilesAreHeld ==
  /\ \A w \in Workers : Holding(w) => file[task[w].path] = task[w].content
  /\ \A v, w \in Workers :
       Holding(v) /\ Holding(w) /\ task[v].path = task[w].path => v = w

\* What an upload is about to insert or to discard has no row, or one whose
\* commit was reported as failed.
NoRowUnderway ==
  \A w \in Workers : Inserting(w) =>
     owner[task[w].path] = None \/ task[w].path \in unanswered

\* A row comes from an upload that sent something.
RowsWereSent == \A a \in Ids : owner[a] # None => sent[a] \in Contents

\* The row lock: one deletion at a time, and of an attachment not yet deleted.
RowLocks ==
  /\ \A w \in Workers : Locking(w) => task[w].attachment \notin deleted
  /\ \A v, w \in Workers :
       Locking(v) /\ Locking(w) /\ task[v].attachment = task[w].attachment => v = w

UploadInv ==
  /\ FilesAreHeld /\ NoRowUnderway /\ RowsWereSent
  /\ RowsKeepTheirFile /\ OrphansAreAbandoned

DeleteInv == RowLocks /\ DeletionsAuditedOnce

IInv == TypeOK /\ UploadInv /\ DeleteInv
-----------------------------------------------------------------------------
\* A task has the fields of the record of its operation.
LEMMA TaskShape ==
  ASSUME NEW t \in Task
  PROVE  /\ t.op \in {"save", "unsave", "insert", "discard"} =>
              t.employee \in People /\ t.content \in Contents
         /\ t.op \in {"save", "unsave"} => t.attempt \in Nat
         /\ t.op = "unsave" => t.path \in Alternates
         /\ t.op \in {"insert", "discard"} => t.path \in Ids
         /\ t.op \in {"select", "locked"} => t.actor \in People /\ t.attachment \in Ids
BY DEF Task, Idle

\* The same of the task of a worker, in a state of the right types.
LEMMA WorkerShape ==
  ASSUME TypeOK, NEW w \in Workers
  PROVE  /\ task[w].op \in {"save", "unsave", "insert", "discard"} =>
              task[w].employee \in People /\ task[w].content \in Contents
         /\ task[w].op \in {"save", "unsave"} => task[w].attempt \in Nat
         /\ task[w].op = "unsave" => task[w].path \in Alternates
         /\ Inserting(w) => task[w].path \in Ids
         /\ Holding(w) => task[w].path \in Names
         /\ task[w].op \in {"select", "locked"} =>
              task[w].actor \in People /\ task[w].attachment \in Ids
<1>1. task[w] \in Task
  BY DEF TypeOK
<1> QED
  BY <1>1, TaskShape DEF Inserting, Holding, Names

\* A step of one worker leaves the tasks of the others alone.
LEMMA TaskMoves ==
  ASSUME TypeOK, NEW w \in Workers, NEW t \in Task, Goto(w, t)
  PROVE  /\ task' \in [Workers -> Task]
         /\ task'[w] = t
         /\ \A v \in Workers \ {w} : task'[v] = task[v]
BY DEF TypeOK, Goto

\* An upload that goes on with its file, or discards it, keeps what it uploads.
LEMMA StoredShape ==
  ASSUME TypeOK, NEW w \in Workers, NEW x \in Ids, NEW op \in {"insert", "discard"},
         task[w].op \in {"save", "insert"}, Goto(w, Stored(w, op, x))
  PROVE  /\ task' \in [Workers -> Task]
         /\ task'[w].op = op /\ task'[w].path = x /\ task'[w].content = task[w].content
         /\ \A v \in Workers \ {w} : task'[v] = task[v]
<1>1. Stored(w, op, x) \in Task
  BY WorkerShape DEF Stored, Task
<1>2. Stored(w, op, x).op = op /\ Stored(w, op, x).path = x
      /\ Stored(w, op, x).content = task[w].content
  BY DEF Stored
<1> QED
  BY <1>1, <1>2, TaskMoves

\* The tasks a deletion passes through; it leaves the other workers alone.
LEMMA DeleteStepShape ==
  ASSUME TypeOK, NEW w \in Workers, DeleteStep(w)
  PROVE  /\ task[w].op \in {"idle", "select", "locked"}
         /\ task'[w].op \in {"idle", "select", "locked"}
         /\ \A v \in Workers \ {w} : task'[v] = task[v]
<1>1. ASSUME NEW p \in People, NEW a \in Ids, DeleteSelect(w, p, a)
      PROVE  /\ task[w].op = "idle" /\ task'[w].op = "select"
             /\ \A v \in Workers \ {w} : task'[v] = task[v]
  BY <1>1 DEF DeleteSelect, Goto, Idle, TypeOK
<1>2. CASE DeleteLock(w)
  BY <1>2 DEF DeleteLock, Finish, Goto, Idle, TypeOK
<1>3. CASE DeleteCommit(w)
  BY <1>3, TaskMoves DEF DeleteCommit, Finish, Idle, Task
<1> QED
  BY <1>1, <1>2, <1>3 DEF DeleteStep

LEMMA InitIInv == Init => IInv
BY AttachmentAssumption
DEF Init, IInv, TypeOK, UploadInv, DeleteInv, FilesAreHeld, NoRowUnderway, RowsWereSent,
    RowsKeepTheirFile, OrphansAreAbandoned, RowLocks, DeletionsAuditedOnce, Holding,
    Inserting, Locking, Task, Idle, Names, Download

-----------------------------------------------------------------------------
(***************************************************************************)
(* Types.                                                                  *)
(***************************************************************************)
LEMMA InsertRowTypes ==
  ASSUME TypeOK, NEW w \in Workers, task[w].op = "insert", InsertRow(w),
         unanswered' \subseteq Ids, task' \in [Workers -> Task]
  PROVE  TypeOK'
<1>1. task[w].path \in Ids /\ task[w].employee \in People /\ task[w].content \in Contents
  BY WorkerShape DEF Inserting
<1>2. \A a \in Ids : created'[a] = IF owner'[a] = None THEN 0 ELSE 1
  BY <1>1, AttachmentAssumption DEF InsertRow, RecordCreation, TypeOK
<1> QED
  BY <1>1, <1>2, AttachmentAssumption DEF InsertRow, RecordCreation, TypeOK, roleVars

LEMMA UploadTypes ==
  ASSUME TypeOK, NEW w \in Workers, UploadStep(w)
  PROVE  TypeOK'
<1>1. ASSUME NEW p \in People, NEW e \in People, NEW content \in Contents,
             UploadAuthorize(w, p, e, content)
      PROVE  TypeOK'
  <2>1. [op |-> "save", employee |-> e, content |-> content, attempt |-> 1] \in Task
    BY DEF Task
  <2> QED
    BY <1>1, <2>1, TaskMoves DEF UploadAuthorize, TypeOK, rowVars, roleVars
<1>2. ASSUME NEW a \in Ids, SaveCanonical(w, a)
      PROVE  TypeOK'
  <2>1. task' \in [Workers -> Task]
    BY <1>2, StoredShape DEF SaveCanonical
  <2>2. task[w].content \in Contents
    BY <1>2, WorkerShape DEF SaveCanonical
  <2> QED
    BY <1>2, <2>1, <2>2 DEF SaveCanonical, TypeOK, rowVars, roleVars, Names
<1>3. ASSUME NEW a \in Ids, NEW x \in Alternates, SaveElsewhere(w, a, x)
      PROVE  TypeOK'
  <2>1. [op |-> "unsave", employee |-> task[w].employee, content |-> task[w].content,
         attempt |-> task[w].attempt, path |-> x] \in Task
    BY <1>3, WorkerShape DEF Task, SaveElsewhere
  <2>2. task[w].content \in Contents
    BY <1>3, WorkerShape DEF SaveElsewhere
  <2> QED
    BY <1>3, <2>1, <2>2, TaskMoves DEF SaveElsewhere, TypeOK, rowVars, roleVars, Names
<1>4. ASSUME NEW a \in Ids, NEW x \in Names, SaveFails(w, a, x)
      PROVE  TypeOK'
  BY <1>4, TaskMoves DEF SaveFails, Finish, Task, TypeOK, rowVars, roleVars
<1>5. CASE Unsave(w)
  <2>1. [op |-> "save", employee |-> task[w].employee, content |-> task[w].content,
         attempt |-> task[w].attempt + 1] \in Task
    BY <1>5, WorkerShape DEF Task, Unsave
  <2>2. task' \in [Workers -> Task]
    BY <1>5, <2>1, TaskMoves DEF Unsave, Finish, Task
  <2> QED
    BY <1>5, <2>2 DEF Unsave, TypeOK, rowVars, roleVars
<1>6. CASE InsertCommit(w)
  <2>1. task' \in [Workers -> Task]
    BY <1>6, TaskMoves DEF InsertCommit, Finish, Task
  <2> QED
    BY <1>6, <2>1, InsertRowTypes DEF InsertCommit, TypeOK
<1>7. CASE InsertFails(w)
  <2>1. task' \in [Workers -> Task]
    BY <1>7, StoredShape, WorkerShape DEF InsertFails, Inserting
  <2> QED
    BY <1>7, <2>1 DEF InsertFails, TypeOK, rowVars, roleVars
<1>8. CASE CommitUnanswered(w)
  <2>1. task' \in [Workers -> Task]
    BY <1>8, StoredShape, WorkerShape DEF CommitUnanswered, Inserting
  <2>2. unanswered' \subseteq Ids
    BY <1>8, WorkerShape DEF CommitUnanswered, TypeOK, Inserting
  <2> QED
    BY <1>8, <2>1, <2>2, InsertRowTypes DEF CommitUnanswered
<1>9. CASE Discard(w)
  BY <1>9, TaskMoves DEF Discard, DiscardFile, Finish, Task, TypeOK, rowVars, roleVars
<1> QED
  BY <1>1, <1>2, <1>3, <1>4, <1>5, <1>6, <1>7, <1>8, <1>9 DEF UploadStep

LEMMA DeleteTypes ==
  ASSUME TypeOK, NEW w \in Workers, DeleteStep(w)
  PROVE  TypeOK'
<1>1. ASSUME NEW p \in People, NEW a \in Ids, DeleteSelect(w, p, a)
      PROVE  TypeOK'
  <2>1. [op |-> "select", actor |-> p, attachment |-> a] \in Task
    BY DEF Task
  <2> QED
    BY <1>1, <2>1, TaskMoves DEF DeleteSelect, TypeOK, rowVars, roleVars
<1>2. CASE DeleteLock(w)
  <2>1. [op |-> "locked", actor |-> task[w].actor, attachment |-> task[w].attachment] \in Task
    BY <1>2, WorkerShape DEF DeleteLock, Task
  <2>2. task' \in [Workers -> Task]
    BY <1>2, <2>1, TaskMoves DEF DeleteLock, Finish, Task
  <2> QED
    BY <1>2, <2>2 DEF DeleteLock, TypeOK, rowVars, roleVars
<1>3. CASE DeleteCommit(w)
  <2>1. task' \in [Workers -> Task]
    BY <1>3, TaskMoves DEF DeleteCommit, Finish, Task
  <2>2. task[w].attachment \in Ids
    BY <1>3, WorkerShape DEF DeleteCommit
  <2> QED
    BY <1>3, <2>1, <2>2 DEF DeleteCommit, TypeOK, roleVars
<1> QED
  BY <1>1, <1>2, <1>3 DEF DeleteStep

LEMMA TypesKept == TypeOK /\ [Next]_vars => TypeOK'
<1> SUFFICES ASSUME TypeOK, [Next]_vars
             PROVE  TypeOK'
  OBVIOUS
<1>1. ASSUME NEW w \in Workers, Die(w)
      PROVE  TypeOK'
  <2>1. LeftBehind(w) \subseteq Names
    BY WorkerShape DEF LeftBehind, Holding
  <2> QED
    BY <1>1, <2>1, TaskMoves DEF Die, Finish, Task, TypeOK, rowVars, roleVars
<1>2. ASSUME NEW p \in People, NEW granted \in PermissionSets, ChangePermissions(p, granted)
      PROVE  TypeOK'
  BY <1>2 DEF ChangePermissions, TypeOK, rowVars, roleVars
<1>4. ASSUME NEW who \in SUBSET People, ChangeAdmins(who)
      PROVE  TypeOK'
  BY <1>4 DEF ChangeAdmins, TypeOK, rowVars, roleVars
<1>3. CASE UNCHANGED vars
  BY <1>3 DEF vars, rowVars, roleVars, TypeOK
<1> QED
  BY <1>1, <1>2, <1>3, <1>4, UploadTypes, DeleteTypes DEF Next

-----------------------------------------------------------------------------
(***************************************************************************)
(* Files and rows.                                                         *)
(***************************************************************************)

\* What leaves files, rows and the uploads that hold a file alone keeps their
\* invariant.
LEMMA QuietKeepsUploads ==
  ASSUME UploadInv, UNCHANGED <<owner, sent, file, abandoned, unanswered>>,
         \A v \in Workers : task'[v] = task[v] \/ (~Holding(v) /\ ~Holding(v)')
  PROVE  UploadInv'
<1>1. FilesAreHeld' /\ NoRowUnderway'
  BY DEF UploadInv, FilesAreHeld, NoRowUnderway, Holding, Inserting
<1>2. \A v \in Workers : LeftBehind(v)' = LeftBehind(v)
  BY DEF LeftBehind, Holding
<1>3. OrphansAreAbandoned'
  BY <1>2 DEF UploadInv, OrphansAreAbandoned
<1> QED
  BY <1>1, <1>3 DEF UploadInv, RowsWereSent, RowsKeepTheirFile, Download

\* A name under which the storage holds nothing is nobody's: no upload holds
\* it, and a row of that name has lost its file already.
LEMMA FreeNames ==
  ASSUME TypeOK, UploadInv, NEW x \in Names, file[x] = None
  PROVE  /\ \A v \in Workers : Holding(v) => task[v].path # x
         /\ x \in Ids /\ owner[x] # None => x \in unanswered
<1>1. ASSUME NEW v \in Workers, Holding(v)
      PROVE  task[v].path # x
  <2>1. task[v].content # None
    BY <1>1, WorkerShape, AttachmentAssumption DEF Holding
  <2> QED
    BY <1>1, <2>1 DEF UploadInv, FilesAreHeld
<1>2. x \in Ids /\ owner[x] # None => x \in unanswered
  BY AttachmentAssumption DEF UploadInv, RowsKeepTheirFile, RowsWereSent, Download
<1> QED
  BY <1>1, <1>2

\* Storing what w uploads under a free name, which w holds from now on.
LEMMA SaveKeepsUploads ==
  ASSUME TypeOK, UploadInv, NEW w \in Workers, NEW x \in Names, file[x] = None,
         file' = [file EXCEPT ![x] = task[w].content],
         task' \in [Workers -> Task], \A v \in Workers \ {w} : task'[v] = task[v],
         ~Holding(w), Holding(w)', task'[w].path = x, task'[w].content = task[w].content,
         Inserting(w)' => x \in Ids,
         UNCHANGED <<rowVars, abandoned, unanswered>>
  PROVE  UploadInv'
<1>1. /\ file'[x] = task[w].content
      /\ \A y \in Names \ {x} : file'[y] = file[y]
  BY DEF TypeOK
<1>2. \A v \in Workers \ {w} : Holding(v)' <=> Holding(v)
  BY DEF Holding
<1>3. FilesAreHeld'
  <2>1. ASSUME NEW v \in Workers, Holding(v)'
        PROVE  file'[task'[v].path] = task'[v].content
    BY <1>1, <1>2, <2>1, FreeNames, WorkerShape DEF UploadInv, FilesAreHeld
  <2>2. ASSUME NEW u \in Workers, NEW v \in Workers, Holding(u)', Holding(v)',
               task'[u].path = task'[v].path
        PROVE  u = v
    BY <1>2, <2>2, FreeNames DEF UploadInv, FilesAreHeld
  <2> QED
    BY <2>1, <2>2 DEF FilesAreHeld
<1>4. NoRowUnderway'
  BY FreeNames DEF UploadInv, NoRowUnderway, Inserting, rowVars
<1>5. RowsKeepTheirFile'
  BY <1>1, FreeNames DEF UploadInv, RowsKeepTheirFile, Download, rowVars, Names
<1>6. OrphansAreAbandoned'
  <2>1. /\ x \in LeftBehind(w)'
        /\ \A v \in Workers \ {w} : LeftBehind(v)' = LeftBehind(v)
        /\ LeftBehind(w) = {}
    BY DEF LeftBehind, Holding
  <2> QED
    BY <1>1, <2>1 DEF UploadInv, OrphansAreAbandoned, rowVars
<1> QED
  BY <1>3, <1>4, <1>5, <1>6 DEF UploadInv, RowsWereSent, rowVars

LEMMA SaveFailsKeepsUploads ==
  ASSUME TypeOK, UploadInv, NEW w \in Workers, NEW a \in Ids, NEW x \in Names,
         SaveFails(w, a, x)
  PROVE  UploadInv'
<1>1. file[x] = None
  BY DEF SaveFails, Target
<1>2. \A y \in Names \ {x} : file'[y] = file[y]
  BY DEF SaveFails, TypeOK
<1>3. \A v \in Workers : task'[v] = task[v] \/ (~Holding(v) /\ ~Holding(v)')
  BY TaskMoves DEF SaveFails, Finish, Task, Idle, Holding
<1>4. FilesAreHeld' /\ NoRowUnderway'
  <2>1. \A v \in Workers : Holding(v)' => Holding(v) /\ task'[v] = task[v]
    BY <1>3 DEF Holding
  <2> QED
    BY <1>1, <1>2, <2>1, FreeNames, WorkerShape
    DEF UploadInv, FilesAreHeld, NoRowUnderway, Holding, Inserting, SaveFails, rowVars
<1>5. RowsKeepTheirFile'
  BY <1>1, <1>2, FreeNames
  DEF UploadInv, RowsKeepTheirFile, Download, SaveFails, rowVars, Names
<1>6. OrphansAreAbandoned'
  <2>1. \A v \in Workers : LeftBehind(v)' = LeftBehind(v)
    BY <1>3 DEF LeftBehind, Holding
  <2> QED
    BY <1>2, <2>1 DEF UploadInv, OrphansAreAbandoned, SaveFails, rowVars
<1> QED
  BY <1>4, <1>5, <1>6 DEF UploadInv, RowsWereSent, SaveFails, rowVars

\* Deleting the file of the name w holds, of which no row is left that counts
\* on it; w no longer holds it.
LEMMA RemovalKeepsUploads ==
  ASSUME TypeOK, UploadInv, NEW w \in Workers, Holding(w),
         file' = [file EXCEPT ![task[w].path] = None],
         task' \in [Workers -> Task], \A v \in Workers \ {w} : task'[v] = task[v],
         ~Holding(w)',
         UNCHANGED <<rowVars, abandoned, unanswered>>
  PROVE  UploadInv'
<1>1. task[w].path \in Names
  BY WorkerShape
<1>2. /\ file'[task[w].path] = None
      /\ \A y \in Names \ {task[w].path} : file'[y] = file[y]
  BY <1>1 DEF TypeOK
<1>3. \A v \in Workers : Holding(v)' => v # w /\ Holding(v) /\ task'[v] = task[v]
  BY DEF Holding
<1>4. FilesAreHeld' /\ NoRowUnderway'
  BY <1>2, <1>3, WorkerShape
  DEF UploadInv, FilesAreHeld, NoRowUnderway, Holding, Inserting, rowVars
<1>5. task[w].path \in Ids => owner[task[w].path] = None \/ task[w].path \in unanswered
  BY WorkerShape, AttachmentAssumption DEF UploadInv, NoRowUnderway, Holding, Inserting
<1>6. RowsKeepTheirFile'
  BY <1>2, <1>5 DEF UploadInv, RowsKeepTheirFile, Download, rowVars, Names
<1>7. OrphansAreAbandoned'
  <2>1. \A v \in Workers \ {w} : LeftBehind(v)' = LeftBehind(v)
    BY DEF LeftBehind
  <2>2. LeftBehind(w) = {task[w].path}
    BY DEF LeftBehind, Holding
  <2> QED
    BY <1>2, <2>1, <2>2 DEF UploadInv, OrphansAreAbandoned, rowVars
<1> QED
  BY <1>4, <1>6, <1>7 DEF UploadInv, RowsWereSent, rowVars

\* The insert of a row finds the file it is about; whether or not the worker
\* is told that it committed.
LEMMA InsertKeepsUploads ==
  ASSUME TypeOK, UploadInv, NEW w \in Workers, task[w].op = "insert", InsertRow(w),
         task' \in [Workers -> Task], \A v \in Workers \ {w} : task'[v] = task[v],
         \/ ~Holding(w)' /\ unanswered' = unanswered
         \/ /\ unanswered' = unanswered \cup {task[w].path}
            /\ Inserting(w)' /\ task'[w].path = task[w].path
            /\ task'[w].content = task[w].content
  PROVE  UploadInv'
<1>1. /\ task[w].path \in Ids /\ task[w].content \in Contents
      /\ file[task[w].path] = task[w].content
  BY WorkerShape DEF Inserting, Holding, UploadInv, FilesAreHeld
<1>2. /\ \A a \in Ids \ {task[w].path} : owner'[a] = owner[a] /\ sent'[a] = sent[a]
      /\ sent'[task[w].path] = task[w].content
      /\ owner'[task[w].path] # None
  <2>1. task[w].employee \in People
    BY WorkerShape
  <2> QED
    BY <1>1, <2>1, AttachmentAssumption DEF InsertRow, TypeOK
<1>3. /\ UNCHANGED <<file, abandoned>>
      /\ unanswered \subseteq unanswered'
  BY DEF InsertRow
<1>4. \A v \in Workers :
        Holding(v)' => Holding(v) /\ task'[v].path = task[v].path
                       /\ task'[v].content = task[v].content
  BY DEF Holding, Inserting
<1>5. FilesAreHeld'
  BY <1>3, <1>4 DEF UploadInv, FilesAreHeld
<1>6. NoRowUnderway'
  <2>1. ASSUME NEW v \in Workers, Inserting(v)'
        PROVE  owner'[task'[v].path] = None \/ task'[v].path \in unanswered'
    <3>1. CASE v = w
      BY <2>1, <3>1 DEF Holding, Inserting
    <3>2. CASE v # w
      <4>1. Inserting(v) /\ Holding(v) /\ Holding(w) /\ task'[v] = task[v]
        BY <2>1, <3>2 DEF Holding, Inserting
      <4>2. task[v].path \in Ids \ {task[w].path}
        BY <3>2, <4>1, WorkerShape DEF UploadInv, FilesAreHeld
      <4> QED
        BY <1>2, <1>3, <4>1, <4>2 DEF UploadInv, NoRowUnderway
    <3> QED
      BY <3>1, <3>2
  <2> QED
    BY <2>1 DEF NoRowUnderway
<1>7. RowsKeepTheirFile' /\ RowsWereSent'
  BY <1>1, <1>2, <1>3 DEF UploadInv, RowsKeepTheirFile, RowsWereSent, Download
<1>8. OrphansAreAbandoned'
  <2>1. \A v \in Workers \ {w} : LeftBehind(v)' = LeftBehind(v)
    BY DEF LeftBehind
  <2>2. LeftBehind(w) = {task[w].path}
    BY DEF LeftBehind
  <2> QED
    BY <1>1, <1>2, <1>3, <2>1, <2>2 DEF UploadInv, OrphansAreAbandoned
<1> QED
  BY <1>5, <1>6, <1>7, <1>8 DEF UploadInv

LEMMA UploadStepKeepsUploads ==
  ASSUME TypeOK, UploadInv, NEW w \in Workers, UploadStep(w)
  PROVE  UploadInv'
<1>1. TypeOK'
  BY UploadTypes
<1>2. ASSUME NEW p \in People, NEW e \in People, NEW content \in Contents,
             UploadAuthorize(w, p, e, content)
      PROVE  UploadInv'
  <2>1. \A v \in Workers : task'[v] = task[v] \/ (~Holding(v) /\ ~Holding(v)')
    BY <1>2 DEF UploadAuthorize, Goto, Holding, Idle, TypeOK
  <2> QED
    BY <1>2, <2>1, QuietKeepsUploads DEF UploadAuthorize, rowVars
<1>3. ASSUME NEW a \in Ids, SaveCanonical(w, a)
      PROVE  UploadInv'
  <2>1. /\ task'[w].op = "insert" /\ task'[w].path = a /\ task'[w].content = task[w].content
        /\ task' \in [Workers -> Task]
        /\ \A v \in Workers \ {w} : task'[v] = task[v]
    BY <1>3, StoredShape DEF SaveCanonical
  <2>2. ~Holding(w) /\ Holding(w)' /\ a \in Names /\ file[a] = None
    BY <1>3, <2>1, AttachmentAssumption DEF SaveCanonical, Target, Holding, Names
  <2> QED
    BY <1>3, <2>1, <2>2, SaveKeepsUploads DEF SaveCanonical, rowVars
<1>4. ASSUME NEW a \in Ids, NEW x \in Alternates, SaveElsewhere(w, a, x)
      PROVE  UploadInv'
  <2>1. /\ task'[w].op = "unsave" /\ task'[w].path = x /\ task'[w].content = task[w].content
        /\ task' \in [Workers -> Task]
        /\ \A v \in Workers \ {w} : task'[v] = task[v]
    BY <1>1, <1>4 DEF SaveElsewhere, Goto, TypeOK
  <2>2. ~Holding(w) /\ Holding(w)' /\ ~Inserting(w)' /\ x \in Names /\ file[x] = None
    BY <1>4, <2>1 DEF SaveElsewhere, Target, Holding, Inserting, Names
  <2> QED
    BY <1>4, <2>1, <2>2, SaveKeepsUploads DEF SaveElsewhere, rowVars
<1>5. CASE Unsave(w)
  <2>1. task'[w] = Idle \/ task'[w].op = "save"
    BY <1>5 DEF Unsave, Finish, Goto, TypeOK
  <2>2. Holding(w) /\ ~Holding(w)'
    BY <1>5, <2>1 DEF Unsave, Holding, Idle
  <2>3. \A v \in Workers \ {w} : task'[v] = task[v]
    BY <1>5 DEF Unsave, Finish, Goto, TypeOK
  <2> QED
    BY <1>1, <1>5, <2>2, <2>3, RemovalKeepsUploads DEF Unsave, TypeOK
<1>6. CASE InsertCommit(w)
  <2>1. ~Holding(w)' /\ \A v \in Workers \ {w} : task'[v] = task[v]
    BY <1>6 DEF InsertCommit, Finish, Goto, TypeOK, Holding, Idle
  <2> QED
    BY <1>1, <1>6, <2>1, InsertKeepsUploads DEF InsertCommit, TypeOK
<1>7. ASSUME task[w].op = "insert", Goto(w, Stored(w, "discard", task[w].path))
      PROVE  /\ Holding(w) /\ Holding(w)' /\ Inserting(w)' /\ Inserting(w)
             /\ task'[w].path = task[w].path /\ task'[w].content = task[w].content
             /\ \A v \in Workers \ {w} : task'[v] = task[v]
  BY <1>7, StoredShape, WorkerShape DEF Holding, Inserting
<1>8. CASE InsertFails(w)
  <2>1. FilesAreHeld' /\ NoRowUnderway'
    BY <1>7, <1>8
    DEF InsertFails, UploadInv, FilesAreHeld, NoRowUnderway, Holding, Inserting, rowVars
  <2>2. \A v \in Workers : LeftBehind(v)' = LeftBehind(v)
    BY <1>7, <1>8 DEF InsertFails, LeftBehind, Holding
  <2> QED
    BY <1>8, <2>1, <2>2
    DEF InsertFails, UploadInv, RowsWereSent, RowsKeepTheirFile, OrphansAreAbandoned,
        Download, rowVars
<1>9. CASE CommitUnanswered(w)
  BY <1>1, <1>7, <1>9, InsertKeepsUploads DEF CommitUnanswered, TypeOK
<1>10. CASE Discard(w)
  <2>1. Holding(w) /\ ~Holding(w)' /\ \A v \in Workers \ {w} : task'[v] = task[v]
    BY <1>10 DEF Discard, Finish, Goto, TypeOK, Holding, Idle
  <2> QED
    BY <1>1, <1>10, <2>1, RemovalKeepsUploads DEF Discard, DiscardFile, TypeOK
<1> QED
  BY <1>2, <1>3, <1>4, <1>5, <1>6, <1>8, <1>9, <1>10, SaveFailsKeepsUploads DEF UploadStep

LEMMA UploadsKept == TypeOK /\ UploadInv /\ [Next]_vars => UploadInv'
<1> SUFFICES ASSUME TypeOK, UploadInv, [Next]_vars
             PROVE  UploadInv'
  OBVIOUS
<1>1. ASSUME NEW w \in Workers, DeleteStep(w)
      PROVE  UploadInv'
  <2>1. UNCHANGED <<owner, sent, file, abandoned, unanswered>>
    BY <1>1 DEF DeleteStep, DeleteSelect, DeleteLock, DeleteCommit, rowVars
  <2>2. \A v \in Workers : task'[v] = task[v] \/ (~Holding(v) /\ ~Holding(v)')
    BY <1>1, DeleteStepShape DEF Holding
  <2> QED
    BY <2>1, <2>2, QuietKeepsUploads
<1>2. ASSUME NEW w \in Workers, Die(w)
      PROVE  UploadInv'
  <2>1. /\ task'[w] = Idle
        /\ \A v \in Workers \ {w} : task'[v] = task[v]
    BY <1>2 DEF Die, Finish, Goto, TypeOK
  <2>2. FilesAreHeld' /\ NoRowUnderway'
    BY <1>2, <2>1
    DEF Die, UploadInv, FilesAreHeld, NoRowUnderway, Holding, Inserting, Idle, rowVars
  <2>3. OrphansAreAbandoned'
    BY <1>2, <2>1 DEF Die, UploadInv, OrphansAreAbandoned, LeftBehind, rowVars
  <2> QED
    BY <1>2, <2>2, <2>3 DEF Die, UploadInv, RowsWereSent, RowsKeepTheirFile, Download, rowVars
<1>3. CASE \/ \E p \in People, granted \in PermissionSets : ChangePermissions(p, granted)
          \/ \E who \in SUBSET People : ChangeAdmins(who)
          \/ UNCHANGED vars
  BY <1>3, QuietKeepsUploads DEF ChangePermissions, ChangeAdmins, vars, rowVars
<1> QED
  BY <1>1, <1>2, <1>3, UploadStepKeepsUploads DEF Next

-----------------------------------------------------------------------------
(***************************************************************************)
(* Deletions.                                                              *)
(***************************************************************************)

\* What leaves the deleted rows alone and lets no other worker lock a row
\* keeps the invariant of the deletions.
LEMMA QuietKeepsDeletions ==
  ASSUME DeleteInv, UNCHANGED <<deleted, removed>>,
         \A v \in Workers : task'[v] = task[v] \/ ~Locking(v)'
  PROVE  DeleteInv'
BY DEF DeleteInv, RowLocks, DeletionsAuditedOnce, Locking

LEMMA DeletionsKept == TypeOK /\ DeleteInv /\ [Next]_vars => DeleteInv'
<1> SUFFICES ASSUME TypeOK, DeleteInv, [Next]_vars
             PROVE  DeleteInv'
  OBVIOUS
<1>1. ASSUME NEW w \in Workers, DeleteLock(w)
      PROVE  DeleteInv'
  <2>1. task[w].op = "select" /\ task[w].attachment \in Ids
    BY <1>1, WorkerShape DEF DeleteLock
  <2>2. CASE task[w].attachment \in deleted
    BY <1>1, <2>2, QuietKeepsDeletions
    DEF DeleteLock, StillSelected, Finish, Goto, Idle, Locking, TypeOK, rowVars, roleVars
  <2>3. CASE task[w].attachment \notin deleted
    <3>1. /\ task'[w].attachment = task[w].attachment
          /\ \A v \in Workers \ {w} : task'[v] = task[v]
      BY <1>1, <2>3 DEF DeleteLock, StillSelected, Goto, TypeOK
    <3> QED
      BY <1>1, <2>3, <3>1
      DEF DeleteLock, DeleteInv, RowLocks, DeletionsAuditedOnce, Locking, rowVars
  <2> QED
    BY <2>2, <2>3
<1>2. ASSUME NEW w \in Workers, DeleteCommit(w)
      PROVE  DeleteInv'
  <2>1. /\ Locking(w) /\ ~Locking(w)' /\ task[w].attachment \in Ids \ deleted
        /\ \A v \in Workers \ {w} : task'[v] = task[v]
    BY <1>2, WorkerShape
    DEF DeleteCommit, Locking, Finish, Goto, Idle, TypeOK, DeleteInv, RowLocks
  <2>2. \/ UNCHANGED <<deleted, removed>>
        \/ /\ deleted' = deleted \cup {task[w].attachment}
           /\ removed' = [removed EXCEPT ![task[w].attachment] = @ + 1]
    BY <1>2 DEF DeleteCommit
  <2>3. RowLocks'
    BY <2>1, <2>2, WorkerShape DEF DeleteInv, RowLocks, Locking
  <2>4. DeletionsAuditedOnce'
    BY <2>1, <2>2 DEF DeleteInv, DeletionsAuditedOnce, TypeOK
  <2> QED
    BY <2>3, <2>4 DEF DeleteInv
<1>3. ASSUME NEW w \in Workers,
             UploadStep(w) \/ Die(w) \/ \E p \in People, a \in Ids : DeleteSelect(w, p, a)
      PROVE  DeleteInv'
  <2>1. UNCHANGED <<deleted, removed>>
    BY <1>3
    DEF UploadStep, UploadAuthorize, SaveCanonical, SaveElsewhere, SaveFails, Unsave,
        InsertCommit, InsertFails, CommitUnanswered, InsertRow, Discard, Die, DeleteSelect,
        rowVars
  <2>3. /\ \A v \in Workers \ {w} : task'[v] = task[v]
        /\ task'[w].op # "locked"
    <3>1. CASE Die(w) \/ \E p \in People, a \in Ids : DeleteSelect(w, p, a)
      BY <3>1 DEF Die, DeleteSelect, Finish, Goto, Idle, TypeOK
    <3>2. CASE UploadStep(w)
      BY <3>2
      DEF UploadStep, UploadAuthorize, SaveCanonical, SaveElsewhere, SaveFails, Unsave,
          InsertCommit, InsertFails, CommitUnanswered, Discard, Stored, Finish, Goto, Idle,
          TypeOK
    <3> QED
      BY <1>3, <3>1, <3>2
  <2> QED
    BY <2>1, <2>3, QuietKeepsDeletions DEF Locking
<1>4. CASE \/ \E p \in People, granted \in PermissionSets : ChangePermissions(p, granted)
          \/ \E who \in SUBSET People : ChangeAdmins(who)
          \/ UNCHANGED vars
  BY <1>4, QuietKeepsDeletions DEF ChangePermissions, ChangeAdmins, vars, rowVars
<1> QED
  BY <1>1, <1>2, <1>3, <1>4 DEF Next, DeleteStep

-----------------------------------------------------------------------------
LEMMA Reachable == Spec => []IInv
<1>1. IInv /\ [Next]_vars => IInv'
  BY TypesKept, UploadsKept, DeletionsKept DEF IInv
<1> QED
  BY InitIInv, <1>1, PTL DEF Spec

\* Every state has the types of TypeOK, and each attachment is in the audit
\* trail once.
THEOREM Types == Spec => []TypeOK
<1>1. IInv => TypeOK
  BY DEF IInv
<1> QED
  BY <1>1, Reachable, PTL

\* Whatever collides, fails or dies, a row has under its path what its own
\* upload sent, unless its commit was reported as failed.
THEOREM FilesSurvive == Spec => []RowsKeepTheirFile
<1>1. IInv => RowsKeepTheirFile
  BY DEF IInv, UploadInv
<1> QED
  BY <1>1, Reachable, PTL

\* A file without a row belongs to an upload under way or to a request that
\* failed or died.
THEOREM NoOtherOrphans == Spec => []OrphansAreAbandoned
<1>1. IInv => OrphansAreAbandoned
  BY DEF IInv, UploadInv
<1> QED
  BY <1>1, Reachable, PTL

\* However deletions overlap, a deletion is recorded once, and only if it
\* happened.
THEOREM DeletionRecordedOnce == Spec => []DeletionsAuditedOnce
<1>1. IInv => DeletionsAuditedOnce
  BY DEF IInv, DeleteInv
<1> QED
  BY <1>1, Reachable, PTL
=============================================================================
