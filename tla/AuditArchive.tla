----------------------------- MODULE AuditArchive -----------------------------
(***************************************************************************)
(* The audit log and its archives (backend/modules/audit).  An event gets  *)
(* its created_at when it is inserted and becomes visible when the         *)
(* transaction that wrote it commits.  archive_events is a command outside *)
(* any transaction: each query sees what is committed when it runs, each   *)
(* file operation stands by itself, and any of them can fail or be the     *)
(* last one the process lives to do.                                       *)
(*                                                                         *)
(* A file is what a reader finds in it: the archive the set of its events  *)
(* (their order is that of the query), the manifest its fields, where      *)
(* SHA-256 is the set of events itself.  The HMAC only tells that nobody   *)
(* else wrote the manifest; the key ring of a process does not change.     *)
(* What a crash leaves half written in a temporary file is left out: the   *)
(* file is never read again.                                               *)
(***************************************************************************)
EXTENDS Integers, FiniteSetsExt

CONSTANTS
  Events,         \* ids of audit events
  Batches,        \* ids of archive batches, one run of the command each
  MaxTime,        \* bound of the clock
  None            \* no row, no file

Times == 0..(MaxTime + 1)
Manifest == [cutoff : Times, first : Times, last : Times, count : Nat,
             digest : SUBSET Events]

ASSUME ArchiveAssumption ==
  /\ MaxTime \in Nat
  /\ IsFiniteSet(Events)
  /\ (\A S \in SUBSET Events : S # None) /\ None \notin Manifest
  /\ None \notin {"pending", "completed", "failed"}

VARIABLES
  now,            \* the clock
  state,          \* state[e]: "unused", "open" (inserted), "committed", "undone"
  createdAt,      \* AuditEvent.created_at
  run,            \* run[b]: the process that archives batch b
  status,         \* AuditArchiveBatch.status, None before the insert
  temp,           \* temp[b]: the two temporary files
  file,           \* file[b]: the two files under their final names
  counted,        \* counted[b]: the events count() saw (history)
  settled         \* batches whose cutoff no later commit can get below (history)

logVars == <<now, state, createdAt>>
diskVars == <<temp, file>>
vars == <<logVars, run, status, diskVars, counted, settled>>

Steps == {"idle", "counted", "bounded", "pending", "archived", "described", "verified",
          "archive_moved", "manifest_moved", "failing", "cleaned", "over"}
Run == [at : Steps, cutoff : Times, first : Times, last : Times, count : Nat]
Files == [archive : {None} \cup SUBSET Events, manifest : {None} \cup Manifest]
NoFiles == [archive |-> None, manifest |-> None]

Init ==
  /\ now = 0
  /\ state = [e \in Events |-> "unused"]
  /\ createdAt = [e \in Events |-> 0]
  /\ run = [b \in Batches |-> [at |-> "idle", cutoff |-> 0, first |-> 0, last |-> 0,
                               count |-> 0]]
  /\ status = [b \in Batches |-> None]
  /\ temp = [b \in Batches |-> NoFiles]
  /\ file = [b \in Batches |-> NoFiles]
  /\ counted = [b \in Batches |-> {}]
  /\ settled = {}

-----------------------------------------------------------------------------
\* The log.  Nothing updates or deletes an event.

Tick ==
  /\ now < MaxTime
  /\ now' = now + 1
  /\ UNCHANGED <<state, createdAt, run, status, diskVars, counted, settled>>

RecordEvent(e) ==
  /\ state[e] = "unused"
  /\ state' = [state EXCEPT ![e] = "open"]
  /\ createdAt' = [createdAt EXCEPT ![e] = now]
  /\ UNCHANGED <<now, run, status, diskVars, counted, settled>>

EndTransaction(e) ==
  /\ state[e] = "open"
  /\ \E s \in {"committed", "undone"} : state' = [state EXCEPT ![e] = s]
  /\ UNCHANGED <<now, createdAt, run, status, diskVars, counted, settled>>

\* What the queryset of a cutoff returns when it runs.
Matching(c) == {e \in Events : state[e] = "committed" /\ createdAt[e] < c}
CreationTimes(S) == {createdAt[e] : e \in S}

-----------------------------------------------------------------------------
\* archive_events

Goto(b, step) == run' = [run EXCEPT ![b].at = step]

\* The command checks that the cutoff has a time zone, not that it has passed.
CountEvents(b) ==
  /\ run[b].at = "idle"
  /\ \E c \in Times :
        /\ run' = [run EXCEPT ![b] = [at |-> "counted", cutoff |-> c, first |-> 0, last |-> 0,
                                      count |-> Cardinality(Matching(c))]]
        /\ counted' = [counted EXCEPT ![b] = Matching(c)]
        /\ settled' = IF c <= now /\ \A e \in Events : state[e] = "open" => createdAt[e] >= c
                        THEN settled \cup {b} ELSE settled
  /\ UNCHANGED <<logVars, status, diskVars>>

ReadFirst(b) ==
  /\ run[b].at = "counted"
  /\ LET found == Matching(run[b].cutoff) IN
        IF found = {}
          THEN Goto(b, "over")
          ELSE run' = [run EXCEPT ![b] =
                         [at |-> "bounded", cutoff |-> run[b].cutoff, count |-> run[b].count,
                          first |-> Min(CreationTimes(found)), last |-> 0]]
  /\ UNCHANGED <<logVars, status, diskVars, counted, settled>>

CreateBatch(b) ==
  /\ run[b].at = "bounded"
  /\ run' = [run EXCEPT ![b] =
               [at |-> "pending", cutoff |-> run[b].cutoff, count |-> run[b].count,
                first |-> run[b].first, last |-> Max(CreationTimes(Matching(run[b].cutoff)))]]
  /\ status' = [status EXCEPT ![b] = "pending"]
  /\ UNCHANGED <<logVars, diskVars, counted, settled>>

WriteArchive(b) ==
  /\ run[b].at = "pending"
  /\ temp[b] = NoFiles /\ file[b] = NoFiles
  /\ temp' = [temp EXCEPT ![b].archive = Matching(run[b].cutoff)]
  /\ Goto(b, "archived")
  /\ UNCHANGED <<logVars, status, file, counted, settled>>

WriteManifest(b) ==
  /\ run[b].at = "archived"
  /\ temp' = [temp EXCEPT ![b].manifest =
                [cutoff |-> run[b].cutoff, first |-> run[b].first, last |-> run[b].last,
                 count |-> run[b].count, digest |-> temp[b].archive]]
  /\ Goto(b, "described")
  /\ UNCHANGED <<logVars, status, file, counted, settled>>

\* Deviation: the number of lines is not compared.
VerifiesUncounted(archive, manifest) ==
  /\ manifest.digest = archive
  /\ archive # {}
  /\ Min(CreationTimes(archive)) = manifest.first
  /\ Max(CreationTimes(archive)) = manifest.last

\* _verify_archive_payload
Verifies(archive, manifest) ==
  /\ manifest.digest = archive
  /\ Cardinality(archive) = manifest.count
  /\ archive # {}
  /\ Min(CreationTimes(archive)) = manifest.first
  /\ Max(CreationTimes(archive)) = manifest.last

VerifyBatch(b) ==
  /\ run[b].at = "described"
  /\ Goto(b, IF Verifies(temp[b].archive, temp[b].manifest) THEN "verified" ELSE "failing")
  /\ UNCHANGED <<logVars, status, diskVars, counted, settled>>

MoveArchive(b) ==
  /\ run[b].at = "verified"
  /\ file' = [file EXCEPT ![b].archive = temp[b].archive]
  /\ temp' = [temp EXCEPT ![b].archive = None]
  /\ Goto(b, "archive_moved")
  /\ UNCHANGED <<logVars, status, counted, settled>>

MoveManifest(b) ==
  /\ run[b].at = "archive_moved"
  /\ file' = [file EXCEPT ![b].manifest = temp[b].manifest]
  /\ temp' = [temp EXCEPT ![b].manifest = None]
  /\ Goto(b, "manifest_moved")
  /\ UNCHANGED <<logVars, status, counted, settled>>

Complete(b) ==
  /\ run[b].at = "manifest_moved"
  /\ status' = [status EXCEPT ![b] = "completed"]
  /\ Goto(b, "over")
  /\ UNCHANGED <<logVars, diskVars, counted, settled>>

\* Any step after the insert can raise.  An archive that was moved is removed
\* again unless its manifest is there too.
Fail(b) ==
  /\ run[b].at \in {"pending", "archived", "described", "verified", "archive_moved",
                    "manifest_moved"}
  /\ Goto(b, "failing")
  /\ UNCHANGED <<logVars, status, diskVars, counted, settled>>

\* Deviation: the moved archive stays.
RemainingAll(b) == file[b]

\* Deviation: the moved archive goes whether or not its manifest is there.
RemainingManifest(b) == [file[b] EXCEPT !.archive = None]

Remaining(b) == IF file[b].manifest = None THEN NoFiles ELSE file[b]

CleanUp(b) ==
  /\ run[b].at = "failing"
  /\ temp' = [temp EXCEPT ![b] = NoFiles]
  /\ file' = [file EXCEPT ![b] = Remaining(b)]
  /\ Goto(b, "cleaned")
  /\ UNCHANGED <<logVars, status, counted, settled>>

MarkFailed(b) ==
  /\ run[b].at = "cleaned"
  /\ status' = [status EXCEPT ![b] = "failed"]
  /\ Goto(b, "over")
  /\ UNCHANGED <<logVars, diskVars, counted, settled>>

\* The process dies; nothing takes the batch up again.
Crash(b) ==
  /\ run[b].at \notin {"idle", "over"}
  /\ Goto(b, "over")
  /\ UNCHANGED <<logVars, status, diskVars, counted, settled>>

-----------------------------------------------------------------------------
Archiving(b) ==
  \/ CountEvents(b) \/ ReadFirst(b) \/ CreateBatch(b)
  \/ WriteArchive(b) \/ WriteManifest(b) \/ VerifyBatch(b)
  \/ MoveArchive(b) \/ MoveManifest(b) \/ Complete(b)
  \/ Fail(b) \/ CleanUp(b) \/ MarkFailed(b) \/ Crash(b)

Next ==
  \/ Tick
  \/ \E e \in Events : RecordEvent(e) \/ EndTransaction(e)
  \/ \E b \in Batches : Archiving(b)

Spec == Init /\ [][Next]_vars

-----------------------------------------------------------------------------
\* verify_archive on the manifest of a batch.
VerifyArchive(b) ==
  /\ file[b].archive # None
  /\ Verifies(file[b].archive, file[b].manifest)

Completed == {b \in Batches : status[b] = "completed"}

\* Deviation: batches that failed or never ended count as archives.
UnarchivedByAnyBatch(retentionCutoff) ==
  {e \in Matching(retentionCutoff) :
     \A b \in Batches : status[b] # None => createdAt[e] >= run[b].cutoff}

\* retention_report: the events older than the retention period that it says
\* no archive holds.
UnarchivedCandidates(retentionCutoff) ==
  {e \in Matching(retentionCutoff) : \A b \in Completed : createdAt[e] >= run[b].cutoff}

TypeOK ==
  /\ now \in 0..MaxTime
  /\ state \in [Events -> {"unused", "open", "committed", "undone"}]
  /\ createdAt \in [Events -> 0..MaxTime]
  /\ run \in [Batches -> Run]
  /\ status \in [Batches -> {None, "pending", "completed", "failed"}]
  /\ temp \in [Batches -> Files]
  /\ file \in [Batches -> Files]
  /\ counted \in [Batches -> SUBSET Events]
  /\ settled \subseteq Batches

\* A manifest under its final name verifies at any time, whatever failed or
\* crashed around it (verification before the moves, the archive moved first).
PublishedManifestsVerify ==
  \A b \in Batches : file[b].manifest # None => VerifyArchive(b)

\* A completed batch holds the events its first query counted, no other: what
\* commits between count() and the iteration fails the batch (the count in
\* the manifest is the one of the first query).
CompletedBatchesAreSnapshots ==
  \A b \in Completed : file[b].manifest # None /\ file[b].archive = counted[b]

\* A failed batch leaves no temporary file, and no archive without its manifest
\* (the except branch of archive_events).
FailedBatchesLeaveNoFragment ==
  \A b \in Batches : status[b] = "failed" =>
     /\ temp[b] = NoFiles
     /\ file[b].archive # None => file[b].manifest # None

\* As long as every completed batch was taken below a cutoff that had passed
\* with no transaction still open under it, the events the retention report
\* leaves out of its unarchived candidates are in a completed archive.
ReportOverlooksNoEvent ==
  Completed \subseteq settled =>
    \A t \in 0..now : \A e \in Matching(t) \ UnarchivedCandidates(t) :
       \E b \in Completed : e \in file[b].archive
=============================================================================
