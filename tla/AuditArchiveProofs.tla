-------------------------- MODULE AuditArchiveProofs --------------------------
(***************************************************************************)
(* Theorems about AuditArchive, for any events, batches and bound of the   *)
(* clock.                                                                  *)
(***************************************************************************)
EXTENDS AuditArchive, FiniteSetTheorems, WellFoundedInduction, TLAPS

\* What the queries found is still there, and the count is the one the manifest
\* will carry.
CountStands(b) ==
  /\ run[b].at # "idle" =>
       counted[b] \subseteq Matching(run[b].cutoff) /\ run[b].count = Cardinality(counted[b])
  /\ run[b].at = "bounded" => Matching(run[b].cutoff) # {}

\* An archive, wherever it lies, holds committed events and all of the counted.
IsGrown(b, archive) ==
  archive # None => counted[b] \subseteq archive /\ \A e \in archive : state[e] = "committed"

ArchivesGrow(b) == IsGrown(b, temp[b].archive) /\ IsGrown(b, file[b].archive)

\* A manifest is published after its archive, and verifies.
PublishedAfterVerified(b) ==
  file[b].manifest # None =>
    /\ file[b].archive # None
    /\ Verifies(file[b].archive, file[b].manifest)
    /\ file[b].manifest.count = run[b].count

NoArchiveAlone(b) == file[b].archive # None => file[b].manifest # None

\* Which files there are at each step, and what was verified.
FilesFollowSteps(b) ==
  /\ run[b].at \in {"idle", "counted", "bounded", "pending"} => temp[b] = NoFiles
  /\ run[b].at \in {"idle", "counted", "bounded", "pending", "archived", "described",
                    "verified"} => file[b] = NoFiles
  /\ run[b].at \in {"archived", "described", "verified"} => temp[b].archive # None
  /\ run[b].at \in {"described", "verified", "archive_moved"} =>
       temp[b].manifest # None /\ temp[b].manifest.count = run[b].count
  /\ run[b].at = "verified" => Verifies(temp[b].archive, temp[b].manifest)
  /\ run[b].at = "archive_moved" =>
       /\ file[b].archive # None /\ file[b].manifest = None
       /\ Verifies(file[b].archive, temp[b].manifest)
  /\ run[b].at = "manifest_moved" => file[b].manifest # None
  /\ run[b].at = "cleaned" => temp[b] = NoFiles /\ NoArchiveAlone(b)

\* A batch is completed or failed only when its run is over.
StatusFollowsFiles(b) ==
  /\ status[b] \in {"completed", "failed"} => run[b].at = "over"
  /\ status[b] = "completed" => file[b].manifest # None
  /\ status[b] = "failed" => temp[b] = NoFiles /\ NoArchiveAlone(b)

\* Below the cutoff of a settled batch there is nothing but what it counted.
SettledIsComplete(b) ==
  b \in settled =>
    /\ run[b].at # "idle" /\ run[b].cutoff <= now
    /\ \A e \in Events :
         state[e] \in {"open", "committed"} /\ createdAt[e] < run[b].cutoff => e \in counted[b]

BatchInv(b) ==
  /\ CountStands(b) /\ ArchivesGrow(b) /\ PublishedAfterVerified(b) /\ FilesFollowSteps(b)
  /\ StatusFollowsFiles(b) /\ SettledIsComplete(b)

IInv == TypeOK /\ \A b \in Batches : BatchInv(b)
-----------------------------------------------------------------------------
(***************************************************************************)
(* Least and greatest elements.                                            *)
(***************************************************************************)
LEMMA NatHasLeast ==
  ASSUME NEW S \in SUBSET Nat, S # {}
  PROVE  \E m \in S : \A k \in S : m <= k
<1> DEFINE T == {0..m : m \in S}
<1>1. T \subseteq FiniteSubsetsOf(Nat) /\ T # {}
  <2>1. ASSUME NEW m \in S
        PROVE  0..m \in FiniteSubsetsOf(Nat)
    <3>1. IsFiniteSet(0..m) /\ 0..m \in SUBSET Nat
      BY FS_Interval
    <3> QED
      BY <3>1 DEF FiniteSubsetsOf
  <2> QED
    BY <2>1
<1>2. \E x \in T : \A y \in T : <<y, x>> \notin StrictSubsetOrdering(Nat)
  <2> HIDE DEF T
  <2> QED
    BY <1>1, WFMin, FS_StrictSubsetOrderingWellFounded
<1>3. PICK m \in S : \A k \in S : <<0..k, 0..m>> \notin StrictSubsetOrdering(Nat)
  BY <1>2
<1>4. ASSUME NEW k \in S, k < m
      PROVE  FALSE
  <2>1. 0..k \in SUBSET Nat /\ 0..m \in SUBSET Nat /\ 0..k \subseteq 0..m /\ 0..k # 0..m
    BY <1>4
  <2> QED
    BY <1>3, <2>1 DEF StrictSubsetOrdering
<1>5. \A k \in S : m <= k
  BY <1>4
<1> QED
  BY <1>5

LEMMA BoundsAreElements ==
  ASSUME NEW N \in Nat, NEW S \in SUBSET (0..N), S # {}
  PROVE  Min(S) \in S /\ Max(S) \in S
<1>1. Min(S) \in S
  <2>1. \E m \in S : \A k \in S : m <= k
    BY NatHasLeast
  <2> QED
    BY <2>1 DEF Min
<1>2. Max(S) \in S
  <2> DEFINE T == {N - k : k \in S}
  <2>1. T \in SUBSET Nat /\ T # {}
    <3>1. \A k \in S : N - k \in Nat
      OBVIOUS
    <3> QED
      BY <3>1
  <2>2. \E t \in T : \A u \in T : t <= u
    <3> HIDE DEF T
    <3> QED
      BY <2>1, NatHasLeast
  <2>3. PICK m \in S : \A k \in S : N - m <= N - k
    BY <2>2
  <2>4. \A k \in S : m >= k
    BY <2>3
  <2> QED
    BY <2>4 DEF Max
<1> QED
  BY <1>1, <1>2

-----------------------------------------------------------------------------
(***************************************************************************)
(* Types and the first state.                                              *)
(***************************************************************************)
LEMMA Finite == \A S \in SUBSET Events : IsFiniteSet(S) /\ Cardinality(S) \in Nat
BY ArchiveAssumption, FS_Subset, FS_CardinalityType

\* What a query finds below a cutoff was inserted at a time of the clock.
LEMMA TimesFound ==
  ASSUME TypeOK, NEW c, Matching(c) # {}
  PROVE  Min(CreationTimes(Matching(c))) \in Times /\ Max(CreationTimes(Matching(c))) \in Times
<1>1. CreationTimes(Matching(c)) \in SUBSET (0..MaxTime) /\ CreationTimes(Matching(c)) # {}
  BY DEF TypeOK, Matching, CreationTimes
<1>2. /\ Min(CreationTimes(Matching(c))) \in 0..MaxTime
      /\ Max(CreationTimes(Matching(c))) \in 0..MaxTime
  BY <1>1, BoundsAreElements, ArchiveAssumption
<1> QED
  BY <1>2, ArchiveAssumption DEF Times

LEMMA InitIInv == Init => IInv
<1> SUFFICES ASSUME Init
             PROVE  IInv
  OBVIOUS
<1>1. TypeOK
  BY ArchiveAssumption DEF Init, TypeOK, Run, Steps, Times, Files, NoFiles
<1>2. ASSUME NEW b \in Batches
      PROVE  BatchInv(b)
  <2>1. run[b].at = "idle" /\ status[b] = None /\ temp[b] = NoFiles /\ file[b] = NoFiles
        /\ b \notin settled
    BY DEF Init
  <2> QED
    BY <2>1, ArchiveAssumption
    DEF BatchInv, CountStands, ArchivesGrow, IsGrown, PublishedAfterVerified, FilesFollowSteps,
        StatusFollowsFiles, SettledIsComplete, NoFiles
<1> QED
  BY <1>1, <1>2 DEF IInv

\* A step of the archive command is about one batch.
Touches(b) ==
  /\ run' \in [Batches -> Run]
  /\ status' \in [Batches -> {None, "pending", "completed", "failed"}]
  /\ temp' \in [Batches -> Files] /\ file' \in [Batches -> Files]
  /\ counted' \in [Batches -> SUBSET Events] /\ settled' \subseteq Batches
  /\ UNCHANGED logVars
  /\ \A c \in Batches \ {b} :
       /\ run'[c] = run[c] /\ status'[c] = status[c] /\ counted'[c] = counted[c]
       /\ temp'[c] = temp[c] /\ file'[c] = file[c] /\ (c \in settled' <=> c \in settled)

LEMMA GotoMoves ==
  ASSUME TypeOK, NEW b \in Batches, NEW step \in Steps, Goto(b, step)
  PROVE  /\ run' \in [Batches -> Run]
         /\ run'[b].at = step /\ run'[b].cutoff = run[b].cutoff /\ run'[b].count = run[b].count
         /\ run'[b].first = run[b].first /\ run'[b].last = run[b].last
         /\ \A c \in Batches \ {b} : run'[c] = run[c]
BY DEF TypeOK, Run, Goto

LEMMA QueriesTouchOne ==
  ASSUME IInv, NEW b \in Batches, CountEvents(b) \/ ReadFirst(b) \/ CreateBatch(b)
  PROVE  Touches(b)
<1>0. TypeOK
  BY DEF IInv
<1>1. ASSUME CountEvents(b)
      PROVE  Touches(b)
  <2>1. PICK c \in Times :
          /\ run' = [run EXCEPT ![b] = [at |-> "counted", cutoff |-> c, first |-> 0, last |-> 0,
                                        count |-> Cardinality(Matching(c))]]
          /\ counted' = [counted EXCEPT ![b] = Matching(c)]
          /\ settled' \in {settled, settled \cup {b}}
    BY <1>1 DEF CountEvents
  <2>2. Matching(c) \in SUBSET Events /\ Cardinality(Matching(c)) \in Nat
    BY Finite DEF Matching
  <2>3. [at |-> "counted", cutoff |-> c, first |-> 0, last |-> 0,
         count |-> Cardinality(Matching(c))] \in Run
    BY <2>2, ArchiveAssumption DEF Run, Steps, Times
  <2> QED
    BY <1>0, <1>1, <2>1, <2>2, <2>3 DEF CountEvents, Touches, TypeOK, diskVars
<1>2. ASSUME ReadFirst(b)
      PROVE  Touches(b)
  <2>1. ASSUME Goto(b, "over")
        PROVE  run' \in [Batches -> Run] /\ \A c \in Batches \ {b} : run'[c] = run[c]
    BY <1>0, <2>1, GotoMoves DEF Steps
  <2>2. ASSUME NEW t \in Times,
               run' = [run EXCEPT ![b] = [at |-> "bounded", cutoff |-> run[b].cutoff,
                                          count |-> run[b].count, first |-> t, last |-> 0]]
        PROVE  run' \in [Batches -> Run] /\ \A c \in Batches \ {b} : run'[c] = run[c]
    <3>1. [at |-> "bounded", cutoff |-> run[b].cutoff, count |-> run[b].count,
           first |-> t, last |-> 0] \in Run
      BY <1>0, ArchiveAssumption DEF TypeOK, Run, Steps, Times
    <3> QED
      BY <1>0, <2>2, <3>1 DEF TypeOK
  <2>3. run' \in [Batches -> Run] /\ \A c \in Batches \ {b} : run'[c] = run[c]
    BY <1>0, <1>2, <2>1, <2>2, TimesFound DEF ReadFirst
  <2> QED
    BY <1>0, <1>2, <2>3 DEF ReadFirst, Touches, TypeOK, diskVars
<1>3. ASSUME CreateBatch(b)
      PROVE  Touches(b)
  <2>1. Matching(run[b].cutoff) # {}
    BY <1>3 DEF CreateBatch, IInv, BatchInv, CountStands
  <2>2. PICK t \in Times : t = Max(CreationTimes(Matching(run[b].cutoff)))
    BY <1>0, <2>1, TimesFound
  <2>3. [at |-> "pending", cutoff |-> run[b].cutoff, count |-> run[b].count,
         first |-> run[b].first, last |-> t] \in Run
    BY <1>0 DEF TypeOK, Run, Steps
  <2>4. run' \in [Batches -> Run] /\ \A c \in Batches \ {b} : run'[c] = run[c]
    BY <1>0, <1>3, <2>2, <2>3 DEF CreateBatch, TypeOK
  <2> QED
    BY <1>0, <1>3, <2>4 DEF CreateBatch, Touches, TypeOK, diskVars
<1> QED
  BY <1>1, <1>2, <1>3

\* A place on the disk is filled or emptied.
LEMMA FileSet ==
  ASSUME NEW f \in Files
  PROVE  /\ \A a \in {None} \cup SUBSET Events : [f EXCEPT !.archive = a] \in Files
         /\ \A m \in {None} \cup Manifest : [f EXCEPT !.manifest = m] \in Files
BY DEF Files

LEMMA FilesTouchOne ==
  ASSUME IInv, NEW b \in Batches,
         \/ WriteArchive(b) \/ WriteManifest(b) \/ MoveArchive(b) \/ MoveManifest(b) \/ CleanUp(b)
  PROVE  Touches(b)
<1>0. TypeOK /\ FilesFollowSteps(b)
  BY DEF IInv, BatchInv
<1>1. run' \in [Batches -> Run] /\ \A c \in Batches \ {b} : run'[c] = run[c]
  BY <1>0, GotoMoves
  DEF WriteArchive, WriteManifest, MoveArchive, MoveManifest, CleanUp, Steps
<1>2. /\ temp' \in [Batches -> Files] /\ file' \in [Batches -> Files]
      /\ \A c \in Batches \ {b} : temp'[c] = temp[c] /\ file'[c] = file[c]
  <2>0. NoFiles \in Files
    BY DEF NoFiles, Files
  <2>1. CASE WriteArchive(b)
    <3>1. Matching(run[b].cutoff) \in SUBSET Events
      BY DEF Matching
    <3> QED
      BY <1>0, <2>1, <3>1 DEF WriteArchive, TypeOK, Files
  <2>2. CASE WriteManifest(b)
    <3>1. temp[b].archive \in SUBSET Events /\ run[b] \in Run
      BY <1>0, <2>2 DEF WriteManifest, FilesFollowSteps, TypeOK, Files
    <3>2. PICK m \in Manifest :
            m = [cutoff |-> run[b].cutoff, first |-> run[b].first, last |-> run[b].last,
                 count |-> run[b].count, digest |-> temp[b].archive]
      BY <3>1 DEF Run, Manifest
    <3>3. temp' = [temp EXCEPT ![b].manifest = m]
      BY <2>2, <3>2 DEF WriteManifest
    <3> QED
      BY <1>0, <2>2, <3>3 DEF WriteManifest, TypeOK, Files
  <2>3. CASE MoveArchive(b)
    <3>1. temp[b] \in Files /\ file[b] \in Files /\ temp[b].archive \in {None} \cup SUBSET Events
      BY <1>0 DEF TypeOK, Files
    <3>2. /\ [temp[b] EXCEPT !.archive = None] \in Files
          /\ [file[b] EXCEPT !.archive = temp[b].archive] \in Files
      BY <3>1, FileSet
    <3> QED
      BY <1>0, <2>3, <3>2 DEF MoveArchive, TypeOK
  <2>4. CASE MoveManifest(b)
    <3>1. temp[b] \in Files /\ file[b] \in Files /\ temp[b].manifest \in {None} \cup Manifest
      BY <1>0 DEF TypeOK, Files
    <3>2. /\ [temp[b] EXCEPT !.manifest = None] \in Files
          /\ [file[b] EXCEPT !.manifest = temp[b].manifest] \in Files
      BY <3>1, FileSet
    <3> QED
      BY <1>0, <2>4, <3>2 DEF MoveManifest, TypeOK
  <2>5. CASE CleanUp(b)
    BY <1>0, <2>0, <2>5 DEF CleanUp, Remaining, TypeOK
  <2> QED
    BY <2>1, <2>2, <2>3, <2>4, <2>5
<1> QED
  BY <1>0, <1>1, <1>2
  DEF WriteArchive, WriteManifest, MoveArchive, MoveManifest, CleanUp, Touches, TypeOK

LEMMA RestTouchesOne ==
  ASSUME IInv, NEW b \in Batches,
         \/ VerifyBatch(b) \/ Complete(b) \/ Fail(b) \/ MarkFailed(b) \/ Crash(b)
  PROVE  Touches(b)
<1>0. TypeOK
  BY DEF IInv
<1>1. run' \in [Batches -> Run] /\ \A c \in Batches \ {b} : run'[c] = run[c]
  BY <1>0, GotoMoves DEF VerifyBatch, Complete, Fail, MarkFailed, Crash, Steps
<1> QED
  BY <1>0, <1>1 DEF VerifyBatch, Complete, Fail, MarkFailed, Crash, Touches, TypeOK, diskVars

LEMMA StepsTouchOne ==
  ASSUME IInv, NEW b \in Batches, Archiving(b)
  PROVE  Touches(b)
BY QueriesTouchOne, FilesTouchOne, RestTouchesOne DEF Archiving

LEMMA LogTypes ==
  ASSUME TypeOK, Tick \/ (\E e \in Events : RecordEvent(e) \/ EndTransaction(e)) \/ UNCHANGED vars
  PROVE  TypeOK'
BY ArchiveAssumption DEF Tick, RecordEvent, EndTransaction, TypeOK, vars, logVars, diskVars

LEMMA TypesKept == IInv /\ [Next]_vars => TypeOK'
<1> SUFFICES ASSUME IInv, [Next]_vars
             PROVE  TypeOK'
  OBVIOUS
<1>1. ASSUME NEW b \in Batches, Touches(b)
      PROVE  TypeOK'
    BY <1>1 DEF IInv, TypeOK, Touches, logVars
<1> QED
  BY <1>1, StepsTouchOne, LogTypes DEF IInv, Next

-----------------------------------------------------------------------------
(***************************************************************************)
(* The log: committed events stay as they are.                             *)
(***************************************************************************)

\* What was committed keeps its time, so archives keep verifying.
LEMMA LogSteps ==
  ASSUME TypeOK, Tick \/ (\E e \in Events : RecordEvent(e) \/ EndTransaction(e)) \/ UNCHANGED vars
  PROVE  /\ UNCHANGED <<run, status, temp, file, counted, settled>>
         /\ now <= now'
         /\ \A e \in Events :
              /\ state[e] = "committed" => state'[e] = "committed"
              /\ state[e] # "unused" => createdAt'[e] = createdAt[e]
              /\ state[e] = "unused" /\ state'[e] # "unused" =>
                   state'[e] = "open" /\ createdAt'[e] = now
              /\ state'[e] = "committed" => state[e] \in {"open", "committed"}
              /\ state[e] = "undone" => state'[e] = "undone"
BY DEF Tick, RecordEvent, EndTransaction, TypeOK, vars, logVars, diskVars

LEMMA LogKeepsBatches ==
  ASSUME IInv, Tick \/ (\E e \in Events : RecordEvent(e) \/ EndTransaction(e)) \/ UNCHANGED vars,
         NEW b \in Batches
  PROVE  BatchInv(b)'
<1>0. TypeOK /\ BatchInv(b)
  BY DEF IInv
<1>1. /\ UNCHANGED <<run, status, temp, file, counted, settled>>
      /\ now <= now'
      /\ \A e \in Events :
           /\ state[e] = "committed" => state'[e] = "committed"
           /\ state[e] # "unused" => createdAt'[e] = createdAt[e]
           /\ state[e] = "unused" /\ state'[e] # "unused" =>
                state'[e] = "open" /\ createdAt'[e] = now
           /\ state'[e] = "committed" => state[e] \in {"open", "committed"}
           /\ state[e] = "undone" => state'[e] = "undone"
  BY <1>0, LogSteps
<1>2. \A c : Matching(c) \subseteq Matching(c)'
  BY <1>1 DEF Matching
<1>3. ASSUME NEW S \in SUBSET Events, \A e \in S : state[e] = "committed"
      PROVE  CreationTimes(S)' = CreationTimes(S)
  BY <1>1, <1>3 DEF CreationTimes
<1>4. CountStands(b)' /\ ArchivesGrow(b)'
  <2>1. CountStands(b) /\ ArchivesGrow(b)
    BY <1>0 DEF BatchInv
  <2>2. CountStands(b)'
    BY <1>1, <1>2, <2>1 DEF CountStands
  <2>3. temp[b].archive \in {None} \cup SUBSET Events /\ file[b].archive \in {None} \cup SUBSET Events
    BY <1>0 DEF TypeOK, Files
  <2> QED
    BY <1>1, <2>1, <2>2, <2>3 DEF ArchivesGrow, IsGrown
<1>5. ASSUME NEW S \in {temp[b].archive, file[b].archive}, S # None, NEW m
      PROVE  Verifies(S, m)' <=> Verifies(S, m)
  <2>1. S \in SUBSET Events /\ \A e \in S : state[e] = "committed"
    BY <1>0, <1>5 DEF TypeOK, Files, BatchInv, ArchivesGrow, IsGrown
  <2> QED
    BY <1>3, <2>1 DEF Verifies
<1>6. PublishedAfterVerified(b)' /\ FilesFollowSteps(b)' /\ StatusFollowsFiles(b)'
  <2>1. PublishedAfterVerified(b) /\ FilesFollowSteps(b) /\ StatusFollowsFiles(b)
    BY <1>0 DEF BatchInv
  <2>2. /\ file[b].archive # None =>
             /\ Verifies(file[b].archive, file[b].manifest)'
                  <=> Verifies(file[b].archive, file[b].manifest)
             /\ Verifies(file[b].archive, temp[b].manifest)'
                  <=> Verifies(file[b].archive, temp[b].manifest)
        /\ temp[b].archive # None => (Verifies(temp[b].archive, temp[b].manifest)'
                                      <=> Verifies(temp[b].archive, temp[b].manifest))
    BY <1>1, <1>5
  <2>3. PublishedAfterVerified(b)'
    BY <1>1, <2>1, <2>2 DEF PublishedAfterVerified
  <2>4. FilesFollowSteps(b)'
    BY <1>1, <2>1, <2>2 DEF FilesFollowSteps, NoArchiveAlone
  <2> QED
    BY <1>1, <2>1, <2>3, <2>4 DEF StatusFollowsFiles, NoArchiveAlone
<1>7. SettledIsComplete(b)'
  <2>1. SettledIsComplete(b)
    BY <1>0 DEF BatchInv
  <2>2. run[b].cutoff \in Int /\ now \in Int /\ now' \in Int
    BY <1>0, LogTypes, ArchiveAssumption DEF TypeOK, Run, Times
  <2>3. \A e \in Events : createdAt[e] \in Int /\ state[e] \in {"unused", "open", "committed", "undone"}
    BY <1>0 DEF TypeOK
  <2>4. ASSUME b \in settled, NEW e \in Events, state'[e] \in {"open", "committed"},
               createdAt'[e] < run[b].cutoff
        PROVE  state[e] \in {"open", "committed"} /\ createdAt[e] < run[b].cutoff
    BY <1>1, <2>1, <2>2, <2>3, <2>4 DEF SettledIsComplete
  <2> QED
    BY <1>1, <2>1, <2>2, <2>4 DEF SettledIsComplete
<1> QED
  BY <1>4, <1>6, <1>7 DEF BatchInv

-----------------------------------------------------------------------------
(***************************************************************************)
(* The command, step by step.                                              *)
(***************************************************************************)

\* A batch that a step is not about keeps its invariant.
LEMMA OthersKeep ==
  ASSUME NEW b \in Batches, Touches(b), NEW c \in Batches \ {b}, BatchInv(c)
  PROVE  BatchInv(c)'
<1>1. /\ run'[c] = run[c] /\ status'[c] = status[c] /\ counted'[c] = counted[c]
      /\ temp'[c] = temp[c] /\ file'[c] = file[c] /\ (c \in settled' <=> c \in settled)
      /\ UNCHANGED <<now, state, createdAt>>
  BY DEF Touches, logVars
<1>2. \A t : Matching(t)' = Matching(t)
  BY <1>1 DEF Matching
<1>3. \A S, m : Verifies(S, m)' <=> Verifies(S, m)
  BY <1>1 DEF Verifies, CreationTimes
<1>4. CountStands(c)' /\ SettledIsComplete(c)'
  BY <1>1, <1>2 DEF BatchInv, CountStands, SettledIsComplete
<1>5. ArchivesGrow(c)' /\ PublishedAfterVerified(c)'
  BY <1>1, <1>3 DEF BatchInv, ArchivesGrow, IsGrown, PublishedAfterVerified
<1>6. FilesFollowSteps(c)' /\ StatusFollowsFiles(c)'
  BY <1>1, <1>3 DEF BatchInv, FilesFollowSteps, StatusFollowsFiles, NoArchiveAlone
<1> QED
  BY <1>4, <1>5, <1>6 DEF BatchInv

\* The queries before the insert: there are no files yet.
LEMMA QueriesKeep ==
  ASSUME IInv, NEW b \in Batches, CountEvents(b) \/ ReadFirst(b) \/ CreateBatch(b)
  PROVE  BatchInv(b)'
<1>0. TypeOK /\ BatchInv(b)
  BY DEF IInv
<1>1. temp[b] = NoFiles /\ file[b] = NoFiles /\ UNCHANGED <<now, state, createdAt, temp, file>>
  BY <1>0
  DEF CountEvents, ReadFirst, CreateBatch, BatchInv, FilesFollowSteps, logVars, diskVars
<1>2. status[b] \notin {"completed", "failed"}
      /\ status'[b] \notin {"completed", "failed"}
  BY <1>0
  DEF CountEvents, ReadFirst, CreateBatch, BatchInv, StatusFollowsFiles, TypeOK
<1>3. \A t : Matching(t)' = Matching(t)
  BY <1>1 DEF Matching
<1>4. run'[b].at \in {"counted", "bounded", "pending", "over"}
  BY <1>0, GotoMoves DEF CountEvents, ReadFirst, CreateBatch, Steps, TypeOK
<1>5. CountStands(b)'
  <2>1. CASE CountEvents(b)
    BY <1>0, <1>3, <2>1 DEF CountEvents, CountStands, TypeOK
  <2>2. CASE ReadFirst(b) \/ CreateBatch(b)
    <3>1. /\ run'[b].cutoff = run[b].cutoff /\ run'[b].count = run[b].count
          /\ counted' = counted /\ run[b].at # "idle"
          /\ run'[b].at = "bounded" => Matching(run[b].cutoff) # {}
      BY <1>0, <2>2, GotoMoves DEF ReadFirst, CreateBatch, Steps, TypeOK
    <3> QED
      BY <1>0, <1>3, <3>1 DEF BatchInv, CountStands
  <2> QED
    BY <2>1, <2>2
<1>6. ArchivesGrow(b)' /\ PublishedAfterVerified(b)' /\ StatusFollowsFiles(b)'
  BY <1>1, <1>2 DEF ArchivesGrow, IsGrown, PublishedAfterVerified, StatusFollowsFiles, NoFiles
<1>7. FilesFollowSteps(b)'
  BY <1>1, <1>4 DEF FilesFollowSteps
<1>8. SettledIsComplete(b)'
  <2>1. ASSUME CountEvents(b), b \in settled'
        PROVE  SettledIsComplete(b)'
    <3>1. run[b].at = "idle" /\ b \notin settled
      BY <1>0, <2>1 DEF CountEvents, BatchInv, SettledIsComplete
    <3>2. PICK c \in Times :
            /\ run' = [run EXCEPT ![b] = [at |-> "counted", cutoff |-> c, first |-> 0,
                                          last |-> 0, count |-> Cardinality(Matching(c))]]
            /\ counted' = [counted EXCEPT ![b] = Matching(c)]
            /\ c <= now /\ \A e \in Events : state[e] = "open" => createdAt[e] >= c
      BY <2>1, <3>1 DEF CountEvents
    <3>3. run'[b].at = "counted" /\ run'[b].cutoff = c /\ counted'[b] = Matching(c)
      BY <1>0, <3>2 DEF TypeOK
    <3>4. \A e \in Events : state[e] \in {"open", "committed"} /\ createdAt[e] < c =>
            e \in Matching(c)
      BY <1>0, <3>2, ArchiveAssumption DEF Matching, TypeOK, Times
    <3> QED
      BY <1>1, <3>2, <3>3, <3>4 DEF SettledIsComplete
  <2>2. ASSUME ReadFirst(b) \/ CreateBatch(b)
        PROVE  SettledIsComplete(b)'
    <3>1. /\ run'[b].cutoff = run[b].cutoff /\ run'[b].at # "idle"
          /\ counted' = counted /\ settled' = settled
      BY <1>0, <1>4, <2>2, GotoMoves DEF ReadFirst, CreateBatch, Steps, TypeOK
    <3> QED
      BY <1>0, <1>1, <3>1 DEF BatchInv, SettledIsComplete
  <2> QED
    BY <2>1, <2>2 DEF SettledIsComplete
<1> QED
  BY <1>5, <1>6, <1>7, <1>8 DEF BatchInv

\* What a later step leaves alone.
LEMMA LaterSteps ==
  ASSUME IInv, NEW b \in Batches, NEW step \in Steps \ {"idle", "bounded"}, Goto(b, step),
         run[b].at # "idle", UNCHANGED <<logVars, counted, settled>>
  PROVE  /\ CountStands(b)' /\ SettledIsComplete(b)'
         /\ run'[b].at = step /\ run'[b].count = run[b].count
         /\ \A S, m : Verifies(S, m)' <=> Verifies(S, m)
         /\ \A S : IsGrown(b, S)' <=> IsGrown(b, S)
<1>0. TypeOK /\ CountStands(b) /\ SettledIsComplete(b)
  BY DEF IInv, BatchInv
<1>1. run'[b].at = step /\ run'[b].cutoff = run[b].cutoff /\ run'[b].count = run[b].count
  BY <1>0, GotoMoves
<1>2. UNCHANGED <<now, state, createdAt, counted, settled>>
  BY DEF logVars
<1>3. \A t : Matching(t)' = Matching(t)
  BY <1>2 DEF Matching
<1>4. CountStands(b)' /\ SettledIsComplete(b)'
  BY <1>0, <1>1, <1>2, <1>3 DEF CountStands, SettledIsComplete
<1> QED
  BY <1>1, <1>2, <1>4 DEF Verifies, CreationTimes, IsGrown

\* The steps on the temporary files.
LEMMA WritesKeep ==
  ASSUME IInv, NEW b \in Batches, WriteArchive(b) \/ WriteManifest(b) \/ VerifyBatch(b)
  PROVE  BatchInv(b)'
<1>0. TypeOK /\ BatchInv(b)
  BY DEF IInv
<1>1. PICK step \in {"archived", "described", "verified", "failing"} : Goto(b, step)
  BY DEF WriteArchive, WriteManifest, VerifyBatch
<1>2. /\ CountStands(b)' /\ SettledIsComplete(b)'
      /\ run'[b].at = step /\ run'[b].count = run[b].count
      /\ \A S, m : Verifies(S, m)' <=> Verifies(S, m)
      /\ \A S : IsGrown(b, S)' <=> IsGrown(b, S)
  BY <1>1, LaterSteps DEF WriteArchive, WriteManifest, VerifyBatch, Steps
<1>3. file[b] = NoFiles /\ UNCHANGED <<file, status>>
  BY <1>0 DEF WriteArchive, WriteManifest, VerifyBatch, BatchInv, FilesFollowSteps, diskVars
<1>4. StatusFollowsFiles(b)' /\ PublishedAfterVerified(b)'
  BY <1>0, <1>2, <1>3
  DEF WriteArchive, WriteManifest, VerifyBatch, BatchInv, StatusFollowsFiles,
      PublishedAfterVerified, NoFiles
<1>5. IsGrown(b, file'[b].archive) /\ IsGrown(b, temp[b].archive)
  BY <1>0, <1>3 DEF BatchInv, ArchivesGrow
<1>6. ArchivesGrow(b)' /\ FilesFollowSteps(b)'
  <2>1. CASE WriteArchive(b)
    <3>1. step = "archived"
      BY <1>0, <1>1, <1>2, <2>1, GotoMoves DEF WriteArchive, Steps
    <3>2. temp'[b].archive = Matching(run[b].cutoff)
      BY <1>0, <2>1 DEF WriteArchive, TypeOK, Files
    <3>3. IsGrown(b, Matching(run[b].cutoff)) /\ Matching(run[b].cutoff) # None
      BY <1>0, <2>1, ArchiveAssumption DEF WriteArchive, BatchInv, CountStands, IsGrown, Matching
    <3> QED
      BY <1>2, <1>3, <1>5, <3>1, <3>2, <3>3 DEF ArchivesGrow, FilesFollowSteps, NoFiles
  <2>2. CASE WriteManifest(b)
    <3>1. step = "described"
      BY <1>0, <1>1, <1>2, <2>2, GotoMoves DEF WriteManifest, Steps
    <3>2. temp[b].archive # None /\ temp[b].archive \in SUBSET Events
      BY <1>0, <2>2 DEF WriteManifest, BatchInv, FilesFollowSteps, TypeOK, Files
    <3>3. PICK m \in Manifest :
            m = [cutoff |-> run[b].cutoff, first |-> run[b].first, last |-> run[b].last,
                 count |-> run[b].count, digest |-> temp[b].archive]
      BY <1>0, <3>2 DEF TypeOK, Run, Manifest
    <3>4. temp' = [temp EXCEPT ![b].manifest = m]
      BY <2>2, <3>3 DEF WriteManifest
    <3>5. temp'[b].archive = temp[b].archive /\ temp'[b].manifest = m /\ m.count = run[b].count
      BY <1>0, <3>3, <3>4 DEF TypeOK, Files
    <3> QED
      BY <1>2, <1>3, <1>5, <3>1, <3>2, <3>5, ArchiveAssumption
      DEF ArchivesGrow, FilesFollowSteps, NoFiles
  <2>3. CASE VerifyBatch(b)
    <3>1. /\ step = IF Verifies(temp[b].archive, temp[b].manifest) THEN "verified" ELSE "failing"
          /\ temp' = temp
      BY <1>0, <1>1, <1>2, <2>3, GotoMoves DEF VerifyBatch, Steps, diskVars
    <3>2. /\ temp[b].archive # None /\ temp[b].manifest # None
          /\ temp[b].manifest.count = run[b].count
      BY <1>0, <2>3 DEF VerifyBatch, BatchInv, FilesFollowSteps
    <3> QED
      BY <1>2, <1>3, <1>5, <3>1, <3>2 DEF ArchivesGrow, FilesFollowSteps, NoFiles
  <2> QED
    BY <2>1, <2>2, <2>3
<1> QED
  BY <1>2, <1>4, <1>6 DEF BatchInv

\* The steps that give the files their names.
LEMMA MovesKeep ==
  ASSUME IInv, NEW b \in Batches, MoveArchive(b) \/ MoveManifest(b)
  PROVE  BatchInv(b)'
<1>0. TypeOK /\ BatchInv(b)
  BY DEF IInv
<1>1. PICK step \in {"archive_moved", "manifest_moved"} :
        /\ Goto(b, step)
        /\ MoveArchive(b) => step = "archive_moved"
        /\ MoveManifest(b) => step = "manifest_moved"
  BY DEF MoveArchive, MoveManifest
<1>2. /\ CountStands(b)' /\ SettledIsComplete(b)'
      /\ run'[b].at = step /\ run'[b].count = run[b].count
      /\ \A S, m : Verifies(S, m)' <=> Verifies(S, m)
      /\ \A S : IsGrown(b, S)' <=> IsGrown(b, S)
  BY <1>1, LaterSteps DEF MoveArchive, MoveManifest, Steps
<1>3. /\ IsGrown(b, temp[b].archive) /\ IsGrown(b, file[b].archive) /\ IsGrown(b, None)
      /\ FilesFollowSteps(b) /\ PublishedAfterVerified(b) /\ StatusFollowsFiles(b)
  BY <1>0 DEF BatchInv, ArchivesGrow, IsGrown
<1>4. status'[b] = status[b] /\ status[b] \notin {"completed", "failed"}
  BY <1>0 DEF MoveArchive, MoveManifest, BatchInv, StatusFollowsFiles
<1>5. CASE MoveArchive(b)
  <2>1. /\ file'[b].archive = temp[b].archive /\ file'[b].manifest = file[b].manifest
        /\ temp'[b].archive = None /\ temp'[b].manifest = temp[b].manifest
    BY <1>0, <1>5 DEF MoveArchive, TypeOK, Files
  <2>2. /\ file[b] = NoFiles /\ temp[b].archive # None /\ temp[b].manifest # None
        /\ temp[b].manifest.count = run[b].count
        /\ Verifies(temp[b].archive, temp[b].manifest)
    BY <1>3, <1>5 DEF MoveArchive, FilesFollowSteps
  <2> QED
    BY <1>1, <1>2, <1>3, <1>4, <1>5, <2>1, <2>2
    DEF BatchInv, ArchivesGrow, PublishedAfterVerified, FilesFollowSteps, StatusFollowsFiles, NoFiles
<1>6. CASE MoveManifest(b)
  <2>1. /\ file'[b].archive = file[b].archive /\ file'[b].manifest = temp[b].manifest
        /\ temp'[b].archive = temp[b].archive /\ temp'[b].manifest = None
    BY <1>0, <1>6 DEF MoveManifest, TypeOK, Files
  <2>2. /\ file[b].archive # None /\ temp[b].manifest # None
        /\ temp[b].manifest.count = run[b].count
        /\ Verifies(file[b].archive, temp[b].manifest)
    BY <1>3, <1>6 DEF MoveManifest, FilesFollowSteps
  <2> QED
    BY <1>1, <1>2, <1>3, <1>4, <1>6, <2>1, <2>2
    DEF BatchInv, ArchivesGrow, PublishedAfterVerified, FilesFollowSteps, StatusFollowsFiles
<1> QED
  BY <1>5, <1>6

\* The ends of a run: completed, failed and cleaned up, or dead.
LEMMA EndsKeep ==
  ASSUME IInv, NEW b \in Batches,
         \/ Complete(b) \/ Fail(b) \/ CleanUp(b) \/ MarkFailed(b) \/ Crash(b)
  PROVE  BatchInv(b)'
<1>0. TypeOK /\ BatchInv(b)
  BY DEF IInv
<1>1. PICK step \in {"failing", "cleaned", "over"} :
        /\ Goto(b, step)
        /\ CleanUp(b) <=> step = "cleaned"
        /\ Complete(b) \/ MarkFailed(b) => step = "over"
  <2>1. \A q \in Steps : Goto(b, q) => run'[b].at = q
    BY <1>0, GotoMoves
  <2> QED
    BY <2>1 DEF Complete, Fail, CleanUp, MarkFailed, Crash, Steps
<1>2. /\ CountStands(b)' /\ SettledIsComplete(b)'
      /\ run'[b].at = step /\ run'[b].count = run[b].count
      /\ \A S, m : Verifies(S, m)' <=> Verifies(S, m)
      /\ \A S : IsGrown(b, S)' <=> IsGrown(b, S)
  BY <1>1, LaterSteps DEF Complete, Fail, CleanUp, MarkFailed, Crash, Steps, diskVars
<1>3. /\ IsGrown(b, temp[b].archive) /\ IsGrown(b, file[b].archive) /\ IsGrown(b, None)
      /\ FilesFollowSteps(b) /\ PublishedAfterVerified(b) /\ StatusFollowsFiles(b)
  BY <1>0 DEF BatchInv, ArchivesGrow, IsGrown
<1>4. status[b] \notin {"completed", "failed"}
  BY <1>3 DEF Complete, Fail, CleanUp, MarkFailed, Crash, StatusFollowsFiles
<1>5. CASE CleanUp(b)
  <2>1. /\ temp'[b] = NoFiles /\ status'[b] = status[b]
        /\ file'[b] = IF file[b].manifest = None THEN NoFiles ELSE file[b]
    BY <1>0, <1>5 DEF CleanUp, Remaining, TypeOK
  <2>2. ArchivesGrow(b)' /\ PublishedAfterVerified(b)'
    BY <1>2, <1>3, <2>1 DEF ArchivesGrow, PublishedAfterVerified, NoFiles
  <2>3. FilesFollowSteps(b)' /\ StatusFollowsFiles(b)'
    BY <1>1, <1>2, <1>4, <1>5, <2>1 DEF FilesFollowSteps, StatusFollowsFiles, NoArchiveAlone, NoFiles
  <2> QED
    BY <1>2, <2>2, <2>3 DEF BatchInv
<1>6. CASE ~CleanUp(b)
  <2>1. /\ temp' = temp /\ file' = file
        /\ Complete(b) \/ MarkFailed(b) \/ status' = status
    BY <1>6 DEF Complete, Fail, MarkFailed, Crash, diskVars
  <2>2. ArchivesGrow(b)' /\ PublishedAfterVerified(b)'
    BY <1>2, <1>3, <2>1 DEF ArchivesGrow, PublishedAfterVerified
  <2>3. FilesFollowSteps(b)'
    BY <1>1, <1>2, <1>6, <2>1 DEF FilesFollowSteps
  <2>4. StatusFollowsFiles(b)'
    <3>1. CASE Complete(b)
      <4>1. status'[b] = "completed" /\ file[b].manifest # None /\ step = "over"
        BY <1>0, <1>1, <1>3, <3>1 DEF Complete, FilesFollowSteps, TypeOK
      <4> QED
        BY <1>2, <2>1, <4>1 DEF StatusFollowsFiles
    <3>2. CASE MarkFailed(b)
      <4>1. status'[b] = "failed" /\ temp[b] = NoFiles /\ NoArchiveAlone(b) /\ step = "over"
        BY <1>0, <1>1, <1>3, <3>2 DEF MarkFailed, FilesFollowSteps, TypeOK
      <4> QED
        BY <1>2, <2>1, <4>1 DEF StatusFollowsFiles, NoArchiveAlone
    <3>3. CASE status' = status
      BY <1>4, <3>3 DEF StatusFollowsFiles
    <3> QED
      BY <2>1, <3>1, <3>2, <3>3
  <2> QED
    BY <1>2, <2>2, <2>3, <2>4 DEF BatchInv
<1> QED
  BY <1>5, <1>6

-----------------------------------------------------------------------------
LEMMA StepKeeps == IInv /\ [Next]_vars => IInv'
<1> SUFFICES ASSUME IInv, [Next]_vars
             PROVE  IInv'
  OBVIOUS
<1>1. TypeOK'
  BY TypesKept
<1>2. ASSUME NEW b \in Batches, Archiving(b), NEW c \in Batches
      PROVE  BatchInv(c)'
  <2>1. CASE c = b
    BY <1>2, <2>1, QueriesKeep, WritesKeep, MovesKeep, EndsKeep DEF Archiving
  <2>2. CASE c # b
    BY <1>2, <2>2, StepsTouchOne, OthersKeep DEF IInv
  <2> QED
    BY <2>1, <2>2
<1>3. \A c \in Batches : BatchInv(c)'
  BY <1>2, LogKeepsBatches DEF Next
<1> QED
  BY <1>1, <1>3 DEF IInv

LEMMA Reachable == Spec => []IInv
  BY InitIInv, StepKeeps, PTL DEF Spec

\* Every state has the types of TypeOK.
THEOREM Types == Spec => []TypeOK
<1>1. IInv => TypeOK
  BY DEF IInv
<1> QED
  BY <1>1, Reachable, PTL

\* A manifest under its final name verifies at any time, whatever failed or
\* crashed around it.
THEOREM PublishedVerify == Spec => []PublishedManifestsVerify
<1>1. IInv => PublishedManifestsVerify
  BY DEF IInv, BatchInv, PublishedAfterVerified, PublishedManifestsVerify, VerifyArchive
<1> QED
  BY <1>1, Reachable, PTL

\* A failed batch leaves no temporary file and no archive without a manifest.
THEOREM FailuresLeaveNothing == Spec => []FailedBatchesLeaveNoFragment
<1>1. IInv => FailedBatchesLeaveNoFragment
  BY DEF IInv, BatchInv, StatusFollowsFiles, NoArchiveAlone, FailedBatchesLeaveNoFragment
<1> QED
  BY <1>1, Reachable, PTL

\* The archive of a completed batch grew by nothing since it was counted: its
\* manifest verifies and carries that count.
LEMMA CompletedAreCounted ==
  ASSUME IInv, NEW b \in Completed
  PROVE  file[b].manifest # None /\ file[b].archive = counted[b]
<1>1. b \in Batches /\ TypeOK /\ BatchInv(b)
  BY DEF IInv, Completed
<1>2. /\ run[b].at = "over" /\ file[b].manifest # None /\ file[b].archive # None
      /\ Cardinality(file[b].archive) = run[b].count
  BY <1>1 DEF BatchInv, StatusFollowsFiles, PublishedAfterVerified, Completed, Verifies
<1>3. /\ counted[b] \subseteq file[b].archive /\ file[b].archive \in SUBSET Events
      /\ run[b].count = Cardinality(counted[b])
  BY <1>1, <1>2 DEF BatchInv, ArchivesGrow, IsGrown, CountStands, TypeOK, Files
<1> QED
  BY <1>2, <1>3, Finite, FS_Subset

\* A completed batch holds the events its first query counted, no other.
THEOREM CompletedIsSnapshot == Spec => []CompletedBatchesAreSnapshots
<1>1. IInv => CompletedBatchesAreSnapshots
  BY CompletedAreCounted DEF CompletedBatchesAreSnapshots
<1> QED
  BY <1>1, Reachable, PTL

\* As long as every completed batch was taken below a settled cutoff, what the
\* retention report does not list as unarchived is in a completed archive.
THEOREM ReportIsComplete == Spec => []ReportOverlooksNoEvent
<1>1. ASSUME IInv, Completed \subseteq settled, NEW t \in 0..now,
             NEW e \in Matching(t) \ UnarchivedCandidates(t)
      PROVE  \E b \in Completed : e \in file[b].archive
  <2>1. PICK b \in Completed : ~(createdAt[e] >= run[b].cutoff)
    BY <1>1 DEF UnarchivedCandidates
  <2>2. e \in Events /\ state[e] = "committed"
    BY <1>1 DEF Matching
  <2>3. createdAt[e] \in Int /\ run[b].cutoff \in Int
    BY <1>1, <2>2, ArchiveAssumption DEF IInv, TypeOK, Run, Times, Completed
  <2>4. SettledIsComplete(b) /\ b \in settled
    BY <1>1 DEF IInv, BatchInv, Completed
  <2>5. e \in counted[b]
    BY <2>1, <2>2, <2>3, <2>4 DEF SettledIsComplete
  <2> QED
    BY <1>1, <2>5, CompletedAreCounted
<1>2. IInv => ReportOverlooksNoEvent
  BY <1>1 DEF ReportOverlooksNoEvent
<1> QED
  BY <1>2, Reachable, PTL
=============================================================================
