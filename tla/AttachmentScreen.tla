--------------------------- MODULE AttachmentScreen ---------------------------
(***************************************************************************)
(* The list of an employee's attachments in the app                        *)
(* (features/attachments/presentation: AttachmentController, and what      *)
(* AttachmentUploadController does to it) against a server whose rows      *)
(* change meanwhile.  Every await is a place where the user does something *)
(* else; a request is judged by the server at one moment and its answer    *)
(* arrives at another.                                                     *)
(*                                                                         *)
(* Attachments are numbered in the order of their creation; the server     *)
(* pages from the newest.  A generation is only ever compared with the     *)
(* present one: current holds the operations that carry it.                *)
(***************************************************************************)
EXTENDS Naturals, FiniteSets

CONSTANTS
  Existing,    \* attachments the employee has at first
  MaxId,       \* bound: the last attachment that may be created
  PageSize,
  MoreSlots,   \* bound: loadMore calls under way at a time
  MaxWork      \* bound: operations under way when the user begins another

ASSUME ScreenAssumption ==
  /\ Existing \in Nat /\ MaxId \in Nat /\ Existing <= MaxId
  /\ PageSize \in Nat \ {0}
  /\ MoreSlots \in Nat /\ MaxWork \in Nat

VARIABLES
  rows, newest,      \* the server: attachments not deleted, the last one created
  list,              \* AsyncValue of the controller: loading, error, ready
  items, count, page, hasNext, loadingMore, deleting,    \* AttachmentState
  work,              \* work[o]: what the operation o is waiting for
  current,           \* operations whose generation is _refreshGeneration
  deletedHere,       \* attachments whose deletion this screen saw confirmed (history)
  revived,           \* those whose upload was answered only after that (history)
  missed             \* since the page was opened the list missed a change: somebody
                     \* else's, one whose answer or reload failed, an upload that was
                     \* answered before the list was there or too late; or a reload
                     \* was overtaken, or an upload kept a gap (history)

server == <<rows, newest>>
state == <<items, count, page, hasNext, loadingMore, deleting>>
history == <<deletedHere, revived, missed>>
vars == <<server, list, state, work, current, history>>

Ids == 1..MaxId
Load == <<"load", 0>>
Upload == <<"upload", 0>>
More(s) == <<"more", s>>
Deletion(a) == <<"delete", a>>
Deletions == {Deletion(a) : a \in Ids}
Ops == {Load, Upload} \cup {More(s) : s \in 1..MoreSlots} \cup Deletions

NoWork == [at |-> "none"]
Pages == 0..(MaxId + 1)
WorkStates ==
  {NoWork} \cup [at : {"sent", "left"}]
    \cup [at : {"done"}, id : Ids]
    \cup [at : {"asked"}, page : Pages, target : Pages, got : SUBSET Ids, base : SUBSET Ids]
    \cup [at : {"answered"}, page : Pages, got : SUBSET Ids, base : SUBSET Ids,
          next : BOOLEAN, total : 0..MaxId]

Ask(o, from, to, base) ==
  work' = [work EXCEPT ![o] = [at |-> "asked", page |-> from, target |-> to,
                               got |-> {}, base |-> base]]
HandsFree == Cardinality({o \in Ops : work[o] # NoWork}) < MaxWork

End(o) == work' = [work EXCEPT ![o] = NoWork]

Empty ==
  /\ items' = {} /\ count' = 0 /\ page' = 0 /\ hasNext' = FALSE
  /\ loadingMore' = FALSE /\ deleting' = {}

Init ==
  /\ rows = 1..Existing /\ newest = Existing
  /\ list = "loading"
  /\ items = {} /\ count = 0 /\ page = 0 /\ hasNext = FALSE
  /\ loadingMore = FALSE /\ deleting = {}
  /\ work = [o \in Ops |-> IF o = Load
               THEN [at |-> "asked", page |-> 1, target |-> 1, got |-> {}, base |-> {}]
               ELSE NoWork]
  /\ current = {}
  /\ deletedHere = {} /\ revived = {} /\ missed = FALSE

(***************************************************************************)
(* The server.                                                             *)
(***************************************************************************)
Rank(x) == Cardinality({y \in rows : y >= x})
PageOf(n) == {x \in rows : (n - 1) * PageSize < Rank(x) /\ Rank(x) <= n * PageSize}
HasNext(n) == Cardinality(rows) > n * PageSize

\* One page; _loadThroughPage asks for the next until its target or the end.
\* Beyond the end the server answers 404.
ServePage(o) ==
  /\ work[o].at = "asked"
  /\ work[o].page = 1 \/ PageOf(work[o].page) # {}
  /\ LET w == work[o]
         got == w.got \cup PageOf(w.page)
     IN  work' = [work EXCEPT ![o] =
           IF w.page < w.target /\ HasNext(w.page)
             THEN [at |-> "asked", page |-> w.page + 1, target |-> w.target,
                   got |-> got, base |-> w.base]
             ELSE [at |-> "answered", page |-> w.page, got |-> got, base |-> w.base,
                   next |-> HasNext(w.page), total |-> Cardinality(rows)]]
  /\ UNCHANGED <<server, list, state, current, history>>

ServeUpload ==
  /\ work[Upload].at = "sent" /\ newest < MaxId
  /\ rows' = rows \cup {newest + 1} /\ newest' = newest + 1
  /\ work' = [work EXCEPT ![Upload] = [at |-> "done", id |-> newest + 1]]
  /\ UNCHANGED <<list, state, current, history>>

ServeDelete(a) ==
  /\ work[Deletion(a)].at \in {"sent", "left"} /\ a \in rows
  /\ rows' = rows \ {a}
  /\ IF work[Deletion(a)].at = "sent"
       THEN work' = [work EXCEPT ![Deletion(a)] = [at |-> "done", id |-> a]] /\ UNCHANGED missed
       ELSE End(Deletion(a)) /\ missed' = TRUE
  /\ UNCHANGED <<newest, list, state, current, deletedHere, revived>>

\* Other people manage the same attachments (bound: they stop once the list has
\* missed something).
OthersDelete(a) ==
  /\ a \in rows /\ ~missed
  /\ rows' = rows \ {a} /\ missed' = TRUE
  /\ UNCHANGED <<newest, list, state, work, current, deletedHere, revived>>

OthersUpload ==
  /\ newest < MaxId /\ ~missed
  /\ rows' = rows \cup {newest + 1} /\ newest' = newest + 1
  /\ missed' = TRUE
  /\ UNCHANGED <<list, state, work, current, deletedHere, revived>>

(***************************************************************************)
(* build, retry, loadMore.                                                 *)
(***************************************************************************)
LoadAnswered ==
  /\ work[Load].at = "answered"
  /\ list' = "ready"
  /\ items' = work[Load].got /\ count' = work[Load].total
  /\ page' = 1 /\ hasNext' = work[Load].next
  /\ loadingMore' = FALSE /\ deleting' = {}
  /\ End(Load)
  /\ UNCHANGED <<server, current, history>>

LoadFails ==
  /\ work[Load].at \in {"asked", "answered"}
  /\ list' = "error"
  /\ End(Load)
  /\ UNCHANGED <<server, state, current, history>>

Retry ==
  /\ list = "error"
  /\ list' = "loading"
  /\ current' = {}
  /\ Ask(Load, 1, 1, {})
  /\ UNCHANGED <<server, state, history>>

\* Deviation: an answer counts whatever happened since it was asked for.
AlwaysCurrent(o) == TRUE

IsCurrent(o) == o \in current

LoadMore(s) ==
  /\ list = "ready" /\ ~loadingMore /\ hasNext
  /\ work[More(s)] = NoWork /\ HandsFree
  /\ loadingMore' = TRUE
  /\ current' = current \cup {More(s)}
  /\ Ask(More(s), page + 1, page + 1, {})
  /\ UNCHANGED <<server, list, items, count, page, hasNext, deleting, history>>

MoreAnswered(s) ==
  LET w == work[More(s)]
  IN  /\ w.at = "answered"
      /\ IF IsCurrent(More(s))
           THEN /\ items' = items \cup w.got /\ count' = w.total
                /\ page' = w.page /\ hasNext' = w.next
                /\ loadingMore' = FALSE
                /\ UNCHANGED deleting
           ELSE UNCHANGED state
      /\ End(More(s)) /\ current' = current \ {More(s)}
      /\ UNCHANGED <<server, list, history>>

MoreFails(s) ==
  /\ work[More(s)].at \in {"asked", "answered"}
  /\ loadingMore' = (loadingMore /\ ~IsCurrent(More(s)))
  /\ End(More(s)) /\ current' = current \ {More(s)}
  /\ UNCHANGED <<server, list, items, count, page, hasNext, deleting, history>>

(***************************************************************************)
(* Uploads and deletions: the change, the list adjusted at once, and a     *)
(* reload of as many pages as are shown.                                   *)
(***************************************************************************)

\* Deviation: what was asked for before still counts.
KeepGenerations(o) == current' = current \cup {o}

NewGeneration(o) == current' = {o}

\* Deviation: a page being loaded is still awaited after the change.
StillLoadingMore == UNCHANGED loadingMore

NoLongerLoadingMore == loadingMore' = FALSE

StartUpload ==
  /\ work[Upload] = NoWork /\ newest < MaxId /\ HandsFree
  /\ work' = [work EXCEPT ![Upload] = [at |-> "sent"]]
  /\ UNCHANGED <<server, list, state, current, history>>

UploadFails ==
  /\ work[Upload].at \in {"sent", "done"}
  /\ missed' = (missed \/ work[Upload].at = "done")
  /\ End(Upload)
  /\ UNCHANGED <<server, list, state, current, deletedHere, revived>>

\* The list an upload is put into lacks a row in its middle that the reload, as
\* deep as the page number, does not come to: the merge keeps the gap.
KeepsGap(shown) ==
  \E g \in rows \ shown, x \in shown : x < g /\ Rank(g) > page * PageSize

UploadAnswered ==
  /\ work[Upload].at = "done" /\ list = "ready"
  /\ LET id == work[Upload].id
     IN  /\ items' = items \cup {id}
         /\ count' = IF id \in items THEN count ELSE count + 1
         /\ Ask(Upload, 1, page, items \cup {id})
         /\ revived' = revived \cup ({id} \cap deletedHere)
         /\ missed' = (missed \/ id \notin rows \/ KeepsGap(items \cup {id}))
  /\ NoLongerLoadingMore
  /\ NewGeneration(Upload)
  /\ UNCHANGED <<server, list, page, hasNext, deleting, deletedHere>>

\* Pages loaded while the reload was under way are dropped by it; the one still
\* being loaded has the same generation and will be appended behind the gap.
Overtaken(w) == w.page < page /\ \E s \in 1..MoreSlots : IsCurrent(More(s))

\* refreshAfterUpload finds no list and returns.
UploadUnlisted ==
  /\ work[Upload].at = "done" /\ list # "ready"
  /\ missed' = (missed \/ list = "loading")
  /\ End(Upload)
  /\ UNCHANGED <<server, list, state, current, deletedHere, revived>>

UploadReloaded ==
  LET w == work[Upload]
      merged == w.base \cup w.got
  IN  /\ w.at = "answered"
      /\ IF IsCurrent(Upload)
           THEN /\ items' = merged
                /\ count' = IF w.total < Cardinality(merged) THEN Cardinality(merged) ELSE w.total
                /\ page' = w.page /\ hasNext' = w.next
                /\ loadingMore' = FALSE
                /\ missed' = (missed \/ Overtaken(w))
                /\ UNCHANGED deleting
           ELSE UNCHANGED <<state, missed>>
      /\ End(Upload) /\ current' = current \ {Upload}
      /\ UNCHANGED <<server, list, deletedHere, revived>>

UploadReloadFails ==
  /\ work[Upload].at \in {"asked", "answered"}
  /\ missed' = (missed \/ IsCurrent(Upload))
  /\ End(Upload) /\ current' = current \ {Upload}
  /\ UNCHANGED <<server, list, state, deletedHere, revived>>

StartDelete(a) ==
  /\ list = "ready" /\ a \in items \ deleting
  /\ work[Deletion(a)] = NoWork /\ HandsFree
  /\ deleting' = deleting \cup {a}
  /\ work' = [work EXCEPT ![Deletion(a)] = [at |-> "sent"]]
  /\ UNCHANGED <<server, list, items, count, page, hasNext, loadingMore, current, history>>

DeleteFails(a) ==
  /\ work[Deletion(a)].at \in {"sent", "done"}
  /\ missed' = (missed \/ work[Deletion(a)].at = "done")
  /\ deleting' = deleting \ {a}
  /\ End(Deletion(a))
  /\ UNCHANGED <<server, list, items, count, page, hasNext, loadingMore, current, deletedHere, revived>>

DeleteAnswered(a) ==
  /\ work[Deletion(a)].at = "done"
  /\ deletedHere' = deletedHere \cup {a}
  /\ items' = items \ {a}
  /\ count' = IF count > 0 THEN count - 1 ELSE 0
  /\ NoLongerLoadingMore
  /\ NewGeneration(Deletion(a))
  /\ Ask(Deletion(a), 1, page, {})
  /\ UNCHANGED <<server, list, page, hasNext, deleting, revived, missed>>

\* Deviation: the reloaded state starts with no deletion under way.
ReleaseAll(a) == {}

\* finally: only the deletion's own guard is released.
Release(a) == deleting \ {a}

DeleteReloaded(a) ==
  LET w == work[Deletion(a)]
  IN  /\ w.at = "answered"
      /\ IF IsCurrent(Deletion(a))
           THEN /\ items' = w.got \ {a} /\ count' = w.total
                /\ page' = w.page /\ hasNext' = w.next
                /\ loadingMore' = FALSE
                /\ missed' = (missed \/ Overtaken(w))
           ELSE /\ items' = items \ {a}
                /\ UNCHANGED <<count, page, hasNext, loadingMore, missed>>
      /\ deleting' = Release(a)
      /\ End(Deletion(a)) /\ current' = current \ {Deletion(a)}
      /\ UNCHANGED <<server, list, deletedHere, revived>>

DeleteReloadFails(a) ==
  /\ work[Deletion(a)].at \in {"asked", "answered"}
  /\ items' = items \ {a} /\ deleting' = Release(a)
  /\ missed' = (missed \/ IsCurrent(Deletion(a)))
  /\ End(Deletion(a)) /\ current' = current \ {Deletion(a)}
  /\ UNCHANGED <<server, list, count, page, hasNext, loadingMore, deletedHere, revived>>

\* The page is left and opened again: a new controller; requests under way may
\* still reach the server, and an upload outlives the page.
Reopen ==
  /\ list # "loading"
  /\ list' = "loading"
  /\ Empty
  /\ work' = [o \in Ops |->
       IF o = Load
         THEN [at |-> "asked", page |-> 1, target |-> 1, got |-> {}, base |-> {}]
       ELSE IF o = Upload
         THEN IF work[o].at \in {"sent", "done"} THEN work[o] ELSE NoWork
       ELSE IF o \in Deletions /\ work[o].at \in {"sent", "left"} THEN [at |-> "left"]
       ELSE NoWork]
  /\ current' = {}
  /\ missed' = FALSE
  /\ UNCHANGED <<server, deletedHere, revived>>

\* A deletion nobody waits for any more does not reach the server.
LeftDeleteFails(a) ==
  /\ work[Deletion(a)].at = "left"
  /\ End(Deletion(a))
  /\ UNCHANGED <<server, list, state, current, history>>

LoadStep == ServePage(Load) \/ LoadAnswered \/ LoadFails
MoreStep(s) == ServePage(More(s)) \/ MoreAnswered(s) \/ MoreFails(s)
UploadStep ==
  \/ ServeUpload \/ UploadFails \/ UploadAnswered \/ UploadUnlisted
  \/ ServePage(Upload) \/ UploadReloaded \/ UploadReloadFails
DeleteStep(a) ==
  \/ ServeDelete(a) \/ DeleteFails(a) \/ DeleteAnswered(a) \/ LeftDeleteFails(a)
  \/ ServePage(Deletion(a)) \/ DeleteReloaded(a) \/ DeleteReloadFails(a)

Next ==
  \/ LoadStep \/ Retry \/ Reopen
  \/ \E s \in 1..MoreSlots : LoadMore(s) \/ MoreStep(s)
  \/ StartUpload \/ UploadStep
  \/ \E a \in Ids : StartDelete(a) \/ DeleteStep(a) \/ OthersDelete(a)
  \/ OthersUpload

\* Every request is answered or times out, and its continuation runs.
Fairness ==
  /\ WF_vars(LoadStep) /\ WF_vars(UploadStep)
  /\ \A s \in 1..MoreSlots : WF_vars(MoreStep(s))
  /\ \A a \in Ids : WF_vars(DeleteStep(a))

Spec == Init /\ [][Next]_vars /\ Fairness
-----------------------------------------------------------------------------
\* Types; and what is being deleted cannot be deleted again meanwhile.
TypeOK ==
  /\ newest \in 0..MaxId /\ rows \subseteq 1..newest
  /\ list \in {"loading", "error", "ready"}
  /\ items \subseteq 1..newest /\ count \in Nat /\ page \in Pages
  /\ hasNext \in BOOLEAN /\ loadingMore \in BOOLEAN
  /\ deleting \subseteq Ids
  /\ work \in [Ops -> WorkStates]
  /\ current \subseteq Ops
  /\ revived \subseteq deletedHere /\ deletedHere \subseteq Ids /\ missed \in BOOLEAN
  /\ \A a \in Ids : work[Deletion(a)].at \notin {"none", "left"} => a \in deleting

\* A deleted attachment does not come back (ADR-0009, line 116), whichever reload
\* or page was asked for before the deletion; except by the answer of its upload,
\* when the attachment was listed and deleted before that arrived.
OnlyUploadsRevive == items \cap deletedHere \subseteq revived

\* With nothing under way and no change missed, the list is the newest rows
\* without a gap, as deep as its page number says; the rest can be loaded, and
\* the count is right (ADR-0009, line 116).
ListIsComplete ==
  list = "ready" /\ ~missed /\ (\A o \in Ops : work[o] = NoWork) =>
    /\ items \subseteq rows
    /\ \A x \in rows \ items, y \in items : x < y
    /\ \A n \in 1..page : PageOf(n) \subseteq items
    /\ items # rows => hasNext
    /\ count = Cardinality(rows)

\* Neither the page nor a button stays busy forever.
ScreenSettles ==
  /\ list = "loading" ~> list # "loading"
  /\ loadingMore ~> ~loadingMore
  /\ \A a \in Ids : a \in deleting ~> a \notin deleting
=============================================================================
