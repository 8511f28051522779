------------------------ MODULE AttachmentScreenProofs ------------------------
(***************************************************************************)
(* Theorems about AttachmentScreen, for any number of attachments, size of *)
(* a page and number of operations under way.                              *)
(***************************************************************************)
EXTENDS AttachmentScreen, FiniteSetTheorems, TLAPS

Fetching(w) == w.at \in {"asked", "answered"}

\* What an operation carries was given out by the server, whose last number is
\* n; a next page is announced only below the bound of attachments.
Carries(w, n) ==
  /\ w.at = "done" => w.id <= n
  /\ Fetching(w) => w.got \subseteq 1..n /\ w.base \subseteq 1..n
  /\ w.at = "answered" /\ w.next => w.page <= MaxId /\ 1 <= MaxId

\* Only listed attachments are being deleted, while the list is there; and the
\* list is being loaded exactly while its first page is asked for.
WorkInv ==
  /\ \A o \in Ops : Carries(work[o], newest)
  /\ \A a \in Ids : work[Deletion(a)].at # "none" => a <= newest
  /\ \A a \in Ids : work[Deletion(a)].at \notin {"none", "left"} => list = "ready"
  /\ work[Load] # NoWork <=> list = "loading"
  /\ hasNext => page <= MaxId
  /\ deletedHere \subseteq 1..newest

TypeInv == TypeOK /\ WorkInv

\* The part of the type invariant that is not about the operations.
StateTypes ==
  /\ newest \in 0..MaxId /\ rows \subseteq 1..newest
  /\ items \subseteq 1..newest /\ count \in Nat /\ page \in Pages
  /\ hasNext \in BOOLEAN /\ (hasNext => page <= MaxId) /\ loadingMore \in BOOLEAN
  /\ deleting \subseteq Ids /\ current \subseteq Ops
  /\ deletedHere \subseteq 1..newest /\ revived \subseteq deletedHere /\ missed \in BOOLEAN

\* A deletion that was confirmed is in no answer that still counts, nor was it
\* shown when a reload that still counts began, but for late uploads.
Forgotten(o) ==
  Fetching(work[o]) =>
    /\ work[o].got \cap deletedHere = {}
    /\ work[o].base \cap deletedHere \subseteq revived

DeletionInv ==
  /\ rows \cap deletedHere = {}
  /\ \A a \in Ids : work[Deletion(a)].at = "done" => a \notin rows
  /\ \A o \in current \cup {Load} : Forgotten(o)
  /\ OnlyUploadsRevive

IInv == TypeInv /\ DeletionInv
-----------------------------------------------------------------------------
\* Operations of different kinds, and deletions of different attachments, are
\* different operations.
LEMMA OpsApart ==
  /\ Load \in Ops /\ Upload \in Ops /\ Load # Upload
  /\ \A s \in 1..MoreSlots : More(s) \in Ops /\ More(s) # Load /\ More(s) # Upload
  /\ \A s \in 1..MoreSlots, a \in Ids : More(s) # Deletion(a)
  /\ \A a \in Ids : Deletion(a) \in Ops /\ Deletion(a) # Load /\ Deletion(a) # Upload
  /\ \A a, b \in Ids : Deletion(a) = Deletion(b) => a = b
BY DEF Ops, Load, Upload, More, Deletion, Deletions

\* An operation has the fields of what it waits for.
LEMMA WorkShape ==
  ASSUME NEW w \in WorkStates
  PROVE  /\ w.at \in {"none", "sent", "left", "done", "asked", "answered"}
         /\ w.at = "done" => w.id \in Ids
         /\ w.at = "asked" => /\ w.page \in Pages /\ w.target \in Pages
                              /\ w.got \subseteq Ids /\ w.base \subseteq Ids
         /\ w.at = "answered" => /\ w.page \in Pages /\ w.next \in BOOLEAN
                                 /\ w.got \subseteq Ids /\ w.base \subseteq Ids
                                 /\ w.total \in 0..MaxId
         /\ w = NoWork <=> w.at = "none"
BY DEF WorkStates, NoWork

\* What an operation can come to wait for.
LEMMA WorkForms ==
  /\ NoWork \in WorkStates /\ NoWork.at = "none"
  /\ [at |-> "sent"] \in WorkStates /\ [at |-> "left"] \in WorkStates
  /\ \A a \in Ids : [at |-> "done", id |-> a] \in WorkStates
  /\ \A n, m \in Pages, g, b \in SUBSET Ids :
       [at |-> "asked", page |-> n, target |-> m, got |-> g, base |-> b] \in WorkStates
  /\ \A n \in Pages, g, b \in SUBSET Ids, h \in BOOLEAN, t \in 0..MaxId :
       [at |-> "answered", page |-> n, got |-> g, base |-> b, next |-> h, total |-> t]
         \in WorkStates
BY DEF WorkStates, NoWork

\* There are at most MaxId rows.
LEMMA RowsBounded ==
  ASSUME TypeOK
  PROVE  Cardinality(rows) \in 0..MaxId
<1>1. newest \in Nat /\ newest <= MaxId /\ MaxId \in Nat
  BY ScreenAssumption DEF TypeOK
<1>2. IsFiniteSet(1..newest) /\ Cardinality(1..newest) = newest
  BY <1>1, FS_Interval
<1>3. Cardinality(rows) \in Nat /\ Cardinality(rows) <= newest
  BY <1>2, FS_Subset, FS_CardinalityType DEF TypeOK
<1> QED
  BY <1>1, <1>3

\* The server announces a next page only below the bound.
LEMMA NextPageBounded ==
  ASSUME TypeOK, NEW n \in Pages, HasNext(n)
  PROVE  n <= MaxId /\ 1 <= MaxId
<1>1. Cardinality(rows) \in 0..MaxId /\ n \in Nat /\ PageSize \in Nat /\ PageSize >= 1 /\ MaxId \in Nat
  BY RowsBounded, ScreenAssumption DEF Pages
<1>2. n * PageSize < MaxId
  BY <1>1 DEF HasNext
<1>3. n * (PageSize - 1) >= 0
  BY <1>1
<1>4. n * PageSize = n + n * (PageSize - 1)
  BY <1>1
<1> QED
  BY <1>1, <1>2, <1>3, <1>4

\* The types survive when one operation other than the first load moves on to x.
LEMMA Moves ==
  ASSUME TypeInv, NEW o \in Ops \ {Load}, NEW x \in WorkStates,
         work' = [work EXCEPT ![o] = x], Carries(x, newest'),
         StateTypes', newest <= newest', list' = list,
         \A a \in Ids : o # Deletion(a) /\ a \in deleting => a \in deleting',
         \A a \in Ids : o = Deletion(a) =>
            /\ x.at # "none" => a <= newest
            /\ x.at \notin {"none", "left"} => a \in deleting' /\ list = "ready"
  PROVE  TypeInv'
<1>1. /\ work' \in [Ops -> WorkStates]
      /\ \A p \in Ops : work'[p] = IF p = o THEN x ELSE work[p]
  BY DEF TypeInv, TypeOK
<1>2. newest \in Nat /\ newest' \in Nat /\ MaxId \in Nat
  BY ScreenAssumption DEF TypeInv, TypeOK, StateTypes
<1>3. \A p \in Ops : Carries(work'[p], newest')
  <2>1. ASSUME NEW p \in Ops, p # o PROVE Carries(work'[p], newest')
    <3>1. work'[p] = work[p] /\ Carries(work[p], newest) /\ work[p] \in WorkStates
      BY <1>1, <2>1 DEF TypeInv, TypeOK, WorkInv
    <3>2. work[p].at = "done" => work[p].id \in Nat
      BY <3>1, WorkShape DEF Ids
    <3> QED
      BY <1>2, <3>1, <3>2 DEF Carries
  <2> QED
    BY <1>1, <2>1
<1>4. ASSUME NEW a \in Ids
      PROVE  /\ work'[Deletion(a)].at # "none" => a <= newest'
             /\ work'[Deletion(a)].at \notin {"none", "left"} => a \in deleting' /\ list' = "ready"
  <2>1. Deletion(a) \in Ops /\ a \in Nat
    BY OpsApart DEF Ids
  <2>2. CASE o = Deletion(a)
    BY <1>1, <1>2, <2>1, <2>2
  <2>3. CASE o # Deletion(a)
    <3>1. work'[Deletion(a)] = work[Deletion(a)]
      BY <1>1, <2>1, <2>3
    <3>2. /\ work[Deletion(a)].at # "none" => a <= newest
          /\ work[Deletion(a)].at \notin {"none", "left"} => a \in deleting /\ list = "ready"
      BY DEF TypeInv, TypeOK, WorkInv
    <3> QED
      BY <1>2, <2>1, <2>3, <3>1, <3>2
  <2> QED
    BY <2>2, <2>3
<1>5. deletedHere' \subseteq Ids
  BY <1>2 DEF Ids, StateTypes
<1>6. TypeOK'
  BY <1>1, <1>4, <1>5 DEF TypeInv, TypeOK, StateTypes
<1>7. work'[Load] = work[Load]
  BY <1>1, OpsApart
<1>8. WorkInv'
  BY <1>3, <1>4, <1>7 DEF TypeInv, WorkInv, StateTypes
<1> QED
  BY <1>6, <1>8 DEF TypeInv
LEMMA StateShape ==
  ASSUME TypeInv
  PROVE  /\ StateTypes
         /\ newest \in Nat /\ MaxId \in Nat /\ 1..newest \subseteq Ids
BY ScreenAssumption DEF TypeInv, TypeOK, WorkInv, StateTypes, Ids

\* The same for an operation that is no deletion.
LEMMA OtherMoves ==
  ASSUME TypeInv, NEW o \in Ops \ {Load}, \A a \in Ids : o # Deletion(a),
         NEW x \in WorkStates, work' = [work EXCEPT ![o] = x], Carries(x, newest'),
         StateTypes', newest <= newest', UNCHANGED <<list, deleting>>
  PROVE  TypeInv'
BY Moves

\* What it says of one operation.
LEMMA OpShape ==
  ASSUME TypeInv, NEW o \in Ops
  PROVE  work[o] \in WorkStates /\ Carries(work[o], newest)
BY DEF TypeInv, TypeOK, WorkInv

\* An operation that ends carries nothing.
LEMMA EndCarries ==
  ASSUME NEW n
  PROVE  NoWork \in WorkStates /\ NoWork.at = "none" /\ Carries(NoWork, n)
BY WorkForms DEF Carries, Fetching

LEMMA ServePageTypes ==
  ASSUME TypeInv, NEW o \in Ops, ServePage(o)
  PROVE  TypeInv'
<1> DEFINE w == work[o]
           got == w.got \cup PageOf(w.page)
           on == [at |-> "asked", page |-> w.page + 1, target |-> w.target,
                  got |-> got, base |-> w.base]
           done == [at |-> "answered", page |-> w.page, got |-> got, base |-> w.base,
                    next |-> HasNext(w.page), total |-> Cardinality(rows)]
           x == IF w.page < w.target /\ HasNext(w.page) THEN on ELSE done
<1>1. /\ w \in WorkStates /\ w.at = "asked" /\ Carries(w, newest)
      /\ work' = [work EXCEPT ![o] = x]
      /\ UNCHANGED <<rows, newest, list, state, current, history>>
  BY OpShape DEF ServePage, server
<1>2. /\ w.page \in Pages /\ w.target \in Pages /\ w.base \subseteq 1..newest
      /\ w.got \subseteq 1..newest
  BY <1>1, WorkShape DEF Carries, Fetching
<1>3. got \subseteq 1..newest /\ 1..newest \subseteq Ids
  BY <1>2, StateShape DEF PageOf, StateTypes
<1>4. w.page < w.target => w.page + 1 \in Pages
  BY <1>2, ScreenAssumption DEF Pages
<1>5. Cardinality(rows) \in 0..MaxId /\ HasNext(w.page) \in BOOLEAN
  BY RowsBounded DEF TypeInv, HasNext
<1>6. HasNext(w.page) => w.page <= MaxId /\ 1 <= MaxId
  BY <1>2, NextPageBounded DEF TypeInv
<1> HIDE DEF w, got
<1>7. /\ w.page < w.target => on \in WorkStates
      /\ on.at = "asked" /\ on.got = got /\ on.base = w.base
  BY <1>2, <1>3, <1>4, WorkForms
<1>8. /\ done \in WorkStates
      /\ done.at = "answered" /\ done.got = got /\ done.base = w.base
      /\ done.next = HasNext(w.page) /\ done.page = w.page
  BY <1>2, <1>3, <1>5, WorkForms
<1> HIDE DEF on, done
<1>9. x \in WorkStates /\ x.at \in {"asked", "answered"} /\ Carries(x, newest)
  BY <1>2, <1>3, <1>6, <1>7, <1>8 DEF Carries, Fetching
<1> HIDE DEF x
<1>10. CASE o # Load
  <2>1. ASSUME NEW a \in Ids, o = Deletion(a)
        PROVE  a <= newest /\ a \in deleting /\ list = "ready"
    BY <1>1, <2>1 DEF TypeInv, TypeOK, WorkInv, w
  <2> QED
    <3>1. newest' = newest /\ newest <= newest' /\ list' = list /\ deleting' = deleting /\ StateTypes'
      BY <1>1, StateShape DEF StateTypes, state, history
    <3>2. Carries(x, newest')
      BY <1>9, <3>1
    <3> QED
      BY <1>1, <1>9, <1>10, <2>1, <3>1, <3>2, Moves
<1>11. CASE o = Load
  <2>1. work' \in [Ops -> WorkStates] /\ \A p \in Ops : work'[p] = IF p = o THEN x ELSE work[p]
    BY <1>1, <1>9 DEF TypeInv, TypeOK
  <2>2. \A a \in Ids : work'[Deletion(a)] = work[Deletion(a)]
    BY <1>11, <2>1, OpsApart
  <2>3. TypeOK'
    BY <1>1, <2>1, <2>2 DEF TypeInv, TypeOK, state, history
  <2>4. \A p \in Ops : Carries(work'[p], newest)
    BY <1>9, <2>1 DEF TypeInv, WorkInv
  <2>5. work[Load] # NoWork /\ work'[Load] # NoWork
    BY <1>1, <1>9, <1>11, <2>1, WorkForms, OpsApart DEF w
  <2>6. WorkInv'
    BY <1>1, <2>2, <2>4, <2>5 DEF TypeInv, WorkInv, state, history
  <2> QED
    BY <2>3, <2>6 DEF TypeInv
<1> QED
  BY <1>10, <1>11

\* Steps of the first load, and the requests that begin it.
LEMMA LoadTypes ==
  ASSUME TypeInv, LoadAnswered \/ LoadFails \/ Retry
  PROVE  TypeInv'
<1> DEFINE x == IF Retry THEN [at |-> "asked", page |-> 1, target |-> 1, got |-> {}, base |-> {}]
                ELSE NoWork
<1>1. work' = [work EXCEPT ![Load] = x]
  <2>1. CASE Retry
    BY <2>1 DEF Retry, Ask
  <2>2. CASE ~Retry
    BY <2>2 DEF LoadAnswered, LoadFails, End
  <2> QED
    BY <2>1, <2>2
<1>2. 1 \in Pages
  BY ScreenAssumption DEF Pages
<1>3. x \in WorkStates /\ Carries(x, newest) /\ (x # NoWork <=> Retry)
  <2> DEFINE y == [at |-> "asked", page |-> 1, target |-> 1, got |-> {}, base |-> {}]
  <2>1. y \in WorkStates /\ y # NoWork /\ Carries(y, newest)
    BY <1>2, WorkForms DEF Carries, Fetching, NoWork
  <2> QED
    BY <2>1, EndCarries
<1> HIDE DEF x
<1>4. work' \in [Ops -> WorkStates] /\ \A p \in Ops : work'[p] = IF p = Load THEN x ELSE work[p]
  BY <1>1, <1>3 DEF TypeInv, TypeOK
<1>5. work'[Load] = x /\ \A a \in Ids : work'[Deletion(a)] = work[Deletion(a)]
  BY <1>4, OpsApart
<1>6. \A p \in Ops : Carries(work'[p], newest)
  BY <1>3, <1>4 DEF TypeInv, WorkInv
<1>7. ASSUME list # "ready"
      PROVE  \A a \in Ids : work'[Deletion(a)].at \in {"none", "left"}
  BY <1>5, <1>7 DEF TypeInv, WorkInv
<1>8. work[Load] # NoWork => list = "loading"
  BY DEF TypeInv, WorkInv
<1>9. work[Load] \in WorkStates /\ Carries(work[Load], newest)
  BY OpShape, OpsApart
<1>10. CASE LoadAnswered
  <2>1. ~Retry /\ list = "loading"
    BY <1>8, <1>10, WorkForms DEF LoadAnswered, Retry
  <2>2. /\ work[Load].got \subseteq 1..newest /\ work[Load].total \in Nat
        /\ work[Load].next \in BOOLEAN /\ (work[Load].next => 1 <= MaxId)
    BY <1>9, <1>10, WorkShape DEF LoadAnswered, Carries, Fetching
  <2>3. TypeOK'
    BY <1>2, <1>4, <1>7, <1>10, <2>1, <2>2
    DEF LoadAnswered, TypeInv, TypeOK, server, history
  <2>4. WorkInv'
    BY <1>3, <1>5, <1>6, <1>7, <1>10, <2>1, <2>2
    DEF LoadAnswered, TypeInv, WorkInv, server, history
  <2> QED
    BY <2>3, <2>4 DEF TypeInv
<1>11. CASE LoadFails
  <2>1. ~Retry /\ list = "loading"
    BY <1>8, <1>11, WorkForms DEF LoadFails, Retry
  <2>2. TypeOK'
    BY <1>4, <1>5, <1>11 DEF LoadFails, TypeInv, TypeOK, server, state, history
  <2>3. WorkInv'
    BY <1>3, <1>5, <1>6, <1>7, <1>11, <2>1 DEF LoadFails, TypeInv, WorkInv, server, state, history
  <2> QED
    BY <2>2, <2>3 DEF TypeInv
<1>12. CASE Retry
  <2>1. TypeOK'
    BY <1>4, <1>5, <1>12 DEF Retry, TypeInv, TypeOK, server, state, history
  <2>2. WorkInv'
    BY <1>3, <1>5, <1>6, <1>7, <1>12 DEF Retry, TypeInv, WorkInv, server, state, history
  <2> QED
    BY <2>1, <2>2 DEF TypeInv
<1> QED
  BY <1>10, <1>11, <1>12
\* An operation that asks the server from the first page on, or for one page.
LEMMA AskCarries ==
  ASSUME TypeInv, NEW n \in Pages, NEW m \in Pages, NEW b \in SUBSET (1..newest)
  PROVE  LET x == [at |-> "asked", page |-> n, target |-> m, got |-> {}, base |-> b]
         IN  x \in WorkStates /\ Carries(x, newest) /\ x.at = "asked"
<1>1. b \in SUBSET Ids
  BY StateShape
<1> QED
  BY <1>1, WorkForms DEF Carries, Fetching

LEMMA MoreTypes ==
  ASSUME TypeInv, NEW s \in 1..MoreSlots, LoadMore(s) \/ MoreAnswered(s) \/ MoreFails(s)
  PROVE  TypeInv'
<1> DEFINE o == More(s)
<1>1. o \in Ops \ {Load} /\ \A a \in Ids : o # Deletion(a)
  BY OpsApart
<1>2. StateTypes /\ newest \in Nat
  BY StateShape
<1>3. work[o] \in WorkStates /\ Carries(work[o], newest)
  BY <1>1, OpShape
<1> HIDE DEF o
<1>4. CASE LoadMore(s)
  <2> DEFINE x == [at |-> "asked", page |-> page + 1, target |-> page + 1, got |-> {}, base |-> {}]
  <2>1. /\ hasNext /\ work' = [work EXCEPT ![o] = x] /\ current' = current \cup {o}
        /\ loadingMore' = TRUE
        /\ UNCHANGED <<rows, newest, list, items, count, page, hasNext, deleting,
                       deletedHere, revived, missed>>
    BY <1>4 DEF LoadMore, Ask, o, server, history
  <2>2. page + 1 \in Pages
    BY <1>2, <2>1, ScreenAssumption DEF StateTypes, Pages
  <2>3. x \in WorkStates /\ Carries(x, newest)
    BY <2>2, AskCarries
  <2> HIDE DEF x
  <2>4. StateTypes'
    BY <1>1, <1>2, <2>1 DEF StateTypes
  <2>5. o \in Ops \ {Load} /\ (\A a \in Ids : o # Deletion(a)) /\ work' = [work EXCEPT ![o] = x]
    BY <1>1, <2>1
  <2>6. Carries(x, newest') /\ newest <= newest' /\ list' = list /\ deleting' = deleting
    BY <1>2, <2>1, <2>3
  <2> QED
    BY <2>3, <2>4, <2>5, <2>6, OtherMoves
<1>5. CASE MoreAnswered(s) \/ MoreFails(s)
  <2>1. /\ work' = [work EXCEPT ![o] = NoWork] /\ current' = current \ {o}
        /\ UNCHANGED <<rows, newest, list, deleting, deletedHere, revived, missed>>
    BY <1>5 DEF MoreAnswered, MoreFails, End, o, server, state, history
  <2>2. /\ items' \subseteq 1..newest /\ count' \in Nat /\ page' \in Pages
        /\ hasNext' \in BOOLEAN /\ (hasNext' => page' <= MaxId) /\ loadingMore' \in BOOLEAN
    <3>1. CASE MoreAnswered(s)
      <4>1. /\ work[o].at = "answered" /\ work[o].got \subseteq 1..newest
            /\ work[o].total \in Nat /\ work[o].page \in Pages /\ work[o].next \in BOOLEAN
            /\ (work[o].next => work[o].page <= MaxId)
        BY <1>3, <3>1, WorkShape DEF MoreAnswered, Carries, Fetching, o
      <4> QED
        BY <1>2, <3>1, <4>1 DEF MoreAnswered, state, o, StateTypes
    <3>2. CASE MoreFails(s)
      BY <1>2, <3>2 DEF MoreFails, IsCurrent, StateTypes
    <3> QED
      BY <1>5, <3>1, <3>2
  <2>3. NoWork \in WorkStates /\ Carries(NoWork, newest)
    BY EndCarries
  <2>4. StateTypes'
    BY <1>2, <2>1, <2>2 DEF StateTypes
  <2>5. Carries(NoWork, newest') /\ newest <= newest' /\ list' = list /\ deleting' = deleting
    BY <1>2, <2>1, <2>3
  <2> QED
    BY <1>1, <2>1, <2>3, <2>4, <2>5, OtherMoves
<1> QED
  BY <1>4, <1>5

LEMMA UploadTypes ==
  ASSUME TypeInv,
         \/ StartUpload \/ ServeUpload \/ UploadFails \/ UploadAnswered \/ UploadUnlisted
         \/ UploadReloaded \/ UploadReloadFails
  PROVE  TypeInv'
<1> DEFINE o == Upload
<1>1. o \in Ops \ {Load} /\ \A a \in Ids : o # Deletion(a)
  BY OpsApart
<1>2. StateTypes /\ newest \in Nat /\ MaxId \in Nat
  BY StateShape
<1>3. work[o] \in WorkStates /\ Carries(work[o], newest)
  BY <1>1, OpShape
<1>4. NoWork \in WorkStates /\ Carries(NoWork, newest)
  BY EndCarries
<1>5. CASE StartUpload
  <2> DEFINE x == [at |-> "sent"]
  <2>1. work' = [work EXCEPT ![o] = x] /\ x \in WorkStates /\ Carries(x, newest)
    BY <1>5, WorkForms DEF StartUpload, Carries, Fetching
  <2>2. UNCHANGED <<rows, newest, list, state, current, deletedHere, revived, missed>>
    BY <1>5 DEF StartUpload, server, history
  <2> HIDE DEF x, o
  <2>3. StateTypes' /\ list' = list /\ deleting' = deleting /\ newest' = newest
    BY <1>2, <2>2 DEF StateTypes, state
  <2>4. Carries(x, newest') /\ newest <= newest'
    BY <1>2, <2>1, <2>3
  <2> QED
    BY <1>1, <2>1, <2>3, <2>4, OtherMoves
<1>6. CASE ServeUpload
  <2> DEFINE x == [at |-> "done", id |-> newest + 1]
  <2>1. /\ newest < MaxId /\ newest' = newest + 1 /\ rows' = rows \cup {newest + 1}
        /\ work' = [work EXCEPT ![o] = x]
        /\ UNCHANGED <<list, state, current, deletedHere, revived, missed>>
    BY <1>6 DEF ServeUpload, history
  <2>2. x \in WorkStates /\ Carries(x, newest')
    BY <1>2, <2>1, WorkForms DEF Carries, Fetching, Ids
  <2> HIDE DEF x, o
  <2>3. newest' \in 0..MaxId /\ newest <= newest' /\ 1..newest \subseteq 1..newest'
        /\ rows' \subseteq 1..newest'
    BY <1>2, <2>1 DEF StateTypes
  <2>4. StateTypes' /\ list' = list /\ deleting' = deleting
    BY <1>2, <2>1, <2>3 DEF StateTypes, state
  <2> QED
    BY <1>1, <2>1, <2>2, <2>3, <2>4, OtherMoves
<1>7. CASE UploadFails \/ UploadUnlisted
  <2>1. /\ work' = [work EXCEPT ![o] = NoWork] /\ missed' \in BOOLEAN
        /\ UNCHANGED <<rows, newest, list, state, current, deletedHere, revived>>
    BY <1>2, <1>7 DEF UploadFails, UploadUnlisted, End, server, StateTypes
  <2> HIDE DEF o
  <2>2. StateTypes' /\ list' = list /\ deleting' = deleting /\ newest' = newest
    BY <1>2, <2>1 DEF StateTypes, state
  <2>3. Carries(NoWork, newest') /\ newest <= newest'
    BY <1>2, <1>4, <2>2
  <2> QED
    BY <1>1, <1>4, <2>1, <2>2, <2>3, OtherMoves
<1>8. CASE UploadReloadFails
  <2>1. /\ work' = [work EXCEPT ![o] = NoWork] /\ missed' \in BOOLEAN /\ current' \subseteq Ops
        /\ UNCHANGED <<rows, newest, list, state, deletedHere, revived>>
    BY <1>2, <1>8 DEF UploadReloadFails, End, server, IsCurrent, StateTypes
  <2> HIDE DEF o
  <2>2. StateTypes' /\ list' = list /\ deleting' = deleting /\ newest' = newest
    BY <1>2, <2>1 DEF StateTypes, state
  <2>3. Carries(NoWork, newest') /\ newest <= newest'
    BY <1>2, <1>4, <2>2
  <2> QED
    BY <1>1, <1>4, <2>1, <2>2, <2>3, OtherMoves
<1>9. CASE UploadAnswered
  <2> DEFINE id == work[o].id
             x == [at |-> "asked", page |-> 1, target |-> page, got |-> {}, base |-> items \cup {id}]
  <2>1. /\ work[o].at = "done" /\ work' = [work EXCEPT ![o] = x]
        /\ items' = items \cup {id} /\ count' = IF id \in items THEN count ELSE count + 1
        /\ revived' = revived \cup ({id} \cap deletedHere)
        /\ missed' = (missed \/ id \notin rows \/ KeepsGap(items \cup {id}))
        /\ loadingMore' = FALSE /\ current' = {o}
        /\ UNCHANGED <<rows, newest, list, page, hasNext, deleting, deletedHere>>
    BY <1>9 DEF UploadAnswered, Ask, NoLongerLoadingMore, NewGeneration, server
  <2>2. id \in 1..newest
    BY <1>2, <1>3, <2>1, WorkShape DEF Carries, Ids
  <2>3. 1 \in Pages
    BY ScreenAssumption DEF Pages
  <2>4. x \in WorkStates /\ Carries(x, newest)
    BY <1>2, <2>2, <2>3, AskCarries DEF StateTypes
  <2> HIDE DEF x, id, o
  <2>5. StateTypes'
    <3>1. items' \subseteq 1..newest /\ count' \in Nat
      BY <1>2, <2>1, <2>2 DEF StateTypes
    <3>2. revived' \subseteq deletedHere' /\ missed' \in BOOLEAN /\ current' \subseteq Ops
      BY <1>1, <1>2, <2>1, <2>2 DEF StateTypes
    <3> QED
      BY <1>2, <2>1, <3>1, <3>2 DEF StateTypes
  <2>6. Carries(x, newest') /\ newest <= newest' /\ list' = list /\ deleting' = deleting
    BY <1>2, <2>1, <2>4
  <2> QED
    BY <1>1, <2>1, <2>4, <2>5, <2>6, OtherMoves
<1>10. CASE UploadReloaded
  <2> DEFINE merged == work[o].base \cup work[o].got
  <2>1. /\ work[o].at = "answered" /\ work' = [work EXCEPT ![o] = NoWork]
        /\ current' = current \ {o}
        /\ UNCHANGED <<rows, newest, list, deleting, deletedHere, revived>>
    BY <1>10 DEF UploadReloaded, End, server, state
  <2>2. /\ merged \subseteq 1..newest
        /\ work[o].total \in Nat /\ work[o].page \in Pages /\ work[o].next \in BOOLEAN
        /\ (work[o].next => work[o].page <= MaxId)
    BY <1>3, <2>1, WorkShape DEF Carries, Fetching
  <2>3. Cardinality(merged) \in Nat
    <3>1. IsFiniteSet(1..newest)
      BY <1>2, FS_Interval
    <3>2. IsFiniteSet(merged)
      BY <2>2, <3>1, FS_Subset
    <3> QED
      BY <3>2, FS_CardinalityType
  <2> DEFINE n == IF work[o].total < Cardinality(merged) THEN Cardinality(merged) ELSE work[o].total
  <2>4. n \in Nat
    BY <2>2, <2>3
  <2>5. missed' \in BOOLEAN
    BY <1>2, <1>10 DEF UploadReloaded, Overtaken, StateTypes
  <2>6. \/ UNCHANGED state
        \/ /\ items' = merged /\ count' = n /\ page' = work[o].page /\ hasNext' = work[o].next
           /\ loadingMore' = FALSE
    BY <1>10 DEF UploadReloaded
  <2> HIDE DEF merged, n, o
  <2>7. /\ items' \subseteq 1..newest /\ count' \in Nat /\ page' \in Pages
        /\ hasNext' \in BOOLEAN /\ (hasNext' => page' <= MaxId) /\ loadingMore' \in BOOLEAN
    <3>1. CASE UNCHANGED state
      BY <1>2, <3>1 DEF state, StateTypes
    <3>2. CASE ~UNCHANGED state
      BY <2>2, <2>4, <2>6, <3>2
    <3> QED
      BY <3>1, <3>2
  <2>8. StateTypes'
    BY <1>2, <2>1, <2>5, <2>7 DEF StateTypes
  <2> QED
    <3>1. Carries(NoWork, newest') /\ newest <= newest' /\ list' = list /\ deleting' = deleting
      BY <1>2, <1>4, <2>1
    <3> QED
      BY <1>1, <1>4, <2>1, <2>8, <3>1, OtherMoves
<1> QED
  BY <1>5, <1>6, <1>7, <1>8, <1>9, <1>10
\* The types survive when the deletion of a moves on to x, or ends.
LEMMA DeletionMoves ==
  ASSUME TypeInv, NEW a \in Ids, NEW x \in WorkStates,
         work' = [work EXCEPT ![Deletion(a)] = x], Carries(x, newest),
         StateTypes', newest' = newest, list' = list, deleting \ {a} \subseteq deleting',
         x.at # "none" => a <= newest,
         x.at \notin {"none", "left"} => a \in deleting' /\ list = "ready"
  PROVE  TypeInv'
<1>1. Deletion(a) \in Ops \ {Load} /\ \A b \in Ids : Deletion(a) = Deletion(b) => a = b
  BY OpsApart
<1>2. Carries(x, newest') /\ newest <= newest'
  BY StateShape
<1>3. \A b \in Ids : Deletion(a) # Deletion(b) /\ b \in deleting => b \in deleting'
  OBVIOUS
<1>4. \A b \in Ids : Deletion(a) = Deletion(b) =>
        /\ x.at # "none" => b <= newest
        /\ x.at \notin {"none", "left"} => b \in deleting' /\ list = "ready"
  BY <1>1
<1> QED
  BY <1>1, <1>2, <1>3, <1>4, Moves

LEMMA DeleteTypes ==
  ASSUME TypeInv, NEW a \in Ids,
         \/ StartDelete(a) \/ ServeDelete(a) \/ DeleteFails(a) \/ DeleteAnswered(a)
         \/ LeftDeleteFails(a) \/ DeleteReloaded(a) \/ DeleteReloadFails(a)
  PROVE  TypeInv'
<1> DEFINE o == Deletion(a)
<1>1. o \in Ops /\ work[o] \in WorkStates /\ Carries(work[o], newest)
  BY OpsApart, OpShape
<1>2. StateTypes /\ newest \in Nat /\ 1..newest \subseteq Ids
  BY StateShape
<1>3. NoWork \in WorkStates /\ Carries(NoWork, newest) /\ NoWork.at = "none"
  BY EndCarries
<1>4. /\ work[o].at # "none" => a <= newest
      /\ work[o].at \notin {"none", "left"} => a \in deleting /\ list = "ready"
  BY DEF TypeInv, TypeOK, WorkInv
<1>5. CASE StartDelete(a)
  <2> DEFINE x == [at |-> "sent"]
  <2>1. /\ list = "ready" /\ a \in items /\ deleting' = deleting \cup {a}
        /\ work' = [work EXCEPT ![o] = x]
        /\ UNCHANGED <<rows, newest, list, items, count, page, hasNext, loadingMore, current,
                       deletedHere, revived, missed>>
    BY <1>5 DEF StartDelete, server, history
  <2>2. x \in WorkStates /\ Carries(x, newest)
    BY WorkForms DEF Carries, Fetching
  <2>3. a <= newest
    BY <1>2, <2>1 DEF StateTypes
  <2> HIDE DEF x
  <2>4. StateTypes'
    BY <1>2, <2>1 DEF StateTypes
  <2> QED
    BY <2>1, <2>2, <2>3, <2>4, DeletionMoves
<1>6. CASE ServeDelete(a)
  <2> DEFINE x == IF work[o].at = "sent" THEN [at |-> "done", id |-> a] ELSE NoWork
  <2>1. /\ work[o].at \in {"sent", "left"} /\ rows' = rows \ {a}
        /\ work' = [work EXCEPT ![o] = x]
        /\ missed' \in BOOLEAN
        /\ UNCHANGED <<newest, list, state, current, deletedHere, revived>>
    BY <1>2, <1>6 DEF ServeDelete, End, StateTypes
  <2>2. a <= newest /\ (work[o].at = "sent" => a \in deleting /\ list = "ready")
    BY <1>4, <2>1
  <2>3. /\ x \in WorkStates /\ Carries(x, newest)
        /\ x.at # "none" => work[o].at = "sent"
    BY <1>3, <2>2, WorkForms DEF Carries, Fetching
  <2> HIDE DEF x
  <2>4. StateTypes' /\ deleting' = deleting
    BY <1>2, <2>1 DEF StateTypes, state
  <2> QED
    BY <2>1, <2>2, <2>3, <2>4, DeletionMoves
<1>7. CASE DeleteFails(a) \/ DeleteReloadFails(a)
  <2>1. /\ work' = [work EXCEPT ![o] = NoWork]
        /\ deleting' = deleting \ {a} /\ missed' \in BOOLEAN /\ items' \subseteq items
        /\ current' \subseteq current
        /\ UNCHANGED <<rows, newest, list, count, page, hasNext, loadingMore, deletedHere, revived>>
    BY <1>2, <1>7 DEF DeleteFails, DeleteReloadFails, Release, End, server, StateTypes, IsCurrent
  <2>2. StateTypes'
    BY <1>2, <2>1 DEF StateTypes
  <2> QED
    BY <1>3, <2>1, <2>2, DeletionMoves
<1>8. CASE LeftDeleteFails(a)
  <2>1. /\ work' = [work EXCEPT ![o] = NoWork]
        /\ UNCHANGED <<rows, newest, list, state, current, deletedHere, revived, missed>>
    BY <1>8 DEF LeftDeleteFails, End, server, history
  <2>2. StateTypes' /\ deleting' = deleting
    BY <1>2, <2>1 DEF StateTypes, state
  <2> QED
    BY <1>3, <2>1, <2>2, DeletionMoves
<1>9. CASE DeleteAnswered(a)
  <2> DEFINE x == [at |-> "asked", page |-> 1, target |-> page, got |-> {}, base |-> {}]
             n == IF count > 0 THEN count - 1 ELSE 0
  <2>1. /\ work[o].at = "done" /\ deletedHere' = deletedHere \cup {a} /\ items' = items \ {a}
        /\ count' = n /\ loadingMore' = FALSE /\ current' = {o}
        /\ work' = [work EXCEPT ![o] = x]
        /\ UNCHANGED <<rows, newest, list, page, hasNext, deleting, revived, missed>>
    BY <1>9 DEF DeleteAnswered, NoLongerLoadingMore, NewGeneration, Ask, server
  <2>2. a <= newest /\ a \in deleting /\ list = "ready"
    BY <1>4, <2>1
  <2>3. 1 \in Pages
    BY ScreenAssumption DEF Pages
  <2>4. x \in WorkStates /\ Carries(x, newest)
    BY <1>2, <2>3, AskCarries DEF StateTypes
  <2>5. n \in Nat
    BY <1>2 DEF StateTypes
  <2> HIDE DEF x, n
  <2>6. deletedHere' \subseteq 1..newest /\ revived' \subseteq deletedHere' /\ current' \subseteq Ops
    BY <1>1, <1>2, <2>1, <2>2 DEF StateTypes, Ids
  <2>7. StateTypes'
    BY <1>2, <2>1, <2>5, <2>6 DEF StateTypes
  <2> QED
    BY <2>1, <2>2, <2>4, <2>7, DeletionMoves
<1>10. CASE DeleteReloaded(a)
  <2>1. /\ work[o].at = "answered" /\ work' = [work EXCEPT ![o] = NoWork]
        /\ current' = current \ {o} /\ deleting' = deleting \ {a}
        /\ UNCHANGED <<rows, newest, list, deletedHere, revived>>
    BY <1>10 DEF DeleteReloaded, End, Release, server
  <2>2. /\ work[o].got \subseteq 1..newest
        /\ work[o].total \in Nat /\ work[o].page \in Pages /\ work[o].next \in BOOLEAN
        /\ (work[o].next => work[o].page <= MaxId)
    BY <1>1, <2>1, WorkShape DEF Carries, Fetching
  <2>3. missed' \in BOOLEAN
    BY <1>2, <1>10 DEF DeleteReloaded, Overtaken, StateTypes
  <2>4. \/ /\ items' = work[o].got \ {a} /\ count' = work[o].total
           /\ page' = work[o].page /\ hasNext' = work[o].next
           /\ loadingMore' = FALSE
        \/ /\ items' = items \ {a}
           /\ UNCHANGED <<count, page, hasNext, loadingMore>>
    BY <1>10 DEF DeleteReloaded
  <2> HIDE DEF o
  <2>5. /\ items' \subseteq 1..newest /\ count' \in Nat /\ page' \in Pages
        /\ hasNext' \in BOOLEAN /\ (hasNext' => page' <= MaxId) /\ loadingMore' \in BOOLEAN
    <3>1. CASE UNCHANGED <<count, page, hasNext, loadingMore>> /\ items' = items \ {a}
      BY <1>2, <3>1 DEF StateTypes
    <3>2. CASE ~(UNCHANGED <<count, page, hasNext, loadingMore>> /\ items' = items \ {a})
      <4>1. /\ items' = work[o].got \ {a} /\ count' = work[o].total
            /\ page' = work[o].page /\ hasNext' = work[o].next
            /\ loadingMore' = FALSE
        BY <2>4, <3>2
      <4> QED
        BY <2>2, <4>1
    <3> QED
      BY <3>1, <3>2
  <2>6. StateTypes'
    BY <1>2, <2>1, <2>3, <2>5 DEF StateTypes
  <2> QED
    <3>1. /\ work' = [work EXCEPT ![Deletion(a)] = NoWork]
          /\ newest' = newest /\ list' = list /\ deleting \ {a} \subseteq deleting'
      BY <2>1 DEF o
    <3> QED
      BY <1>3, <2>6, <3>1, DeletionMoves
<1> QED
  BY <1>5, <1>6, <1>7, <1>8, <1>9, <1>10

LEMMA OthersTypes ==
  ASSUME TypeInv, OthersUpload \/ \E a \in Ids : OthersDelete(a)
  PROVE  TypeInv'
<1>1. /\ UNCHANGED <<list, state, work, current, deletedHere, revived>>
      /\ missed' \in BOOLEAN /\ newest' \in 0..MaxId /\ newest' \in Nat
      /\ newest <= newest' /\ 1..newest \subseteq 1..newest' /\ rows' \subseteq 1..newest'
  <2>0. newest \in 0..MaxId /\ newest \in Nat /\ MaxId \in Nat /\ rows \subseteq 1..newest
    BY StateShape DEF StateTypes
  <2>1. CASE OthersUpload
    BY <2>0, <2>1 DEF OthersUpload
  <2>2. ASSUME NEW a \in Ids, OthersDelete(a)
        PROVE  /\ UNCHANGED <<newest, list, state, work, current, deletedHere, revived>>
               /\ missed' = TRUE /\ rows' \subseteq rows
    BY <2>2 DEF OthersDelete
  <2>3. CASE \E a \in Ids : OthersDelete(a)
    <3>1. /\ UNCHANGED <<newest, list, state, work, current, deletedHere, revived>>
          /\ missed' = TRUE /\ rows' \subseteq rows
      BY <2>2, <2>3
    <3> QED
      BY <2>0, <3>1
  <2> QED
    BY <2>1, <2>3
<1>2. TypeOK'
  BY <1>1 DEF TypeInv, TypeOK, state
<1>3. \A o \in Ops : Carries(work[o], newest')
  <2>1. ASSUME NEW o \in Ops PROVE Carries(work[o], newest')
    <3>1. work[o].at = "done" => work[o].id \in Nat
      BY OpShape, WorkShape DEF Ids
    <3> QED
      BY <1>1, <3>1, OpShape, StateShape DEF Carries
  <2> QED
    BY <2>1
<1>4. \A a \in Ids : work[Deletion(a)].at # "none" => a <= newest'
  BY <1>1, StateShape DEF TypeInv, WorkInv, Ids
<1>5. WorkInv'
  BY <1>1, <1>3, <1>4 DEF TypeInv, WorkInv, state
<1> QED
  BY <1>2, <1>5 DEF TypeInv

\* Who opens the page again waits for its first page and for nothing else, but
\* for an upload.
LEMMA ReopenShape ==
  ASSUME TypeInv, Reopen
  PROVE  /\ work' \in [Ops -> WorkStates]
         /\ work'[Load] = [at |-> "asked", page |-> 1, target |-> 1, got |-> {}, base |-> {}]
         /\ \A o \in Ops \ {Load} :
              \/ work'[o].at = "none"
              \/ work'[o] = work[o] /\ work[o].at \in {"sent", "done"} /\ o = Upload
              \/ work'[o].at = "left" /\ work[o].at # "none"
<1> DEFINE x == [at |-> "asked", page |-> 1, target |-> 1, got |-> {}, base |-> {}]
           y(o) == IF o = Load THEN x
                   ELSE IF o = Upload
                     THEN IF work[o].at \in {"sent", "done"} THEN work[o] ELSE NoWork
                   ELSE IF o \in Deletions /\ work[o].at \in {"sent", "left"} THEN [at |-> "left"]
                   ELSE NoWork
<1>1. work' = [o \in Ops |-> y(o)]
  BY DEF Reopen
<1>2. 1 \in Pages
  BY ScreenAssumption DEF Pages
<1>3. x \in WorkStates
  BY <1>2, AskCarries
<1>4. ASSUME NEW o \in Ops
      PROVE  /\ y(o) \in WorkStates
             /\ o = Load => y(o) = x
             /\ o # Load =>
                  \/ y(o).at = "none"
                  \/ y(o) = work[o] /\ work[o].at \in {"sent", "done"} /\ o = Upload
                  \/ y(o).at = "left" /\ work[o].at # "none"
  <2>1. work[o] \in WorkStates
    BY OpShape
  <2> QED
    BY <1>3, <2>1, WorkForms
<1> HIDE DEF y
<1> QED
  BY <1>1, <1>4, OpsApart

LEMMA ReopenTypes ==
  ASSUME TypeInv, Reopen
  PROVE  TypeInv'
<1>1. /\ work' \in [Ops -> WorkStates]
      /\ work'[Load] = [at |-> "asked", page |-> 1, target |-> 1, got |-> {}, base |-> {}]
      /\ \A o \in Ops \ {Load} :
           \/ work'[o].at = "none"
           \/ work'[o] = work[o] /\ work[o].at \in {"sent", "done"} /\ o = Upload
           \/ work'[o].at = "left" /\ work[o].at # "none"
  BY ReopenShape
<1>2. /\ list' = "loading" /\ items' = {} /\ count' = 0 /\ page' = 0 /\ hasNext' = FALSE
      /\ loadingMore' = FALSE /\ deleting' = {} /\ current' = {} /\ missed' = FALSE
      /\ UNCHANGED <<rows, newest, deletedHere, revived>>
  BY DEF Reopen, Empty, server
<1>3. ASSUME NEW a \in Ids
      PROVE  /\ work'[Deletion(a)].at \in {"none", "left"}
             /\ work'[Deletion(a)].at # "none" => a <= newest
  BY <1>1, OpsApart DEF TypeInv, WorkInv
<1>4. 0 \in Pages
  BY ScreenAssumption DEF Pages
<1>5. TypeOK'
  BY <1>1, <1>2, <1>3, <1>4 DEF TypeInv, TypeOK
<1>6. ASSUME NEW o \in Ops
      PROVE  Carries(work'[o], newest)
  <2>1. CASE o = Load
    BY <1>1, <2>1 DEF Carries, Fetching
  <2>2. CASE o # Load
    BY <1>1, <2>2, OpShape DEF Carries, Fetching
  <2> QED
    BY <2>1, <2>2
<1>7. work'[Load] # NoWork
  BY <1>1 DEF NoWork
<1>8. WorkInv'
  BY <1>2, <1>3, <1>6, <1>7 DEF TypeInv, WorkInv
<1> QED
  BY <1>5, <1>8 DEF TypeInv

LEMMA InitTypes == Init => TypeInv
<1> SUFFICES ASSUME Init PROVE TypeInv
  OBVIOUS
<1> DEFINE x == [at |-> "asked", page |-> 1, target |-> 1, got |-> {}, base |-> {}]
<1>1. Existing \in Nat /\ MaxId \in Nat /\ Existing <= MaxId /\ 1 \in Pages /\ 0 \in Pages
  BY ScreenAssumption DEF Pages
<1>2. x \in WorkStates /\ x # NoWork /\ Carries(x, newest) /\ x.at = "asked"
  BY <1>1, WorkForms DEF Carries, Fetching, NoWork
<1>3. NoWork \in WorkStates /\ Carries(NoWork, newest) /\ NoWork.at = "none"
  BY EndCarries
<1>4. work = [o \in Ops |-> IF o = Load THEN x ELSE NoWork]
  BY DEF Init
<1> HIDE DEF x
<1>5. /\ work \in [Ops -> WorkStates] /\ work[Load] # NoWork
      /\ \A o \in Ops : Carries(work[o], newest)
      /\ \A a \in Ids : work[Deletion(a)].at = "none"
  BY <1>2, <1>3, <1>4, OpsApart
<1> QED
  <2>1. TypeOK
    <3>1. /\ rows = 1..Existing /\ newest = Existing /\ list = "loading"
          /\ items = {} /\ count = 0 /\ page = 0 /\ hasNext = FALSE
          /\ loadingMore = FALSE /\ deleting = {} /\ current = {}
          /\ deletedHere = {} /\ revived = {} /\ missed = FALSE
      BY DEF Init
    <3>2. newest \in 0..MaxId /\ rows \subseteq 1..newest
      BY <1>1, <3>1
    <3> QED
      BY <1>1, <1>5, <3>1, <3>2 DEF TypeOK
  <2>2. WorkInv
    BY <1>1, <1>5 DEF Init, WorkInv
  <2> QED
    BY <2>1, <2>2 DEF TypeInv

LEMMA NextTypes == TypeInv /\ [Next]_vars => TypeInv'
<1> SUFFICES ASSUME TypeInv, [Next]_vars PROVE TypeInv'
  OBVIOUS
<1>1. CASE UNCHANGED vars
  BY <1>1 DEF vars, server, state, history, TypeInv, TypeOK, WorkInv
<1>2. CASE LoadStep \/ Retry \/ Reopen
  BY <1>2, LoadTypes, ReopenTypes, ServePageTypes, OpsApart DEF LoadStep
<1>3. ASSUME NEW s \in 1..MoreSlots, LoadMore(s) \/ MoreStep(s)
      PROVE  TypeInv'
  BY <1>3, MoreTypes, ServePageTypes, OpsApart DEF MoreStep
<1>4. CASE StartUpload \/ UploadStep
  BY <1>4, UploadTypes, ServePageTypes, OpsApart DEF UploadStep
<1>5. ASSUME NEW a \in Ids, StartDelete(a) \/ DeleteStep(a) \/ OthersDelete(a)
      PROVE  TypeInv'
  BY <1>5, DeleteTypes, OthersTypes, ServePageTypes, OpsApart DEF DeleteStep
<1> QED
  BY <1>1, <1>2, <1>3, <1>4, <1>5, OthersTypes DEF Next

\* Every variable keeps its type; in particular what is being deleted is
\* guarded until its deletion and reload are over, over any number of reloads.
THEOREM Types == Spec => []TypeOK
<1>1. Init => TypeInv
  BY InitTypes
<1>2. TypeInv /\ [Next]_vars => TypeInv'
  BY NextTypes
<1>3. TypeInv => TypeOK
  BY DEF TypeInv
<1> QED
  BY <1>1, <1>2, <1>3, PTL DEF Spec
-----------------------------------------------------------------------------
\* What the deletion invariant needs when one operation moves on to x and no
\* deletion is confirmed.
LEMMA ForgottenStays ==
  ASSUME TypeInv, DeletionInv, NEW o \in Ops, NEW x,
         work' = [work EXCEPT ![o] = x],
         deletedHere' = deletedHere, revived \subseteq revived',
         rows' \subseteq rows, current' \subseteq current \cup {o},
         o \in current' \cup {Load} /\ Fetching(x) =>
           x.got \cap deletedHere = {} /\ x.base \cap deletedHere \subseteq revived',
         items' \cap deletedHere \subseteq revived',
         \A a \in Ids : o = Deletion(a) /\ x.at = "done" => a \notin rows'
  PROVE  DeletionInv'
<1>1. \A p \in Ops : work'[p] = IF p = o THEN x ELSE work[p]
  BY DEF TypeInv, TypeOK
<1>2. \A a \in Ids : work'[Deletion(a)].at = "done" => a \notin rows'
  <2>1. ASSUME NEW a \in Ids, work'[Deletion(a)].at = "done" PROVE a \notin rows'
    <3>1. Deletion(a) \in Ops
      BY OpsApart
    <3>2. CASE Deletion(a) = o
      BY <1>1, <2>1, <3>1, <3>2
    <3>3. CASE Deletion(a) # o
      BY <1>1, <2>1, <3>1, <3>3 DEF DeletionInv
    <3> QED
      BY <3>2, <3>3
  <2> QED
    BY <2>1
<1>3. \A p \in current' \cup {Load} : Forgotten(p)'
  <2>1. ASSUME NEW p \in current' \cup {Load} PROVE Forgotten(p)'
    <3>1. p \in Ops
      BY <2>1, OpsApart DEF TypeInv, TypeOK
    <3>2. CASE p = o
      BY <1>1, <2>1, <3>1, <3>2 DEF Forgotten
    <3>3. CASE p # o
      <4>1. Forgotten(p) /\ work'[p] = work[p]
        BY <1>1, <2>1, <3>1, <3>3 DEF DeletionInv
      <4> QED
        BY <4>1 DEF Forgotten
    <3> QED
      BY <3>2, <3>3
  <2> QED
    BY <2>1
<1>4. rows' \cap deletedHere' = {} /\ OnlyUploadsRevive'
  BY DEF DeletionInv, OnlyUploadsRevive
<1> QED
  BY <1>2, <1>3, <1>4 DEF DeletionInv

LEMMA ServePageForgets ==
  ASSUME TypeInv, DeletionInv, NEW o \in Ops, ServePage(o)
  PROVE  DeletionInv'
<1> DEFINE w == work[o]
           got == w.got \cup PageOf(w.page)
           on == [at |-> "asked", page |-> w.page + 1, target |-> w.target,
                  got |-> got, base |-> w.base]
           done == [at |-> "answered", page |-> w.page, got |-> got, base |-> w.base,
                    next |-> HasNext(w.page), total |-> Cardinality(rows)]
           x == IF w.page < w.target /\ HasNext(w.page) THEN on ELSE done
<1>1. /\ w.at = "asked" /\ work' = [work EXCEPT ![o] = x]
      /\ UNCHANGED <<rows, newest, list, state, current, deletedHere, revived, missed>>
  BY DEF ServePage, server, history
<1>2. x.at \in {"asked", "answered"} /\ x.got = got /\ x.base = w.base
  OBVIOUS
<1> HIDE DEF x
<1>3. PageOf(w.page) \cap deletedHere = {}
  BY DEF PageOf, DeletionInv
<1>4. ASSUME o \in current \cup {Load}
      PROVE  x.got \cap deletedHere = {} /\ x.base \cap deletedHere \subseteq revived
  <2>1. Forgotten(o)
    BY <1>4 DEF DeletionInv
  <2>2. w.got \cap deletedHere = {} /\ w.base \cap deletedHere \subseteq revived
    BY <1>1, <2>1 DEF Forgotten, Fetching
  <2> QED
    BY <1>2, <1>3, <2>2
<1>5. items' \cap deletedHere \subseteq revived
  BY <1>1 DEF DeletionInv, OnlyUploadsRevive, state
<1>6. \A a \in Ids : o = Deletion(a) /\ x.at = "done" => a \notin rows'
  BY <1>2
<1> QED
  BY <1>1, <1>4, <1>5, <1>6, ForgottenStays

LEMMA LoadForgets ==
  ASSUME TypeInv, DeletionInv, LoadAnswered \/ LoadFails \/ Retry
  PROVE  DeletionInv'
<1> DEFINE x == IF Retry THEN [at |-> "asked", page |-> 1, target |-> 1, got |-> {}, base |-> {}]
                ELSE NoWork
<1>1. work' = [work EXCEPT ![Load] = x]
  <2>1. CASE Retry
    BY <2>1 DEF Retry, Ask
  <2>2. CASE ~Retry
    BY <2>2 DEF LoadAnswered, LoadFails, End
  <2> QED
    BY <2>1, <2>2
<1>2. Fetching(x) => x.got \cap deletedHere = {} /\ x.base \cap deletedHere \subseteq revived
  BY DEF Fetching, NoWork
<1> HIDE DEF x
<1>3. /\ UNCHANGED <<rows, deletedHere, revived>> /\ current' \subseteq current \cup {Load}
  BY DEF LoadAnswered, LoadFails, Retry, server, history
<1>4. items' \cap deletedHere \subseteq revived
  <2>1. CASE LoadAnswered
    <3>1. Forgotten(Load) /\ items' = work[Load].got /\ work[Load].at = "answered"
      BY <2>1 DEF DeletionInv, LoadAnswered
    <3> QED
      BY <3>1 DEF Forgotten, Fetching
  <2>2. CASE LoadFails \/ Retry
    BY <2>2 DEF LoadFails, Retry, state, DeletionInv, OnlyUploadsRevive
  <2> QED
    BY <2>1, <2>2
<1>5. Load \in Ops /\ \A a \in Ids : Load # Deletion(a)
  BY OpsApart
<1> QED
  BY <1>1, <1>2, <1>3, <1>4, <1>5, ForgottenStays

LEMMA MoreForgets ==
  ASSUME TypeInv, DeletionInv, NEW s \in 1..MoreSlots,
         LoadMore(s) \/ MoreAnswered(s) \/ MoreFails(s)
  PROVE  DeletionInv'
<1> DEFINE o == More(s)
<1>1. o \in Ops /\ o # Load /\ \A a \in Ids : o # Deletion(a)
  BY OpsApart
<1>2. items \cap deletedHere \subseteq revived
  BY DEF DeletionInv, OnlyUploadsRevive
<1>3. CASE LoadMore(s)
  <2> DEFINE x == [at |-> "asked", page |-> page + 1, target |-> page + 1, got |-> {}, base |-> {}]
  <2>1. /\ work' = [work EXCEPT ![o] = x] /\ current' = current \cup {o}
        /\ UNCHANGED <<rows, items, deletedHere, revived>>
    BY <1>3 DEF LoadMore, Ask, server, history
  <2>2. x.got = {} /\ x.base = {}
    OBVIOUS
  <2> HIDE DEF x, o
  <2> QED
    BY <1>1, <1>2, <2>1, <2>2, ForgottenStays
<1>4. CASE MoreAnswered(s) \/ MoreFails(s)
  <2>1. /\ work' = [work EXCEPT ![o] = NoWork] /\ current' = current \ {o}
        /\ UNCHANGED <<rows, deletedHere, revived>>
    BY <1>4 DEF MoreAnswered, MoreFails, End, server, history
  <2>2. items' \cap deletedHere \subseteq revived
    <3>1. CASE items' = items
      BY <1>2, <3>1
    <3>2. CASE items' # items
      <4>1. /\ o \in current /\ work[o].at = "answered" /\ items' = items \cup work[o].got
        BY <1>4, <3>2 DEF MoreAnswered, MoreFails, IsCurrent, state
      <4>2. Forgotten(o)
        BY <4>1 DEF DeletionInv
      <4>3. work[o].got \cap deletedHere = {}
        BY <4>1, <4>2 DEF Forgotten, Fetching
      <4> QED
        BY <1>2, <4>1, <4>3
    <3> QED
      BY <3>1, <3>2
  <2>3. ~Fetching(NoWork)
    BY DEF Fetching, NoWork
  <2> HIDE DEF o
  <2> QED
    BY <1>1, <2>1, <2>2, <2>3, ForgottenStays
<1> QED
  BY <1>3, <1>4

LEMMA UploadForgets ==
  ASSUME TypeInv, DeletionInv,
         \/ StartUpload \/ UploadFails \/ UploadAnswered \/ UploadUnlisted
         \/ UploadReloaded \/ UploadReloadFails
  PROVE  DeletionInv'
<1> DEFINE o == Upload
<1>1. o \in Ops /\ o # Load /\ \A a \in Ids : o # Deletion(a)
  BY OpsApart
<1>2. items \cap deletedHere \subseteq revived
  BY DEF DeletionInv, OnlyUploadsRevive
<1>3. ~Fetching(NoWork) /\ ~Fetching([at |-> "sent"])
  BY DEF Fetching, NoWork
<1>4. CASE StartUpload \/ UploadFails \/ UploadUnlisted \/ UploadReloadFails
  <2> DEFINE x == IF StartUpload THEN [at |-> "sent"] ELSE NoWork
  <2>1. /\ work' = [work EXCEPT ![o] = x]
        /\ UNCHANGED <<rows, items, deletedHere, revived>> /\ current' \subseteq current
    <3>1. CASE StartUpload
      BY <3>1 DEF StartUpload, server, state, history
    <3>2. CASE ~StartUpload
      BY <1>4, <3>2 DEF UploadFails, UploadUnlisted, UploadReloadFails, End, server, state
    <3> QED
      BY <3>1, <3>2
  <2>2. ~Fetching(x)
    BY <1>3
  <2> HIDE DEF x, o
  <2> QED
    BY <1>1, <1>2, <2>1, <2>2, ForgottenStays
<1>5. CASE UploadAnswered
  <2> DEFINE id == work[o].id
             x == [at |-> "asked", page |-> 1, target |-> page, got |-> {}, base |-> items \cup {id}]
  <2>1. /\ work' = [work EXCEPT ![o] = x] /\ current' = {o}
        /\ items' = items \cup {id} /\ revived' = revived \cup ({id} \cap deletedHere)
        /\ UNCHANGED <<rows, deletedHere>>
    BY <1>5 DEF UploadAnswered, Ask, NewGeneration, server
  <2>2. x.got = {} /\ x.base = items \cup {id}
    OBVIOUS
  <2> HIDE DEF x, o, id
  <2> QED
    BY <1>1, <1>2, <2>1, <2>2, ForgottenStays
<1>6. CASE UploadReloaded
  <2>1. /\ work' = [work EXCEPT ![o] = NoWork] /\ current' = current \ {o}
        /\ UNCHANGED <<rows, deletedHere, revived>>
    BY <1>6 DEF UploadReloaded, End, server
  <2>2. items' \cap deletedHere \subseteq revived
    <3>1. CASE items' = items
      BY <1>2, <3>1
    <3>2. CASE items' # items
      <4>1. /\ o \in current /\ work[o].at = "answered" /\ items' = work[o].base \cup work[o].got
        BY <1>6, <3>2 DEF UploadReloaded, IsCurrent, state
      <4>2. Forgotten(o)
        BY <4>1 DEF DeletionInv
      <4>3. work[o].got \cap deletedHere = {} /\ work[o].base \cap deletedHere \subseteq revived
        BY <4>1, <4>2 DEF Forgotten, Fetching
      <4> QED
        BY <4>1, <4>3
    <3> QED
      BY <3>1, <3>2
  <2> HIDE DEF o
  <2> QED
    BY <1>1, <1>3, <2>1, <2>2, ForgottenStays
<1> QED
  BY <1>4, <1>5, <1>6

\* An attachment the server numbers anew was never deleted, nor is it being.
LEMMA NewRowsForget ==
  ASSUME TypeInv, DeletionInv, ServeUpload \/ OthersUpload
  PROVE  DeletionInv'
<1>1. /\ rows' = rows \cup {newest + 1} /\ newest + 1 \in Ids
      /\ UNCHANGED <<items, current, deletedHere, revived>>
  BY StateShape DEF ServeUpload, OthersUpload, state, history, Ids, StateTypes
<1>2. newest + 1 \notin deletedHere /\ newest \in Nat
  BY StateShape DEF StateTypes
<1>3. \A p \in Ops \ {Upload} : work'[p] = work[p]
  BY DEF ServeUpload, OthersUpload, TypeInv, TypeOK
<1>4. work'[Upload] = work[Upload] \/ work'[Upload].at = "done"
  BY OpsApart DEF ServeUpload, OthersUpload, TypeInv, TypeOK
<1>5. ASSUME NEW a \in Ids, work'[Deletion(a)].at = "done"
      PROVE  a \notin rows'
  <2>1. work[Deletion(a)].at = "done"
    BY <1>3, <1>5, OpsApart
  <2>2. a \notin rows /\ a <= newest /\ a \in Nat
    BY <2>1 DEF DeletionInv, TypeInv, WorkInv, Ids
  <2> QED
    BY <1>1, <1>2, <2>2
<1>6. ASSUME NEW p \in current' \cup {Load}
      PROVE  Forgotten(p)'
  <2>1. Forgotten(p) /\ p \in Ops
    BY <1>1, OpsApart DEF DeletionInv, TypeInv, TypeOK
  <2>2. CASE work'[p] = work[p]
    BY <1>1, <2>1, <2>2 DEF Forgotten
  <2>3. CASE work'[p].at = "done"
    BY <2>3 DEF Forgotten, Fetching
  <2> QED
    BY <1>3, <1>4, <2>1, <2>2, <2>3
<1> QED
  BY <1>1, <1>2, <1>5, <1>6 DEF DeletionInv, OnlyUploadsRevive

LEMMA DeleteForgets ==
  ASSUME TypeInv, DeletionInv, NEW a \in Ids,
         \/ StartDelete(a) \/ ServeDelete(a) \/ DeleteFails(a) \/ DeleteAnswered(a)
         \/ LeftDeleteFails(a) \/ DeleteReloaded(a) \/ DeleteReloadFails(a)
  PROVE  DeletionInv'
<1> DEFINE o == Deletion(a)
<1>1. o \in Ops /\ o # Load /\ \A b \in Ids : o = Deletion(b) => a = b
  BY OpsApart
<1>2. items \cap deletedHere \subseteq revived
  BY DEF DeletionInv, OnlyUploadsRevive
<1>3. ~Fetching(NoWork) /\ ~Fetching([at |-> "sent"]) /\ ~Fetching([at |-> "done", id |-> a])
      /\ NoWork.at = "none"
  BY DEF Fetching, NoWork
<1>4. CASE StartDelete(a) \/ ServeDelete(a)
  <2> DEFINE x == IF StartDelete(a) THEN [at |-> "sent"]
                  ELSE IF work[o].at = "sent" THEN [at |-> "done", id |-> a] ELSE NoWork
  <2>1. CASE StartDelete(a)
    <3>1. work' = [work EXCEPT ![o] = x] /\ x.at = "sent" /\ ~Fetching(x)
      BY <1>3, <2>1 DEF StartDelete
    <3>2. UNCHANGED <<rows, items, deletedHere, revived, current>>
      BY <2>1 DEF StartDelete, server, history
    <3> HIDE DEF x, o
    <3> QED
      BY <1>1, <1>2, <3>1, <3>2, ForgottenStays
  <2>2. CASE ~StartDelete(a)
    <3>1. work' = [work EXCEPT ![o] = x] /\ ~Fetching(x)
      BY <1>3, <1>4, <2>2 DEF ServeDelete, End
    <3>2. rows' = rows \ {a} /\ UNCHANGED <<items, deletedHere, revived, current>>
      BY <1>4, <2>2 DEF ServeDelete, state
    <3> HIDE DEF x, o
    <3> QED
      BY <1>1, <1>2, <3>1, <3>2, ForgottenStays
  <2> QED
    BY <2>1, <2>2
<1>5. CASE DeleteFails(a) \/ DeleteReloadFails(a) \/ LeftDeleteFails(a)
  <2>1. /\ work' = [work EXCEPT ![o] = NoWork] /\ items' \subseteq items
        /\ UNCHANGED <<rows, deletedHere, revived>> /\ current' \subseteq current
    BY <1>5 DEF DeleteFails, DeleteReloadFails, LeftDeleteFails, End, server, state, history
  <2> HIDE DEF o
  <2> QED
    BY <1>1, <1>2, <1>3, <2>1, ForgottenStays
<1>6. CASE DeleteReloaded(a)
  <2>1. /\ work' = [work EXCEPT ![o] = NoWork] /\ current' = current \ {o}
        /\ UNCHANGED <<rows, deletedHere, revived>>
    BY <1>6 DEF DeleteReloaded, End, server
  <2>2. items' \cap deletedHere \subseteq revived
    <3>1. CASE items' \subseteq items
      BY <1>2, <3>1
    <3>2. CASE ~(items' \subseteq items)
      <4>1. /\ o \in current /\ work[o].at = "answered" /\ items' = work[o].got \ {a}
        BY <1>6, <3>2 DEF DeleteReloaded, IsCurrent
      <4>2. Forgotten(o)
        BY <4>1 DEF DeletionInv
      <4>3. work[o].got \cap deletedHere = {}
        BY <4>1, <4>2 DEF Forgotten, Fetching
      <4> QED
        BY <4>1, <4>3
    <3> QED
      BY <3>1, <3>2
  <2> HIDE DEF o
  <2> QED
    BY <1>1, <1>3, <2>1, <2>2, ForgottenStays
<1>7. CASE DeleteAnswered(a)
  <2> DEFINE x == [at |-> "asked", page |-> 1, target |-> page, got |-> {}, base |-> {}]
  <2>1. /\ work[o].at = "done" /\ deletedHere' = deletedHere \cup {a} /\ items' = items \ {a}
        /\ current' = {o} /\ work' = [work EXCEPT ![o] = x]
        /\ UNCHANGED <<rows, list, revived>>
    BY <1>7 DEF DeleteAnswered, NewGeneration, Ask, server
  <2>2. x.got = {} /\ x.base = {} /\ x.at = "asked"
    OBVIOUS
  <2> HIDE DEF x
  <2>3. \A p \in Ops : work'[p] = IF p = o THEN x ELSE work[p]
    BY <2>1 DEF TypeInv, TypeOK
  <2>4. rows' \cap deletedHere' = {}
    BY <2>1 DEF DeletionInv
  <2>5. ASSUME NEW b \in Ids, work'[Deletion(b)].at = "done"
        PROVE  b \notin rows'
    <3>1. Deletion(b) # o /\ work'[Deletion(b)] = work[Deletion(b)]
      BY <1>1, <2>2, <2>3, <2>5, OpsApart
    <3> QED
      BY <2>1, <2>5, <3>1 DEF DeletionInv
  <2>6. work'[Load].at = "none"
    <3>1. list = "ready"
      BY <2>1 DEF TypeInv, WorkInv
    <3>2. work[Load] = NoWork
      BY <3>1 DEF TypeInv, WorkInv
    <3> QED
      BY <1>1, <1>3, <2>3, <3>2, OpsApart
  <2>7. ASSUME NEW p \in current' \cup {Load}
        PROVE  Forgotten(p)'
    <3>1. CASE p = Load
      BY <2>6, <3>1 DEF Forgotten, Fetching
    <3>2. CASE p = o
      <4>1. work'[p].got = {} /\ work'[p].base = {}
        BY <1>1, <2>2, <2>3, <3>2
      <4> QED
        BY <4>1 DEF Forgotten
    <3> QED
      BY <2>1, <2>7, <3>1, <3>2
  <2>8. OnlyUploadsRevive'
    BY <1>2, <2>1 DEF OnlyUploadsRevive
  <2> QED
    BY <2>4, <2>5, <2>7, <2>8 DEF DeletionInv
<1> QED
  BY <1>4, <1>5, <1>6, <1>7

LEMMA ReopenForgets ==
  ASSUME TypeInv, DeletionInv, Reopen
  PROVE  DeletionInv'
<1>1. /\ work'[Load] = [at |-> "asked", page |-> 1, target |-> 1, got |-> {}, base |-> {}]
      /\ \A o \in Ops \ {Load} :
           \/ work'[o].at = "none"
           \/ work'[o] = work[o] /\ work[o].at \in {"sent", "done"} /\ o = Upload
           \/ work'[o].at = "left" /\ work[o].at # "none"
  BY ReopenShape
<1>2. items' = {} /\ current' = {} /\ UNCHANGED <<rows, deletedHere, revived>>
  BY DEF Reopen, Empty, server
<1>3. \A a \in Ids : work'[Deletion(a)].at # "done"
  BY <1>1, OpsApart
<1>4. work'[Load].got = {} /\ work'[Load].base = {}
  BY <1>1
<1> QED
  BY <1>2, <1>3, <1>4 DEF DeletionInv, Forgotten, OnlyUploadsRevive

LEMMA InitForgets == Init => DeletionInv
<1> SUFFICES ASSUME Init PROVE DeletionInv
  OBVIOUS
<1>1. deletedHere = {} /\ items = {}
  BY DEF Init
<1>2. \A a \in Ids : work[Deletion(a)].at = "none"
  BY OpsApart, WorkForms DEF Init
<1> QED
  BY <1>1, <1>2 DEF DeletionInv, Forgotten, OnlyUploadsRevive

LEMMA NextForgets == TypeInv /\ DeletionInv /\ [Next]_vars => DeletionInv'
<1> SUFFICES ASSUME TypeInv, DeletionInv, [Next]_vars PROVE DeletionInv'
  OBVIOUS
<1>1. CASE UNCHANGED vars
  BY <1>1 DEF vars, server, state, history, DeletionInv, Forgotten, OnlyUploadsRevive
<1>2. CASE LoadStep \/ Retry \/ Reopen
  BY <1>2, LoadForgets, ReopenForgets, ServePageForgets, OpsApart DEF LoadStep
<1>3. ASSUME NEW s \in 1..MoreSlots, LoadMore(s) \/ MoreStep(s)
      PROVE  DeletionInv'
  BY <1>3, MoreForgets, ServePageForgets, OpsApart DEF MoreStep
<1>4. CASE StartUpload \/ UploadStep \/ OthersUpload
  BY <1>4, UploadForgets, NewRowsForget, ServePageForgets, OpsApart DEF UploadStep
<1>5. ASSUME NEW a \in Ids, StartDelete(a) \/ DeleteStep(a)
      PROVE  DeletionInv'
  BY <1>5, DeleteForgets, ServePageForgets, OpsApart DEF DeleteStep
<1>6. ASSUME NEW a \in Ids, OthersDelete(a)
      PROVE  DeletionInv'
  <2>1. rows' \subseteq rows /\ UNCHANGED <<items, work, current, deletedHere, revived>>
    BY <1>6 DEF OthersDelete, state
  <2> QED
    BY <2>1 DEF DeletionInv, Forgotten, OnlyUploadsRevive
<1> QED
  BY <1>1, <1>2, <1>3, <1>4, <1>5, <1>6 DEF Next

\* What was deleted on this screen does not come back, whatever pages, reloads
\* and uploads were under way when the deletion was confirmed; only the answer
\* of its own upload can bring it back.
THEOREM DeletedStaysAway == Spec => []OnlyUploadsRevive
<1>1. Init => IInv
  BY InitTypes, InitForgets DEF IInv
<1>2. IInv /\ [Next]_vars => IInv'
  BY NextTypes, NextForgets DEF IInv
<1>3. IInv => OnlyUploadsRevive
  BY DEF IInv, DeletionInv
<1> QED
  BY <1>1, <1>2, <1>3, PTL DEF Spec
-----------------------------------------------------------------------------
(***************************************************************************)
(* Completeness.  Three layers: where the pages under way fit into the     *)
(* list (DepthInv, always), that nothing unknown is in it (KnownInv, while *)
(* no change was missed), and that what was asked for is right (SyncInv,   *)
(* when besides no change waits for its answer: an answered change begins  *)
(* a generation of its own, so whatever still counts was asked for after   *)
(* it).                                                                    *)
(***************************************************************************)
Gone == {a \in Ids : work[Deletion(a)].at = "done"}
Pending == Gone # {} \/ work[Upload].at = "done"
Reloads == {Upload} \cup Deletions

\* The rows of the first n pages; a list without a gap.
Top(n) == {x \in rows : Rank(x) <= n * PageSize}
Gapless(S) == \A g \in rows \ S, x \in S : g < x

\* The only reload that counts goes no deeper than the list, and at most one page
\* is loaded beside it: the next.
ReloadFits(o) ==
  /\ \A p \in current \cap Reloads : p = o
  /\ work[o].at = "asked" => work[o].page <= work[o].target /\ work[o].target <= page
  /\ work[o].page <= page
  /\ \A s \in 1..MoreSlots : More(s) \in current =>
       /\ loadingMore /\ work[More(s)].page = page + 1
       /\ \A t \in 1..MoreSlots : More(t) \in current => t = s

OnePage(w) == w.at = "asked" => w.got = {} /\ w.target = w.page

DepthInv ==
  /\ list # "ready" => current = {}
  /\ list = "ready" => page >= 1
  /\ \A o \in current : o # Load /\ Fetching(work[o]) /\ work[o].page >= 1
  /\ work[Load] # NoWork => Fetching(work[Load]) /\ work[Load].page = 1
  /\ OnePage(work[Load]) /\ \A s \in 1..MoreSlots : OnePage(work[More(s)])
  /\ \A o \in current \cap Reloads : ReloadFits(o)
  /\ \A a \in Ids : Fetching(work[Deletion(a)]) => a \in deletedHere

KnownInv ==
  /\ items \subseteq rows \cup Gone
  /\ \A o \in current \cup {Load} : Fetching(work[o]) =>
       work[o].got \subseteq rows \cup Gone /\ work[o].base \subseteq rows \cup Gone

Exact(w) == w.at = "answered" => w.next = HasNext(w.page) /\ w.total = Cardinality(rows)
PageExact(w) == w.at = "answered" => w.got = PageOf(w.page)
ReloadExact(w) ==
  /\ w.at = "asked" =>
       /\ w.got = Top(w.page - 1)
       /\ \A g \in rows \ w.base, x \in w.base : x < g => Rank(g) <= w.target * PageSize
  /\ w.at = "answered" => w.got = Top(w.page) /\ Gapless(w.base \cup w.got)

ShownExact ==
  /\ Top(page) \subseteq items /\ Gapless(items)
  /\ hasNext = HasNext(page) /\ count = Cardinality(rows)
  /\ \A s \in 1..MoreSlots : More(s) \in current => Top(work[More(s)].page - 1) \subseteq items

SyncInv ==
  /\ \A o \in current \cup {Load} : Exact(work[o])
  /\ PageExact(work[Load])
  /\ \A s \in 1..MoreSlots : More(s) \in current => PageExact(work[More(s)])
  /\ \A o \in current \cap Reloads : ReloadExact(work[o])
  /\ list = "ready" /\ current \cap Reloads = {} => ShownExact

CompleteInv == DepthInv /\ (~missed => KnownInv /\ (~Pending => SyncInv))

\* Ranks are counted from the newest row.
LEMMA Ranks ==
  ASSUME TypeOK
  PROVE  /\ IsFiniteSet(rows) /\ rows \subseteq Nat
         /\ \A x \in rows : Rank(x) \in 1..Cardinality(rows)
         /\ \A x, y \in rows : x <= y => Rank(y) <= Rank(x)
<1>1. newest \in Nat /\ rows \subseteq 1..newest
  BY ScreenAssumption DEF TypeOK
<1>2. IsFiniteSet(rows) /\ rows \subseteq Nat
  <2>1. IsFiniteSet(1..newest) /\ 1..newest \subseteq Nat
    BY <1>1, FS_Interval
  <2> QED
    BY <1>1, <2>1, FS_Subset
<1>3. Cardinality(rows) \in Nat
  BY <1>2, FS_CardinalityType
<1> DEFINE Above(x) == {y \in rows : y >= x}
<1>4. \A x : IsFiniteSet(Above(x)) /\ Cardinality(Above(x)) \in Nat
             /\ Cardinality(Above(x)) <= Cardinality(rows)
  BY <1>2, FS_Subset, FS_CardinalityType
<1>5. ASSUME NEW x \in rows
      PROVE  Rank(x) \in 1..Cardinality(rows)
  <2>1. x \in Above(x)
    BY <1>2
  <2>2. Cardinality(Above(x)) # 0
    BY <1>4, <2>1, FS_EmptySet
  <2> QED
    BY <1>3, <1>4, <2>2 DEF Rank
<1>6. ASSUME NEW x \in rows, NEW y \in rows, x <= y
      PROVE  Rank(y) <= Rank(x)
  <2>1. \A z \in rows : z >= y => z >= x
    BY <1>2, <1>6
  <2>2. Above(y) \subseteq Above(x)
    BY <2>1
  <2> QED
    BY <1>4, <2>2, FS_Subset DEF Rank
<1> QED
  BY <1>2, <1>5, <1>6

LEMMA Products ==
  /\ \A n \in Nat : n * PageSize \in Nat /\ (n + 1) * PageSize = n * PageSize + PageSize
  /\ \A m, n \in Nat : m <= n => m * PageSize <= n * PageSize
  /\ PageSize \in Nat /\ PageSize > 0
<1>1. PageSize \in Nat /\ PageSize > 0
  BY ScreenAssumption
<1>2. \A n \in Nat : n * PageSize \in Nat /\ (n + 1) * PageSize = n * PageSize + PageSize
  BY <1>1
<1>3. ASSUME NEW m \in Nat, NEW n \in Nat, m <= n
      PROVE  m * PageSize <= n * PageSize
  <2>1. n - m \in Nat /\ (n - m) * PageSize >= 0
    BY <1>1, <1>3
  <2>2. n * PageSize = m * PageSize + (n - m) * PageSize
    BY <1>1, <2>1
  <2> QED
    BY <1>1, <1>3, <2>1, <2>2
<1> QED
  BY <1>1, <1>2, <1>3

\* One page after another makes up the top of the list.
LEMMA PageByPage ==
  ASSUME TypeOK
  PROVE  /\ Top(0) = {} /\ PageOf(1) = Top(1)
         /\ \A n \in Nat : n >= 1 => Top(n - 1) \cup PageOf(n) = Top(n)
         /\ \A n \in Nat : Top(n) \subseteq rows
         /\ \A n \in Nat : \A k \in 1..n : PageOf(k) \subseteq Top(n)
<1>1. \A x \in rows : Rank(x) \in Nat /\ Rank(x) >= 1
  BY Ranks, FS_CardinalityType
<1>2. Top(0) = {} /\ \A n \in Nat : Top(n) \subseteq rows
  BY <1>1, Products DEF Top
<1>3. ASSUME NEW n \in Nat, n >= 1
      PROVE  Top(n - 1) \cup PageOf(n) = Top(n)
  <2>1. n - 1 \in Nat /\ (n - 1) * PageSize \in Nat /\ n * PageSize \in Nat
        /\ (n - 1) * PageSize <= n * PageSize
    BY <1>3, Products
  <2> QED
    BY <1>1, <2>1 DEF Top, PageOf
<1>4. PageOf(1) = Top(1)
  <2>1. Top(1 - 1) \cup PageOf(1) = Top(1) /\ 1 - 1 = 0
    BY <1>3
  <2> QED
    BY <1>2, <2>1
<1>5. ASSUME NEW n \in Nat, NEW k \in 1..n
      PROVE  PageOf(k) \subseteq Top(n)
  <2>1. k \in Nat /\ k * PageSize \in Nat /\ n * PageSize \in Nat /\ k * PageSize <= n * PageSize
    BY Products
  <2> QED
    BY <1>1, <2>1 DEF Top, PageOf
<1> QED
  BY <1>2, <1>3, <1>4, <1>5

\* A row that is on no page up to the n-th is older than all rows that are.
LEMMA TopIsGapless ==
  ASSUME TypeOK, NEW n \in Nat
  PROVE  /\ Gapless(Top(n))
         /\ ~HasNext(n) => Top(n) = rows
<1>1. \A x \in rows : Rank(x) \in Nat /\ Rank(x) <= Cardinality(rows)
  BY Ranks, FS_CardinalityType
<1>2. n * PageSize \in Nat /\ Cardinality(rows) \in Nat
  BY Products, Ranks, FS_CardinalityType
<1>3. ASSUME NEW g \in rows \ Top(n), NEW x \in Top(n)
      PROVE  g < x
  <2>1. x \in rows /\ Rank(x) < Rank(g)
    BY <1>1, <1>2 DEF Top
  <2>2. ~(x <= g) /\ x \in Nat /\ g \in Nat
    BY <1>1, <2>1, Ranks
  <2> QED
    BY <2>2
<1> QED
  BY <1>1, <1>2, <1>3 DEF Gapless, Top, HasNext

\* A list gets no gap from a page if it has the pages before.
LEMMA NextPageFits ==
  ASSUME TypeOK, NEW n \in Nat, n >= 1, NEW S, Gapless(S), Top(n - 1) \subseteq S
  PROVE  Gapless(S \cup PageOf(n)) /\ Top(n) \subseteq S \cup PageOf(n)
<1>1. Top(n) \subseteq S \cup PageOf(n) /\ PageOf(n) \subseteq Top(n)
  BY PageByPage
<1>2. Gapless(Top(n))
  BY TopIsGapless
<1> QED
  BY <1>1, <1>2 DEF Gapless

\* A reload of n pages closes the gaps that lie within them.
LEMMA ReloadClosesGaps ==
  ASSUME TypeOK, NEW n \in Nat, NEW S,
         \A g \in rows \ S, x \in S : x < g => Rank(g) <= n * PageSize,
         S \subseteq rows
  PROVE  Gapless(S \cup Top(n))
<1>1. ASSUME NEW g \in rows \ (S \cup Top(n)), NEW x \in S
      PROVE  g < x
  <2>1. ~(Rank(g) <= n * PageSize)
    BY <1>1 DEF Top
  <2>2. ~(x < g) /\ x # g /\ x \in Nat /\ g \in Nat
    BY <1>1, <2>1, Ranks
  <2> QED
    BY <2>2
<1>2. Gapless(Top(n))
  BY TopIsGapless
<1> QED
  BY <1>1, <1>2 DEF Gapless

\* A list of the first n pages at least, that is not complete, has a next page.
LEMMA RestIsLoadable ==
  ASSUME TypeOK, NEW n \in Nat, NEW S \in SUBSET rows, Top(n) \subseteq S, S # rows
  PROVE  HasNext(n)
BY TopIsGapless

\* What a page is depends on the rows alone.
LEMMA SameRows ==
  ASSUME rows' = rows
  PROVE  /\ \A n : Top(n)' = Top(n) /\ HasNext(n)' = HasNext(n) /\ PageOf(n)' = PageOf(n)
         /\ \A S : Gapless(S)' <=> Gapless(S)
         /\ \A w : /\ Exact(w)' <=> Exact(w)
                   /\ PageExact(w)' <=> PageExact(w)
                   /\ ReloadExact(w)' <=> ReloadExact(w)
BY DEF Top, HasNext, PageOf, Rank, Gapless, Exact, PageExact, ReloadExact

\* What one operation's step does to the operations.
LEMMA OneMoves ==
  ASSUME TypeInv, NEW o \in Ops, NEW x, work' = [work EXCEPT ![o] = x]
  PROVE  \A p \in Ops : work'[p] = IF p = o THEN x ELSE work[p]
BY DEF TypeInv, TypeOK

\* Operations that count are operations; the kinds are apart.
LEMMA Kinds ==
  ASSUME TypeInv
  PROVE  /\ current \subseteq Ops /\ Reloads \subseteq Ops /\ Load \in Ops /\ Load \notin Reloads
         /\ \A s \in 1..MoreSlots : More(s) \in Ops /\ More(s) \notin Reloads /\ More(s) # Load
         /\ Upload \in Reloads /\ \A a \in Ids : Deletion(a) \in Reloads
         /\ \A o \in Ops : o = Load \/ o \in Reloads \/ \E s \in 1..MoreSlots : o = More(s)
         /\ page \in Nat
BY OpsApart, ScreenAssumption DEF TypeInv, TypeOK, Reloads, Deletions, Ops, Pages
-----------------------------------------------------------------------------
\* DepthInv survives when an operation moves on to something that brings no
\* pages; the list changes only if no reload counts any more, or gets one page
\* deeper by the page that was loaded beside it.
LEMMA DepthStays ==
  ASSUME TypeInv, DepthInv, NEW o \in Ops \ {Load}, NEW x, ~Fetching(x),
         work' = [work EXCEPT ![o] = x], current' = current \ {o}, list' = list,
         list = "ready" => page' >= 1, page' \in Nat, deletedHere \subseteq deletedHere',
         current' \cap Reloads # {} =>
           /\ page <= page'
           /\ \/ page' = page /\ loadingMore' = loadingMore
              \/ \A s \in 1..MoreSlots : More(s) \notin current'
  PROVE  DepthInv'
<1>1. \A p \in Ops : work'[p] = IF p = o THEN x ELSE work[p]
  BY OneMoves
<1>2. \A p \in current' : p \in current /\ p \in Ops /\ work'[p] = work[p]
  BY <1>1, Kinds
<1>3. \A p \in current' : p # Load /\ Fetching(work'[p]) /\ work'[p].page >= 1
  BY <1>2 DEF DepthInv
<1>4. work'[Load] = work[Load]
  BY <1>1, Kinds
<1>5. ~OnePage(x) => Fetching(x)
  BY DEF OnePage, Fetching
<1>6. OnePage(work'[Load]) /\ \A s \in 1..MoreSlots : OnePage(work'[More(s)])
  BY <1>1, <1>4, <1>5, Kinds DEF DepthInv
<1>7. \A a \in Ids : Fetching(work'[Deletion(a)]) => a \in deletedHere'
  BY <1>1, OpsApart DEF DepthInv
<1>8. ASSUME NEW p \in current' \cap Reloads
      PROVE  ReloadFits(p)'
  <2>1. p \in current \cap Reloads /\ work'[p] = work[p] /\ ReloadFits(p)
    BY <1>2 DEF DepthInv
  <2>2. work[p].page \in Nat /\ (work[p].at = "asked" => work[p].target \in Nat) /\ page \in Nat
    <3>1. work[p] \in WorkStates /\ Fetching(work[p])
      BY <1>2, <2>1, OpShape DEF DepthInv
    <3> QED
      BY <3>1, Kinds, WorkShape DEF Fetching, Pages
  <2>3. \A q \in (current \cap Reloads)' : q = p
    BY <1>2, <2>1 DEF ReloadFits, Reloads, Deletions
  <2>4. /\ work'[p].at = "asked" => work'[p].page <= work'[p].target /\ work'[p].target <= page'
        /\ work'[p].page <= page'
    BY <2>1, <2>2 DEF ReloadFits
  <2>5. \A s \in 1..MoreSlots : More(s) \in current' =>
          /\ loadingMore' /\ work'[More(s)].page = page' + 1
          /\ \A t \in 1..MoreSlots : More(t) \in current' => t = s
    BY <1>2, <2>1 DEF ReloadFits
  <2> QED
    BY <2>3, <2>4, <2>5 DEF ReloadFits
<1>9. (list # "ready" => current = {})' /\ (list = "ready" => page >= 1)'
  BY DEF DepthInv
<1> QED
  BY <1>3, <1>4, <1>6, <1>7, <1>8, <1>9 DEF DepthInv

\* An answered change makes its reload the only operation that counts.
LEMMA DepthRestarts ==
  ASSUME TypeInv, DepthInv, NEW o \in Reloads, NEW b, list = "ready", list' = list, page' = page,
         work' = [work EXCEPT ![o] =
                    [at |-> "asked", page |-> 1, target |-> page, got |-> {}, base |-> b]],
         current' = {o}, deletedHere \subseteq deletedHere',
         \A a \in Ids : o = Deletion(a) => a \in deletedHere'
  PROVE  DepthInv'
<1> DEFINE x == [at |-> "asked", page |-> 1, target |-> page, got |-> {}, base |-> b]
<1>1. o \in Ops /\ o # Load /\ \A s \in 1..MoreSlots : More(s) # o
  BY Kinds
<1>2. \A p \in Ops : work'[p] = IF p = o THEN x ELSE work[p]
  BY <1>1, OneMoves
<1>3. x.at = "asked" /\ Fetching(x) /\ x.page = 1 /\ x.target = page
  BY DEF Fetching
<1> HIDE DEF x
<1>4. page >= 1 /\ page \in Nat
  BY Kinds DEF DepthInv
<1>5. work'[o] = x /\ work'[Load] = work[Load]
  BY <1>1, <1>2, Kinds
<1>6. \A s \in 1..MoreSlots : work'[More(s)] = work[More(s)] /\ More(s) \notin current'
  BY <1>1, <1>2, Kinds
<1>7. \A a \in Ids : Fetching(work'[Deletion(a)]) => a \in deletedHere'
  BY <1>2, OpsApart DEF DepthInv
<1>8. ReloadFits(o)'
  BY <1>3, <1>4, <1>5, <1>6 DEF ReloadFits, Reloads, Deletions
<1>9. \A p \in (current \cap Reloads)' : p = o
  OBVIOUS
<1> QED
  BY <1>1, <1>3, <1>4, <1>5, <1>6, <1>7, <1>8, <1>9 DEF DepthInv

LEMMA ServePageDepth ==
  ASSUME TypeInv, DepthInv, NEW o \in Ops, ServePage(o)
  PROVE  DepthInv'
<1> DEFINE w == work[o]
           x == work'[o]
<1>1. /\ w.at = "asked" /\ x.at \in {"asked", "answered"}
      /\ x.at = "asked" => w.page < w.target /\ x.page = w.page + 1 /\ x.target = w.target
      /\ x.at = "answered" => x.page = w.page
      /\ \A p \in Ops \ {o} : work'[p] = work[p]
  BY DEF ServePage, TypeInv, TypeOK
<1>2. UNCHANGED <<list, state, current, deletedHere>>
  BY DEF ServePage, history
<1>3. w.page \in Nat /\ w.target \in Nat
  BY <1>1, OpShape, WorkShape DEF Pages
<1>4. Fetching(w) /\ Fetching(x)
  BY <1>1 DEF Fetching
<1> HIDE DEF w, x
<1>5. OnePage(w) => x.at = "answered" /\ x.page = w.page
  BY <1>1, <1>3 DEF OnePage
<1>6. \A p \in Ops : work'[p] = IF p = o THEN x ELSE work[p]
  BY <1>1 DEF x
<1>7. \A p \in Ops : Fetching(work'[p]) <=> Fetching(work[p])
  BY <1>4, <1>6 DEF w
<1>8. \A p \in Ops : OnePage(work[p]) => OnePage(work'[p]) /\
                       (Fetching(work[p]) => work'[p].page = work[p].page)
  BY <1>5, <1>6 DEF w, OnePage
<1>9. \A p \in current : p # Load /\ Fetching(work'[p]) /\ work'[p].page >= 1
  <2>1. w.page >= 1 => x.page >= 1
    BY <1>1, <1>3
  <2> QED
    BY <1>6, <1>7, <2>1, Kinds DEF DepthInv, w
<1>10. OnePage(work[Load]) /\ \A s \in 1..MoreSlots : OnePage(work[More(s)])
  BY DEF DepthInv
<1>11. work'[Load] # NoWork => Fetching(work'[Load]) /\ work'[Load].page = 1
  <2>1. CASE o = Load
    <3>1. work[Load] # NoWork /\ Fetching(work[Load])
      BY <1>4, <2>1, WorkForms DEF w, Fetching
    <3> QED
      BY <1>7, <1>8, <1>10, <3>1, Kinds DEF DepthInv
  <2>2. CASE o # Load
    BY <1>6, <2>2, Kinds DEF DepthInv
  <2> QED
    BY <2>1, <2>2
<1>12. OnePage(work'[Load]) /\ \A s \in 1..MoreSlots : OnePage(work'[More(s)])
  BY <1>8, <1>10, Kinds
<1>13. \A a \in Ids : Fetching(work'[Deletion(a)]) => a \in deletedHere'
  BY <1>2, <1>7, OpsApart DEF DepthInv
<1>14. ASSUME NEW p \in current \cap Reloads
       PROVE  ReloadFits(p)'
  <2>1. ReloadFits(p) /\ p \in Ops
    BY Kinds DEF DepthInv
  <2>2. /\ work'[p].at = "asked" => work'[p].page <= work'[p].target /\ work'[p].target <= page
        /\ work'[p].page <= page
    <3>1. CASE p = o
      BY <1>1, <1>3, <1>6, <2>1, <3>1, Kinds DEF ReloadFits, w
    <3>2. CASE p # o
      BY <1>6, <2>1, <3>2 DEF ReloadFits
    <3> QED
      BY <3>1, <3>2
  <2>3. \A s \in 1..MoreSlots : More(s) \in current => work'[More(s)].page = work[More(s)].page
    BY <1>8, <1>10, Kinds DEF DepthInv
  <2> QED
    BY <1>2, <2>1, <2>2, <2>3 DEF ReloadFits, Reloads, Deletions, state
<1> QED
  BY <1>2, <1>9, <1>11, <1>12, <1>13, <1>14 DEF DepthInv, Reloads, Deletions, state

LEMMA LoadDepth ==
  ASSUME TypeInv, DepthInv, LoadAnswered \/ LoadFails \/ Retry
  PROVE  DepthInv'
<1> DEFINE y == [at |-> "asked", page |-> 1, target |-> 1, got |-> {}, base |-> {}]
           x == IF Retry THEN y ELSE NoWork
<1>1. work' = [work EXCEPT ![Load] = x]
  <2>1. CASE Retry
    BY <2>1 DEF Retry, Ask
  <2>2. CASE ~Retry
    BY <2>2 DEF LoadAnswered, LoadFails, End
  <2> QED
    BY <2>1, <2>2
<1>2. /\ x # NoWork => Fetching(x) /\ x.page = 1
      /\ OnePage(x)
  BY WorkForms DEF Fetching, OnePage, NoWork
<1> HIDE DEF x, y
<1>3. \A p \in Ops : work'[p] = IF p = Load THEN x ELSE work[p]
  BY <1>1, Kinds, OneMoves
<1>4. list # "ready" /\ current = {} /\ current' = {} /\ deletedHere' = deletedHere
  <2>1. list # "ready"
    BY WorkForms DEF LoadAnswered, LoadFails, Retry, TypeInv, WorkInv
  <2> QED
    BY <2>1 DEF LoadAnswered, LoadFails, Retry, DepthInv, history
<1>5. list' = "ready" => page' = 1
  BY <1>4 DEF LoadAnswered, LoadFails, Retry
<1>6. \A a \in Ids : work'[Deletion(a)] = work[Deletion(a)]
  BY <1>3, OpsApart
<1>7. OnePage(work'[Load]) /\ \A s \in 1..MoreSlots : OnePage(work'[More(s)])
  BY <1>2, <1>3, Kinds DEF DepthInv
<1> QED
  BY <1>2, <1>3, <1>4, <1>5, <1>6, <1>7, Kinds DEF DepthInv

LEMMA MoreDepth ==
  ASSUME TypeInv, DepthInv, NEW s \in 1..MoreSlots,
         LoadMore(s) \/ MoreAnswered(s) \/ MoreFails(s)
  PROVE  DepthInv'
<1> DEFINE o == More(s)
<1>1. o \in Ops \ {Load} /\ o \notin Reloads /\ page \in Nat
  BY Kinds
<1>2. \A t \in 1..MoreSlots : More(t) = o => t = s
  BY DEF More
<1> HIDE DEF o
<1>3. CASE LoadMore(s)
  <2> DEFINE x == [at |-> "asked", page |-> page + 1, target |-> page + 1, got |-> {}, base |-> {}]
  <2>1. /\ list = "ready" /\ ~loadingMore /\ loadingMore' = TRUE
        /\ work' = [work EXCEPT ![o] = x] /\ current' = current \cup {o}
        /\ UNCHANGED <<list, page, deletedHere>>
    BY <1>3 DEF LoadMore, Ask, o, server, history
  <2>2. x.at = "asked" /\ Fetching(x) /\ x.page = page + 1 /\ x.page >= 1 /\ OnePage(x)
    BY <1>1 DEF Fetching, OnePage
  <2> HIDE DEF x
  <2>3. \A p \in Ops : work'[p] = IF p = o THEN x ELSE work[p]
    BY <1>1, <2>1, OneMoves
  <2>4. \A p \in current' : p # Load /\ Fetching(work'[p]) /\ work'[p].page >= 1
    BY <1>1, <2>1, <2>2, <2>3, Kinds DEF DepthInv
  <2>5. work'[Load] = work[Load] /\ \A t \in 1..MoreSlots : OnePage(work'[More(t)])
    BY <1>1, <2>2, <2>3, Kinds DEF DepthInv
  <2>6. \A a \in Ids : work'[Deletion(a)] = work[Deletion(a)]
    BY <1>1, <2>3, Kinds
  <2>7. ASSUME NEW p \in current' \cap Reloads
        PROVE  ReloadFits(p)'
    <3>1. p \in current \cap Reloads /\ work'[p] = work[p] /\ ReloadFits(p)
      BY <1>1, <2>1, <2>3, <2>7, Kinds DEF DepthInv
    <3>2. \A t \in 1..MoreSlots : More(t) \in current' => t = s
      BY <1>2, <2>1, <3>1 DEF ReloadFits
    <3>3. work'[o].page = page + 1
      BY <1>1, <2>2, <2>3
    <3> QED
      BY <1>1, <2>1, <3>1, <3>2, <3>3 DEF ReloadFits, Reloads, Deletions, o
  <2> QED
    BY <1>1, <2>1, <2>4, <2>5, <2>6, <2>7 DEF DepthInv, Reloads, Deletions
<1>4. CASE MoreAnswered(s) \/ MoreFails(s)
  <2>1. /\ work' = [work EXCEPT ![o] = NoWork] /\ current' = current \ {o}
        /\ UNCHANGED <<list, deletedHere>>
    BY <1>4 DEF MoreAnswered, MoreFails, End, o, server, history
  <2>2. CASE o \in current
    <3>1. work[o].page >= 1 /\ list = "ready" /\ page >= 1
      BY <2>2 DEF DepthInv
    <3>2. work[o].page \in Nat
      BY <1>1, <1>4, OpShape, WorkShape DEF MoreAnswered, MoreFails, Pages, o
    <3>3. page' = page \/ page' = work[o].page
      BY <1>4 DEF MoreAnswered, MoreFails, state, o
    <3>4. ASSUME current' \cap Reloads # {}
          PROVE  /\ page <= page'
                 /\ \A t \in 1..MoreSlots : More(t) \notin current'
      <4>1. PICK p \in current \cap Reloads : ReloadFits(p)
        BY <2>1, <3>4 DEF DepthInv
      <4>2. work[o].page = page + 1 /\ \A t \in 1..MoreSlots : More(t) \in current => t = s
        BY <2>2, <4>1 DEF ReloadFits, o
      <4> QED
        BY <1>1, <2>1, <3>3, <4>2 DEF o
    <3>5. ~Fetching(NoWork)
      BY DEF Fetching, NoWork
    <3> QED
      BY <1>1, <2>1, <3>1, <3>2, <3>3, <3>4, <3>5, DepthStays
  <2>3. CASE o \notin current
    <3>1. page' = page /\ loadingMore' = loadingMore
      BY <1>4, <2>3 DEF MoreAnswered, MoreFails, IsCurrent, state, o, TypeInv, TypeOK
    <3>2. ~Fetching(NoWork) /\ (list = "ready" => page >= 1)
      BY DEF Fetching, NoWork, DepthInv
    <3>3. /\ page' \in Nat /\ (list = "ready" => page' >= 1)
          /\ deletedHere \subseteq deletedHere' /\ list' = list
          /\ current' \cap Reloads # {} =>
               /\ page <= page'
               /\ \/ page' = page /\ loadingMore' = loadingMore
                  \/ \A t \in 1..MoreSlots : More(t) \notin current'
      BY <1>1, <2>1, <3>1, <3>2
    <3> QED
      BY <1>1, <2>1, <3>2, <3>3, DepthStays
  <2> QED
    BY <2>2, <2>3
<1> QED
  BY <1>3, <1>4

LEMMA UploadDepth ==
  ASSUME TypeInv, DepthInv,
         \/ StartUpload \/ ServeUpload \/ UploadFails \/ UploadAnswered \/ UploadUnlisted
         \/ UploadReloaded \/ UploadReloadFails
  PROVE  DepthInv'
<1> DEFINE o == Upload
<1>1. o \in Ops \ {Load} /\ o \in Reloads /\ page \in Nat /\ (list = "ready" => page >= 1)
  BY Kinds, OpsApart DEF DepthInv
<1>2. work[o].at \in {"none", "sent", "done"} => o \notin current
  BY DEF DepthInv, Fetching
<1>3. ~Fetching(NoWork) /\ ~Fetching([at |-> "sent"])
      /\ ~Fetching([at |-> "done", id |-> newest + 1]) /\ NoWork.at = "none"
  BY DEF Fetching, NoWork
<1> HIDE DEF o
<1>4. CASE \/ StartUpload \/ ServeUpload \/ UploadFails \/ UploadUnlisted \/ UploadReloadFails
  <2> DEFINE x == IF StartUpload THEN [at |-> "sent"]
                  ELSE IF ServeUpload THEN [at |-> "done", id |-> newest + 1] ELSE NoWork
  <2>1. work' = [work EXCEPT ![o] = x]
    <3>1. CASE StartUpload
      BY <3>1 DEF StartUpload, o
    <3>2. CASE ~StartUpload /\ ServeUpload
      BY <3>2 DEF ServeUpload, o
    <3>3. CASE ~StartUpload /\ ~ServeUpload
      BY <1>4, <3>3 DEF UploadFails, UploadUnlisted, UploadReloadFails, End, o
    <3> QED
      BY <3>1, <3>2, <3>3
  <2>2. ~Fetching(x)
    BY <1>3
  <2> HIDE DEF x
  <2>3. current' = current \ {o} /\ UNCHANGED <<list, page, loadingMore, deletedHere>>
    BY <1>2, <1>3, <1>4 DEF StartUpload, ServeUpload, UploadFails, UploadUnlisted,
       UploadReloadFails, server, state, history, o
  <2>4. /\ page' \in Nat /\ (list = "ready" => page' >= 1)
        /\ deletedHere \subseteq deletedHere' /\ list' = list
        /\ current' \cap Reloads # {} =>
             /\ page <= page'
             /\ \/ page' = page /\ loadingMore' = loadingMore
                \/ \A t \in 1..MoreSlots : More(t) \notin current'
    BY <1>1, <2>3
  <2> QED
    BY <1>1, <2>1, <2>2, <2>3, <2>4, DepthStays
<1>5. CASE UploadAnswered
  <2>1. /\ list = "ready" /\ current' = {o} /\ UNCHANGED <<list, page, deletedHere>>
        /\ work' = [work EXCEPT ![o] =
             [at |-> "asked", page |-> 1, target |-> page, got |-> {},
              base |-> items \cup {work[o].id}]]
    BY <1>5 DEF UploadAnswered, Ask, NewGeneration, server, o
  <2>2. \A a \in Ids : o # Deletion(a)
    BY OpsApart DEF o
  <2> QED
    BY <1>1, <2>1, <2>2, DepthRestarts
<1>6. CASE UploadReloaded
  <2>1. /\ work' = [work EXCEPT ![o] = NoWork] /\ current' = current \ {o}
        /\ UNCHANGED <<list, deletedHere>>
    BY <1>6 DEF UploadReloaded, End, server, o
  <2>2. CASE o \in current
    <3>1. page' = work[o].page /\ work[o].page \in Nat
      BY <1>1, <1>6, <2>2, OpShape, WorkShape DEF UploadReloaded, IsCurrent, Pages, o
    <3>2. work[o].page >= 1
      BY <2>2 DEF DepthInv
    <3>3. current' \cap Reloads = {}
      BY <1>1, <2>1, <2>2 DEF DepthInv, ReloadFits
    <3> QED
      BY <1>1, <1>3, <2>1, <3>1, <3>2, <3>3, DepthStays
  <2>3. CASE o \notin current
    <3>1. UNCHANGED <<page, loadingMore>>
      BY <1>6, <2>3 DEF UploadReloaded, IsCurrent, state, o
    <3>2. /\ page' \in Nat /\ (list = "ready" => page' >= 1)
          /\ deletedHere \subseteq deletedHere' /\ list' = list
          /\ current' \cap Reloads # {} =>
               /\ page <= page'
               /\ \/ page' = page /\ loadingMore' = loadingMore
                  \/ \A t \in 1..MoreSlots : More(t) \notin current'
      BY <1>1, <2>1, <3>1
    <3> QED
      BY <1>1, <1>3, <2>1, <3>2, DepthStays
  <2> QED
    BY <2>2, <2>3
<1> QED
  BY <1>4, <1>5, <1>6

LEMMA DeleteDepth ==
  ASSUME TypeInv, DepthInv, NEW a \in Ids,
         \/ StartDelete(a) \/ ServeDelete(a) \/ DeleteFails(a) \/ DeleteAnswered(a)
         \/ LeftDeleteFails(a) \/ DeleteReloaded(a) \/ DeleteReloadFails(a)
  PROVE  DepthInv'
<1> DEFINE o == Deletion(a)
<1>1. o \in Ops \ {Load} /\ o \in Reloads /\ page \in Nat /\ (list = "ready" => page >= 1)
  BY Kinds, OpsApart DEF DepthInv
<1>2. work[o].at \in {"none", "sent", "left", "done"} => o \notin current
  BY DEF DepthInv, Fetching
<1>3. ~Fetching(NoWork) /\ ~Fetching([at |-> "sent"])
      /\ ~Fetching([at |-> "done", id |-> a]) /\ NoWork.at = "none"
  BY DEF Fetching, NoWork
<1> HIDE DEF o
<1>4. CASE \/ StartDelete(a) \/ ServeDelete(a) \/ DeleteFails(a) \/ LeftDeleteFails(a)
           \/ DeleteReloadFails(a)
  <2> DEFINE x == IF StartDelete(a) THEN [at |-> "sent"]
                  ELSE IF ServeDelete(a) /\ work[o].at = "sent" THEN [at |-> "done", id |-> a]
                  ELSE NoWork
  <2>1. work' = [work EXCEPT ![o] = x]
    <3>1. CASE StartDelete(a)
      BY <3>1 DEF StartDelete, o
    <3>2. CASE ~StartDelete(a) /\ ServeDelete(a)
      BY <3>2 DEF ServeDelete, End, o
    <3>3. CASE ~StartDelete(a) /\ ~ServeDelete(a)
      BY <1>4, <3>3 DEF DeleteFails, LeftDeleteFails, DeleteReloadFails, End, o
    <3> QED
      BY <3>1, <3>2, <3>3
  <2>2. ~Fetching(x)
    BY <1>3
  <2> HIDE DEF x
  <2>3. current' = current \ {o} /\ UNCHANGED <<list, page, loadingMore, deletedHere>>
    BY <1>2, <1>3, <1>4 DEF StartDelete, ServeDelete, DeleteFails, LeftDeleteFails,
       DeleteReloadFails, server, state, history, o
  <2>4. /\ page' \in Nat /\ (list = "ready" => page' >= 1)
        /\ deletedHere \subseteq deletedHere' /\ list' = list
        /\ current' \cap Reloads # {} =>
             /\ page <= page'
             /\ \/ page' = page /\ loadingMore' = loadingMore
                \/ \A t \in 1..MoreSlots : More(t) \notin current'
    BY <1>1, <2>3
  <2> QED
    BY <1>1, <2>1, <2>2, <2>3, <2>4, DepthStays
<1>5. CASE DeleteAnswered(a)
  <2>1. /\ work[o].at = "done" /\ current' = {o} /\ UNCHANGED <<list, page>>
        /\ deletedHere' = deletedHere \cup {a}
        /\ work' = [work EXCEPT ![o] =
             [at |-> "asked", page |-> 1, target |-> page, got |-> {}, base |-> {}]]
    BY <1>5 DEF DeleteAnswered, Ask, NewGeneration, server, o
  <2>2. list = "ready"
    BY <2>1 DEF TypeInv, WorkInv, o
  <2>3. \A b \in Ids : o = Deletion(b) => b \in deletedHere'
    BY <2>1, OpsApart DEF o
  <2> QED
    BY <1>1, <2>1, <2>2, <2>3, DepthRestarts
<1>6. CASE DeleteReloaded(a)
  <2>1. /\ work' = [work EXCEPT ![o] = NoWork] /\ current' = current \ {o}
        /\ UNCHANGED <<list, deletedHere>>
    BY <1>6 DEF DeleteReloaded, End, server, o
  <2>2. CASE o \in current
    <3>1. page' = work[o].page /\ work[o].page \in Nat
      BY <1>1, <1>6, <2>2, OpShape, WorkShape DEF DeleteReloaded, IsCurrent, Pages, o
    <3>2. work[o].page >= 1
      BY <2>2 DEF DepthInv
    <3>3. current' \cap Reloads = {}
      BY <1>1, <2>1, <2>2 DEF DepthInv, ReloadFits
    <3> QED
      BY <1>1, <1>3, <2>1, <3>1, <3>2, <3>3, DepthStays
  <2>3. CASE o \notin current
    <3>1. UNCHANGED <<page, loadingMore>>
      BY <1>6, <2>3 DEF DeleteReloaded, IsCurrent, o
    <3>2. /\ page' \in Nat /\ (list = "ready" => page' >= 1)
          /\ deletedHere \subseteq deletedHere' /\ list' = list
          /\ current' \cap Reloads # {} =>
               /\ page <= page'
               /\ \/ page' = page /\ loadingMore' = loadingMore
                  \/ \A t \in 1..MoreSlots : More(t) \notin current'
      BY <1>1, <2>1, <3>1
    <3> QED
      BY <1>1, <1>3, <2>1, <3>2, DepthStays
  <2> QED
    BY <2>2, <2>3
<1> QED
  BY <1>4, <1>5, <1>6

LEMMA InitDepth == Init => DepthInv
<1> SUFFICES ASSUME Init PROVE DepthInv
  OBVIOUS
<1>1. list # "ready" /\ current = {}
  BY DEF Init
<1>2. work[Load] = [at |-> "asked", page |-> 1, target |-> 1, got |-> {}, base |-> {}]
  BY OpsApart DEF Init
<1>3. \A s \in 1..MoreSlots : work[More(s)] = NoWork
  BY OpsApart DEF Init
<1>4. \A a \in Ids : work[Deletion(a)] = NoWork
  BY OpsApart DEF Init
<1>5. ~Fetching(NoWork) /\ OnePage(NoWork) /\ OnePage(work[Load]) /\ Fetching(work[Load])
  BY <1>2 DEF Fetching, OnePage, NoWork
<1> QED
  BY <1>1, <1>2, <1>3, <1>4, <1>5 DEF DepthInv

LEMMA NextDepth == TypeInv /\ DepthInv /\ [Next]_vars => DepthInv'
<1> SUFFICES ASSUME TypeInv, DepthInv, [Next]_vars PROVE DepthInv'
  OBVIOUS
<1>1. CASE UNCHANGED vars \/ OthersUpload \/ \E a \in Ids : OthersDelete(a)
  <2>1. UNCHANGED <<list, page, loadingMore, work, current, deletedHere>>
    BY <1>1 DEF vars, server, state, history, OthersUpload, OthersDelete
  <2> QED
    BY <2>1 DEF DepthInv, ReloadFits, Reloads, Deletions
<1>2. CASE Reopen
  <2>1. /\ work'[Load] = [at |-> "asked", page |-> 1, target |-> 1, got |-> {}, base |-> {}]
        /\ \A o \in Ops \ {Load} :
             \/ work'[o].at = "none"
             \/ work'[o] = work[o] /\ work[o].at \in {"sent", "done"} /\ o = Upload
             \/ work'[o].at = "left" /\ work[o].at # "none"
    BY <1>2, ReopenShape
  <2>2. \A o \in Ops \ {Load} : ~Fetching(work'[o]) /\ OnePage(work'[o])
    BY <2>1 DEF Fetching, OnePage
  <2>3. Fetching(work'[Load]) /\ work'[Load].page = 1 /\ OnePage(work'[Load])
    BY <2>1 DEF Fetching, OnePage
  <2>4. list' = "loading" /\ current' = {}
    BY <1>2 DEF Reopen
  <2> QED
    BY <2>2, <2>3, <2>4, OpsApart DEF DepthInv
<1>3. CASE LoadStep \/ Retry
  BY <1>3, LoadDepth, ServePageDepth, OpsApart DEF LoadStep
<1>4. ASSUME NEW s \in 1..MoreSlots, LoadMore(s) \/ MoreStep(s)
      PROVE  DepthInv'
  BY <1>4, MoreDepth, ServePageDepth, OpsApart DEF MoreStep
<1>5. CASE StartUpload \/ UploadStep
  BY <1>5, UploadDepth, ServePageDepth, OpsApart DEF UploadStep
<1>6. ASSUME NEW a \in Ids, StartDelete(a) \/ DeleteStep(a)
      PROVE  DepthInv'
  BY <1>6, DeleteDepth, ServePageDepth, OpsApart DEF DeleteStep
<1> QED
  BY <1>1, <1>2, <1>3, <1>4, <1>5, <1>6 DEF Next
-----------------------------------------------------------------------------
\* KnownInv survives when an operation moves on to x, if nothing that could be
\* on the screen is forgotten and nothing unknown comes in.
LEMMA KnownStays ==
  ASSUME TypeInv, KnownInv, NEW o \in Ops, NEW x, work' = [work EXCEPT ![o] = x],
         rows \cup Gone \subseteq (rows \cup Gone)', current' \subseteq current \cup {o},
         items' \subseteq (rows \cup Gone)',
         o \in current' \cup {Load} /\ Fetching(x) =>
           x.got \subseteq (rows \cup Gone)' /\ x.base \subseteq (rows \cup Gone)'
  PROVE  KnownInv'
<1>1. \A p \in Ops : work'[p] = IF p = o THEN x ELSE work[p]
  BY OneMoves
<1>2. ASSUME NEW p \in current' \cup {Load}, Fetching(work'[p])
      PROVE  work'[p].got \subseteq (rows \cup Gone)' /\ work'[p].base \subseteq (rows \cup Gone)'
  <2>1. p \in Ops
    BY <1>2, Kinds
  <2>2. CASE p = o
    BY <1>1, <1>2, <2>1, <2>2
  <2>3. CASE p # o
    <3>1. work'[p] = work[p] /\ p \in current \cup {Load}
      BY <1>1, <1>2, <2>1, <2>3
    <3> HIDE DEF Gone
    <3> QED
      BY <1>2, <3>1 DEF KnownInv
  <2> QED
    BY <2>2, <2>3
<1> QED
  BY <1>2 DEF KnownInv

\* What was deleted, and not yet answered, remains so while another operation
\* moves; a deletion that moves is remembered if it was not waiting to be answered.
LEMMA GoneStays ==
  ASSUME TypeInv, NEW o \in Ops, NEW x, work' = [work EXCEPT ![o] = x],
         work[o].at = "done" => o = Upload
  PROVE  Gone \subseteq Gone'
<1>1. ASSUME NEW a \in Gone
      PROVE  a \in Gone'
  <2>1. a \in Ids /\ work[Deletion(a)].at = "done" /\ Deletion(a) \in Ops /\ Deletion(a) # Upload
    BY OpsApart DEF Gone
  <2>2. work'[Deletion(a)] = work[Deletion(a)]
    BY <2>1, OneMoves
  <2> QED
    BY <2>1, <2>2 DEF Gone
<1> QED
  BY <1>1

LEMMA ServePageKnown ==
  ASSUME TypeInv, KnownInv, NEW o \in Ops, ServePage(o)
  PROVE  KnownInv'
<1> DEFINE w == work[o]
           x == work'[o]
<1>1. /\ w.at = "asked" /\ x.got = w.got \cup PageOf(w.page) /\ x.base = w.base
      /\ work' = [work EXCEPT ![o] = x]
      /\ UNCHANGED <<rows, items, current>>
  BY DEF ServePage, server, state, TypeInv, TypeOK
<1>2. Gone \subseteq Gone'
  BY <1>1, GoneStays
<1>3. PageOf(w.page) \subseteq rows
  BY DEF PageOf
<1>4. o \in current \cup {Load} => w.got \subseteq rows \cup Gone /\ w.base \subseteq rows \cup Gone
  BY <1>1 DEF KnownInv, Fetching
<1>5. items \subseteq rows \cup Gone
  BY DEF KnownInv
<1> HIDE DEF w, x
<1> QED
  BY <1>1, <1>2, <1>3, <1>4, <1>5, KnownStays

LEMMA LoadKnown ==
  ASSUME TypeInv, KnownInv, LoadAnswered \/ LoadFails \/ Retry
  PROVE  KnownInv'
<1> DEFINE x == IF Retry THEN [at |-> "asked", page |-> 1, target |-> 1, got |-> {}, base |-> {}]
                ELSE NoWork
<1>1. work' = [work EXCEPT ![Load] = x]
  <2>1. CASE Retry
    BY <2>1 DEF Retry, Ask
  <2>2. CASE ~Retry
    BY <2>2 DEF LoadAnswered, LoadFails, End
  <2> QED
    BY <2>1, <2>2
<1>2. Fetching(x) => x.got = {} /\ x.base = {}
  BY DEF Fetching, NoWork
<1> HIDE DEF x
<1>3. rows' = rows /\ current' \subseteq current
  BY DEF LoadAnswered, LoadFails, Retry, server
<1>4. work[Load].at # "done" /\ Load \in Ops
  <2>1. Retry => work[Load].at = "none"
    BY WorkForms DEF Retry, TypeInv, WorkInv
  <2> QED
    BY <2>1, OpsApart DEF LoadAnswered, LoadFails
<1>5. Gone \subseteq Gone'
  BY <1>1, <1>4, GoneStays
<1>6. items' \subseteq rows \cup Gone
  BY DEF LoadAnswered, LoadFails, Retry, state, KnownInv, Fetching
<1> QED
  BY <1>1, <1>2, <1>3, <1>4, <1>5, <1>6, KnownStays

LEMMA MoreKnown ==
  ASSUME TypeInv, KnownInv, NEW s \in 1..MoreSlots,
         LoadMore(s) \/ MoreAnswered(s) \/ MoreFails(s)
  PROVE  KnownInv'
<1> DEFINE o == More(s)
           x == IF LoadMore(s)
                  THEN [at |-> "asked", page |-> page + 1, target |-> page + 1,
                        got |-> {}, base |-> {}]
                  ELSE NoWork
<1>1. o \in Ops
  BY OpsApart
<1>2. work' = [work EXCEPT ![o] = x] /\ work[o].at # "done"
  <2>1. CASE LoadMore(s)
    BY <2>1, WorkForms DEF LoadMore, Ask
  <2>2. CASE ~LoadMore(s)
    BY <2>2 DEF MoreAnswered, MoreFails, End
  <2> QED
    BY <2>1, <2>2
<1>3. Fetching(x) => x.got = {} /\ x.base = {}
  BY DEF Fetching, NoWork
<1> HIDE DEF x
<1>4. rows' = rows /\ current' \subseteq current \cup {o}
  BY DEF LoadMore, MoreAnswered, MoreFails, server
<1>5. Gone \subseteq Gone'
  BY <1>1, <1>2, GoneStays
<1>6. items' \subseteq rows \cup Gone
  <2>1. items' = items \/ (o \in current /\ work[o].at = "answered" /\ items' = items \cup work[o].got)
    BY DEF LoadMore, MoreAnswered, MoreFails, IsCurrent, state
  <2> QED
    BY <2>1 DEF KnownInv, Fetching
<1> HIDE DEF o
<1> QED
  BY <1>1, <1>2, <1>3, <1>4, <1>5, <1>6, KnownStays

LEMMA UploadKnown ==
  ASSUME TypeInv, KnownInv, ~missed',
         \/ StartUpload \/ ServeUpload \/ UploadFails \/ UploadAnswered \/ UploadUnlisted
         \/ UploadReloaded \/ UploadReloadFails
  PROVE  KnownInv'
<1> DEFINE o == Upload
           x == work'[o]
<1>1. o \in Ops /\ o # Load
  BY OpsApart
<1>2. work' = [work EXCEPT ![o] = x]
  BY DEF StartUpload, ServeUpload, UploadFails, UploadAnswered, UploadUnlisted, UploadReloaded,
         UploadReloadFails, End, Ask, TypeInv, TypeOK
<1>3. Gone \subseteq Gone'
  BY <1>1, <1>2, GoneStays
<1>4. rows \subseteq rows'
  BY DEF StartUpload, ServeUpload, UploadFails, UploadAnswered, UploadUnlisted, UploadReloaded,
         UploadReloadFails, server
<1>5. items \subseteq rows \cup Gone
  BY DEF KnownInv
<1>6. CASE UploadAnswered
  <2>1. /\ current' = {o} /\ items' = items \cup {work[o].id} /\ work[o].id \in rows
        /\ x.got = {} /\ x.base = items'
    BY <1>1, <1>6 DEF UploadAnswered, NewGeneration, Ask, TypeInv, TypeOK
  <2>2. items' \subseteq rows' \cup Gone'
    BY <1>3, <1>4, <1>5, <2>1
  <2> HIDE DEF o, x
  <2>3. rows \cup Gone \subseteq rows' \cup Gone' /\ current' \subseteq current \cup {o}
    BY <1>3, <1>4, <2>1
  <2> QED
    BY <1>1, <1>2, <2>1, <2>2, <2>3, KnownStays
<1>7. CASE ~UploadAnswered
  <2>1. current' \subseteq current /\ ~Fetching(x)
    <3>1. x = NoWork \/ x = [at |-> "sent"] \/ x = [at |-> "done", id |-> newest + 1]
      BY <1>1, <1>7 DEF StartUpload, ServeUpload, UploadFails, UploadUnlisted, UploadReloaded,
         UploadReloadFails, End, TypeInv, TypeOK
    <3>2. current' \subseteq current
      BY <1>7 DEF StartUpload, ServeUpload, UploadFails, UploadUnlisted, UploadReloaded,
         UploadReloadFails
    <3> QED
      BY <3>1, <3>2 DEF Fetching, NoWork
  <2>2. items' \subseteq rows \cup Gone
    <3>1. \/ items' = items
          \/ o \in current /\ work[o].at = "answered" /\ items' = work[o].base \cup work[o].got
      BY <1>7 DEF StartUpload, ServeUpload, UploadFails, UploadUnlisted, UploadReloaded,
         UploadReloadFails, IsCurrent, state
    <3> QED
      BY <1>5, <3>1 DEF KnownInv, Fetching
  <2> HIDE DEF o, x
  <2> QED
    BY <1>1, <1>2, <1>3, <1>4, <2>1, <2>2, KnownStays
<1> QED
  BY <1>6, <1>7

LEMMA DeleteKnown ==
  ASSUME TypeInv, KnownInv, ~missed', NEW a \in Ids,
         \/ StartDelete(a) \/ ServeDelete(a) \/ DeleteFails(a) \/ DeleteAnswered(a)
         \/ LeftDeleteFails(a) \/ DeleteReloaded(a) \/ DeleteReloadFails(a)
  PROVE  KnownInv'
<1> DEFINE o == Deletion(a)
           x == work'[o]
<1>1. o \in Ops /\ o # Load /\ \A b \in Ids : Deletion(b) = o => b = a
  BY OpsApart
<1>2. work' = [work EXCEPT ![o] = x]
  BY DEF StartDelete, ServeDelete, DeleteFails, DeleteAnswered, LeftDeleteFails, DeleteReloaded,
         DeleteReloadFails, End, Ask, TypeInv, TypeOK
<1>3. items \subseteq rows \cup Gone
  BY DEF KnownInv
<1>4. CASE DeleteAnswered(a)
  <2>1. /\ work[o].at = "done" /\ current' = {o} /\ items' = items \ {a} /\ rows' = rows
        /\ x.got = {} /\ x.base = {}
    BY <1>1, <1>4 DEF DeleteAnswered, NewGeneration, Ask, server, TypeInv, TypeOK
  <2>2. work'[Load] = NoWork
    BY <1>1, <1>2, <2>1, OneMoves, OpsApart DEF TypeInv, WorkInv
  <2>3. Gone \ {a} \subseteq Gone'
    <3>1. ASSUME NEW b \in Gone, b # a PROVE b \in Gone'
      <4>1. b \in Ids /\ work[Deletion(b)].at = "done" /\ Deletion(b) \in Ops /\ Deletion(b) # o
        BY <1>1, <3>1, OpsApart DEF Gone
      <4>2. work'[Deletion(b)] = work[Deletion(b)]
        BY <1>1, <1>2, <4>1, OneMoves
      <4> QED
        BY <4>1, <4>2 DEF Gone
    <3> QED
      BY <3>1
  <2>4. ~Fetching(NoWork)
    BY DEF Fetching, NoWork
  <2> QED
    BY <1>3, <2>1, <2>2, <2>3, <2>4 DEF KnownInv
<1>5. CASE ~DeleteAnswered(a)
  <2>1. current' \subseteq current /\ ~Fetching(x)
    <3>1. x = NoWork \/ x = [at |-> "sent"] \/ x = [at |-> "done", id |-> a]
      BY <1>1, <1>5 DEF StartDelete, ServeDelete, DeleteFails, LeftDeleteFails, DeleteReloaded,
         DeleteReloadFails, End, TypeInv, TypeOK
    <3>2. current' \subseteq current
      BY <1>5 DEF StartDelete, ServeDelete, DeleteFails, LeftDeleteFails, DeleteReloaded,
         DeleteReloadFails, server, state, history
    <3> QED
      BY <3>1, <3>2 DEF Fetching, NoWork
  <2>2. Gone \subseteq Gone'
    <3>1. work[o].at # "done"
      BY <1>5, WorkForms DEF StartDelete, ServeDelete, DeleteFails, LeftDeleteFails, DeleteReloaded,
         DeleteReloadFails
    <3> QED
      BY <1>1, <1>2, <3>1, GoneStays
  <2>3. rows \subseteq rows' \cup Gone'
    <3>1. CASE ServeDelete(a)
      <4>1. rows' = rows \ {a} /\ x.at = "done"
        BY <1>1, <3>1 DEF ServeDelete, TypeInv, TypeOK
      <4> QED
        BY <4>1 DEF Gone
    <3>2. CASE ~ServeDelete(a)
      BY <1>5, <3>2 DEF StartDelete, DeleteFails, LeftDeleteFails, DeleteReloaded,
         DeleteReloadFails, server
    <3> QED
      BY <3>1, <3>2
  <2>4. items' \subseteq rows \cup Gone
    <3>1. \/ items' \subseteq items
          \/ o \in current /\ work[o].at = "answered" /\ items' = work[o].got \ {a}
      BY <1>5 DEF StartDelete, ServeDelete, DeleteFails, LeftDeleteFails, DeleteReloaded,
         DeleteReloadFails, IsCurrent, state
    <3> QED
      BY <1>3, <3>1 DEF KnownInv, Fetching
  <2> HIDE DEF o, x
  <2> QED
    BY <1>1, <1>2, <2>1, <2>2, <2>3, <2>4, KnownStays
<1> QED
  BY <1>4, <1>5

LEMMA NextKnown ==
  TypeInv /\ (~missed => KnownInv) /\ [Next]_vars => (~missed' => KnownInv')
<1> SUFFICES ASSUME TypeInv, ~missed => KnownInv, [Next]_vars, ~missed' PROVE KnownInv'
  OBVIOUS
<1>1. CASE Reopen
  <2>1. work'[Load] = [at |-> "asked", page |-> 1, target |-> 1, got |-> {}, base |-> {}]
    BY <1>1, ReopenShape
  <2>2. items' = {} /\ current' = {} /\ work'[Load].got = {} /\ work'[Load].base = {}
    BY <1>1, <2>1 DEF Reopen, Empty
  <2> QED
    BY <2>2 DEF KnownInv
<1>2. ASSUME ~Reopen
      PROVE  ~missed
  BY <1>2 DEF Next, vars, LoadStep, MoreStep, UploadStep, DeleteStep, history, Retry, LoadMore,
     StartUpload, StartDelete, OthersDelete, OthersUpload, ServePage, LoadAnswered, LoadFails,
     MoreAnswered, MoreFails, ServeUpload, UploadFails, UploadAnswered, UploadUnlisted,
     UploadReloaded, UploadReloadFails, ServeDelete, DeleteFails, DeleteAnswered,
     LeftDeleteFails, DeleteReloaded, DeleteReloadFails
<1>3. ASSUME KnownInv, ~Reopen
      PROVE  KnownInv'
  <2>1. CASE UNCHANGED vars
    BY <1>3, <2>1 DEF vars, server, state, history, KnownInv, Gone
  <2>2. CASE LoadStep \/ Retry
    BY <1>3, <2>2, LoadKnown, ServePageKnown, OpsApart DEF LoadStep
  <2>3. ASSUME NEW s \in 1..MoreSlots, LoadMore(s) \/ MoreStep(s)
        PROVE  KnownInv'
    BY <1>3, <2>3, MoreKnown, ServePageKnown, OpsApart DEF MoreStep
  <2>4. CASE StartUpload \/ UploadStep
    BY <1>3, <2>4, UploadKnown, ServePageKnown, OpsApart DEF UploadStep
  <2>5. ASSUME NEW a \in Ids, StartDelete(a) \/ DeleteStep(a)
        PROVE  KnownInv'
    BY <1>3, <2>5, DeleteKnown, ServePageKnown, OpsApart DEF DeleteStep
  <2>6. CASE OthersUpload \/ \E a \in Ids : OthersDelete(a)
    BY <2>6 DEF OthersUpload, OthersDelete
  <2> QED
    BY <1>3, <2>1, <2>2, <2>3, <2>4, <2>5, <2>6 DEF Next
<1> QED
  BY <1>1, <1>2, <1>3
-----------------------------------------------------------------------------
LEMMA NothingToAnswer ==
  ASSUME NEW x, ~Fetching(x)
  PROVE  Exact(x) /\ PageExact(x) /\ ReloadExact(x)
BY DEF Fetching, Exact, PageExact, ReloadExact

\* A change that waits to be answered does so until it moves itself.
LEMMA PendingStays ==
  ASSUME TypeInv, NEW o \in Ops, NEW x, work' = [work EXCEPT ![o] = x],
         work[o].at # "done", ~Pending'
  PROVE  ~Pending
<1>1. Gone \subseteq Gone'
  BY GoneStays
<1>2. work[Upload].at = "done" => work'[Upload].at = "done"
  BY OneMoves, OpsApart
<1> QED
  BY <1>1, <1>2 DEF Pending

\* SyncInv survives when an operation moves on to x, if what x brings is right
\* and so is the list, unless a reload will replace it.
LEMMA SyncStays ==
  ASSUME TypeInv, SyncInv, NEW o \in Ops, NEW x, work' = [work EXCEPT ![o] = x],
         rows' = rows, current' \subseteq current \cup {o},
         o \in current' \cup {Load} => Exact(x),
         o = Load => PageExact(x),
         \A s \in 1..MoreSlots : o = More(s) => PageExact(x),
         o \in current' \cap Reloads => ReloadExact(x),
         (list = "ready" /\ current \cap Reloads = {} => ShownExact)'
  PROVE  SyncInv'
<1>1. \A p \in Ops : work'[p] = IF p = o THEN x ELSE work[p]
  BY OneMoves
<1>2. \A p \in current' \cup {Load} : Exact(work'[p])
  BY <1>1, Kinds DEF SyncInv
<1>3. PageExact(work'[Load])
  BY <1>1, Kinds DEF SyncInv
<1>4. \A s \in 1..MoreSlots : More(s) \in current' => PageExact(work'[More(s)])
  BY <1>1, Kinds DEF SyncInv
<1>5. \A p \in current' \cap Reloads : ReloadExact(work'[p])
  BY <1>1, Kinds DEF SyncInv
<1>6. /\ \A p \in current' \cup {Load} : Exact(work[p])'
      /\ PageExact(work[Load])'
      /\ \A s \in 1..MoreSlots : More(s) \in current' => PageExact(work[More(s)])'
      /\ \A p \in current' \cap Reloads : ReloadExact(work[p])'
  BY <1>2, <1>3, <1>4, <1>5, SameRows
<1> QED
  BY <1>6 DEF SyncInv, Reloads, Deletions

\* The list stays right when nothing of it changes and no reload that counted
\* is given up.
LEMMA ShownStays ==
  ASSUME SyncInv, rows' = rows, current' \subseteq current,
         UNCHANGED <<list, items, count, page, hasNext>>,
         current' \cap Reloads = {} => current \cap Reloads = {},
         \A s \in 1..MoreSlots : More(s) \in current' => work'[More(s)].page = work[More(s)].page
  PROVE  (list = "ready" /\ current \cap Reloads = {} => ShownExact)'
<1> SUFFICES ASSUME list' = "ready", current' \cap Reloads = {}
             PROVE  ShownExact'
  BY DEF Reloads, Deletions
<1>1. ShownExact
  BY DEF SyncInv
<1>2. /\ Top(page) \subseteq items /\ Gapless(items)
      /\ hasNext = HasNext(page) /\ count = Cardinality(rows)
      /\ \A s \in 1..MoreSlots : More(s) \in current' => Top(work'[More(s)].page - 1) \subseteq items
  BY <1>1 DEF ShownExact
<1> QED
  BY <1>2, SameRows DEF ShownExact

\* The ends of requests that leave the list as it is.
LEMMA QuietEnd ==
  ASSUME TypeInv, SyncInv, NEW o \in Ops \ {Load}, NEW x, work' = [work EXCEPT ![o] = x],
         ~Fetching(x), rows' = rows, current' = current \ {o}, o \in current => o \notin Reloads,
         UNCHANGED <<list, items, count, page, hasNext>>
  PROVE  SyncInv'
<1>1. \A p \in Ops : work'[p] = IF p = o THEN x ELSE work[p]
  BY OneMoves
<1>2. \A s \in 1..MoreSlots : More(s) \in current' => work'[More(s)].page = work[More(s)].page
  BY <1>1, Kinds
<1>3. (list = "ready" /\ current \cap Reloads = {} => ShownExact)'
  BY <1>2, ShownStays
<1>4. Exact(x) /\ PageExact(x) /\ ReloadExact(x)
  BY NothingToAnswer
<1> QED
  BY <1>3, <1>4, SyncStays

LEMMA ServePageSync ==
  ASSUME TypeInv, DepthInv, KnownInv, ~Pending => SyncInv, ~Pending',
         NEW o \in Ops, ServePage(o)
  PROVE  SyncInv'
<1> DEFINE w == work[o]
           x == work'[o]
           end == ~(w.page < w.target /\ HasNext(w.page))
<1>1. /\ w.at = "asked" /\ x.got = w.got \cup PageOf(w.page) /\ x.base = w.base
      /\ work' = [work EXCEPT ![o] = x]
      /\ UNCHANGED <<rows, list, items, count, page, hasNext, current>>
  BY DEF ServePage, server, state, TypeInv, TypeOK
<1>2. /\ ~end => x.at = "asked" /\ x.page = w.page + 1 /\ x.target = w.target
      /\ end => /\ x.at = "answered" /\ x.page = w.page
                /\ x.next = HasNext(w.page) /\ x.total = Cardinality(rows)
  BY DEF ServePage, TypeInv, TypeOK
<1>3. w.page \in Nat /\ w.target \in Nat
  BY <1>1, OpShape, WorkShape DEF Pages
<1>4. SyncInv /\ Gone = {}
  BY <1>1, PendingStays DEF Pending
<1>5. TypeOK
  BY DEF TypeInv
<1> HIDE DEF w, x, end
<1>6. Exact(x)
  BY <1>2 DEF Exact
<1>7. OnePage(w) => PageExact(x) /\ x.page = w.page /\ x.at = "answered"
  BY <1>1, <1>2, <1>3 DEF OnePage, PageExact, end
<1>8. OnePage(work[Load]) /\ \A s \in 1..MoreSlots : OnePage(work[More(s)])
  BY DEF DepthInv
<1>9. ASSUME o \in current \cap Reloads
      PROVE  ReloadExact(x)
  <2>1. w.page >= 1 /\ w.page <= w.target
    BY <1>1, <1>9 DEF DepthInv, ReloadFits, w
  <2>2. /\ w.got = Top(w.page - 1)
        /\ \A g \in rows \ w.base, y \in w.base : y < g => Rank(g) <= w.target * PageSize
    BY <1>1, <1>4, <1>9 DEF SyncInv, ReloadExact, w
  <2>3. x.got = Top(w.page)
    BY <1>1, <1>3, <1>5, <2>1, <2>2, PageByPage
  <2>4. w.base \subseteq rows
    BY <1>1, <1>4, <1>9 DEF KnownInv, Fetching, w
  <2>5. CASE ~end
    <3>1. x.at = "asked" /\ x.page - 1 = w.page /\ x.target = w.target
      BY <1>2, <1>3, <2>5
    <3> QED
      BY <1>1, <2>2, <2>3, <3>1 DEF ReloadExact
  <2>6. CASE end
    <3>1. w.page = w.target \/ ~HasNext(w.page)
      BY <1>3, <2>1, <2>6 DEF end
    <3>2. Gapless(w.base \cup Top(w.page))
      <4>1. CASE w.page = w.target
        BY <1>3, <1>5, <2>2, <2>4, <4>1, ReloadClosesGaps
      <4>2. CASE ~HasNext(w.page)
        BY <1>3, <1>5, <4>2, TopIsGapless DEF Gapless
      <4> QED
        BY <3>1, <4>1, <4>2
    <3> QED
      BY <1>1, <1>2, <2>3, <2>6, <3>2 DEF ReloadExact
  <2> QED
    BY <2>5, <2>6
<1>10. \A s \in 1..MoreSlots : o = More(s) => PageExact(x)
  BY <1>7, <1>8 DEF w
<1>11. o = Load => PageExact(x)
  BY <1>7, <1>8 DEF w
<1>12. \A s \in 1..MoreSlots : work'[More(s)].page = work[More(s)].page
  <2>1. \A p \in Ops : work'[p] = IF p = o THEN x ELSE work[p]
    BY <1>1 DEF TypeInv, TypeOK
  <2> QED
    BY <1>7, <1>8, <2>1, Kinds DEF w
<1>13. (list = "ready" /\ current \cap Reloads = {} => ShownExact)'
  BY <1>1, <1>4, <1>12, ShownStays
<1> QED
  BY <1>1, <1>4, <1>6, <1>9, <1>10, <1>11, <1>13, SyncStays

\* The list is right if it has the pages it counts and what lies between.
LEMMA ShownAnew ==
  ASSUME rows' = rows, Top(page') \subseteq items', Gapless(items'),
         hasNext' = HasNext(page'), count' = Cardinality(rows),
         \A s \in 1..MoreSlots : More(s) \in current' => Top(work'[More(s)].page - 1) \subseteq items'
  PROVE  ShownExact'
BY DEF ShownExact, Top, HasNext, Gapless, Rank

LEMMA LoadSync ==
  ASSUME TypeInv, DepthInv, ~Pending => SyncInv, ~Pending',
         LoadAnswered \/ LoadFails \/ Retry
  PROVE  SyncInv'
<1> DEFINE x == IF Retry THEN [at |-> "asked", page |-> 1, target |-> 1, got |-> {}, base |-> {}]
                ELSE NoWork
<1>1. Load \in Ops /\ Load \notin Reloads
  BY Kinds
<1>2. work' = [work EXCEPT ![Load] = x] /\ work[Load].at # "done"
  <2>1. CASE Retry
    BY <2>1, WorkForms DEF Retry, Ask, TypeInv, WorkInv
  <2>2. CASE ~Retry
    BY <2>2 DEF LoadAnswered, LoadFails, End
  <2> QED
    BY <2>1, <2>2
<1>3. x.at # "answered" /\ Exact(x) /\ PageExact(x)
  BY WorkForms DEF Exact, PageExact
<1> HIDE DEF x
<1>4. SyncInv
  BY <1>1, <1>2, PendingStays
<1>5. rows' = rows /\ current' \subseteq current
  BY DEF LoadAnswered, LoadFails, Retry, server
<1>6. ASSUME list' = "ready"
      PROVE  ShownExact'
  <2>1. LoadAnswered
    BY <1>6 DEF LoadFails, Retry
  <2>2. list = "loading" /\ current = {}
    BY <2>1, WorkForms DEF LoadAnswered, TypeInv, WorkInv, DepthInv
  <2>3. /\ items' = work[Load].got /\ count' = work[Load].total /\ page' = 1
        /\ hasNext' = work[Load].next /\ work[Load].at = "answered" /\ current' = {}
    BY <2>1, <2>2 DEF LoadAnswered
  <2>4. work[Load].page = 1
    BY <2>3, WorkForms DEF DepthInv
  <2>5. /\ work[Load].got = PageOf(1) /\ work[Load].next = HasNext(1)
        /\ work[Load].total = Cardinality(rows)
    BY <1>4, <2>3, <2>4 DEF SyncInv, Exact, PageExact
  <2>6. PageOf(1) = Top(1) /\ Gapless(Top(1))
    BY PageByPage, TopIsGapless DEF TypeInv
  <2> QED
    BY <1>5, <2>3, <2>5, <2>6, ShownAnew
<1>7. (list = "ready" /\ current \cap Reloads = {} => ShownExact)'
  BY <1>6
<1> QED
  BY <1>1, <1>2, <1>3, <1>4, <1>5, <1>7, Kinds, SyncStays

LEMMA MoreSync ==
  ASSUME TypeInv, DepthInv, ~Pending => SyncInv, ~Pending', NEW s \in 1..MoreSlots,
         LoadMore(s) \/ MoreAnswered(s) \/ MoreFails(s)
  PROVE  SyncInv'
<1> DEFINE o == More(s)
<1>1. o \in Ops /\ o # Load /\ o \notin Reloads /\ page \in Nat
  BY Kinds
<1>2. TypeOK
  BY DEF TypeInv
<1> HIDE DEF o
<1>3. CASE LoadMore(s)
  <2> DEFINE x == [at |-> "asked", page |-> page + 1, target |-> page + 1, got |-> {}, base |-> {}]
  <2>1. /\ work[o] = NoWork /\ list = "ready"
        /\ work' = [work EXCEPT ![o] = x] /\ current' = current \cup {o}
        /\ UNCHANGED <<rows, items, count, page, hasNext>>
    BY <1>3 DEF LoadMore, Ask, o, server
  <2>2. Exact(x) /\ PageExact(x) /\ x.page - 1 = page
    BY <1>1 DEF Exact, PageExact
  <2> HIDE DEF x
  <2>3. SyncInv
    BY <1>1, <2>1, PendingStays, WorkForms
  <2>4. \A p \in Ops : work'[p] = IF p = o THEN x ELSE work[p]
    BY <1>1, <2>1, OneMoves
  <2>5. ASSUME current' \cap Reloads = {}
        PROVE  ShownExact'
    <3>1. ShownExact
      BY <2>1, <2>3, <2>5 DEF SyncInv
    <3>2. ASSUME NEW t \in 1..MoreSlots, More(t) \in current'
          PROVE  Top(work'[More(t)].page - 1) \subseteq items'
      BY <1>1, <2>1, <2>2, <2>4, <3>1, <3>2, Kinds DEF ShownExact
    <3> QED
      BY <2>1, <3>1, <3>2, ShownAnew DEF ShownExact
  <2>6. (list = "ready" /\ current \cap Reloads = {} => ShownExact)'
    BY <2>5 DEF Reloads, Deletions
  <2> QED
    BY <1>1, <2>1, <2>2, <2>3, <2>6, SyncStays
<1>4. CASE MoreAnswered(s) \/ MoreFails(s)
  <2>1. /\ work' = [work EXCEPT ![o] = NoWork] /\ current' = current \ {o}
        /\ rows' = rows /\ list' = list /\ work[o].at # "done"
    BY <1>4 DEF MoreAnswered, MoreFails, End, o, server
  <2>2. SyncInv /\ ~Fetching(NoWork)
    BY <1>1, <2>1, PendingStays DEF Fetching, NoWork
  <2>3. CASE MoreAnswered(s) /\ o \in current
    <3>1. /\ work[o].at = "answered" /\ items' = items \cup work[o].got
          /\ count' = work[o].total /\ page' = work[o].page /\ hasNext' = work[o].next
      BY <2>3 DEF MoreAnswered, IsCurrent, o
    <3>2. list = "ready" /\ work[o].page >= 1 /\ work[o].page \in Nat
      BY <1>1, <2>3, <3>1, OpShape, WorkShape DEF DepthInv, Pages
    <3>3. /\ work[o].got = PageOf(work[o].page) /\ work[o].next = HasNext(work[o].page)
          /\ work[o].total = Cardinality(rows)
      BY <2>2, <2>3, <3>1 DEF SyncInv, Exact, PageExact, o
    <3>4. ASSUME current' \cap Reloads = {}
          PROVE  ShownExact'
      <4>1. ShownExact
        BY <1>1, <2>1, <2>2, <3>2, <3>4 DEF SyncInv
      <4>2. Gapless(items') /\ Top(page') \subseteq items'
        BY <1>2, <2>3, <3>1, <3>2, <3>3, <4>1, NextPageFits DEF ShownExact, o
      <4>3. ASSUME NEW t \in 1..MoreSlots, More(t) \in current'
            PROVE  Top(work'[More(t)].page - 1) \subseteq items'
        <5>1. work'[More(t)] = work[More(t)] /\ More(t) \in current
          BY <1>1, <2>1, <4>3, OneMoves, Kinds
        <5> QED
          BY <3>1, <4>1, <5>1 DEF ShownExact
      <4> QED
        BY <2>1, <3>1, <3>3, <4>2, <4>3, ShownAnew
    <3>5. (list = "ready" /\ current \cap Reloads = {} => ShownExact)'
      BY <3>4 DEF Reloads, Deletions
    <3>6. Exact(NoWork) /\ PageExact(NoWork) /\ current' \subseteq current \cup {o}
      BY <2>1, <2>2, NothingToAnswer
    <3> QED
      BY <1>1, <2>1, <2>2, <3>5, <3>6, SyncStays
  <2>4. CASE ~(MoreAnswered(s) /\ o \in current)
    <3>1. UNCHANGED <<items, count, page, hasNext>>
      BY <1>4, <2>4 DEF MoreAnswered, MoreFails, IsCurrent, o, state
    <3> QED
      BY <1>1, <2>1, <2>2, <3>1, QuietEnd
  <2> QED
    BY <2>3, <2>4
<1> QED
  BY <1>3, <1>4

\* An answered change leaves its reload as the only operation that counts.
LEMMA SyncRestarts ==
  ASSUME TypeInv, NEW o \in Reloads, NEW x, work' = [work EXCEPT ![o] = x],
         rows' = rows, list = "ready", current' = {o}, x.at = "asked", ReloadExact(x)
  PROVE  SyncInv'
<1>1. o \in Ops /\ o # Load /\ Load \in Ops /\ \A s \in 1..MoreSlots : More(s) # o
  BY Kinds
<1>2. work'[o] = x /\ work'[Load] = work[Load]
  <2>1. \A p \in Ops : work'[p] = IF p = o THEN x ELSE work[p]
    BY <1>1 DEF TypeInv, TypeOK
  <2> QED
    BY <1>1, <2>1
<1>3. work'[Load].at # "answered"
  BY <1>2, WorkForms DEF TypeInv, WorkInv
<1>4. \A p \in current' \cup {Load} : Exact(work[p])'
  BY <1>2, <1>3 DEF Exact
<1>5. PageExact(work[Load])' /\ \A s \in 1..MoreSlots : More(s) \notin current'
  BY <1>1, <1>3 DEF PageExact
<1>6. \A p \in current' \cap Reloads : ReloadExact(work[p])'
  BY <1>2, SameRows
<1> QED
  BY <1>4, <1>5, <1>6 DEF SyncInv, Reloads, Deletions

\* While there is no list and no answer for it, nothing can be wrong with it.
LEMMA SyncUnlisted ==
  ASSUME current' = {}, list' # "ready", work'[Load].at # "answered"
  PROVE  SyncInv'
BY DEF SyncInv, Exact, PageExact

LEMMA UploadSync ==
  ASSUME TypeInv, DepthInv, KnownInv, ~Pending => SyncInv, ~Pending', ~missed',
         \/ StartUpload \/ ServeUpload \/ UploadFails \/ UploadAnswered \/ UploadUnlisted
         \/ UploadReloaded \/ UploadReloadFails
  PROVE  SyncInv'
<1> DEFINE o == Upload
<1>1. o \in Ops \ {Load} /\ o \in Reloads /\ Load \in Ops /\ page \in Nat
  BY Kinds
<1>2. TypeOK
  BY DEF TypeInv
<1>3. work[o].at \in {"none", "sent", "done"} => o \notin current
  BY DEF DepthInv, Fetching
<1>4. ~Fetching(NoWork) /\ ~Fetching([at |-> "sent"]) /\ NoWork.at = "none"
  BY DEF Fetching, NoWork
<1> HIDE DEF o
<1>5. CASE StartUpload \/ UploadFails \/ UploadReloadFails \/ (UploadReloaded /\ o \notin current)
  <2> DEFINE x == IF StartUpload THEN [at |-> "sent"] ELSE NoWork
  <2>1. work' = [work EXCEPT ![o] = x]
    <3>1. CASE StartUpload
      BY <3>1 DEF StartUpload, o
    <3>2. CASE ~StartUpload
      BY <1>5, <3>2 DEF UploadFails, UploadReloadFails, UploadReloaded, End, o
    <3> QED
      BY <3>1, <3>2
  <2>2. ~Fetching(x)
    BY <1>4
  <2> HIDE DEF x
  <2>3. o \notin current /\ work[o].at # "done"
    BY <1>3, <1>4, <1>5 DEF StartUpload, UploadFails, UploadReloadFails, UploadReloaded,
       IsCurrent, o
  <2>4. current' = current \ {o} /\ UNCHANGED <<rows, list, items, count, page, hasNext>>
    BY <1>5, <2>3 DEF StartUpload, UploadFails, UploadReloadFails, UploadReloaded, IsCurrent,
       server, state, o
  <2>5. SyncInv
    BY <1>1, <2>1, <2>3, PendingStays
  <2> QED
    BY <1>1, <2>1, <2>2, <2>3, <2>4, <2>5, QuietEnd
<1>6. CASE ServeUpload
  <2>1. work'[o].at = "done"
    BY <1>1, <1>6 DEF ServeUpload, TypeInv, TypeOK, o
  <2> QED
    BY <2>1 DEF Pending, o
<1>7. CASE UploadUnlisted
  <2>1. list' # "ready" /\ current' = {} /\ work' = [work EXCEPT ![o] = NoWork]
        /\ work[Load] = NoWork
    BY <1>7 DEF UploadUnlisted, DepthInv, TypeInv, WorkInv, TypeOK, End, o
  <2>2. work'[Load].at # "answered"
    BY <1>1, <1>4, <2>1, OneMoves
  <2> QED
    BY <2>1, <2>2, SyncUnlisted
<1>8. CASE UploadAnswered
  <2> DEFINE shown == items \cup {work[o].id}
             x == [at |-> "asked", page |-> 1, target |-> page, got |-> {}, base |-> shown]
  <2>1. /\ list = "ready" /\ current' = {o} /\ rows' = rows /\ ~KeepsGap(shown)
        /\ work' = [work EXCEPT ![o] = x]
    BY <1>8 DEF UploadAnswered, NewGeneration, Ask, server, o
  <2> HIDE DEF shown
  <2>2. /\ x.at = "asked" /\ x.page - 1 = 0 /\ x.target = page /\ x.got = {} /\ x.base = shown
    OBVIOUS
  <2> HIDE DEF x
  <2>3. Top(0) = {}
    BY <1>2, PageByPage
  <2>4. ASSUME NEW g \in rows \ shown, NEW y \in shown, y < g
        PROVE  Rank(g) <= page * PageSize
    <3>1. ~(Rank(g) > page * PageSize)
      BY <2>1, <2>4 DEF KeepsGap
    <3>2. Rank(g) \in Nat /\ page * PageSize \in Nat
      BY <1>1, <1>2, Ranks, Products, FS_CardinalityType
    <3> QED
      BY <3>1, <3>2
  <2>5. ReloadExact(x)
    BY <2>2, <2>3, <2>4 DEF ReloadExact
  <2> QED
    BY <1>1, <2>1, <2>2, <2>5, SyncRestarts
<1>9. CASE UploadReloaded /\ o \in current
  <2> DEFINE w == work[o]
             merged == w.base \cup w.got
  <2>1. /\ w.at = "answered" /\ items' = merged /\ page' = w.page /\ hasNext' = w.next
        /\ count' = IF w.total < Cardinality(merged) THEN Cardinality(merged) ELSE w.total
        /\ ~Overtaken(w) /\ rows' = rows /\ list' = list
        /\ work' = [work EXCEPT ![o] = NoWork] /\ current' = current \ {o}
    BY <1>9 DEF UploadReloaded, IsCurrent, End, server, o
  <2>2. SyncInv /\ Gone = {}
    BY <1>1, <2>1, PendingStays DEF Pending
  <2>3. /\ w.got = Top(w.page) /\ Gapless(merged) /\ w.next = HasNext(w.page)
        /\ w.total = Cardinality(rows)
    BY <1>1, <1>9, <2>1, <2>2 DEF SyncInv, ReloadExact, Exact
  <2>4. merged \subseteq rows
    BY <1>9, <2>1, <2>2 DEF KnownInv, Fetching
  <2>5. w.page \in Nat /\ w.page <= page
    <3>1. ReloadFits(o)
      BY <1>1, <1>9 DEF DepthInv
    <3> QED
      BY <1>1, <2>1, <3>1, OpShape, WorkShape DEF ReloadFits, Pages
  <2> HIDE DEF w, merged
  <2>6. count' = Cardinality(rows)
    <3>1. Cardinality(merged) \in Nat /\ Cardinality(rows) \in Nat
          /\ Cardinality(merged) <= Cardinality(rows)
      BY <1>2, <2>4, Ranks, FS_Subset, FS_CardinalityType
    <3> QED
      BY <2>1, <2>3, <3>1
  <2>7. ASSUME NEW s \in 1..MoreSlots, More(s) \in current'
        PROVE  Top(work'[More(s)].page - 1) \subseteq items'
    <3>1. More(s) \in current /\ work'[More(s)] = work[More(s)]
      BY <1>1, <2>1, <2>7, OneMoves, Kinds
    <3>2. work[More(s)].page = page + 1
      BY <1>1, <1>9, <3>1 DEF DepthInv, ReloadFits
    <3>3. ~(w.page < page)
      BY <2>1, <3>1 DEF Overtaken, IsCurrent
    <3>4. work'[More(s)].page - 1 = w.page
      BY <1>1, <2>5, <3>1, <3>2, <3>3
    <3> QED
      BY <2>1, <2>3, <3>4 DEF merged
  <2>8. ShownExact'
    <3>1. Top(page') \subseteq items' /\ Gapless(items') /\ hasNext' = HasNext(page')
      BY <2>1, <2>3 DEF merged
    <3> QED
      BY <2>1, <2>6, <2>7, <3>1, ShownAnew
  <2>9. Exact(NoWork) /\ PageExact(NoWork) /\ ReloadExact(NoWork)
    BY <1>4, NothingToAnswer
  <2>10. (list = "ready" /\ current \cap Reloads = {} => ShownExact)'
    BY <2>8
  <2> QED
    BY <1>1, <2>1, <2>2, <2>9, <2>10, SyncStays
<1> QED
  BY <1>5, <1>6, <1>7, <1>8, <1>9

LEMMA DeleteSync ==
  ASSUME TypeInv, DeletionInv, DepthInv, KnownInv, ~Pending => SyncInv, ~Pending', ~missed',
         NEW a \in Ids,
         \/ StartDelete(a) \/ ServeDelete(a) \/ DeleteFails(a) \/ DeleteAnswered(a)
         \/ LeftDeleteFails(a) \/ DeleteReloaded(a) \/ DeleteReloadFails(a)
  PROVE  SyncInv'
<1> DEFINE o == Deletion(a)
<1>1. o \in Ops \ {Load} /\ o \in Reloads /\ Load \in Ops /\ page \in Nat
  BY Kinds, OpsApart
<1>2. TypeOK
  BY DEF TypeInv
<1>3. work[o].at \in {"none", "sent", "left", "done"} => o \notin current
  BY DEF DepthInv, Fetching
<1>4. ~Fetching(NoWork) /\ ~Fetching([at |-> "sent"]) /\ NoWork.at = "none"
  BY DEF Fetching, NoWork
<1>5. Fetching(work[o]) => a \notin rows
  BY DEF DepthInv, DeletionInv
<1> HIDE DEF o
<1>6. CASE \/ StartDelete(a) \/ DeleteFails(a) \/ LeftDeleteFails(a) \/ DeleteReloadFails(a)
           \/ DeleteReloaded(a) /\ o \notin current
  <2> DEFINE x == IF StartDelete(a) THEN [at |-> "sent"] ELSE NoWork
  <2>1. work' = [work EXCEPT ![o] = x]
    <3>1. CASE StartDelete(a)
      BY <3>1 DEF StartDelete, o
    <3>2. CASE ~StartDelete(a)
      BY <1>6, <3>2 DEF DeleteFails, LeftDeleteFails, DeleteReloadFails, DeleteReloaded, End, o
    <3> QED
      BY <3>1, <3>2
  <2>2. ~Fetching(x)
    BY <1>4
  <2> HIDE DEF x
  <2>3. o \notin current /\ work[o].at # "done"
    BY <1>3, <1>4, <1>6 DEF StartDelete, DeleteFails, LeftDeleteFails, DeleteReloadFails,
       DeleteReloaded, IsCurrent, o
  <2>4. ~Pending
    BY <1>1, <2>1, <2>3, PendingStays
  <2>5. items' = items
    <3>1. Fetching(work[o]) => a \notin items
      BY <1>5, <2>4 DEF KnownInv, Pending
    <3>2. items' = items \/ (Fetching(work[o]) /\ items' = items \ {a})
      BY <1>6 DEF StartDelete, DeleteFails, LeftDeleteFails, DeleteReloadFails,
         DeleteReloaded, IsCurrent, Fetching, state, o
    <3> QED
      BY <3>1, <3>2
  <2>6. current' = current \ {o} /\ UNCHANGED <<rows, list, count, page, hasNext>>
    BY <1>6, <2>3 DEF StartDelete, DeleteFails, LeftDeleteFails, DeleteReloadFails,
       DeleteReloaded, IsCurrent, server, state, o
  <2> QED
    BY <1>1, <2>1, <2>2, <2>3, <2>4, <2>5, <2>6, QuietEnd
<1>7. CASE ServeDelete(a)
  <2>1. work'[o].at = "done"
    BY <1>1, <1>7 DEF ServeDelete, TypeInv, TypeOK, o
  <2> QED
    BY <2>1 DEF Pending, Gone, o
<1>8. CASE DeleteAnswered(a)
  <2> DEFINE x == [at |-> "asked", page |-> 1, target |-> page, got |-> {}, base |-> {}]
  <2>1. /\ work[o].at = "done" /\ current' = {o} /\ rows' = rows
        /\ work' = [work EXCEPT ![o] = x]
    BY <1>8 DEF DeleteAnswered, NewGeneration, Ask, server, o
  <2>2. list = "ready"
    BY <2>1 DEF TypeInv, WorkInv, o
  <2>3. Top(0) = {} /\ x.at = "asked" /\ x.page - 1 = 0
    BY <1>2, PageByPage
  <2>4. ReloadExact(x)
    BY <2>3 DEF ReloadExact
  <2> QED
    BY <1>1, <2>1, <2>2, <2>3, <2>4, SyncRestarts
<1>9. CASE DeleteReloaded(a) /\ o \in current
  <2> DEFINE w == work[o]
  <2>1. /\ w.at = "answered" /\ items' = w.got \ {a} /\ page' = w.page /\ hasNext' = w.next
        /\ count' = w.total
        /\ ~Overtaken(w) /\ rows' = rows /\ list' = list
        /\ work' = [work EXCEPT ![o] = NoWork] /\ current' = current \ {o}
    BY <1>9 DEF DeleteReloaded, IsCurrent, End, server, o
  <2>2. SyncInv
    BY <1>1, <2>1, PendingStays
  <2>3. w.got = Top(w.page) /\ w.next = HasNext(w.page) /\ w.total = Cardinality(rows)
    BY <1>1, <1>9, <2>1, <2>2 DEF SyncInv, ReloadExact, Exact
  <2>4. w.page \in Nat /\ w.page <= page
    <3>1. ReloadFits(o)
      BY <1>1, <1>9 DEF DepthInv
    <3> QED
      BY <1>1, <2>1, <3>1, OpShape, WorkShape DEF ReloadFits, Pages
  <2>5. items' = Top(w.page) /\ Gapless(items')
    <3>1. a \notin rows
      BY <1>5, <2>1 DEF Fetching
    <3> HIDE DEF w
    <3>2. a \notin Top(w.page) /\ Gapless(Top(w.page))
      BY <1>2, <2>4, <3>1, TopIsGapless DEF Top
    <3>3. items' = Top(w.page)
      BY <2>1, <2>3, <3>2
    <3> QED
      BY <3>2, <3>3
  <2> HIDE DEF w
  <2>6. ASSUME NEW s \in 1..MoreSlots, More(s) \in current'
        PROVE  Top(work'[More(s)].page - 1) \subseteq items'
    <3>1. More(s) \in current /\ work'[More(s)] = work[More(s)]
      BY <1>1, <2>1, <2>6, OneMoves, Kinds
    <3>2. work[More(s)].page = page + 1
      BY <1>1, <1>9, <3>1 DEF DepthInv, ReloadFits
    <3>3. ~(w.page < page)
      BY <2>1, <3>1 DEF Overtaken, IsCurrent
    <3>4. work'[More(s)].page - 1 = w.page
      BY <1>1, <2>4, <3>1, <3>2, <3>3
    <3> QED
      BY <2>5, <3>4
  <2>7. ShownExact'
    <3>1. Top(page') \subseteq items' /\ hasNext' = HasNext(page') /\ count' = Cardinality(rows)
      BY <2>1, <2>3, <2>5
    <3> QED
      BY <2>1, <2>5, <2>6, <3>1, ShownAnew
  <2>8. Exact(NoWork) /\ PageExact(NoWork) /\ ReloadExact(NoWork)
    BY <1>4, NothingToAnswer
  <2>9. (list = "ready" /\ current \cap Reloads = {} => ShownExact)'
    BY <2>7
  <2> QED
    BY <1>1, <2>1, <2>2, <2>8, <2>9, SyncStays
<1> QED
  BY <1>6, <1>7, <1>8, <1>9

\* What is right stays right, or is asked for again, or the step missed a change.
LEMMA NextSync ==
  IInv /\ CompleteInv /\ [Next]_vars => (~missed' /\ ~Pending' => SyncInv')
<1> SUFFICES ASSUME TypeInv, DeletionInv, CompleteInv, [Next]_vars, ~missed', ~Pending'
             PROVE  SyncInv'
  BY DEF IInv
<1>1. CASE Reopen
  <2>1. work'[Load] = [at |-> "asked", page |-> 1, target |-> 1, got |-> {}, base |-> {}]
        /\ list' = "loading" /\ current' = {}
    BY <1>1, ReopenShape DEF Reopen
  <2> QED
    BY <2>1, SyncUnlisted
<1>2. ASSUME ~Reopen
      PROVE  DepthInv /\ KnownInv /\ (~Pending => SyncInv)
  <2>1. ~missed
    BY <1>2 DEF Next, vars, LoadStep, MoreStep, UploadStep, DeleteStep, history, Retry, LoadMore,
       StartUpload, StartDelete, OthersDelete, OthersUpload, ServePage, LoadAnswered, LoadFails,
       MoreAnswered, MoreFails, ServeUpload, UploadFails, UploadAnswered, UploadUnlisted,
       UploadReloaded, UploadReloadFails, ServeDelete, DeleteFails, DeleteAnswered,
       LeftDeleteFails, DeleteReloaded, DeleteReloadFails
  <2> QED
    BY <2>1 DEF CompleteInv
<1>3. ASSUME DepthInv, KnownInv, ~Pending => SyncInv, ~Reopen
      PROVE  SyncInv'
  <2>1. CASE UNCHANGED vars
    <3>1. UNCHANGED <<rows, list, items, count, page, hasNext, work, current>>
      BY <2>1 DEF vars, server, state
    <3>2. SyncInv
      BY <1>3, <3>1 DEF Pending, Gone
    <3> QED
      BY <3>1, <3>2, SameRows DEF SyncInv, ShownExact, Reloads, Deletions
  <2>2. CASE LoadStep \/ Retry
    BY <1>3, <2>2, LoadSync, ServePageSync, OpsApart DEF LoadStep
  <2>3. ASSUME NEW s \in 1..MoreSlots, LoadMore(s) \/ MoreStep(s)
        PROVE  SyncInv'
    BY <1>3, <2>3, MoreSync, ServePageSync, OpsApart DEF MoreStep
  <2>4. CASE StartUpload \/ UploadStep
    BY <1>3, <2>4, UploadSync, ServePageSync, OpsApart DEF UploadStep
  <2>5. ASSUME NEW a \in Ids, StartDelete(a) \/ DeleteStep(a)
        PROVE  SyncInv'
    BY <1>3, <2>5, DeleteSync, ServePageSync, OpsApart DEF DeleteStep
  <2>6. CASE OthersUpload \/ \E a \in Ids : OthersDelete(a)
    BY <2>6 DEF OthersUpload, OthersDelete
  <2> QED
    BY <1>3, <2>1, <2>2, <2>3, <2>4, <2>5, <2>6 DEF Next
<1> QED
  BY <1>1, <1>2, <1>3

LEMMA InitComplete == Init => CompleteInv
<1> SUFFICES ASSUME Init PROVE KnownInv /\ SyncInv
  BY InitDepth DEF CompleteInv
<1>1. /\ work[Load] = [at |-> "asked", page |-> 1, target |-> 1, got |-> {}, base |-> {}]
      /\ items = {} /\ current = {} /\ list = "loading"
  BY OpsApart DEF Init
<1> QED
  BY <1>1 DEF KnownInv, SyncInv, Exact, PageExact

LEMMA NextComplete == IInv /\ CompleteInv /\ [Next]_vars => CompleteInv'
BY NextDepth, NextKnown, NextSync DEF IInv, CompleteInv

\* With nothing under way no operation counts and no change waits.
LEMMA QuietIsComplete == TypeInv /\ CompleteInv => ListIsComplete
<1> SUFFICES ASSUME TypeInv, CompleteInv, list = "ready", ~missed,
                    \A o \in Ops : work[o] = NoWork
             PROVE  /\ items \subseteq rows
                    /\ \A x \in rows \ items, y \in items : x < y
                    /\ \A n \in 1..page : PageOf(n) \subseteq items
                    /\ items # rows => hasNext
                    /\ count = Cardinality(rows)
  BY DEF ListIsComplete
<1>1. NoWork.at = "none" /\ TypeOK /\ page \in Nat
  BY WorkForms, Kinds DEF TypeInv
<1>2. ~Pending /\ Gone = {}
  BY <1>1, OpsApart DEF Pending, Gone
<1>3. KnownInv /\ SyncInv /\ DepthInv
  BY <1>2 DEF CompleteInv
<1>4. current = {}
  BY <1>1, <1>3, Kinds DEF DepthInv, Fetching
<1>5. items \subseteq rows
  BY <1>2, <1>3 DEF KnownInv
<1>6. /\ Top(page) \subseteq items /\ Gapless(items)
      /\ hasNext = HasNext(page) /\ count = Cardinality(rows)
  BY <1>3, <1>4 DEF SyncInv, ShownExact
<1>7. items # rows => hasNext
  BY <1>1, <1>5, <1>6, RestIsLoadable
<1>8. \A n \in 1..page : PageOf(n) \subseteq items
  BY <1>1, <1>6, PageByPage
<1> QED
  BY <1>5, <1>6, <1>7, <1>8 DEF Gapless

\* However uploads, deletions, reloads and further pages overlap: once nothing is
\* under way and no change was missed, the list shows the newest rows without a
\* gap, offers the rest and counts them all.
THEOREM ListStaysComplete == Spec => []ListIsComplete
<1>1. Init => IInv /\ CompleteInv
  BY InitTypes, InitForgets, InitComplete DEF IInv
<1>2. IInv /\ CompleteInv /\ [Next]_vars => (IInv /\ CompleteInv)'
  BY NextTypes, NextForgets, NextComplete DEF IInv
<1>3. IInv /\ CompleteInv => ListIsComplete
  BY QuietIsComplete DEF IInv
<1> QED
  BY <1>1, <1>2, <1>3, PTL DEF Spec
=============================================================================
