# Formal models of the employee management system

The repository holds an internal employee directory: a Django 5 modular monolith
(`src/backend`, PostgreSQL, Redis as cache) and a Flutter client for Windows and
Android (`src/apps/employee_app`). This directory specifies the parts of it in which
the order of steps decides whether the result is right, model-checks them with TLC
and proves with TLAPS, for every value of the constants, what the runs check of safety.

    tlc -config session_all.cfg MCSessionAuthority.tla     # any run of PROJECT.json
    tlapm SessionAuthorityProofs.tla

## Inventory

| Component | State it keeps | Operations | Interacts with |
|---|---|---|---|
| Session authority (`accounts/sessions.py`, `tokens.py`, `authentication.py`, views) | `AccountSession` rows (owner, revoked_at/reason, expires_at, current_refresh_jti), simplejwt's outstanding and blacklisted tokens | login, refresh rotation, request authentication, revoke one / others, logout, logout-all, expiry | every account operation ends sessions through it |
| Accounts and invitations (`account_services.py`, `invitation_services.py`) | `User`, `AccountInvitation` (state, code digest, expiry) | invite, resend, revoke, lapse, accept; activate, deactivate, change role, change email | employee rows, sessions, mail, audit |
| Employment (`employees/services.py`) | `Employee` (department, position, status, user, manager) | create, update, depart, reactivate | accounts, directory, audit |
| Directory (`organizations/`) | `Department` (parent, status), `Position` (department, status) | create, move, activate, deactivate, the tree | employees |
| Passwords and limits (`password_services.py`, `security_tokens.py`, `throttles.py`) | `PasswordResetChallenge`, counters in the cache | request, confirm, change; consume | sessions, mail |
| Attachments (`employees/attachments/`) | `EmployeeAttachment` rows and files in the storage | upload, download, soft delete | storage, audit |
| Audit log, archive, retention (`audit/`) | `AuditEvent`, `AuditArchiveBatch`, archive and manifest files | record, export, archive, verify, report | every writing operation |
| Roles, notifications, common (search, statistics, paging, health) | groups; nothing | checks and reads | all |
| Client transport and session (`core/network`, `core/storage`, `features/authentication`) | two stored tokens, one refresh in flight | attach, refresh once, repeat, lose authentication | the session endpoints |
| Client controllers (attachments, upload, employee directory, accounts) | the state of a screen and a request generation | load, page, delete, download, cancel | repositories |
| Android document saver (Kotlin) | one pending save, a writing thread | save, picker's answer, dispose | Flutter's method channel |

What makes it hard: PostgreSQL runs READ COMMITTED and the requests do not run in one
transaction (`ATOMIC_REQUESTS` is off). A handler reads some rows before its
transaction (the serializer's instances, the authentication), locks some with
`select_for_update`, and reads others without a lock; whatever is read without the lock
can be stale when it is used. The archive command works with queries, files and renames
that no transaction holds together. The client has answers that arrive after the
situation in which they were asked for is over.

What makes each part correct:

- Sessions: one usable refresh token per live session, none for a revoked one; no token
  redeemed twice; a revocation is final; a security event ends all earlier sessions (a departure
  all but those inserted while it is in its transaction, see Divergences).
- Accounts: one account per employee, created by exactly one accepted invitation; an open
  invitation has an employee who has no account yet; departure closes the account.
- Directory: position and employee agree on the department; people in service work in
  active units; the department tree has no cycle.
- Archive: what is published verifies, at any time and after any crash; a completed batch
  is a snapshot; the retention report overlooks nothing.
- One-time codes: one working code per holder, redeemed at most once, nothing that was
  replaced works again; the newest mail wins; a key stays as long as a valid code needs it.
- Attachments: a row keeps the file its upload sent; a file without a row is what a failed
  request left behind; a deletion is recorded once.
- Client: no refresh token is presented twice, the stored tokens belong to the user shown,
  every call and every logout ends unless its own repetition fails; a list stays complete and
  free of what was deleted.

## Modules

| Module | Models | Checked by |
|---|---|---|
| `RefreshChain` | abstract specification: a session opens with a bearer token, hands it on, closes for good | implemented by `SessionAuthority`, used by `ClientSession` as its server |
| `SessionAuthority` (`MCSessionAuthority`) | sessions, tokens, account events | `session_all`, `session_api`; `SessionAuthorityProofs` |
| `OneTimeCode` | abstract specification: a holder's one working code, issued, withdrawn, redeemed once | implemented by `PasswordReset` and `Personnel` |
| `PasswordReset` (`MCPasswordReset`) | limiter, challenges, mail, confirmation, key rotation | `password_reset`; `PasswordResetProofs` |
| `Personnel` (`MCPersonnel`) | invitations, accounts, employment | `personnel`, `personnel_depart`; `PersonnelProofs` |
| `PersonnelHistory` | `Personnel` with a record of what overlapped a departure | the same |
| `Directory` (`MCDirectory`) | departments, positions, employees in them, edit forms, the tree | `directory`, `directory_cycle`; `DirectoryProofs` |
| `DirectoryHistory` | `Directory` with a record of overlapping moves | the same |
| `AuditArchive` (`MCAuditArchive`) | the log, archive batches and their files, the report | `archive`; `AuditArchiveProofs` |
| `AttachmentStore` (`MCAttachmentStore`) | rows and files of attachments, permissions, crashes | `attachments`; `AttachmentStoreProofs` |
| `ClientSession` (`MCClientSession`) | the app's calls, refresh, login, logout and token storage | `client`, `client_logout`; `ClientSessionProofs` |
| `AttachmentScreen` (`MCAttachmentScreen`) | the attachment list of the app against a changing server | `attachment_screen`; `AttachmentScreenProofs` |

A module of proofs EXTENDS the module it is about and is checked by TLAPS alone.

The database modules follow one scheme. An action is a transaction at its commit, or, where
another request can change the outcome of a single statement, that statement. `task[w]` is
the request that server process `w` is in the middle of, with what it has read so far: a read
that no lock protects and the commit that uses it are two actions, and other workers run in
between. A row lock that is held across two actions is a guard on the actions that need the
row (`EmployeeFree`, `UserFree`, `UnitFree`, `Locked`); one that is taken and released within
one action needs no variable. `KeyFree` is the lesser lock a foreign-key check waits for, `TokenFree`
the unique row of a blacklisted token. A request refused by validation changes nothing and is the
action that does not happen, or an explicit one (`RefreshReject`, `Refuse`) when it leaves a
task to finish. The client modules have one action per stretch of code between two `await`s.

**SessionAuthority.** `LoginCheck` / `LoginIssue` are the two halves of a login
(`authenticate()` outside, the insert inside the transaction). `RefreshCheck` is the
serializer's look at the blacklist and the user, `RefreshRotate` the rotation under the
session's lock. `Authenticate` starts a protected request, which may be `RevokeSession`,
`RevokeOtherSessions`, `ChangePassword` or anything else (`OtherRequest`).
`LogoutAllSelect` / `LogoutAllCommit` are the two statements of logout-all. The account
transactions (`DeactivateAccount`, `ChangeAccountRole`, `ConfirmPasswordReset`,
`RevokeAccountSessions`) have the user row FOR UPDATE and go through `EndAccountSessions`;
`ActivateAccount` revokes nothing. A departure locks its employee alone, and its statements are
four actions: `DepartRead` sees that the account is active, `DepartSelect` updates the user row
and finds the live sessions, `DepartTokens` has them locked and lists the tokens, `DepartCommit`
makes it all visible. The update keeps writers and lockers of the user row waiting (`UserFree`),
but not the foreign-key check of an insert, unless sessions were found (`KeyFree`:
`select_related("user")` locks the user row with them); so a login may commit inside a departure.
`AdminStep` is Django Admin's stock user form. `ApiSpec` is the system without it. `events` /
`bornAt` / `redeemed` are history: the number of security events of an account, that number when
a session was opened and whether a departure was in its transaction then, the tokens that were
exchanged. Time is left to the scheduler: `SessionExpires` may happen whenever a session is open.

**Personnel.** `InvitationCheck` / `InvitationCommit` / `InvitationAbort` are
`create_invitation` with its employee locked and the emails read unlocked;
`ResendInvitation`, `RevokeInvitation`, `InvitationLapses`, `AcceptInvitation` the rest of
an invitation's life. `DepartRead` / `DepartCommit` separate the join that finds the
account from the lock on the employee. `ActivateCheck` / `ActivateCommit` separate the
unlocked look at the employment from the commit. `PersonnelHistory` adds `overlapped`, which is
TRUE once an activation (`ActivationsWait`) or an acceptance (`AcceptancesWait`) has fallen into
a departure of the same employee; no action reads it.

**Directory.** `ParentRead`, `ParentCheck`, `DepartmentInsert` / `DepartmentMove` are the
serializer's reading of the parent, `clean()` and the write; `DeactivateCheck` /
`DeactivateCommit` count the dependents and close a unit; `ReactivateCheck` /
`ReactivateCommit` bring an employee back; `MovePositionRead` / `MovePositionCommit` move
a position. `unchecked` marks employees and positions whose unit was last judged by an
unlocked read; the two invariants about open units speak of the others. `PutStep` adds
PUT, which the detail views answer with the stock save because they override `patch`
only; `ServiceSpec` is the system without it, which is how the Flutter client uses it and what
the runs check, while `Spec` with PUT is the subject of theorems alone. A form remembers the row it was opened with; every save (`Saved`) changes `updated_at`, so the
forms opened before become stale and are refused. `TreeWalk` is the reader's walk up with its
depth limit, `WalkEnds` the writer's, which has none. `DirectoryHistory` adds `overlapped`, which
is TRUE once two requests were in the middle of moving a department under a parent
(`SerialMoves` was false); no action reads it.

**AuditArchive.** One action per query and per file operation of `archive_events`; `Fail`
is an exception at any of them, `CleanUp` / `MarkFailed` the except branch, `Crash` the
end of the process. `RecordEvent` gives an event its `created_at`, `EndTransaction`
makes it visible or undoes it. A file is its content; `Verifies` is
`_verify_archive_payload`. `counted` and `settled` are history: what `count()` saw, and
which cutoffs had passed with no transaction open below them.

**PasswordReset.** `LimitAdd`, `LimitIncrement`, `LimitRestart` are the limiter's cache
operations, between which the counter may expire. `SnapshotOpen`, `RevokeOpen`,
`InsertAndSend`, `RequestCommit` are the statements of `request_password_reset`: the open
challenges are found in one snapshot and updated after waiting for whoever holds them, the
insert waits for, and is refused by, another open challenge (`InsertConflict`), and the mail
is out before the commit. `ConfirmPasswordReset` runs under the locks of challenge and
account. `IntroduceKey`, `ReportKeys`, `RetireKey` are the rotation of
docs/production-configuration.md:23; the container of deploy/backend restarts its two workers
together, so the model has no process that still signs with the key before. Identifiers are counted per spelling, a username and an email separately: the model
has one. Codes stored before there were key ids (a NULL key) are left out. Invitations share
keys and digests; only the challenges are modelled with them.

**AttachmentStore.** `SaveCanonical` / `SaveElsewhere` / `Unsave` are the attempts of
`_save_to_new_canonical_path`, `SaveFails` a full or broken storage, `InsertCommit` /
`InsertFails` / `CommitUnanswered` the transaction and what its caller learns of it,
`Discard` the compensating delete, `Die` the end of the process (or a delete that raises).
`DeleteSelect`, `DeleteLock`, `DeleteCommit` separate the permission query from the locked row.
`perms` are the permissions an account has, from a group or its own (`ChangePermissions` changes
them at any time, one by one where `PermissionSets` has it), `admins` the members of
`system_admin`. `Manageable` is `get_visible_employee` for writing: it takes the permissions the
request holds since its first `has_perm`, and the groups as they are now. Viewing and the view
permission, which an account that may manage need not have, change nothing and are left out.
`abandoned`, `unanswered` and `sent` are history.

**ClientSession.** `call[c]` is a call through the interceptor, `op[c]` the
`_performRefresh` it started, `current` what `_refreshFuture` refers to. Saving a pair is two
writes (`RefreshSaveAccess`, `RefreshSaveRefresh`), clearing one action because both deletes
are issued before anything else can run. Login, restoring, logout and the event of a lost
session are continuations of their own. `Restart` is a killed app: only the storage is left.
The server is `RefreshChain`. `overtaken` records that a refresh was under way when something
else wrote the storage, or that the app was killed between two writes of a login: the stored
tokens are then nobody's in particular, as the code does nothing against it (see
Divergences). The repetition of a call is awaited where only `AppException` is caught, so
when it fails (`RepeatFails`) nobody tells the handler of the first try, and the call is `Stuck`:
it never ends, nor does what waits for it. A stuck page call or logout gives its name back for
the next one; a stuck login keeps its name until `Restart`, a bound. One undelivered loss and one
logout at a time are kept. That `_performRefresh` may save an access token alone (lines 177-179)
is left out, as the server always rotates.

**AttachmentScreen.** `work[o]` is a request of the controller or of the upload controller;
it is served (`ServePage`, `ServeUpload`, `ServeDelete`) at one moment and answered at
another. `current` holds the operations that carry the present `_refreshGeneration`; the
numbers themselves do not matter. Attachments are numbered by age, which is the order of the
list. `Reopen` leaves the page and opens it again: the old controller's answers are dropped,
an upload (kept alive) comes to the new one.

## Runs

| Run | Expectation | Shows |
|---|---|---|
| `session_all` | pass | `OnlyCurrentRefreshUsable`, `RevocationIsFinal` and the refinement of `RefreshChain`, with every operation and admin edits |
| `session_api` | pass | `LiveSessionsPostdateEvents`, `RotationOnlyForEntitled` under `ApiSpec`, a departure or another event between any two of its statements |
| `password_reset` | pass | `NewestMailWins`, `ValidCodesVerify`, `GrantsBounded` and the refinement of `OneTimeCode` |
| `personnel` | pass | `AccountsMatchInvitations`, `OpenInvitationsAwaitAccount`, the refinement of `OneTimeCode`; `DeparturesCloseAccounts`: there is no third way past a departure |
| `personnel_depart` | violation | a departure misses an account accepted while it waits |
| `directory` | pass | `PostsAgree`, `UnitsInUseAreOpen`, `FormsShowTheRow`, `TreeServedWithinLimit` through the services (`HistoryServiceSpec`), two workers; `SerialMovesKeepTreeAcyclic`: only overlapping moves close a cycle |
| `directory_cycle` | violation | two concurrent moves close a cycle |
| `archive` | pass | `PublishedManifestsVerify`, `CompletedBatchesAreSnapshots`, `FailedBatchesLeaveNoFragment`, `ReportOverlooksNoEvent` |
| `attachments` | pass | `RowsKeepTheirFile`, `OrphansAreAbandoned`, `DeletionsAuditedOnce` |
| `client` | pass | `NoTokenReplayed`, `TokensAreOfTheShownUser`; liveness: `CallsSettle`, `LogoutsFinish`, `LossSignsOut` |
| `client_logout` | violation | a logout hangs when its repeated request fails |
| `attachment_screen` | pass | `OnlyUploadsRevive`, `ListIsComplete`; liveness: `ScreenSettles` |

The runs also check `TypeOK`, except `personnel` and `archive`, whose types TLAPS alone
checks (`Types`). Every property of a passing run is broken
by a deviation of the code that the modules name (`\* Deviation:`) and PROJECT.json lists: a
dropped check, a forgotten reset, a lock not taken. The deviations are used nowhere else.

**Bounds.** Two workers, because every hazard here is a pair: one request between the two
halves of another. Sessions: one account with two sessions in both runs; four tokens (login twice
and rotate twice, or one session three times) and one security event (`MaxEvents`) in
`session_all`; three tokens and two events in `session_api`, for a session that passed a
departure must end with the event after it. The account events are all of one account, and no
action mentions two. Personnel: two employees, accounts and emails, with three invitations (one lapsed, one
resent, one for the other employee) and three codes, one for each mail. Directory: two
departments to move between, a position, an employee and an edit form; the tree may be one
department deep, so that a child is already too deep for the reader. With two departments the
writer's walk takes two steps; three departments (without staff, 15 000 states) were checked
with moves kept apart, and the theorem is about any number. Archive: two batches, so
that the cutoff of one can hide a gap of the other; two events, one of which comes between two
queries; a clock of two ticks, so that a cutoff lies before, at or after the present.
PasswordReset: one account, three codes (one open, two requests in flight) and a limit of two,
so that a request at the limit races one below it. AttachmentStore: two attachments of two
people, one name besides the canonical ones, two attempts at a path, two contents that are not
uploaded again while they are somewhere (`Fresh`), so that a file tells whose upload it was; of
permissions none, both, and changing without adding, which no group gives. ClientSession: two logins
(`MCSessions`), of which one can also refresh (`MCPairs`), one call of a page beside the call
that asks who is signed in, one logout. AttachmentScreen: three attachments in pages of one
row, so that each change moves rows between pages and a third page exists; two operations
under way when the user begins another (`MaxWork`), two slots for `loadMore`, so that an
outdated one can still be under way; other people stop once the list has missed something. The
invariants of this run were also checked with three operations at a time (285 000 states).
`KeepsGap` needs five attachments and does not occur within these bounds; the theorem covers
them.
Identities are symmetric model values except in the two runs with liveness properties. Runs
stop when ids or ticks run out, so deadlock is not checked; no action of the server waits for
anything but a row lock, which its holder always gives back.

**Fairness.** The server modules assume none: their properties are safety properties or
refinements of specifications without fairness. The two client modules assume weak fairness of
what has begun: Dart's event loop runs every continuation, and each request ends, because
`api_client.dart` lines 78 and 79 give it a connect and a receive timeout of 8 s, after which
it fails like any other. Failing is therefore always possible, and no answer of the server is
owed. A stuck call has no step of its own and is owed nothing. `attachment_screen` assumes that what the
controllers await ends, in an answer or a failure; its liveness is about the controllers' own
bookkeeping and says nothing of a call that is stuck below them. Nothing is owed by users (no call, logout, retry or page has to happen), by other people
or by the operating system, which may kill the app at any time.

## What is proved

Each `...Proofs` module proves `Spec => []Inv` (or the action property, or the refinement) of
the module it extends (of its `...History` for the two properties of overlaps), for any value of the constants that meets the ASSUMEs of that module.
The assumptions say that sentinels are no ids, that bounds are natural numbers, and what the
code gives: workers are finitely many (`WorkersAreFinite`, the processes of a deployment),
events are (`ArchiveAssumption`), rows of different tables differ (`KindsAreDistinct`), a pair
of tokens names its session and its place in it (`ClientAssumption`).

| Module | Theorem | Property |
|---|---|---|
| `SessionAuthorityProofs` | `TypeCorrect` | `TypeOK` |
| | `RefreshAuthority` | `OnlyCurrentRefreshUsable` |
| | `RefinesRefreshChain` | `ImplementsRefreshChain` |
| | `RevocationFinal` | `RevocationIsFinal` |
| | `SecurityEventsEndSessions` (`ApiSpec`) | `LiveSessionsPostdateEvents` |
| | `RotationEntitled` (`ApiSpec`) | `RotationOnlyForEntitled` |
| `PasswordResetProofs` | `Types`, `NewestMail`, `RotationKeepsCodes`, `RequestsBounded` | `TypeOK`, `NewestMailWins`, `ValidCodesVerify`, `GrantsBounded` |
| | `ResetImplementsOneTimeCode` | `ImplementsOneTimeCode` |
| `PersonnelProofs` | `Types`, `OneAccountEach`, `InviteesHaveNoAccount` | `TypeOK`, `AccountsMatchInvitations`, `OpenInvitationsAwaitAccount` |
| | `InvitationsImplementOneTimeCode` | `ImplementsOneTimeCode` |
| | `OnlyOverlapsPassDepartures` (`HistorySpec`) | `DeparturesCloseAccounts` |
| | `OrderlyDepartures` (if activations and acceptances wait) | `DepartedHaveNoAccess` |
| `DirectoryProofs` (`ServiceSpec`) | `Types`, `PositionsMatchDepartments`, `ClosedUnitsAreUnused`, `NoLostUpdate` | `TypeOK`, `PostsAgree`, `UnitsInUseAreOpen`, `FormsShowTheRow` |
| with PUT (`Spec`) | `TypesWithPut`, `NoLostUpdateWithPut`, `TreeIsServedWithinLimit` | `TypeOK`, `FormsShowTheRow`, `TreeServedWithinLimit` |
| | `OnlyOverlapsCloseCycles` (`HistoryServiceSpec`) | `SerialMovesKeepTreeAcyclic` |
| | `SerialMovesKeepTheTree` (`ServiceSpec`, if moves are serial) | `TreeIsAcyclic` |
| | `SerialTreeIsServed` (likewise) | served, exactly if no line to the root is too long |
| `AuditArchiveProofs` | `Types`, `PublishedVerify`, `FailuresLeaveNothing`, `CompletedIsSnapshot`, `ReportIsComplete` | `TypeOK`, `PublishedManifestsVerify`, `FailedBatchesLeaveNoFragment`, `CompletedBatchesAreSnapshots`, `ReportOverlooksNoEvent` |
| `AttachmentStoreProofs` | `Types`, `FilesSurvive`, `NoOtherOrphans`, `DeletionRecordedOnce` | `TypeOK`, `RowsKeepTheirFile`, `OrphansAreAbandoned`, `DeletionsAuditedOnce` |
| `ClientSessionProofs` | `Types`, `PresentedOnce`, `StoreBelongsToShown` | `TypeOK`, `NoTokenReplayed`, `TokensAreOfTheShownUser` |
| `AttachmentScreenProofs` | `Types`, `DeletedStaysAway`, `ListStaysComplete` | `TypeOK`, `OnlyUploadsRevive`, `ListIsComplete` |

Each module has an inductive invariant (`TypeInv` and `ApiInv` for the sessions, `IInv`
elsewhere), which TLC checked on the module's run before it was proved. The proof that a step
keeps it has a lemma or a step per action and per part that the action can disturb; the last
temporal step is the same everywhere. What the invariants add to the properties, and why:

**Sessions.** `TypeOK` is not inductive: a login could open a session that already carries a
reason, a rotation could present a token of no session. `TypeInv` adds `Provenance`: what no
login has inserted is blank, an issued token belongs to an inserted session, a redeemed token
was issued, and a request in flight works on what exists. `OnlyCurrentRefreshUsable` is
inductive relative to `TypeInv`: an operation that ends sessions blacklists at least their
current tokens, and a rotation blacklists the token it replaces. Step by step, opening a
session is `RefreshChain`'s opening, rotation its hand-over (the presented token is the
bearer, because the locked row is compared with it), revocation its closing, the rest
stutters.

For the two `ApiSpec` theorems `ApiInv` has to look into a departure. `LiveSessionsPostdateEvents`
itself says what a departure can miss: a session that was inserted while it was in its transaction
and has seen nothing since but its commit (`PassedDeparture`); the next event of any kind ends it.
This needs that a departure in its transaction covers every live session of its account which is
not of that kind (`DeparturesCover`), and that there is one departure of an account at a time
(`DeparturesAlone`, the lock of the employee). `RefreshersActive` says that a request which read an active account
either still has one, or works on a session that is revoked by now or has passed a departure: every
API path that deactivates also revokes, under the locks that rotation needs. That is why
`RefreshRotate` needs no second look at `is_active` for other sessions, and why the theorem fails
with Django Admin's edits.

**PasswordReset.** The four statements of a request are not one transaction to the others.
`SendersAreAlone` is what the row locks and `accounts_one_open_password_reset` achieve
together: between its mail and its commit a request is the only one of its account, its code
is the last mail, and all the account's open challenges are among those it revokes. With
`MailedOnce` and `OneOpen` this gives `NewestMailWins`. `KeyInv` follows a code's key through
the rotation: once the report no longer lists the old key, no valid code needs it, nor will
one. `LimiterInv` is an accounting: each worker that found the counter expired and is about to
start it again (`Restarting`) can reset what the others counted once, so what was let through
plus what the counter still allows is at most `Limit` per worker that is not restarting; hence
`WorkersAreFinite`. The refinement maps a commit to an issue (the code replaced is the one that
worked, by `OneOpen`) and a confirmation to a redemption; a lapse is a stutter, for a lapsed
challenge stays the account's open one until another replaces it.

**Personnel.** `LinkInv` ties three tables together: an invitation that was sent names an
employee and a mailed code, an account has the invitation it came from, an employee has one
open invitation and then no account. `TasksAreGrounded` carries the look at `Employee.user`
from `InvitationCheck` to `InvitationCommit`, where the lock on the employee keeps it true. The
refinement is `OneTimeCode` with employees as holders; resending is a new issue.

`DepartedHaveNoAccess` does not hold (`personnel_depart`); the theorems say how far it fails. Two
conditions suffice: while a departure of an employee is under way, nobody activates the
employee's account (a state, `ActivationsWait`) and no invitation of the employee is accepted (a
step, `AcceptancesWait`). TLC finds a violation if either is dropped. `AccessInv` then carries
the two unlocked looks to their commits: a departure under way deactivates the account its
employee has (`DeparturesSeeAccounts`), an account being activated has no departed employee
(`ActivationsSeeStaff`). That an account reaches an employee through its own invitation alone,
which the departure read before, is `LinkedByInvitation`. `OrderlyDepartures` states this of
behaviours in which the conditions always hold, `OnlyOverlapsPassDepartures` of every behaviour up
to the first overlap, as the run does.

**Directory.** Through the services (`ServiceSpec`) `IInv` gives all four. `UnitsInUseAreOpen` needs
`ClosingStaysUnused`: while a closing request is between its count and its commit, nothing
begins to use the unit but what judged it without a lock (`unchecked`). `PostsAgree` needs
`PostsAreHeld` (only employees with a row hold a position) and holds because a position moves
only while nobody holds it and an employee's department never changes without the position
being looked at again. `FormsShowTheRow` is inductive by itself: every save makes every form of the
row stale. With PUT, posts and open units are lost (see Divergences); `PutInv` is what remains:
the types, references to rows that exist, and the forms.

`TreeServedWithinLimit` holds in every state of the right types, but `TreeWalk` is a recursive
function over trees of any height, and induction over a formula is not available. The proof gets
by with sets: a set of numbers that has 0 and with each number the next has all (`NumbersByStep`,
from `LeastNumber`), so a function can be applied any number of times (`Iterates`), and the
department n levels above each department is a function of n (`Ancestors`). So the walk exists (`WalkExists`), its verdict after n steps is
that of the n-th ancestor (`WalkFollows`), and a line that meets the root has as many
departments as steps (`LineLength`), while one that never does gives a set without a root
(`AcyclicMeansRooted`). No set of departments is assumed finite.

`TreeInv` is what keeps the tree acyclic while moves are serial. When the walk starts, the
department above the new parent is still the one that was read, or the new parent has been moved
to the top (`ReadsHold`). What the walk finds still holds at the commit: it gives a set of
departments, closed upwards, with the new parent and without the moved one (`WalkPartsThem`,
`Apart`), and no other step takes that away (`ChecksHold`).
Insertions, moves to the top and closings need no such care, and are left free to overlap.
`OnlyOverlapsCloseCycles` carries this to every behaviour up to the first overlap.

**AuditArchive.** `FilesFollowSteps` says which files exist at each step of the program and
what has been verified of them, `StatusFollowsFiles` what the batch's row says of them. A
completed batch is a snapshot although four queries feed it, because later queries can only see
more (`ArchivesGrow`) and the count of the manifest is that of the first (`CountStands`): a set
that contains another of the same finite cardinality is that set (`CompletedAreCounted`).
`ReportIsComplete` adds `SettledIsComplete`: below the cutoff of a settled batch there is
nothing but what it counted. That the time range of a batch's row is one of its events' times
takes the least and greatest element of a set of numbers (`NatHasLeast`, `BoundsAreElements`).

**AttachmentStore.** `FilesAreHeld` gives each upload the path it saved to, from the save to
the end of its request; `NoRowUnderway` says that what it is going to insert or discard is
nobody's row, unless a commit was reported as failed and was not. Without these two, a
compensating delete could hit another's file. `RowLocks` is the row lock of the deletion.

**ClientSession.** `ServerInv` is what the app may assume of `RefreshChain` (the n-th token of
a session is redeemed when the next is given out). `NoTokenReplayed` rests on `StoredIsLive`:
a stored token is redeemed only while a refresh holds its successor or is about to clear the
storage, or after the app was killed then; and on `TypeOK`'s one refresh at a time. Whose the
stored tokens are (`Agreement`) is kept only as long as no refresh has outlived a login or a
logout (`~overtaken`): a refresh works for the session that is stored, a login between its
two writes has no refresh beside it, what an earlier run of the app left is touched by the
restoring alone, and the answer that says who is signed in was asked with the tokens that are
stored. The proof also showed that the property holds at every moment, not only when nothing
is under way, and it is stated so.

**AttachmentScreen.** `DeletionInv` says of every request whose answer still counts that it
neither brings nor shows what was deleted: a deletion starts a new generation, and what is in
`current` afterwards was asked later. The type invariant keeps that a row is guarded by
`deleting` until its reload is over, over any number of reloads.

`ListIsComplete` speaks of a quiet screen only; its invariant, `CompleteInv`, has to say what
is right on the way there, and does so in three layers. `DepthInv` always holds: the only
reload that counts goes no deeper than the list, and beside it at most one page is loaded, the
next. `KnownInv` holds while no change was missed: what the list and the answers that count
show is on the server, or deleted there by this screen and not yet answered. `SyncInv` holds
when, besides, no change of this screen waits for its answer, for an answered change starts a
generation and so whatever still counts was asked for after it: each page is the server's page,
a reload has the top of the list as far as it has come, and the list shown has no gap unless a
reload will replace it. A next page then fits (`NextPageFits`), a reload closes the gaps within
its depth (`ReloadClosesGaps`), and what is missing can be loaded (`RestIsLoadable`); these
rest on `Ranks` and `TopIsGapless`, which hold for any set of rows and any size of a page.

The attempt to prove this refuted it first. With five attachments, two deletions and two later
uploads, far beyond the bounds of the run, an upload is merged into a list that has a gap below
the depth of its reload (see Divergences); TLC confirmed the trace step by step. The module
now counts that case as a missed change (`KeepsGap`), as it does `Overtaken`; without
`KeepsGap` the step `UploadAnswered` of `UploadSync` cannot be proved.

**Left to TLC.** Liveness (`CallsSettle`, `LogoutsFinish`, `LossSignsOut`, `ScreenSettles`):
fairness and ENABLED are beyond the prover. The three divergences are counterexamples and need
a run. Every invariant of a run that passes is proved.

## Divergences

With a run that shows them (PROJECT.json, findings):

- A departure can leave an account active (`personnel_depart`; security-baseline:19), through
  two overlaps and no other way (`DeparturesCloseAccounts`).
- Concurrent moves can close a cycle in the tree (`directory_cycle`; ADR-0008:19), and through
  the services nothing else can (`SerialMovesKeepTreeAcyclic`).
- `api_client.dart:125`: when the repetition of a call fails after a refresh, the call never
  ends. A logout that waits for it does not clear the tokens (`client_logout`; ADR-0004:117 and
  `auth_repository.dart:132`); a page or a controller that waits stays busy.

Read in the code, reached by the models, without a run of their own:

- `serializers.py:47`: activation revives a session whose login straddled the deactivation
  (ADR-0005:91; `LoginCheck`, `DeactivateAccount`, `LoginIssue`, `ActivateAccount`).
- `employees/services.py:141`: a login inside the departure's transaction leaves a session that
  the departure does not end, and once the account is active again its refresh token works
  (security-baseline:15; `DepartSelect`, `LoginIssue`, `DepartCommit`, `PassedDeparture`). A
  refresh that read `is_active` before the departure's commit rotates for such a session at once.
- `views.py:88`: logout-all blacklists the token of a session it leaves alive, when a login
  commits between its two statements (ADR-0005:75; `LogoutAllSelect`, `LogoutAllCommit`).
- `archive.py:121`: a completed batch need not be complete below its cutoff, for `created_at`
  is set before the commit (ADR-0006:39; `RecordEvent`, `EndTransaction`).
- `archive.py:205`: both files are in place and saving the batch fails: a valid archive
  belongs to a batch that says failed (`MoveManifest`, `Fail`, `MarkFailed`).
- `accounts/admin.py:6`: Django Admin's user form sets passwords, groups and is_active and
  ends no session; `LiveSessionsPostdateEvents` fails of `Spec` (security-baseline:15).
- `password_services.py:111`: the current password is checked on the user loaded at
  authentication; two concurrent changes with one old password both succeed.
- `password_services.py:48`: of two concurrent reset requests for one account the second meets
  the unique constraint and answers 500 (`InsertConflict`), where ADR-0005:59 says always 202.
- `throttles.py:23`: requests that find the counter expired together may each start it again, so
  that up to the limit per worker passes where ADR-0005:107 allows five per hour
  (`GrantsBounded`).
- `invitation_services.py:44`: two concurrent invitations may promise one email to two
  employees (ADR-0005:49); acceptance then admits one, by the unique constraint on `User`.
- `invitation_services.py:41`: an open invitation that has lapsed still occupies its username
  and email for other employees, though ADR-0005:49 speaks of valid ones.
- `account_services.py:101`: `activate_account` reads the employment without a lock, so a
  departure in between is overlooked (ADR-0005:91; the second way into `personnel_depart`).
- `organizations/services.py:53`: no writer knows the depth limit ADR-0008:19 puts on the tree;
  passing it makes the tree unreadable until somebody moves a department back
  (`TreeServedWithinLimit` says exactly when).
- `organizations/services.py:146`: a department closes while `reactivate_employee` or the
  activation of a child, which do not lock it, commits (ADR-0004:70).
- `organizations/serializers.py:35`: the parent may be closed between the serializer's check
  and the write (ADR-0004:69); `services.py:202`: the same for a position's new department
  (ADR-0004:75).
- `organizations/views.py:61` and `:111`: PUT is answered by the stock save and bypasses the
  services: a position moves while employees hold it (ADR-0004:76), a status changed since
  the read is written back, `expected_updated_at` is not compared, and a department can become
  its own ancestor, `clean()` being skipped (ADR-0003:61; `PutStep`).
- `attachments/services.py:89`: a commit that took effect but was reported as failed loses its
  file to the compensating delete (`CommitUnanswered`). A file whose request died remains
  without a row (`Die`), which ADR-0009:67 accepts.
- `api_client.dart:153`: a refresh answered after a logout or another login writes its tokens
  over the new state (employee-directory-mvp:63; `overtaken`).
- `api_client.dart:115`: the call is repeated with whatever access token is stored after the
  refresh, also that of another user who has signed in by then (`Resume`).
- `token_storage.dart:43`: an app killed between the two writes of a pair starts again with
  the tokens of two pairs: a refresh token that is spent (`interrupted`), or one of another user
  (`overtaken`).
- `attachment_controller.dart:153`: an upload whose answer comes after its attachment was
  listed and deleted puts it back into the list (`revived`), and keeps it there through its
  reload; ADR-0009:116 says a deleted item is not revived.
- `attachment_controller.dart:209` and `:148`: a page loaded while a reload is under way is
  dropped by it again; when the page after that is under way too, it is appended behind the
  gap, and what lies in the gap cannot be loaded any more (`Overtaken`; ADR-0009:116 says that
  the depth is kept and no old item hidden).
- `attachment_controller.dart:153`: the list an upload was put into is merged with a reload as
  deep as the page number was when the upload was answered. If deletions had left a gap below
  that depth, and the reload that would have closed it was given up for a later change, the gap
  stays in the middle of the list until the next page is loaded (`KeepsGap`; ADR-0009:116 as
  above).
- `attachment_controller.dart:135`: an upload answered while the list is still loading is
  missing from it (`UploadUnlisted`).

Read in the code, not modelled:

- `organizations/services.py:229` and `employees/services.py:41` lock position and department
  in opposite orders: PostgreSQL ends one of the two transactions, the request gets a 500.
- `employees/models.py:95`: the manager chain is walked without locks, as the department tree
  is; two concurrent updates can make two employees each other's manager.
- `employees/services.py:138`: a departure deactivates the account it finds without
  `_ensure_business_target`, a system administrator's too (ADR-0005:89).
- `audit/services.py:80`: fields missing from `SAFE_CHANGE_FIELDS` (manager, avatar_url, gender,
  birthday, office_location, description) make the operations that change them fail.

## Not modelled, and why

Audit queries and export, search, statistics, paging, health and error bodies read without
changing anything. Mail, the cache server and PostgreSQL are external: a mail that cannot be
sent is the abort of its transaction, `incr` of the cache is atomic, and rows behave as under
READ COMMITTED. Settings are read at start. Migrations, seeds, scripts, deployment and CI are
run by hand on systems nobody else uses. Pages and repositories of the client map one call to
one method. Within the modelled parts: names, codes and labels, the manager relation, the key
ring and the directory checks of the archive, what counts as a valid file or password, audit
rows except those of attachments (they commit with their operation), logout of all devices and
the download in the client.

## Plan

Written, in this order: `RefreshChain`, `SessionAuthority` and its proofs, `Personnel`,
`Directory`, `AuditArchive`, `OneTimeCode`, `PasswordReset`, `AttachmentStore`,
`ClientSession`, `AttachmentScreen`, and a module of proofs for each. Next:

1. `DocumentSaver` for the Android side: a save is answered exactly once, whatever the picker,
   the writing thread and dispose do; it is answered eventually.
2. The other screens: `employee_directory_controller` has a generation per search,
   `account_security_controller` busy flags.
3. `Directory`: the manager relation and the order of locks; `Personnel`: stale whole-row saves
   by PUT and Django Admin.

A new question needs the place of a run: a run whose question its theorems answer gives way
first. A run of PUT made place for `client_logout`, and PUT stays listed under Divergences.
