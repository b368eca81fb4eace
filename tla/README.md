# The Asset Management System in TLA+

Asset Management System (AMS) registers a company's assets, hands them to holders,
and takes them through repair: a holder submits a repair request, a manager approves
or rejects it, records the repair and completes it.  It is a FastAPI backend over
MySQL 8, a React frontend, and the scripts and descriptions that run both on AWS.
This directory models the program's own logic, checks it with TLC and proves parts of
it with TLAPS.  Everything here is translated from the code; line references are in
`PROJECT.json` ("map").

## 1. Inventory

Components, their state, operations and what makes them correct.

| component | state | operations | correct when | module |
|---|---|---|---|---|
| Lifecycle endpoints (`assets.py`, `repair_requests.py`, `audit_log.py`) | rows of `assets`, `repair_requests`, `asset_action_histories`, each with a `version`; one transaction per HTTP request | register, update, assign, unassign, dispose, submit, approve, reject, details, complete | an asset follows the state diagram, has one active request, its request and its holder agree with it, and every transition has a true audit row - whatever the interleaving | `AssetLifecycle`, `RepairWorkflow` |
| Identifier allocation (`_next_asset_code`, `_next_repair_id`) | the codes in use, the calendar year | read the largest, add one, insert, retry three times | codes are unique, dense, fit their format; a call gives up only if others succeeded meanwhile | `CodeSequence` |
| Image storage (`image_storage.py`, `images.py`) | files or S3 objects, rows of `repair_images` | save, open, cleanup | a committed row has its object, an object without a row is only left by a fault | `RepairImages` |
| Accounts (`auth.py`, `users.py`, `deps.py`) | rows of `users` | register, create user, login, authenticate a request | one user per email, true answers | `Accounts` |
| Request execution (`main.py`, `session.py`) | worker threads, pooled connections, the event loop | take, wait, time out, release | every request is answered and holds nothing afterwards | `RequestPool` |
| Lists and dashboard (`assets.py`, `repair_requests.py`, `dashboard.py`) | none (several SELECTs per answer) | filter, page, count | the parts of one answer agree | `FleetReads` |
| Demo seed (`seed_demo_data.py`) | one long transaction, image files | wipe, build, commit | all or nothing; the rows it writes obey the lifecycle's invariants | `DemoSeed` |
| Frontend session (`base-client.ts`, `AuthContext.tsx`, `storage.ts`) | token and user in localStorage, React state, requests in flight | login, logout, call, 401 | requests are sent in the name of the person shown | `BrowserSession` |
| Frontend pages (`useAssetList.ts`, `useSubmitAction.ts`, `AssetDetail`) | filters, page, forms, answers in flight | filter, page, edit, submit, reload | the list is the answer to the filters shown; the user is told what happened; nobody's edit is overwritten unseen | `AssetPages` |
| Grafana sync (`sync_grafana_cloud_dashboards.py`) | remote dashboards and alerting resources | load, check, publish, fall back to PUT, give up | exit status 0 means synchronised; a failed run can be repeated | `GrafanaSync` |
| Rate limiter, observability, configuration, migrations, mock backend, layout, infrastructure | - | - | - | none (section 7) |

How they interact: the browser calls the API over HTTP; every handler authenticates
(the first SELECT of its transaction), reads, checks guards, changes ORM objects, and
flushes and commits.  Handlers share nothing in memory but the limiter, the threads and
the connection pool; they meet in the database.  Images leave the transaction: they are
written to storage before the commit and deleted after a failure.  The seed script and
the Grafana sync are run by CI or an operator beside the running service.

What is hard here: handlers that check in one snapshot and write later; two rows with
two versions changed by one decision; unique identifiers guessed and retried; storage
that does not roll back; threads, connections and the event loop that wait for each
other; answers that arrive late in the browser; publications that were applied and
reported as failed.  The full list, with lines, is under "hazards" in `PROJECT.json`.

## 2. Plan

1. `AssetLifecycle` (done): what the API promises, each transition atomic.
2. `RepairWorkflow` (done): the handlers as transactions; implements `AssetLifecycle`
   unless a submission is retried (section 5).
3. `CodeSequence` (done): allocation of codes in text order, at the end of a year and at
   the end of the five digits; registration of assets.
4. `RepairImages` (done): stored objects against committed rows, crashes, lost commits.
5. `RequestPool`, `Accounts` (done): threads, connections, the event loop; registration.
6. `DemoSeed`, `FleetReads` (done): the other users of the lifecycle's tables.
7. `BrowserSession`, `AssetPages` (done): the session of a tab, the list, the edit form.
8. `GrafanaSync` (done): publication with faults, over several runs.
9. Proofs (section 6): done for every safety invariant and every action property that a
   run checks, and for the refinement as far as it is true.

What composes what:

* `RepairWorkflow` instantiates `AssetLifecycle` over its committed rows (refinement).
* `DemoSeed` and `FleetReads` extend `AssetLifecycle`; `FleetTables` runs the three over one
  set of tables (`FleetSpec`), and `MCFleet` bounds it.  They use the atomic handlers because
  readers and the seed see commits only.
* `Accounts` extends `RequestPool`: the registrations live among requests of other kinds.
* `AssetPages` extends `BrowserSession`: each call of a page runs in the tab's session.
* `CodeSequence` and `RepairImages` look closer at two parts of the submit and register
  handlers (the identifier, the files), each with the rest of the handler reduced to the
  outcomes that part can see.

Invariants are conjunctions of named parts and no module declares a RECURSIVE operator,
so each can be proved about.

## 3. Modules

### AssetLifecycle - the promise

Variables `status`, `holder`, `request`, `history`: the columns of the three tables
that the guards read.  One action per transition of the state diagram (`Assign`,
`Unassign`, `Dispose`, `Submit`, `Approve`, `Reject`, `Complete`); each has the guards of
its handler and changes asset, request and audit history in one step.  Names,
descriptions, dates and costs are left out: no guard of a lifecycle transition that the
properties tell apart reads them (the order of assignment and return dates only adds a
refusal).  Nothing in the program soft-deletes an asset, a request or a user, so the
`deleted_at IS NULL` filters are always true.

### RepairWorkflow - the program

Variables `asset`, `request`, `history` are the *committed* rows, `tx[s]` is what session
`s` (one HTTP request) is doing:

| `pc` | the code is |
|---|---|
| `idle` | - |
| `called` | before its first SELECT; `seen` is the version in the payload |
| `loaded` | past all guards (`Load`), nothing flushed |
| `asset_written` | in `flush`/`commit`, the UPDATE of the asset is done, its row is locked |
| `written` | all rows of the unit of work are written and locked, before COMMIT |
| `retry` | after the rollback of a repair_id collision, before the next attempt |

Why the grain is right:

* MySQL runs at REPEATABLE READ and the first SELECT of a session (the user, in
  `get_current_user`) fixes the snapshot, so all later reads of the handler agree with
  each other: evaluating every guard in one step, `Load`, loses no behaviour.  The
  snapshot may be arbitrarily old when the writes happen; that is the interleaving
  between `Load` and the `Write...` actions.
* `UPDATE ... WHERE id = ? AND version = ?` (`version_id_col`) is a current read under a
  row lock: `WriteAsset` waits for the lock (`AssetFree`) and compares with the latest
  committed version; `StaleAsset` is the other outcome (`StaleDataError`, 409).
* SQLAlchemy's unit of work sends the asset's UPDATE before the request's (the foreign
  key orders the tables), hence the two steps.
* `InsertRequest` waits for the uncommitted row that claims the same `repair_id`
  (`CodeFree`) and, through the foreign key, for the asset row (`AssetFree`: the shared
  lock of the check conflicts with the exclusive lock of an UPDATE).
* A session that assigns a column the value it already has sends no UPDATE:
  `ChangesAsset`.  This matters in a retry, see section 5.
* `Fail` stands for a dropped connection, a crashed worker, a lock timeout, a deadlock
  victim or any unexpected exception: the transaction is rolled back.

`Called` rows are drawn from what a client was shown (the current version), for any
interleaving afterwards.  `seen = 0` is a submission without the optional version.

`Lifecycle` instantiates `AssetLifecycle` over the committed rows (versions dropped):
`ImplementsLifecycle` says that each commit is a step of the promise or a stutter.

### CodeSequence - `_next_asset_code`, `_next_repair_id`

Both functions take the largest code of the year *in text order*, add one, pad to five
digits and insert; a duplicate ends the attempt, and after three the call answers 409.
`used[y]` is the committed codes of a year, `today` the calendar year, `call[c]` a caller:
the rows of its snapshot, the year it read, the code it picked, the attempt.  The first
attempt reads the snapshot of the authentication query, later ones what is committed by
then (`Seen`).  `Limited` tells the two functions apart: only `_next_repair_id` refuses a
sixth digit.  `Full` stands for 99999 and `Base` for 10; `TextBefore` compares codes of
different lengths as text does.  `NewYear` may happen between any two steps.  `Insert`
waits for another caller's uncommitted row with the same code (`Free`), as the unique
index does.

### RepairImages - `_persist_images` and its cleanup

`stored` are the objects in the backend (files or S3 objects: both backends take the same
steps), `rows` the committed rows of `repair_images`, `sub[s]` a submission: its control
point, attempt, images saved so far and `attempt_keys`.  A repair_id collision comes at
the first flush, before anything is stored (`Collide`); then each image is saved and its
key noted, the rows are flushed, the transaction commits; any failure leads to `CleanUp`,
one delete after another, before the error is answered.  Beside reported errors three
things may happen, and `faults` records which have: the process dies (`crash`; a COMMIT
under way may still succeed), a delete fails and is logged (`undeleted`), a save raises
after it stored something (`late_save`).  A COMMIT may also take effect without its answer
arriving; `unheard` is the set of submissions to which that happened.

### RequestPool and Accounts - one worker process

`RequestPool` follows each request through FastAPI: it arrives at the event loop
(`Arrive`), synchronous dependencies and handlers run in a thread (`StartThread`), their
results are awaited on the loop (`Resume`), `submit_repair_request` is `async` and does its
queries *on* the loop (`TakeBody` takes the loop until the commit or the error).  A session
checks a connection out at its first query and keeps it until commit, rollback or close;
between authentication and handler a request holds one while it queues for a thread.
`Connected(c)` is the pool's check-out, `TimedOut` its timeout.  While a submission waits on
the loop, nothing is handed out and no finished thread returns.

`Accounts` adds what `register` and `admin_create_user` store: `rows` inserted,
`committed`, and the snapshot `seen` in which the email is looked up (for a manager, that
of the authentication query, taken long before).  The unique index is `Rivals`: an INSERT
waits for a rival that is not committed, and fails when one is.  `LoseConnection` may hit
any statement, COMMIT included: then the row may or may not be there, and the answer is
500.  Password hashes and token contents are left out.

### DemoSeed and FleetReads - the other users of the tables

`DemoSeed` is the script statement by statement: five DELETEs (which lock every row, so
handlers wait: `HandlerNext`), assets, requests, images with their files, histories,
COMMIT, and failure at any point.  `draft` holds the script's uncommitted rows.  Who gets an
asset and which assets get a request is computed as in the script, by index.

`FleetReads` are the handlers with more than one SELECT: lists (`SelectTotal`,
`SelectPage`) and the dashboard (four statements).  `view` is the snapshot of the
authentication query.  Rows carry no order, because any sort column of the code may tie: a
page is its number of rows.

### BrowserSession and AssetPages - the single-page application

`storage` is `localStorage["ams-auth"]`, `memory[t]` the session tab `t` shows, `calls[c]` an
HTTP call in flight with the token it was sent with.  `LoadSession` drops an expired session
when it is read; `Arrive` is the response interceptor: a 401 to a call *with* a token clears
both copies, one without (a login) clears none.  The server decides about a token by its age and
by whether its user still has a row (`Reseed` replaces all users).

`AssetPages` adds what the pages do: `list[t]` is the state of `useAssetList` (keyword,
debounced keyword, page, mode, the load it waits for), `detail[t]` the detail page with its
edit form, `context[c]` what the code that awaits call `c` knows; `mine` is the negated
`cancelled` flag of an effect's cleanup.  A re-render whose query differs runs the effect in
the same step (`Render`).  An edit is checked by version at the server and its answer may be
lost; after a success `useSubmitAction` awaits the reload, then reports.  The review page of
a repair request is built from the same hook, so it has no actions of its own.

### GrafanaSync - the publishing script

One action per stage of `main()`: `Invoke` with a command line and environment, `Preflight`,
`Load` (with validation, dry run and placeholder checks), `Publish` one request at a time,
`SkipRest` after `FailLimit` unreachable answers in a row, `Summary`; a run has a pass for
dashboards and one for alerts.  `remote` is the Grafana stack.  A request may be accepted,
meet an existing resource (409, then PUT), be refused *before or after* it took effect, be
unreachable (599), or get no answer, which ends the process (`died`, section 5).  `Commit`
changes the checkout between runs.  File contents are reduced to what the script reads:
whether the file parses, the receiver it names, whether a CloudWatch placeholder is in it.

The definitions commented "Slip" are plausible mistakes; no specification uses them.
They show that a property depends on the guard they change.

## 4. Runs

| run | bounds | shows |
|---|---|---|
| `lifecycle` | 3 assets (2 in service, 1 disposed in a demo fleet), 1 holder, 2 requests, 2 seedings, 1 reader; up to 2 audit rows in the old fleet, 5 in a demo fleet | one active request, tables agree, custody - whether the rows come from handlers or from the seed; trails lead to the present status; a seeding is all or nothing and its images exist; the parts of one answer agree |
| `one_asset` | 1 asset, 2 holders, 3 sessions, versions to 4, 3 attempts | contention for one asset, including three decisions on one request: the endpoints implement the lifecycle |
| `guarded_retries` | 2 assets, 2 sessions, codes to 2, 2 attempts, `GuardedSpec` | colliding repair_ids and repeated submissions: implements the lifecycle *if a repetition finds the asset in use by its submitter* |
| `answered` | 2 assets, 2 sessions, codes to 2, 2 attempts, fairness; all assets handed out at version 3, or one under repair with its details given once and the other in use, at version 4; versions to 5 | with retries: no lost update, the requests' own lifecycle (details against completion included), decisions and completions that move both tables, no unlogged transition; no circular wait on rows or identifiers, every call is answered |
| `forbidden_transition` | 2 assets, 2 sessions, 3 attempts | the retry breaks a documented rule (section 5) |
| `repair_codes` | 3 callers, 2 attempts, codes past the last, the end of a year | codes are dense and within the format; 409 only for a caller who was overtaken in each attempt |
| `asset_codes_full` | 3 callers, no bound on codes | past the last five-digit code every registration fails (section 5) |
| `images` | 2 submissions of 2 images, 2 attempts, all faults | a created request keeps its images; a row loses its object only if the answer to its own COMMIT was lost; an object is left without a row only by a fault that nothing in the process can undo |
| `service` | a registration and a manager's creation for one email, a submission, a login or readiness probe; 2 threads, 2 connections, 2 attempts, lost connections; fairness | one account per email and true answers; nothing is held by a request that is over; every request is served |
| `browser` | 1 tab, 2 calls in flight, 1 person, 2 keywords, 2 pages, versions to 3, one expiry or one re-seeding; fairness | calls are sent as the person shown; the list answers its filters; edits replace what was shown; reports are true; the list settles |
| `grafana_sync` | 4 dashboards, 2 rules in one file, 8 checkouts, 8 command lines, `FailLimit = 3`, 2 revisions, 2 runs | what exit status 0, the summary and giving up mean; the next run repairs |
| `sync_timeout` | the same | one late answer ends a pass without a summary (section 5) |

*Why the bounds are enough.*  A conflict needs two sessions and a row; a third session
adds a writer between the read and the write of one that waits.  A collision of
`repair_id`s needs two assets, because one asset admits one submission at a time.
`MaxVersion` bounds the writes of a row, and three of them (submit, approve, complete) make
a whole repair.  `one_asset` has them from the start; `answered`, which also checks liveness
over two assets, instead starts from two kinds of fleet in which an interesting step is near:
handed out, with two writes of each asset to come (a submission that collides and is
repeated, a return, a decision), and half repaired, where the request can be completed or
its details changed, by both sessions at once, while the other asset is still acted on.
Both are reachable from `Init` with enough versions.  With
`LastCode = 2` the sequence runs full within the instance.  Safety runs of the workflow use
the symmetry of assets, holders and sessions (nothing orders them); runs with liveness
use none.  For the codes, `Full` and one code beyond it are inside the instance, and three
callers let one be overtaken by two.  Two images make a partial failure (one saved, one
not) and a cleanup of two deletes; two submissions show that none cleans up for another.

`lifecycle` starts with every asset handed out and bounds the handlers before the first
seeding, because an old fleet only has to be *in use* when it is wiped; five audit rows in
a demo fleet finish any repair the seed left open and begin another.  One reader suffices,
as readers do not meet.  In `service` a request of each kind that differs in what it holds
is present, and two of two threads and connections make every circle of waits possible; the
other combinations of kinds are covered by the proofs.  In `browser` two calls are enough
for an answer to be overtaken by another; sessions differ by the lifetime and seeding
they belong to, so one person tells them apart.  Four dashboards let a pass lose two, reach
Grafana and lose one more, or lose three and skip one.

The deadlock check is off in `grafana_sync` and `sync_timeout` (after the last run and the
last commit nothing is left to do) and in `service` (each request is served once).  The
properties of a run are exactly those of its .cfg.

*Fairness.*  `RepairWorkflow.FairSpec` asks strong fairness of each session's own progress.  A
thread that runs a handler is scheduled; a handler that waits for a row lock is served by
InnoDB in order, so it is not overtaken for ever: weak fairness would be too little, as
the lock may be free only now and then.  Client calls and failures are not fair.
`Accounts.Spec` has weak fairness of *some* service step: the operating system runs the
threads and the loop, the pool's timeout fires, and a client that announced a body sends
it or hangs up.  It assumes nothing of any single request, and as every step brings some
request nearer its end that is enough.  `AssetPages.Spec` has weak fairness of timers,
answers and deliveries together (axios and the browser end every call), none of the user;
`ListSettles` is therefore conditional on the user coming to rest.  `GrafanaSync` has none
and no liveness property.

## 5. Findings

*Retried submissions* (`forbidden_transition`).  `_create_repair_request_with_retry` repeats
`_build_repair_request_once` after a rollback, and the guards of
`_load_asset_for_submit` are not part of the loop (repair_requests.py:1026).  The
rollback ends the snapshot and expires the asset, so the retry works on the asset as it
is *then*.  It may have been returned (in_stock to pending_repair, the run's
counterexample), be under another request (two active requests for one asset: the guard
`duplicate_request` is bypassed, and the asset can then not leave the repair states by the
diagram, as the second request cannot be approved together with the first), or have another
version than the client named at line 940.  All three come from one place; one run
shows it.  It is also the only cause: in every run in which a repeated submission finds
its asset still in use by the submitter, the endpoints implement the lifecycle, for any
number of assets, sessions and attempts (`GuardedRetriesImplementLifecycle`).

*Asset code 100000* (`asset_codes_full`).  `_next_asset_code` has no check like the one in
`_next_repair_id`.  As text, AST-2026-99999 is larger than AST-2026-100000, so after the
first six-digit code every registration of that year computes 100000 again and answers
409 after three attempts, with no other caller around.

*A late answer from Grafana* (`sync_timeout`).  The docstring of the publishing functions
promises that a socket timeout is turned into status 599.  `urllib` does so for errors of
connecting and sending; a `TimeoutError` (or `RemoteDisconnected`) raised while the answer is
awaited is no `URLError`, passes the `except` and ends the process in the middle of a pass.
The next run repairs what was left (`NextRunRepairs` holds with this fault).

Seen and not listed as findings, because nothing in the repository promises otherwise:

* If `save` raises after it has stored something (a partial file on a full disk, an upload
  that arrived and timed out), its key is not known yet (repair_requests.py:521) and the
  object stays: fault `late_save` of `RepairImages`.
* The interceptor of base-client.ts clears the session on every 401 to a call with a token,
  without comparing tokens: an old call that is answered late logs a newer session out.
  The model takes that step (`Unauthorized`), and `ActsAsShown` holds over it, because
  storage and screen are cleared together; it does not exclude it.
* A seeding that fails or is repeated leaves the image files of the others in the directory.
* Two tabs of one browser share localStorage and not their state: with `Tabs = {t, u}` TLC
  refutes `ActsAsShown` in five states (a login in one tab, a call in the other).  The
  theorem and the run state it for one tab.
* A submission that waits for a connection on the event loop blocks the requests that
  hold the connections it waits for: nobody moves until the pool's timeout
  (`EveryRequestServed` fails with the slip `NeverTimesOut`).  `/health` needs a thread, so it
  waits in that time too.
* A registration may be answered 500 or 503 although its row is committed (lost answer of
  COMMIT, failed refresh); a repetition is then answered 409.

## 6. Proofs

Eight modules, `...Proofs`, prove for every value of the constants (every set of assets,
holders, sessions, callers, submissions, calls, every number of dashboards, threads,
connections, and every bound):

| theorem | module | says |
|---|---|---|
| `TypeCorrect`, `NoDuplicateRequest`, `TablesAgree`, `CustodyIsHeld` | `AssetLifecycleProofs` | the invariants of `AssetLifecycle` |
| `TypeCorrect`, `FirstWriteWins` | `RepairWorkflowProofs` | a session that holds a row lock works on the row's latest version |
| `RequestsKeepToLifecycle` | " | requests are decided once, complete only after approval |
| `DecisionsMoveBothTables` | " | a decision finds and leaves asset and request in matching states |
| `TransitionsAreLogged` | " | a status change and its true audit row are one step |
| `GuardedRetriesImplementLifecycle` | " | `RepairWorkflow` implements `AssetLifecycle` in every behaviour in which whoever repeats a submission finds the asset in use by its submitter (`RetriesGuarded`) |
| `OneAttemptImplementsLifecycle`, `OneAssetImplementsLifecycle` | " | so it does if `Attempts = 1`, and if there is one asset, because then nothing is repeated |
| `NoCircularWait` | " | whoever a session waits for waits, if at all, for one that has only to commit: locks, identifiers and foreign keys form no circle |
| `CallsAreShort` | " | a call ends after at most four steps per attempt; no other session sets it back |
| `TypeCorrect`, `CodesAreDense` | `CodeSequenceProofs` | the codes of a year are 1, 2, ... in commit order, bounded or not |
| `ConflictIsContention` | " | with the bound of `_next_repair_id` (`Limited = TRUE`), a caller gives up only if as many others as it made attempts committed meanwhile |
| `TypeCorrect`, `ImagesOfCreated` | `RepairImagesProofs` | whatever fails, a created request has the rows and objects of all its images |
| `RowsAreBacked`, `OrphansHaveCauses` | " | a row has its object unless the answer to the COMMIT of its own submission was lost; an object without a row is the work of a crash, a failed delete or a late save |
| `TypeCorrect`, `OneAccountPerEmail`, `NothingLeaks` | `AccountsProofs` | `RegisteredOnce` and `HeldOnlyWhileServed` |
| `NeverStuck`, `CallsEnd` | " | while a request is in the worker, the step of some request waits for no other; each step takes one request towards its end and none back |
| `OneTabActsAsShown` | `BrowserProofs` | `ActsAsShown`, if there is one tab |
| `TypeCorrect`, `LatestAnswerShown`, `ReportsTrue`, `NothingOverwrittenUnseen` | " | the properties of the pages, for any number of tabs and calls |
| `SeedKeepsLifecycle` | `FleetProofs` | with the seed at work on the tables, the invariants of `AssetLifecycle` |
| `TrailsLeadHere`, `SeededFilesExist`, `SeedingIsAtomic` | " | audit trails connect and end at the present status; committed images have files; a seeding is all or nothing |
| `DashboardIsConsistent`, `PagesFit` | " | the parts of one answer agree, for any fleet and any number of readers |
| `TypeCorrect`, `PlaceholdersStayHome`, `SuccessIsSync`, `AlertsReachSomebody`, `GivesUpForCause`, `SummaryAddsUp`, `NextRunSucceeds` | `GrafanaSyncProofs` | the invariants of `GrafanaSync` |

The only assumptions are those of the CONSTANTS (named `...Assumption`: numbers are
numbers, the sets of rows that readers count are finite, "no value" differs from every
value), and `Limited`, `RetriesGuarded`, `OneAttempt`, `OneAsset` and `OneTab` where stated.
The inductive invariants were model-checked on the instances of section 4 before they were
proved.

*The lifecycle's invariant* is the conjunction of its four properties: each needs the
others (a duplicate is excluded by `status = "in_use"`, which `AssetFollowsRequest` ties to
the absence of active requests; custody at `Complete` rests on both).

*The workflow's invariant* `IInv` extends `TypeOK` and `WriterIsCurrent`, which are not
inductive: that a writer is current after another session's commit needs that no two
sessions hold the same row or the same identifier (lock exclusion), and that what a
session read (`from`, `seen`) is tied to the version it read: rows of one version
never differ, because every change of a row advances its version.  `IInv` therefore
relates a session's recorded reads to the present row whenever the versions are equal,
for requests and for assets.  From it the action properties follow at `Commit`, the only
step that changes the tables.

*The refinement* adds two parts to `IInv` (`RInv`): `GuardOK`, what a session knows from its
guards (the status it found; for a submission, the holder, as long as the version did not
move), and `RowsAgree`, how the two tables agree between commits (an active request has its asset in
repair; an asset has one at most; who holds what).  At `Commit` the version checked under
the lock makes the old snapshot the present row, so the guards of the abstract action hold;
"no active request" is not protected by any version of its own, and follows from the
status through `RowsAgree`.  Only a retry can break `GuardOK`, because it reads the rows
again and asks nothing - which is the finding.  `GuardedRetry` names what it would have to ask;
no other step needs a hypothesis.  With one asset (`OInv`), the identifier a submission
picked stays free as long as the asset keeps its version, because every rival that takes it
submits for the same asset; so `NoCollision`, and no retry.

*Codes.*  The invariant says that the committed codes and every snapshot are prefixes
1, 2, ..., n (so that their largest in text order is known), that a snapshot is contained
in what is committed, that an inserted code is the next one, and that no two callers hold
the same.  `ConflictIsContention` then counts: an attempt collides only with a row
committed after its snapshot.

*Images.*  `IInv` ties the keys of a submission to its own objects and, while it is not
cleaning up, to stored ones; it holds under every fault.  `AInv` adds, for each submission
whose answer was not lost, that it has no row as long as it may still clean up and that its
rows have their objects, whatever becomes of the others; `OInv` adds, until a crash, a failed
delete or a late save, that the keys account for every object of a submission.

*Accounts.*  `HoldInv` says at which places a request has a thread, a connection or the
loop, `SizeInv` that the pools are not exceeded, `RowInv` which rows exist at which place of
their call (so that two rows of one email cannot both be there: the second INSERT waits for
the first to end and then fails), `AnswerInv` what an answer says of the rows.  `TriesInv` (attempts are counted from the body
on) is needed for the number of steps only.

*Progress.*  What can be proved of `EveryCallAnswered` and `EveryRequestServed` without
fairness is proved for every size: that waiting never closes into a circle
(`NoCircularWait`, `NeverStuck`) and that a measure of the remaining steps falls with every
step (`CallsAreShort`, `CallsEnd`), so that neither retries nor timeouts go round for ever.
`NeverStuck` finds the one who can go on: the handler on the event loop, if there is one;
else, when all threads are taken, whoever holds one, or the owner of the row it waits for,
which has only to commit.  `Ready` counts the pool's timeout as a step of a query that gets no
connection, as `TimedOut` does; without it the statement would be false, as the slip
`NeverTimesOut` shows.  On the instance of `service`
TLC confirmed that a call is `Ready` exactly when `Serve` is enabled for it.

*Browser.*  With one tab, the session in storage is the one shown or none, and a call that
was answered as a login brings the one that both will hold.

*Pages.*  `PageInv` needs no bound on tabs.  `PagesTyped` and `SessionTypeOK` keep the kinds
apart; `LoadInv` ties a list that waits to the one call whose context is `mine` and whose
query is the list's own, so that an answer shown is the answer to the filters; `FormInv`
says that an open form was filled from the asset as it was loaded last, and that an edit
names the version its form was filled from; `EditInv` says that a page has one edit under
way, reports nothing of it until it has ended, and that the server made no edit which it
answered with a conflict.

*Fleet.*  `DraftInv` says of the script's uncommitted rows, statement by statement, what they
already satisfy; at COMMIT that is the lifecycle's invariant.  `TablesInv` is that invariant
for the committed tables with the audit trails; the handlers' steps are those of
`AssetLifecycleProofs`, whose lemmas are used again.  `ReadersInv` says of a reader that its
snapshot satisfies the lifecycle's invariant and that each SELECT so far counted that
snapshot.  That an active request and an asset in repair are equally many (the dashboard
counts one table for the tiles and the other for the summary) is a bijection between
finite sets, proved with the pigeonhole theorem in both directions (`SameSize`).

*Grafana sync.*  `LoopInv` and `CheckedInv` relate the loop's sets to the checked checkout:
what was published and is neither failed nor skipped is in the stack as it is here;
`FirstInv` keeps the result of the first pass while the second runs; `CountInv` ties the
counter to the tail of `lines` and `LinesInv` counts the lines against the sets; `QuietInv` is
for a run without faults, in which a 409 is always followed by a PUT that succeeds.

*Only model-checked:* liveness (`EveryCallAnswered`, `EveryRequestServed`, `ListSettles`), whose
last step, from fairness and ENABLED to "eventually", is outside the prover's reach, and the
violations of section 5.

## 7. Not modelled

* *Rate limiter*: the counters are those of slowapi and limits, external libraries; the
  repository chooses a key per request.
* *Observability*: set-up of exporters, counters nobody reads, a beacon that counts one
  event per call.  *Configuration*: a sequential check before the first request.
* *Migrations*: applied in a line before the rolling update; what could go wrong is the
  previous version of the code against the new schema, and that version is not here.
* *Mock backend*: a sequential stand-in for development that differs from the API on purpose
  (it hands out its own objects, lists the first dummy holder's assets, checks no custody);
  nothing says that it is equivalent.
* *Layout, translations, infrastructure descriptions, load scripts*: no state whose order
  matters.
* Within modelled components: validation of payloads (schemas), wording of errors, the
  order of rows, the history list and single reads (one SELECT each), a PATCH that changes
  no column (a read), rendering.  Pages that load once and show are left out, and so is a
  conflict warning that pops up after its page was left; the review page sets its request
  to none while it reloads, the asset page keeps the old one, and only the latter is
  modelled.  A recipient list that consists of separators (hazards) and two syncs at the same time
  (CI's jobs queue; a laptop's do not) are left out of `GrafanaSync`.
* The outcome of a COMMIT whose acknowledgement is lost is not distinguished in
  `RepairWorkflow` (both `Commit` and `Fail` are possible, and the client is not told
  which); its effect on stored images is in `RepairImages`, on accounts in `Accounts`, on an
  edit form in `AssetPages`.
