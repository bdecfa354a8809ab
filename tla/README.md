# TLA+ models of MAWiki

MAWiki is a FastAPI service with a PostgreSQL database, a directory of blobs and a
browser front end. Users upload documents into *sources*; *knowledge bases* collect
sources, *convert* their documents to text and *index* the result; people search an
index from the pages, and assistants through an MCP server. Around it stand a command
line that builds test environments, an installer for coding agents, and pre-commit hooks
that check the code. This directory holds TLA+ models of the parts whose correctness
depends on the order in which things happen, the TLC configurations that check them on
small instances, and TLAPS proofs that hold for instances of every size.

All paths below are relative to `src/src/`, unless they start with `tests/` or `docs/`.

## Inventory

| Component | State | Operations | Hard because |
|---|---|---|---|
| Knowledge base operations (`backend/knowledge_bases`) | the `knowledge_bases` row: derived source, index file, `conversion_task`, `indexing_task` | create, edit, start conversion, start indexing, poll, search, fetch a document, delete | two stores with different failure behaviour; long jobs outside any lock; requests that race with jobs |
| Jobs and tasks (`backend/tasks`) | the `tasks` rows: WAITING, IN_PROGRESS, SUCCESS, FAILED | schedule, begin, succeed, fail | jobs are `BackgroundTasks` of the process that accepted the request; nothing persists or resumes them |
| Database sessions (`backend/db`, `backend/dependencies.py`) | open transactions and their row locks | open, flush, commit, roll back | a request session commits either before the response (`scope="function"`) or after it |
| Blob storage (`backend/filesystem`, `backend/files`) | files under the storage root, `files` rows that name them | write, read, unlink | not transactional; a write may stop half way |
| Source upload (`backend/sources`, `frontend/components/pages/sources/UploadMenu.js`) | `sources`, `source_files` and `files` rows; the browser's list of pending files | upload a batch, retry, delete source | lost answers, retries of what was stored, retries that overlap the first request |
| Source sharing and paging (`backend/sources`) | owner, `shared_with`, origin | create, share, edit, delete, page files | lists compared with what was loaded before; offset paging over a changing list; converted sources that must not be touched |
| Login and invitations (`backend/auth/service.py`, `routes`) | `users`, `invitations`, `user_passwords`, `user_auth_providers` rows | invite, revoke, register, log in, log in through a provider | check, then insert, by concurrent requests over unique keys and foreign keys |
| Session tokens (`backend/auth/tokens.py`, `dependencies.py`, `views.py`) | two cookies in the browser, signed claims | issue, check, heal, refresh, log out | answers that overtake each other; accounts that change after issue |
| MCP server (`backend/mcp`) | `mcp_users`, `mcp_sessions`, `mcp_tool_calls` rows | resolve user, open session, call a tool, record the call | check-then-insert by concurrent first calls; authentication that may be switched |
| Test environment harness (`harness/test`) | containers, state file, `config.test.yaml` and its saved original | up, teardown, run | a failure or a kill between any two steps leaves files for the next command |
| Agent installer (`harness/install.py`) | the JSON configurations of several coding agents | install, uninstall | files that others own; a command that ends half way |
| Pages (`frontend/components/pages`, `backend/*/views.py`) | fragments that poll, buttons, endless lists | load, start, poll, reveal the next page | answers in any order; several statements for one page |
| Pre-commit hooks (`pre_commits`) | syntax trees, caches, generated files | check, rewrite | fixpoints, walks with caches, two-phase searches |
| Users, configuration, logging, command line, rendering | rows, or none | create, read, update, delete | they are not: sequential or stateless |

How they interact. A page or JSON route opens a database session, calls a service
function and answers. `start_knowledge_base_operation` locks the knowledge base row,
checks both its tasks, inserts a task, and returns; the route commits and then hands
`_run_operation_job` to the same process. The job uses three sessions of its own: one
marks the task IN_PROGRESS, one does the work (reads blobs, converts or embeds for
minutes, writes new blobs, replaces the rows, unlinks the old blobs, commits), and one,
only after a failure, marks it FAILED. Deletes, searches and document fetches run at
any time in between, without a lock. Pages poll the tasks and replace fragments of
themselves by the answers. Every page carries the two cookies through
`get_current_user`, which may answer with a new pair. Knowledge bases are made of
sources, and their conversions make sources of origin SYSTEM, which the source routes
refuse to change; users, sources, shares, knowledge bases and credentials hold each
other by foreign keys.

What makes each component correct:

* *Operations*: one running operation per knowledge base; a running task is always the
  one polled; the index always belongs to the current conversion; a task polled as
  SUCCESS is the one whose outputs are there; committed artifacts are on the disk;
  failed jobs leave nothing behind; accepted operations end.
* *Upload*: a file id is stored at most once, and every file the browser reports as
  uploaded is stored with its blob; retries and late first requests do no damage.
* *Sharing and paging*: nobody sees a source without a grant of somebody who may give
  it; converted sources stay private; a list that was scrolled to its end was complete.
* *Invitations*: accepted once, by the invited address, in the invited role; a credential
  always leads to an account.
* *Tokens*: the two cookies are of one account; who has logged out stays logged out.
* *MCP*: a session is used only by its owner; failed calls leave nothing.
* *Harness and installer*: the developer's files are in place or can be brought back;
  what a command reports is so.
* *Pages*: a running operation stays watched, fragments do not go back, chunks are shown
  in the documents they are of.
* *Hooks*: the verdict is right for every order of definitions, references and branches,
  and a hook that rewrites files comes to rest.

## The modules

| Module | What it is | Status |
|---|---|---|
| `KnowledgeBaseService`, `KnowledgeBaseProperties` | the operations of one knowledge base, and what they guarantee | modelled, checked, proved |
| `OperationGate`, `SearchableCorpus` | abstract specifications that they implement | checked, proved |
| `SourceUpload`, `UploadMenu`, `UploadProtocol` | server, browser, and both together | modelled, checked, proved |
| `UploadLedger` | abstract specification of the upload | checked, proved |
| `Accounts` | invitations, accounts and credentials | modelled, checked, proved |
| `GuestList` | abstract specification of `Accounts` | checked, proved |
| `BrowserSession`, `McpSessions` | cookies of a browser; sessions of MCP clients | modelled, checked, proved |
| `HarnessEnvironment`, `AgentConfigs` | the test environment; the installer | modelled, checked, proved |
| `SourceLibrary`, `FileScroll` | sources with their shares; the endless file list | modelled, checked, proved |
| `KnowledgeBasePages` | the pages of one knowledge base | modelled, checked, proved |
| `CssDirectives`, `ExceptionNames`, `CommitGuard`, `ModelRegistry`, `TemplateNames` | five hooks | modelled, checked, proved |
| `MC*` | instances for TLC | |
| `*Proofs` | theorems and their proofs | |

What the plan has left: the batching of an upload against the server's size limits, and
the types of template attributes (`template_types/resolver.py`), where the walk of
`TemplateNames` would carry types instead of names.

All twelve runs:

| Run | Module | Question |
|---|---|---|
| `kb_faults`, `kb_artifacts`, `kb_live` | `MCKnowledgeBaseService` | rows and tasks under every fault; rows and disk; termination |
| `upload_retries`, `upload_alone`, `upload_live` | `MCUploadProtocol` | retries and late answers; blobs; termination |
| `services` | `MCServices` | `Accounts`, `BrowserSession`, `McpSessions`, `HarnessEnvironment`, `AgentConfigs` |
| `library` | `MCLibrary` | `SourceLibrary`, `FileScroll`, `KnowledgeBasePages` and the five hooks |
| `kb_delete_race`, `upload_overlap`, `auth_refresh`, `sharing_replaced` | | refute claims that a test, a docstring or a schema makes |

`MCServices` and `MCLibrary` hold specifications that share no state. Their product would
only multiply states, so a variable `part` picks one of them initially, and only it takes
steps; the others rest in one initial state.

## Knowledge base operations

`KnowledgeBaseService.tla` is the state machine. The state follows the code:

| Variable | Code |
|---|---|
| `kb` | the committed `knowledge_bases` row (`models.py:14-45`) with the files of its derived source and its index file |
| `rows` | the committed `files` rows of derived artifacts |
| `task` | the committed status of the task a start request inserts |
| `disk` | the blobs under the storage root, changed at once by every write and unlink |
| `lock` | the transaction that holds the row locks, from `FOR UPDATE` or its flush to its end |
| `pc`, `op`, `seen`, `outputs`, `written`, `doomed` | the locals of each coroutine: where it is, conversion or indexing, what it has loaded, what it still has to write or unlink |

One coroutine is a start request followed by its job, a delete request, or a reader.
Actions end where the code awaits something that others can observe:

| Code | Actions |
|---|---|
| `start_knowledge_base_operation`, start routes | `StartMissing`, `StartConflict`, `StartFlush`, `StartCommit`, `StartRollback` |
| `_run_operation_job` | `JobBegin`, `JobBeginLost`, `JobCommit`, `JobFail`, `JobFailLost` |
| `convert_knowledge_base_files`, `index_knowledge_base_files` | `JobRead`, `JobLoad`, `JobStage`, `JobStageError`, `JobStageAbort`, `JobFlush`, `JobFlushError`, `RemoveArtifact`, `Rollback` |
| `delete_knowledge_base` | `DeleteRead`, `DeleteFlush`, `DeleteFlushError`, `RemoveArtifact`, `Rollback`, `DeleteCommit` |
| `search_knowledge_base`, `get_mcp_knowledge_base_file_content` | `ReadMissing`, `SearchRow`, `SearchIndexFile`, `FetchRow`, `FetchFiles`, `ReadBlobs` |
| the server process | `Crash` |

Abstractions. A blob is named by the request whose job wrote it, because locations are
fresh UUIDs. The documents a conversion yields are a nondeterministic number of outputs;
zero is an error, as in the code. Converting and embedding are steps between two
actions. What the gather of several blob reads can observe is what one atomic read can
observe, so `JobLoad` and `ReadBlobs` read at once; the same holds of the several
SELECTs of `DeleteRead` and `JobRead`, while the two SELECTs of a search are two actions
because they can disagree. PostgreSQL's foreign keys are part of the actions: deleting a
source cascades to its file links, and an UPDATE of a deleted knowledge base is a
`StaleDataError`, while a second DELETE only warns. The row that the unlocked access
check loads first is not modelled: nothing refers to it when the locked read runs, so
SQLAlchemy loads a fresh one (a hazard listed in `PROJECT.json`).

Faults are a constant, so that each run names what it assumes: `io` (a read or write of
a blob), `encode` (staging fails with anything but `OSError`), `unlink`, `flush`,
`commit`, `crash`.

`KnowledgeBaseProperties.tla` states what this guarantees:

* `SingleFlight`, `RunningIsPolled`, `IndexMatchesConversion`, `PolledSuccessIsCurrent`:
  invariants that hold under every fault, crashes included.
* `ArtifactsOnDisk`, `NoLeak`: the agreement of the rows with the disk, under the faults
  for which the code's order of writes, flush, unlinks and commit achieves it.
* `ReadErrorMeansReplaced`: a reader misses a blob only because of a replacement.
* `AcceptedTerminates`: an accepted operation becomes SUCCESS or FAILED.
* `GateRefined`, `CorpusRefined`: the service implements `OperationGate` (one operation
  is accepted at a time, begins once, ends once) and `SearchableCorpus` (what can be
  searched is nothing, or exactly the last successful conversion).

### Runs

| Run | Instance | Faults | Shows |
|---|---|---|---|
| `kb_faults` | 3 starts, 1 delete, 1 reader, 1 output | all | `TypeOK`, the inductive invariant, the four invariants about rows and tasks, and both refinements |
| `kb_artifacts` | 3 starts, 1 reader, 2 outputs | io, flush | `ArtifactsOnDisk`, `NoLeak`, `ReadErrorMeansReplaced` |
| `kb_live` | 2 starts, 1 delete, 1 reader, 2 outputs | io, encode, unlink, flush | `AcceptedTerminates` |
| `kb_delete_race` | 2 starts, 1 delete | none | refutes `DeleteRemovesArtifacts` |

Bounds. Three start requests are a conversion, an indexing run and a third operation
that replaces what they made, which is the shortest history with every kind of
staleness; each of the three may ask for either operation. Two outputs are the fewest
for which staging can fail after a success and unlinking can stop half way; where no
property looks inside a set of outputs one is enough. `kb_artifacts` has no delete,
because a delete that races with a job does leak (`kb_delete_race`); that the other two
properties of that run hold with deletes as well is proved. Start requests are
interchangeable, and so `RequestSymmetry` is used in safety runs, the refinements
included: their mappings do not tell requests apart. The liveness run uses none. Runs stop
with every request answered (`Terminated`), so deadlock is checked everywhere: nobody
waits for a lock for ever.

Fairness. `FairSpec` assumes weak fairness of the fault-free steps of jobs, deletes and
readers: the event loop resumes every runnable coroutine and PostgreSQL grants a row
lock to its waiters in turn. No request has to arrive, and no fault has to happen.
`commit` and `crash` are not among the faults of `kb_live`: a job whose own bookkeeping
session fails, or whose process dies, leaves its task running for ever.

### What the refuted claim shows, and what the faults do

* `kb_delete_race`: a delete that loaded the row before a job committed leaves that job's
  rows and blobs behind.
* With `crash`, the task of a lost job stays WAITING or IN_PROGRESS: every later
  operation on that knowledge base is refused with "already running". The safety
  properties of `kb_faults` hold all the same.
* With `commit`, replaced blobs have been unlinked before the commit that fails, and the
  rows that come back refer to blobs that are gone: `ArtifactsOnDisk` needs commits that
  succeed.

### Proofs

`KnowledgeBaseServiceProofs.tla` proves `IInv` inductive, for every set of requests,
deletes and readers, every `MaxOutputs` and every set of faults, from
`ConstantsAssumption` alone (the sets are disjoint, `NoProc` is in none, `MaxOutputs` is
positive, `Faults` names faults). The argument: row locks are held from a flush to the
end of the transaction (`LockHeld`), and the status of a task tells where its job is
(`TaskFollowsJob`), so a start that holds the lock and found both tasks idle is alone
(`AdmittedAlone`, hence `SingleFlight`); a running task is referenced by the knowledge
base in the column of its operation (`PolledByOperation`), because only a start or a
commit changes these columns and neither can happen while another job runs; hence what a
job has loaded is still what is committed when it publishes (`LoadedIsCommitted`),
although it holds no lock in between; and artifacts belong to jobs that have succeeded
(`WritersSucceeded`), whose locals no longer change, so that the index still matches the
conversion. `SingleFlight` is not inductive alone: it needs `RunningIsPolled` to know
that `_ensure_idle` looks at every running task.

The same module proves both refinements from `IInv`, and, assuming `OrderlyTransactions`
(no `unlink`, `commit` or `crash` fault), `ArtifactsOnDisk` and `ReadErrorMeansReplaced`
with the stronger `DiskInv`: the outputs of a live job stay on the disk, what a
transaction unlinks was written by jobs that had succeeded, and is part of what it
replaces.

`FailedJobsLeaveNothing` is `NoLeak`, assuming `OrderlyJobs`: in addition staging fails
with an OSError or not at all, and nobody deletes the knowledge base. `LeakInv` says that
each blob is an artifact or the output of a job at work (`BlobsAccountedFor`), and that
what a job replaces is still to be unlinked or gone (`RemovedIsGone`), so that its commit
drops rows whose blobs are gone (`LoadedIsCommitted`).

Model-checked only: `AcceptedTerminates` (liveness is beyond the prover).

## Source upload

`SourceUpload.tla` is the server, `UploadMenu.tla` the page, `UploadProtocol.tla` the two
together with what they guarantee. The page draws an id for every file it is about to
upload and keeps it in localStorage, so that the server can recognise a file it has
already stored; the blob of a file lies at a location made of its id.

| Variable | Code |
|---|---|
| `source`, `rows`, `links` | the committed `sources`, `files` and `source_files` rows (`backend/sources/models.py`); `deleting` is a DELETE that is flushed |
| `disk` | the blob at each id's location: none, partial or whole |
| `pc`, `ids`, `known`, `opened`, `staged`, `answer` | the locals of each call of `upload_files_to_source`, and its response |
| `stored` | the cache in localStorage |
| `cache`, `todo`, `batch`, `attempt`, `call` | the page's `_uploadState`, the loop of `uploadBatch`, and the request it awaits |
| `page` | idle, uploading (about to post), waiting, failed (the Retry button shows) |
| `fileOf` | history: the file each id was drawn for |

| Code | Actions |
|---|---|
| `upload_files_to_source` | `Arrive`, `CheckSource`, `CheckLinks`, `SelectError`, `OpenBlob`, `WriteBlob`, `WriteError`, `Flush`, `FlushError`, `RemoveBlob`, `CleanUp` |
| `get_db_session` after the response | `Commit`, `CommitLost` |
| `delete_source` | `DeleteFlush`, `DeleteCommit`, `DeleteLost` |
| change listener, `prepareFiles`, `saveCache` | `Select` |
| `run`, `uploadBatch` | `Post`, `Uploaded`, `Rejected`, `ServerError`, `Unanswered`, `GiveUp`, `Drop` |
| Retry listener; leaving the page | `Retry`; `Reload` |
| the server process | `Crash` |

Order. The route's session is request-scoped, so FastAPI sends the 204 before
`get_db_session` commits: `Flush` answers, `Commit` follows. A page may act on the answer
in between. The unique index on `files.id` makes a flush wait for a transaction that
holds the same id, and the foreign key makes it wait for a DELETE of the source, and the
other way round: `ReadyToFlush`, `DeleteFlush`. Two requests whose inserts block each
other in a cycle are aborted by PostgreSQL: one of the failures of `FlushError`. Two
requests may have the same blob open; what is left of it is then not determined
(`AlsoWriting`). A request goes on when its client has gone.

Abstractions. A file is its fingerprint. A batch is any set of at most `MaxFiles` of the
files left, once cut the same for all its attempts. `Requests` are slots that are used
again: the number of requests is not bounded, only how many are under way. The checks of
`upload_files_to_source` on counts and sizes are not modelled, since they reject before
anything is written, nor is a source that the user may not change. Names are checked in
the loop that writes the blobs: a refused name is a `WriteError`, with blobs written
before it.

Faults are a constant again: `select`, `io`, `unlink`, `flush`, `commit`, `crash` on the
server; `drop`, `lost_answer`, `timeout` (a browser or proxy that stops waiting while the
request is running) on the network; `reload` and `storage` (localStorage does not store)
in the browser; and `delete`, which is no fault, lets the user delete the source.

What it guarantees:

* `StoredOnce`: however often an upload is repeated, a file is stored under one id.
* `ReportedIsStored`: a file the page shows as uploaded is stored, or its commit is on
  its way, unless the source was deleted.
* `StoredFilesReadable`: the blob of every linked file is whole.
* `NoOrphanBlob`: a blob belongs to a row or to a request that is still at work.
* `UploadEnds`: the status line does not say "Uploading" for ever.
* `LedgerRefined`: browser and server implement `UploadLedger`, which stores each file
  under one id and reports what is stored.

### Runs

| Run | Instance | Faults | Shows |
|---|---|---|---|
| `upload_retries` | 1 page, 2 files, 3 ids, 2 requests | select, flush, drop, lost_answer, timeout, reload, delete | `TypeOK`, `StoredOnce`, `ReportedIsStored`, `NoOrphanBlob`, `LedgerRefined` |
| `upload_alone` | 1 page, 2 files, 2 ids, 2 requests | all but timeout, reload, storage | `StoredFilesReadable` |
| `upload_live` | 1 page, 1 file, 2 ids, 2 requests | all but drop, commit | `UploadEnds` |
| `upload_overlap` | 1 page, 1 file | timeout | refutes `UploadedIsDownloadable` |

Bounds. Two requests under way are an overlap of an attempt with its retry, which is
what every hazard of this part comes down to; two files are the fewest for which a batch
is partly stored, or a selection takes two batches. Ids run out only where a property
about fresh ids is not at stake: `upload_retries` has one more than it has files.
`MaxAttempts` is 2, the smallest with a retry; the user's Retry starts over, so the
number of attempts is unbounded anyway. Liveness of one file needs every kind of wait:
for an answer, for a delay, for a lock that an overlapping request or a delete holds. The
runs leave out a fault where a property fails with it, and the text below says why.
Pages, files, ids and requests are interchangeable, and `Symmetry` is used for all
safety runs that pass; `LedgerRefined` is a safety property whose mapping is symmetric.

Why faults are left out. `StoredOnce` holds under `commit` and `crash` too (proved);
`ReportedIsStored` and `LedgerRefined` do not: the answer precedes the commit, and if
that fails the page has marked the files in localStorage and skips them from then on.
With `storage` or two pages an id may be lost before its file is stored under it, and
the file is stored twice. `NoOrphanBlob` fails under `io`: a write that fails has not
been appended to `staged`, so its partial file stays. And it fails under `commit` and
`crash`, after which nothing cleans up. `StoredFilesReadable` needs that no request is
given up before its end: see `upload_overlap`.

Fairness. Weak fairness of every page's own steps (`PageStep`, `Post`), of the fault-free
steps of every request, and of the end of a DELETE. JavaScript resumes a page when its
fetch settles or its delay is over, the event loop of the server resumes a request when
its I/O is done, and PostgreSQL grants a lock once its holder ends. No user has to press
anything, and timeouts (`GiveUp`) are not forced: the upload ends because requests do.
`commit` and `delete` together are left out of the liveness run: there a DELETE whose
commit fails could be repeated for ever, and an upload could wait for each of them.

### What the refuted claim shows

* A first request that outlives the browser's or a proxy's patience, and its retry, both
  find the id unknown and both write the blob. The first one commits; the retry fails on
  the primary key, and its cleanup removes the blob of the committed row. The next
  attempt finds the file linked, answers 204, and the page shows it as uploaded; it can
  not be downloaded.

### Proofs

`UploadProtocolProofs.tla`: `UploadTypeCorrect` for every instance, with the
strengthening `TypeInv` (a page at work has attempts left, so that counting stays within
`MaxAttempts`, and ids for its files). `FilesStoredOnce` assumes `OnePage` (at most one
page, no `storage` fault) and proves `IdsInv`: an id once drawn stays in the cache
(`CacheKeepsIds`), the cache holds drawn ids only (`CachedIdsDrawn`), the page works on
the cache as it is stored (`PageFollowsCache`), and what reaches the server was drawn
(`SentIdsDrawn`). Two ids of one file would both be its cache entry, so they are equal.
`StoredOnce` alone is not inductive: it says nothing of the ids on their way.

`FailedUploadsLeaveNothing` (`NoOrphanBlob`, assuming `CleanFailures`: no `io`,
`unlink`, `commit`, `crash`) from `BlobInv`: a request has staged all it opened when it
stops writing. `ReportsAreTrue` (`ReportedIsStored`, for any number of pages, assuming
`NoLoss`: no `commit`, no `crash`) from `HeldInv`: rows stay, what a request found
stored is stored, a page that was answered 204 had sent ids that are stored or flushed,
and the request a page waits for carries its batch. `LedgerImplemented` combines
`IdsInv` and `HeldInv` into the refinement.

`StoredFilesStayReadable` (`StoredFilesReadable`, assuming `PagesWait`: `OnePage`, no
`timeout`, no `reload`) needs both sides. Of the page, `AwaitedInv`: the request it waits
for is the only one at work, except for commits of files that it has marked as uploaded,
and will not send again. Of the server, `StoresInv`: a request writes one blob at a time,
of ids that are not stored, and flushes when all are whole. So nobody opens, or removes,
a blob that is stored or about to be; `upload_overlap` is what happens otherwise.

Model-checked only: `UploadEnds` (liveness).

## Accounts

`Accounts.tla` has the committed `users`, `invitations` and `credentials` (a
`user_passwords` row or a `user_auth_providers` row), and per request slot its next
statement (`step`), its body (`input`), the row it has loaded (`found`) and what it has
flushed (`work`).

| Code | Actions |
|---|---|
| the routes, and `get_current_admin_user` for invitations | `Arrive` |
| `login_with_provider` | `FindByProvider`, `FindByEmail`, `FindPendingInvitation`, `InsertUser`, `InsertCredential` |
| `register_with_password`, development login | `FindByEmail`, `FindPendingInvitation`, `InsertUser`, `InsertCredential` |
| `create_user` (POST `/users/`) | `InsertUser` |
| `create_invitation` | `FindInvitationByEmail`, `InsertInvitation` |
| `revoke_invitation`, `delete_user` | `Load`, `Delete` |
| `get_db_session` | `Commit`, and `Abort` for everything that rolls back |

A request is one READ COMMITTED transaction. `Flush` waits for the transactions that hold
a row or a unique key it needs (`Blocks`), then checks the unique constraints and the
foreign keys against what is committed (`ViolatesConstraint`), and an UPDATE whose row is
gone is an error (`UpdatesMissingRow`), while a DELETE is not. Two transactions that wait
for each other are aborted, which is `Abort`. Identifiers are never drawn twice.
Expiry of an invitation is a choice of the clock. Mail addresses are values that the
service has already normalised.

`CredentialsNameAccounts`: a credential leads to an account. `AcceptanceIsAJoin`: an
invitation becomes accepted only in the commit that inserts the account of its address
in its role. `GuestListRefined`: a reader who sees the lists of members and invitations
only sees the steps of `GuestList`: a join by somebody invited, the bootstrap admin or a
plain member, a departure, an invitation by an admin, a withdrawal.

What the model also shows, and no property forbids: an accepted invitation stays when its
account is deleted, so that the address has to be revoked before it can be invited again.

## Browser sessions

`BrowserSession.tla` is one browser with its two cookies (`access`, `refresh`), the
requests it has under way (`call`), and the accounts the server knows (`account`, `role`,
`uncommitted`). `signedOut` is history: a log-out was answered with nothing else under
way.

| Code | Actions |
|---|---|
| the browser, and `set_session_cookies`, `clear_session_cookies` | `Send`, `Receive`, `AccessCookieExpires`, `RefreshCookieExpires` |
| `get_current_user`, `get_current_admin_user` | `Authenticate` |
| `auth_login`, `auth_callback`, `auth_register`, `dev_login_form` | `Login`, `Callback`, `Register`, `CommitAccount`, `LoseAccount`, `DevLogin` |
| `auth_logout`, `auth_refresh` | `Logout`, `Refresh` |
| `delete_user`, an administrator at the database | `AccountChanges` |

Every combination of a valid, an expired and an absent token is a choice of
`Authenticate`, within what the request carried. `CookiesAgree`: the two cookies belong
to one account, whatever answers overtake each other. `LoggedOutStaysOut`: after the
log-out no answer signs the browser in again, except by development login. It begins
only when no other request is under way: a page that healed its session and is answered
after the log-out does sign in again. The model keeps two more behaviours without a
property: tokens of a registration are answered before its account commits, and the
callback signs an inactive account in, whose tokens are then refused.

`auth_refresh` reads the subject of the token, a UUID, as an int: the run `auth_refresh`
refutes the docstring "Exchange a valid refresh token for a new access + refresh token
pair" for every token.

## MCP sessions

`McpSessions.tla`: the tables (`knownUsers`, `owner`, `recorded`), what clients were
given (`handed`), and the calls in flight (`tool`). A call is one transaction: `Begin`,
`Lookup` and `Upsert` (`resolve_mcp_user`), `OpenSession` (`get_mcp_session`), `Work`,
`Record` (`record_mcp_tool_call`), `CommitCall`, and `Fail` at any point. `Redeploy`
switches authentication over the same tables. `SessionsAgree`: whoever has used a session
owns it, a client can go on with every session id it was given, and a call that fails
leaves no session.

## The test environment

`HarnessEnvironment.tla`: the files (`config`, `backup`, `state`), whether there are
`containers`, and where each command is (`cmd`). The actions are the statements of
`environment.up` (`ReadState` to `MarkReady`, with `UndoDown`, `UndoRestore`, `UndoClear`
after a failure), of `teardown` (`Find` to `ClearState`), and of `run` around both. What
writes files or calls compose has an action for its failure, each under one of the
`Faults`: `PrepareFails`, `SaveFails`, `ReplaceFails` (the copy is undone),
`ReplaceUndoFails`, `WriteStateFails`, `ComposeFails`, `UndoRestoreFails`,
`UndoClearFails`, `MarkReadyFails`, `DownFails`, `RestoreFails`, `ClearStateFails`; a
failing `compose.down` after a failed start is ignored, as in the code. `Killed` ends a
process anywhere, half way through a copy included.

`OriginalIsKept`: with no command at work the developer's configuration is in place, or
an environment on record has it. It holds under all faults but three, which the run
leaves out (`OrderlyPreparation`), because with any of them the file stays replaced or
torn with nothing on record, and the next `up` saves it as the original (a hazard in
`PROJECT.json`):

* `kill_preparing`: `up` is killed before it has written its state;
* `record_preparing`: `state.write` fails (`environment.py:39`, outside any `try`);
* `undo_preparing`: a copy fails half way, and the copy that is to undo it fails too
  (`config.py:94`).

Two commands at once are not run either; nothing in the code excludes them from each
other.

## The agent installer

`AgentConfigs.tla`: the configuration `file` of each agent, what its owner `kept` in it,
and the `job` under way. `HandleTarget` reads a file and decides, `WriteJson` writes it,
`EndEarly` ends the command anywhere, `EditFile` is the owner. `AgentFilesAgree`: what
others keep stays, and a target that a command has reported is as reported, also when
the command fails for a later one. Three things are left out of the property, because
the code does not provide them: a file torn by a kill loses its content, a file with
comments counts as empty and is replaced, and an edit between the reading and the
writing is overwritten. The branch of `uninstall` that unlinks the file is unreachable:
data that had a server always has a key.

## Sources and their shares

`SourceLibrary.tla`: the committed `people`, `sources`, `shares` and `bases`, and the
requests (`edit`). `Ask`, `Get` (`get_source`, `_ensure_mutable`, the check of the owner),
`FlushEdit` (with the locks of `Waits` and the errors of `Fails`), `RenameFails`,
`CommitEdit`, `AbortEdit`. A deletion of a knowledge base is a request like the others:
`GetBase` loads the row and its converted source without a lock, `FlushEdit` deletes what
was loaded, waiting for whoever writes the rows. `Convert` is the commit of a job that
has made the first converted source, at any time in between (the steps of the job before
its commit are in `KnowledgeBaseService`).

`SharingIsGranted`: a share appears only by a request of the owner or an admin.
`ConvertedStayPrivate`: a SYSTEM source is shared with nobody and no knowledge base is
made of it; a knowledge base keeps the converted source it has, which is its owner's and
no other's, and the source it is made of. The converted source does not always go with
the knowledge base: a deletion that has loaded the row before a conversion commits does
not know of it, and leaves it behind (the model does that; for the rows and blobs of the
files, `kb_delete_race` shows it).

The run `sharing_replaced` refutes the schema's "Replacement list of user IDs allowed to
view": `shared_with` is compared with a collection that was not loaded, so former viewers
stay. The same model has `RenameFails`: an answer that is built before the commit reads
`updated_at`, which the database has just set and nobody has loaded again.

## Scrolling

`FileScroll.tla`: the `listing` of a source, and what one page has read of it.
`OpenSource`, `NextPage` (`get_files_page` with its spare row), `LinkFile` (an upload
commits, its file anywhere in the list: `created_at` is the begin of the transaction) and
`ReplaceFiles` (a conversion). `ScrollMissesNothing`: at the end of the list every file
that was there at the first page, and still is, has been shown.

## The pages of a knowledge base

`KnowledgeBasePages.tla`: the row and the tasks as the pages see them (`base`,
`progress`, `stageOf`, `builtFrom`, `stored`), the status `fragment` of each stage with
its poll and its start request, the `indexButton`, and the `filePage`.

| Code | Actions |
|---|---|
| `_run_operation_job` | `BeginTask`, `StageTask`, `CommitTask`, `FailTask` |
| `knowledge_base_detail_page`, `OperationStatus.jinja`, `IndexAction.jinja` | `OpenDetail`, `Click`, `ShowStart`, `SendPoll`, `ShowPoll` |
| `_start_operation`, `poll_knowledge_base_operation_view` | `HandleStart`, `HandlePoll`, `StartElsewhere` |
| the file page and `get_knowledge_base_file_chunks` | `OpenFilePage`, `LoadFiles`, `LoadIndex`, `ReadDocuments`, `ReadChunks` |
| `delete_knowledge_base` | `DeleteBase` |

`RunningIsWatched`: a fragment that shows a running operation goes on asking, as long as
the row names that operation. `FragmentsGoForward`: answers that overtake each other
never turn a fragment back. `ChunksMatchDocuments`: chunks are marked in the documents
they are of, although the page reads row, files, index and blobs one after another.

Not in the model: a poll that is lost or answered with an error ends the polling for
good, since htmx asks again only when the fragment is replaced (lost polls are left out,
and errors are in `HandlePoll`). What the model does, and no property forbids: the Index
button stays disabled after a conversion until the page is loaded again, and the answer
to a click is dropped when its fragment has been replaced meanwhile.

## The hooks

* `CssDirectives.tla`: the depth-first walk of `jinjax_css_dependencies` with its cache
  (`ResolveComponent`, `Visit`, `Return`), the rewriting of the directives
  (`WriteComponent`), and two more runs. Of a text the model has what the regular
  expressions and the comparison of whole texts tell apart (`ComponentTexts`): the assets
  of the directive that is found, those of one that is not found because it stands on the
  line of the definition, whether an inserted directive begins a line, and whether white
  space around the directive is still to be swallowed. `StylesSynchronized`: without
  cycles every needed style sheet is listed, nothing else is added, and the runs settle.
  The second run is not always quiet. A directive inserted on the line of
  `{#def #}<div>` is not found, and the second run inserts it once more, now at the begin
  of a line; one inserted after a blank line is found, and the second run takes the blank
  line away. It changes no other text, and the third run none (`RunsSettle`). On cycles
  of three components or more the cached sets may lack style sheets.
* `ExceptionNames.tla`: the passes of `exception_name_guard`. `FindsTheDescendants`: what
  they find is exactly what descends from an exception, for any order of definition.
* `CommitGuard.tla`: the choice of files by grep and the parse of `session_commit_guard`;
  a file that cannot be read or parsed ends it with an error.
  `VerdictIsRight`: forbidden calls are reported, and nothing else, also when grep fails.
  A call split over two lines escapes grep; the property names that.
* `ModelRegistry.tla`: the regenerated `db/registry.py` behind its header.
  `RegistrySettles`: the run after a rewriting finds nothing to do, and a registry in sync
  imports every model, unless its header is `"cut"`. A docstring with a line that starts
  with the word "from" is cut before that line; what is left is not Python and imports
  nothing, and the next run finds it in sync. That contradicts the docstring of
  `_split_header` ("preserved verbatim so the docstring and any comments survive
  rewrites", `pre_commits/model_registry/hook.py:147-148`); the registry in the repository
  has no such line. The model keeps the behaviour, and completeness is claimed for
  registries that were not cut only.
* `TemplateNames.tla`: the names a template may use, followed through blocks and includes
  by the walk of `template_types` and by any rendering; one machine takes both ways.
  `ReportIsComplete`: where a rendering finds no value for a name, the hook has reported
  it, and no inclusion recurses. Two kinds of names are excused (`Excused`), because the
  hook never reports them: those to which the template gives a default somewhere, and
  the built-in ones and globals (`BuiltinNames`), which a rendering may lack, as `loop`
  outside a loop or `request` in an include without context. A rendering takes any
  branch, the else of a loop over nothing included. A comment in the template can silence
  the report of a name, though not of a cycle; it is left out, as are types of attributes,
  `with` with several targets, and `blocks` and `extends`.

## The side-by-side runs

| Run | Part | Instance |
|---|---|---|
| `services` | `Accounts` | 2 requests, 2 addresses of which one is invited, 1 provider identity, 3 user ids, 2 invitation ids |
| | `BrowserSession` | 2 requests under way, 2 users, one of them the development login; one account changes |
| | `McpSessions` | 2 calls, 2 people, 3 sessions |
| | `HarnessEnvironment` | 1 command at a time, all faults but `kill_preparing`, `record_preparing`, `undo_preparing` |
| | `AgentConfigs` | 2 agents, 1 setting and 1 server of others |
| `library` | `SourceLibrary` | 2 requests, 2 users of which one is an admin, 2 sources, 2 lists of viewers, 1 knowledge base |
| | `FileScroll` | 4 files, pages of 1 |
| | `KnowledgeBasePages` | 3 operations; 1 detail page or 1 file page |
| | hooks | 3 components with up to 2 references, one of them at most with a directive or an unusual begin (`StyledTexts`); 3 classes over 3 names; 2 files to scan; 3 models of which one is hidden; 2 templates of up to 4 tokens |

Why these are enough. Two requests are an overlap; a third would only wait or repeat
what one of the two does, and the proofs cover any number. Three operations are a
conversion, an indexing and a conversion that makes the index stale. Pages of one row
reach the end of a page after every row. Three components are the smallest cycle beyond
a mutual reference, and a shared dependency; three classes are the smallest chain that
needs a third pass. Four tokens hold a block with an else and a name in each branch, or
an include between a definition and a use. The bounds `Changing`, `ShareLists`,
`FileCount` and the two bounds in `Ask` limit how much happens at once, not which steps
exist. The two source ids are those of a knowledge base's source and its conversion; an
identifier that a request has in hand is not drawn again, so that a deletion and the
conversion that overtakes it are told apart. One knowledge base at a time is enough for
that, and the proofs cover any number.

Both runs are safety only: requests of users are not owed a next one, and the models of
the hooks are loops over finite data. `library` has `CHECK_DEADLOCK FALSE`, because a
hook that has come to its end stops. Request slots and identifiers are interchangeable,
and `Symmetry` permutes them; the refinement's mapping does not mention them.

Proofs. Each part has an inductive invariant, which its proof module shows inductive for
every value of the constants. Most stand in the part's own module under the heading
"Why". `GuardInv` stands in the proof module, and so do the invariants of the two hooks
that walk (`CssDirectives`, `TemplateNames`), which speak of what TLC cannot enumerate:
all walks, and all states of an earlier run.

* `AccountsProofs`: `AccountsInvariant` says that the tables are consistent, that each
  request's flushed rows still satisfy every constraint (`Committable`) and do not clash
  with those of others (`Compatible`), and that what it has loaded is still what it loaded
  or will fail at the flush (`Informed`). A unique constraint is checked at the flush and
  holds at the commit, because who could break it waits. From it
  `CredentialsLeadToAccounts`, `AcceptedByJoining`, and `AccountsImplementList`.
* `ServicesProofs`: `CookiesStayTogether`, `LogoutIsFinal` (from `BrowserInvariant`:
  after a log-out no request carries or sets anything of a user), `SessionsStayAgreed`
  (from `McpInvariant`: a call at work has a session of its own, or one only it has),
  `AgentFilesStayAgreed`; `HarnessTypeCorrect`, assuming one command (`Commands` is a
  singleton): the copy of the original is there whenever a step copies it back
  (`Saved`); `OriginalIsNeverLost`, assuming `OrderlyPreparation` besides (none of the
  three faults above), from what every statement relies on (`ReliedOn`). The parts
  behave in `MCServices` as on their own (`ServicesTypeCorrect`, for one command): a
  step of one leaves the variables of the others.
* `LibraryProofs`: `LibraryInvariantHolds`, `ConvertedArePrivate` and `SharesAreGranted`
  (identifiers in hand are not drawn again, so what was loaded and checked of a source
  holds until the commit, or the source is gone; a deletion deletes the converted source
  that it has loaded, which is still that of no other knowledge base), `ScrollComplete`
  (what is left to see stands after the pages that were read), and three theorems from
  `PagesInvariant`: `RunningStaysWatched` and `FragmentsNeverGoBack` (what a fragment
  shows, and every answer on its way to it, is no later than the row, and the row names
  later operations only: `FragmentFollows`), and `ChunksAlwaysMatch` (an index that the
  row has dropped never comes back, so one that is still there has been there since the
  page was begun: `PageFits`).
* `HooksProofs`: `DescendantsAreFound` (a pass that has added nothing has left nothing
  behind it) and `RegistryComesToRest`. `VerdictsAreRight`: the guard takes the last
  definition that begins before a call and ends after it, which is the innermost,
  because definitions nest (`DefsAssumption`); a file that the guard does not parse has
  no call that could be forbidden, or only one that grep overlooks (`GuardInv`).
  `StylesAreSynchronized` has two halves. `WalkIsRight` says that a call of the walk has
  found all that its references before the present one render, and nothing else: the
  calls that wait above it are below its component, so among components without cycles
  no reference leads to a call under way, the only case in which the walk stops early.
  `RunsRepeat` says that with or without cycles every later run takes the steps of the
  first: the directives have no part in the walk, so a run is determined by the
  references alone, and each text is what its author wrote, rewritten with one set of
  dependencies as often as there have been runs (`Rewritten`). So it remains that
  rewriting a text once leaves it `Settled` unless it is `Untidy`, and twice always.
* `TemplateProofs`: `ReportsAreComplete`. Frames stand in the blocks and includes below
  them (`Nested`). The check leaves behind a set of walks, one for each scope in which
  it has come to a template, that leave nothing out (`Complete`: every use of a name was
  seen with the scope of its place, every include has its walk), except those still
  under way (`Checking`). When it has ended without a cycle, each frame of a rendering
  stands in a template that one of these walks went through, with at least the names in
  scope that the walk had there (`Rendering`): what Jinja keeps after an if, or binds in
  another pass of a loop, only adds to them. So a name missing in the rendering was
  missing in the walk, and reported. Walks of includes go down, which is why nothing
  renders within itself.
* `MCLibraryProofs`: `LibraryTypesCorrect`. The parts keep their types side by side, and
  a hook that does not run in a behaviour rests in a state that it may start from
  (`RestAssumption`).

## What is proved and what is only checked

Theorems hold for every value of the constants under the named assumptions. Most of
these say no more than that sets are disjoint and bounds are positive. Some say what
code outside this repository guarantees: `DefsAssumption` that definitions nest as
Python's grammar has it, `TemplatesAssumption` that blocks are closed as Jinja's parser
demands (`Parses`). The theorems with an assumption of their own name it
(`OrderlyTransactions`, `OrderlyJobs`, `OnePage`, `PagesWait`, `CleanFailures`,
`NoLoss`, one harness command, and `OrderlyPreparation`).

Every invariant and every action property of the runs that pass is a theorem, and so are
the refinements. Only model-checked: `AcceptedTerminates` and `UploadEnds`, since
liveness under fairness is beyond the prover.

Two definitions of `CssDirectives` have the form they have for the sake of the proofs:
`InOrder` chooses the increasing sequence of a set instead of sorting, and `Below` is
the least closed set instead of a recursion, which the prover can take apart.

## Not modelled

* Logging, configuration and the command line have no protocol. Rendering is one step.
  Renaming a user and editing a knowledge base are single statements.
* Conversion, chunking and embedding call models outside this repository; their result
  is one value here.
* The batching of an upload by the server's limits: a batch is any set of files. The
  checks on counts and sizes reject before anything is written. Those on names stand in
  the loop that writes the blobs, and a refused name takes the way of a failing write
  (`WriteError`).
* Searching the list of sources, and page counts: one statement each.
* The provider's protocol, the signature of tokens, and the authentication of MCP clients
  are external; they yield an identity or a refusal.
* Port allocation and compose are one step each of the harness.
* The types of template attributes, and the hooks that look at one syntax node at a time.
* That a search reads its row and its index file by two statements, and an upload the
  existing and the linked ids, is part of the models; the spurious refusals this can cause
  ("has not been indexed", "do not belong to this source") are listed as hazards, and no
  property speaks of them.
* Two pages of one browser that upload at once: `NoOrphanBlob` and `ReportedIsStored` are
  proved for any number of pages, and no run has two.
