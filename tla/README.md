# A TLA+ model of DocFlow

DocFlow is a multi-tenant file service: clients upload a file in chunks through a
FastAPI application, Celery workers assemble the chunks into a permanent object in
MinIO, and PostgreSQL holds the state. These modules model the upload, finalization,
retry and deletion of files with their interleavings, crashes, expired sessions, lost
connections and queue failures, what clients are told meanwhile, the threads and
connections requests compete for, and registration. TLC checks them on small instances,
and TLAPS proves the safety results, and the refinement of an abstract specification, for
every size.

Paths are relative to the repository's root; line numbers are those of the modelled commit.

| abbreviation | file |
|---|---|
| *service* | `src/src/services/docflow_file_service.py` |
| *task* | `src/src/tasks/docflow_upload_task.py` |

## 1. The system

### Components

| component | state | operations | interacts with |
|---|---|---|---|
| File service (*service*, `api/routes/files.py`) | none between requests; within one, a SQLAlchemy session with what it has loaded | `initialize_upload`, `upload_chunk`, `complete_upload`, `retry_finalization`, `soft_delete_file`, `_enqueue_finalization`; read-only: status, list, metadata, download link | PostgreSQL, MinIO (chunk objects), RabbitMQ (`delay`) |
| Celery tasks (*task*) | none between messages; within one, a session, row locks and the assembled bytes | `finalize_upload_task`, `_mark_finalization_failed`, `cleanup_file_storage_task` | PostgreSQL, MinIO |
| Entities (`entities/`, `alembic/`) | tables `files`, `upload_sessions`, `file_chunks` (and users, organizations, members, access log) | SQL | everything |
| Object storage (`infrastructure/minio.py`) | chunk objects, permanent objects | put, get, remove, presign | service, tasks |
| Queue (`infrastructure/celery.py`, RabbitMQ) | queued messages | `delay`, delivery | service, tasks |
| Accounts (`api/routes/auth.py`, `auth/`) | `users` | register, login, token check | PostgreSQL |
| Membership (`entities/organization.py`) | `organizations`, `organization_members` | read only | service |
| Access log (`entities/file_access_log.py`) | a table | none: no code uses it | |
| Configuration, errors, entry point | none | | |

### How they interact, and what is hard

* A handler reads rows without locks, decides, and writes later. SQLAlchemy writes only
  columns whose value differs from the one loaded, under READ COMMITTED, so a stale
  decision overwrites newer state or silently writes nothing. Only deletion and
  finalization lock rows before they read them.
* `upload_chunk` is a coroutine whose database and MinIO calls block its event loop. Its
  tests precede `await upload_file.read()` and its writes follow it (*service*:147-195).
* A chunk object is put in MinIO before its row is committed; finalization puts the
  permanent object before it commits AVAILABLE; chunk objects are removed after.
* `complete_upload` commits PROCESSING before it publishes the message; a worker
  acknowledges a message before it runs the task. A crash in between loses the message.
* The finalize task locks the session row, then the file row. A handler's flush updates the
  file row, then the session row: they can deadlock and PostgreSQL aborts one.
* `_mark_finalization_failed` runs after the rollback has released the locks and reads
  the rows again without locking them.
* The deadline is tested before the status, so it can turn any session EXPIRED.
* A put to MinIO is protected by locks of a transaction whose connection may be lost while
  the put goes on; a commit may take effect although it raises.
* The answer to a poll is put together from three statements; a listing, a checksum and a
  signed link are used long after the rows they came from were read.
* A request gives its connection back at each commit and needs one again to queue the
  finalization and to build its answer. The exit code of `get_db`, which releases row locks
  nobody committed, is started by the event loop, and `upload_chunk` makes that loop wait
  for row locks and for the pool.
* Two registrations of one email may both pass the look at the table.
* The limits of the request, the widths of the columns and the labels of the enum types are
  written down independently of each other.

`PROJECT.json` lists every hazard under `hazards` with the line where it bites and the
properties that would catch it.

### What makes each component correct

* *Upload.* A committed row has the bytes it was committed for; one row per index;
  READY_TO_COMPLETE only with all chunks; the last chunk makes the session ready.
* *Finalization.* Only whole uploads are finalized; AVAILABLE means that the object is
  there, is the chunks in order and has the stored checksum; it is never replaced.
* *Failure handling.* A file in PROCESSING is owned by somebody who will settle it;
  locks are released on every path; polling ends.
* *Deletion.* Nothing makes a deleted file downloadable; its sessions are inactive; its
  objects go in the end.
* *Reads.* The parts of an answer agree; what was offered once is downloaded whole, with
  the checksum that was given, until the file is deleted.
* *Resources.* No request keeps a connection or a lock after its answer; every request
  and every task ends.
* *Initialization.* A File and its UploadSession are stored together or not at all, and
  the answer does not contradict it; the name in the storage key is one path component.
* *Accounts.* One user per email; a client told 201 can log in, one told 409 was told the truth.

## 2. The modules

| module | what it is |
|---|---|
| `DocFlowStore` | shared state: rows, row locks, objects, queues, faults; the checks on chunk rows; the clock |
| `FileService` | the request handlers (`req[r]` is a handler) |
| `UploadTasks` | the Celery workers (`wk[w]` is a worker process) |
| `DocFlow` | the composition, deadlock resolution, fairness and the properties |
| `FileLifecycle` | the abstract life of a file, as the repository's README tells it |
| `DocFlowPromises` | the refinement mapping: `DocFlow` implements `FileLifecycle` |
| `DocFlowQueries` | the calls that only read, and what clients keep of their answers |
| `DocFlowFaults` | puts that outlive their transaction, commits that raise and take effect |
| `RequestPool` | threads, event loop, connections and row locks a request occupies |
| `UploadInit` | `initialize_upload` statement by statement, against the columns |
| `Accounts` | registration and login |
| `MCDocFlow`, `MCDocFlowQueries`, `MCDocFlowFaults`, `MCRequestPool`, `MCUploadInit`, `MCAccounts` | constants and symmetry for TLC |
| `DocFlowInv` | the inductive invariants, in named parts |
| `DocFlowLocks` | proofs about the types and the shape of the program counters, the row locks, and deletion against finalization |
| `DocFlowContent` | proofs about chunk rows, chunk objects and permanent objects |
| `DocFlowOutcomes` | proofs about the calls that only read, and about files in PROCESSING |
| `DocFlowLifecycle` | proofs for one request at a time, and of the refinement of `FileLifecycle` |
| `DocFlowFaultProofs` | proofs of what the faults of `DocFlowFaults` leave true |
| `RequestPoolProofs`, `UploadInitProofs`, `AccountsProofs` | proofs about these three modules |

`FileService` and `UploadTasks` both extend `DocFlowStore` and never mention each other:
handlers and workers meet only in the rows, locks, objects and queues. `DocFlow` extends
both. `DocFlowPromises` extends `DocFlow` and instantiates `FileLifecycle`; `DocFlowQueries`
and `DocFlowFaults` extend it with variables and actions of their own. `RequestPool`,
`UploadInit` and `Accounts` look at one concern each, finer than `DocFlow` does, and stand
by themselves.

### State

`initialize_upload` creates a File and an UploadSession together and nothing else creates
either, so one identifier `u` stands for the pair. `file[u]` holds the status,
`is_deleted`, whether `file_metadata` has a `finalization_error`, and the checksum.
`sess[u]` holds the status and the three figures given at initialization. `chunk[u][i]` is
the payload that row `i` was committed for. The code stores only its size there; the
payload lets properties compare it with the object. `expired[u]` says whether the clock
has passed `expires_at`. Two files have the same checksum exactly when they have the same
bytes, so the model keeps the bytes. `fileLock` and `sessLock` are the row locks held by
open transactions, `chunkObj` and `permObj` the objects in MinIO, `finq` and `cleanq` the
queued messages.

`req[r]` holds the program counter, the operation, the upload, the index and payload of a
chunk, and the file and session status *as loaded* (`fs`, `ss`): what is written depends on
them. `wk[w]` is the same for a worker.

In `DocFlowQueries`, `poll` is a status call under way with what it has read, `shown` and
`links` are the files a client has seen in a listing of available files or has a link to,
and `told` the checksum it was given. In `DocFlowFaults`, `late[p]` is what a process
without its transaction is still putting. In `RequestPool`, `pc`, `op` and `conn` say where a
request is, what it asks for and whether it has a connection, `task` is the worker, with its
error handler; one upload is being finalized and `fileLock`, `sessLock` are its two rows. In
`UploadInit`, `labels` are those of the enum types in the database, and `pending` and `stored`
the rows written and committed. In `Accounts`, `reg[r]` is a registration, `users` the committed
rows, and `created` and `conflicts` what clients were answered.

`FileLifecycle` has four variables: the status a client sees ("deleted" hides the others),
the announced figures, the chunks received and the bytes offered. The mapping computes them
from the rows and the permanent object. Its actions are `Announce`, `Receive`, `Start`,
`Offer`, `Fail` and `Delete`. With `Exclusive`, that is one request at a time and no message
twice (`Solo` of `DocFlow`), a file that is available can only be deleted; without, it may fail or start over.

### Actions and code

A step of the model is a stretch of code between two points where somebody else's step
could be seen, and it contains everything that stretch changes.

| code | actions |
|---|---|
| `initialize_upload`, *service*:92-138 | `InitializeUpload` |
| `upload_chunk`, *service*:140-212 | `ChunkBegin` (up to the await), `ChunkStore` or `ChunkReject` (after it, under the advisory lock), `ChunkCommit`; deadline: `FindExpired`, `ExpireCommit` |
| `complete_upload`, *service*:214-244 | `CompleteBegin` (session), `CompleteCheck` (file, deadline, rows), `FlushFile`, `FlushCommit` |
| `retry_finalization`, *service*:302-331 | `RetryBegin` (file), `RetryCheck` (session, rows), `FlushFile`, `FlushCommit` |
| `soft_delete_file`, *service*:333-357 | `SoftDelete` (FOR UPDATE and reads), `FlushCommit`, `QueueCleanup` |
| `_enqueue_finalization`, *service*:70-83 | `Publish`, `TagTask`; error: `PublishError`, `MarkQueueError`, `FlushFile`, `FlushCommit` |
| `finalize_upload_task`, *task*:39-111 | `TakeFinalize`, `LockSession`, `LockFile` (and all tests), `Assemble` or `AssembleFail`, `CommitFinal`, `RemoveChunks`; any exception: `TaskError` |
| `_mark_finalization_failed`, *task*:19-36 | `MarkLoadSession`, `MarkLoadFile`, `MarkFlushFile`, `MarkCommit` |
| `cleanup_file_storage_task`, *task*:114-138 | `Cleanup` |
| `get_file_status`, *service*:246-265 | `GetFileStatus`, one step per statement |
| `list_files`, `get_file_metadata`, `create_download_link` | `ListFiles`, `GetFileMetadata`, `CreateDownloadLink` |
| the put in `upload_chunk`, *service*:174, with the connection lost | `LoseChunkLock`, `LateChunkPut` |
| the put and the commit of `finalize_upload_task`, *task*:79-96, likewise | `LoseRowLocks`, `LateFinalPut`, `AmbiguousCommit` |
| `get_current_user`, `get_db` | `Authenticate`, `CloseSession` (`RequestPool`) |
| endpoints of `api/routes/files.py` | `CallEndpoint`, then `Query`, `InitCommit`, `Refuse`, `BodyRead`, `CommitOnLoop`, or `FlushFile`, `FlushCommit`, `Publish`, `TagTask`, `Reload` |
| `finalize_upload_task`, `_mark_finalization_failed` in `RequestPool` | `TakeTask`, `LockSession`, `LockFile`, `EndTask`; `MarkFlushFile`, `MarkCommit` |
| `pool_timeout` | `PoolTimeout` |
| `initialize_upload` in detail | `RefuseBody`, `ReadMembership`, `TestPayload`, `InsertFile`, `InsertSession`, `Commit`, `Reload`, `Crash` |
| `register`, `api/routes/auth.py`:16-33 | `Register` (the look), `Insert` or `Conflict`, `Commit`, `Answer` |
| `login`, `api/routes/auth.py`:36-41 | `LoginSucceeds` |
| PostgreSQL | `TaskIsVictim`, `HandlerIsVictim`, `MarkerIsVictim` |
| the world | `SessionTimeout`, `Abort`, `WorkerCrash`, and the faults in `PublishError`, `QueueCleanup`, `TakeFinalize`, `RemoveChunks`, `Cleanup` |

Where the code does several things in one step of the model, this is why no other
process could tell the difference:

* *Put, flush and count* in `ChunkStore`: the advisory lock is held, and a row that has not
  been committed is visible to its own transaction only. `ChunkCommit` is a separate step,
  so commits of other chunks fall between count and commit.
* *Reads, put* in `Assemble`: both row locks are held and no row of a whole upload changes.
* *Reading file and session* in `SoftDelete`, and chunk rows in `CompleteCheck` and
  `RetryCheck`: chunk rows of an upload that passes the check no longer change.
* *Removal loops* in `RemoveChunks` and `Cleanup`: any subset of the removals may fail.
* The KEY SHARE lock an INSERT of a chunk takes on its session never meets the FOR UPDATE of
  a worker: no chunk is in flight once an upload is finalized
  (`FinalizedUploadsAreValid`), so it is left out.

`LoseRowLocks` takes the worker to its error handler at once, while `late` keeps what it is
still putting. From the loss of the connection on, the task can do nothing but return from
the put and raise at the commit, and `WaitForPuts` holds it back until the put has landed.

`FlushFile` follows SQLAlchemy: a File whose attributes do not change gets no UPDATE and no
lock. In the error path of `_enqueue_finalization` that depends on the message too: a file
loaded as FAILED may have the very message that is to be stored, so both outcomes are possible.

A request that the code turns down at its first read, without having written anything, is
not a step. `autoflush=False` (`infrastructure/db/postgresql.py:10`) is why
`upload_chunk` needs its explicit flush; a mutant drops it.

`RequestPool` relies on what the pinned libraries do. FastAPI 0.111 runs synchronous
endpoints and dependencies in the 40 threads of anyio, and awaits the exit code of a
dependency with `yield` before it sends the response. SQLAlchemy 2.0 has a pool of 5
connections and 10 more, waits 30 s for one, and expires what a session has loaded when it
commits, so that the next attribute is a query. The operations are `plain` (a call that only
reads, or an initialization, which commits and then reads again); `start` (complete or retry); `refused` (a DELETE that locks the row and then commits nothing);
`chunk`; and `late`, a chunk whose upload has expired, which makes the loop wait for the
session row.

`UploadInit` has names as sequences of four kinds of characters, "x" standing for all that
`_safe_filename` treats alike. `PurePath(...).name` is given by what it returns: the stretch
between the last slash and the end, once trailing slashes, and dots alone between slashes,
are dropped. The model scales the limits down: the columns hold 3 characters
where the code has 512, the prefix of the stored name has 1 where it has 33. The commit and
the answer are two steps, because the commit expires the session and the response is built
from another query: that may fail, or the process may die, with both rows stored.

## 3. What TLC checks

Every run on files uses one upload. Uploads share nothing but the processes, and a process
works on one at a time, so the interesting interference is between processes on one
upload. `MaxCount`, `MaxFaults` and `MaxQueue` are the bounds on chunks, faults and queued
messages. Requests are not bounded in number: a handler that ends takes the next one.
Two requests and two workers are the smallest numbers for which two handlers, two
finalizations, or a task and the error handler of another, meet. Symmetry over requests
and workers is used in safety runs only. Deadlock is checked in `accounts` only: a deleted or
expired upload with nothing in flight really stops, an initialization ends with its answer,
and in `pool` the cycle described below stops everything.

| run | instance | properties | states |
|---|---|---|---|
| `upload` | two chunks of lengths 1 and 2, two API processes, one worker, expiry; one crash or failed removal; metadata and links | `TypeOK`, `RowMatchesObject`, `NoDuplicateRow`, `ReadyHasAllChunks`, `FinalizedUploadsAreValid`, `AvailableIsWhole`, `DownloadsAreWhole`, `ChecksumsHold`, `DeletedGetsNoObject`, `ImplementsLifecycle` | 577 100 |
| `one_process` | two chunks, one event loop, as `supervisord.conf` starts it; two workers, expiry; one crash | `LastChunkMakesReady` | 1 171 000 |
| `finalization` | one chunk of two payloads, two requests, two workers, up to two messages; one redelivery, crash, lost connection or ambiguous commit | `DeletedNeverAvailable`, `LocksHaveOwners`, `RowMatchesObject`, `AvailableIsWhole`, `PermanentObjectStable` | 960 000 |
| `one_request` | one request at a time, two workers, two faults, expiry; all reads | `StatusesAgree`, `DeletedSessionsCancelled`, `PollsAgree`, `PollsCountAll`, `ImplementsLifecycle`, `RetriesHaveChunks` | 91 500 |
| `liveness` | two requests, one worker; one publish error, ambiguous publish, redelivery or task error | `ProcessingIsOwned`, `ProcessingSettles`, `RequestsFinish`, `WorkersFinish`, `DeletedContentGoes` | 86 700 |
| `pool` | three requests of every kind, two connections, two threads, one worker | `TypeOK`, `NothingLeaks`, `RequestsEnd`, `TasksEnd` | 236 800 |
| `upload_init` | names of up to four characters, figures around every limit: 12 276 requests, each on two schemas | `TypeOK`, `NoHalfUpload`, `NamesAreClean` | 51 800 |
| `accounts` | three registrations at a time, three spellings of two emails, two passwords | `TypeOK`, `OneUserPerEmail`, `CreatedCanLogin`, `ConflictsAreReal`, `RegistrationsEnd` | 139 700 |

The bounds let every case happen: every action is taken in some passing run; with two
chunks an upload can have none, some or all of its rows; two payloads of different lengths
make uploads of the right count and the wrong size, and two of one length let an object be
replaced without any test on sizes noticing; two queued messages are what two
completions, or a completion and an ambiguous publish, leave behind. In `pool` three
requests can exhaust both connections and both threads and still leave one to wait, and the
three roles of the cycle (a request that keeps a lock, the loop, a third request that
suffers) can be filled. In `accounts` a third registration can come between two that race.

Some properties hold only in part of the instances, and that is the result:

* `LastChunkMakesReady` needs the single event loop. With two API processes both last
  chunks count before either commits, both write UPLOADING, and the upload can never be
  completed; `upload` therefore does not list it.
* `StatusesAgree`, `DeletedSessionsCancelled`, `PollsAgree` and `RetriesHaveChunks`
  hold with one request at a time and no duplicated message, and not otherwise.
* `ProcessingIsOwned` and `ProcessingSettles` need processes that do not die.
* `RowMatchesObject` survives a put that outlives its transaction only with one API process,
  whose loop is blocked by that put (`finalization`); two processes break it (below).
* `DownloadsAreWhole` and `ChecksumsHold` need no such restriction: a file may lose its status
  AVAILABLE to the races below, but a link that was signed keeps leading to the same bytes.
* `RequestsEnd` and `TasksEnd` except one state, `Wedged`: a refused DELETE has the file row
  until the loop closes its session; the loop, in a late chunk, waits for the session row; the
  worker has that one and waits for the file row. PostgreSQL sees no cycle because one
  edge is the event loop. The two properties say that nothing else stops a request or a task.

### Disagreements between the code and its documentation

Four runs are expected to find a violation; `findings` in `PROJECT.json` quotes both sides.

| run | what the code does |
|---|---|
| `double_complete` | two concurrent completions both pass the unlocked status test and queue two finalizations; one makes the file AVAILABLE, the other finds statuses it does not expect and raises, and its error handler writes FAILED over AVAILABLE |
| `delete_race` | a chunk received during a deletion makes the cancelled session active again |
| `stuck_processing` | a process that dies around the queue leaves the file PROCESSING for ever |
| `migrated_schema` | the ORM writes the names of enum members, the migration labels the types with their values: on the migrated schema no upload can be started |

`DocFlow` and the modules on it start from a database whose labels the ORM knows: on the
migrated schema there would be no upload to talk about. `upload_init` takes both, so what it
shows does not depend on the repair.

`double_complete` asks for the step from AVAILABLE to FAILED (`AvailableNeverFails`). The second
completion may also commit after the first finalization and put PROCESSING over AVAILABLE;
`AvailableStays`, which forbids that too, is proved for one request at a time.

These configurations show eight more behaviours that the model found. They are not among the
runs and are there to be run by hand (`tlc -config X.cfg M`); each ends with a violation.

| configuration, module | property | what the code does |
|---|---|---|
| `retry_lost_chunks`, `MCDocFlow` | `RetriesHaveChunks` | a file that `double_complete` made FAILED can be retried although its chunk objects are gone |
| `lost_cleanup`, `MCDocFlow` | `CleanupRetriable` | a cleanup that could not be queued is never queued again, against the comment at *service*:354 |
| `late_cleanup`, `MCDocFlowFaults` | `DeletedGetsNoObject` | a worker that lost its connection, and the row locks, puts the permanent object of a file deleted meanwhile |
| `late_put`, `MCDocFlowFaults` | `RowMatchesObject` | an API process that lost its connection, and the advisory lock, overwrites a committed chunk of another process, against *service*:159-161 |
| `ambiguous_commit`, `MCDocFlowFaults` | `AvailableStays` | a commit that made the file AVAILABLE raises, and `_mark_finalization_failed` (*task*:19-36), which tests no status, turns the file FAILED |
| `unqueued_start`, `MCRequestPool` | `StartsAreQueued` | with the pool exhausted, `delay()` raises for want of a connection, and so does its error handler: PROCESSING stays, with no message |
| `wedged_loop`, `MCRequestPool` | `PollsAnswered` | `Wedged`: no request of the process is answered again, polls included |
| `wide_requests`, `MCUploadInit` | `AcceptedIsStored` | names of 480 to 512 characters and counts beyond 32 bits pass the DTO and are answered 500 |

### Fairness

`FairSpec` of `DocFlow` adds strong fairness of each handler and each worker at work: threads
and worker processes are scheduled, the broker delivers, and PostgreSQL grants a row lock to
its waiters in the order of arrival, so one that waits again and again is served.
`ResolveDeadlock` is weakly fair, because PostgreSQL checks a wait after `deadlock_timeout`.
Nothing is assumed of clients, of the clock or of faults; faults are bounded by `MaxFaults`.
The `liveness` run has no crash. `stuck_processing` is that run's `ProcessingSettles` with
crashes, under the same fairness.

`RequestPool` has strong fairness of each request and of the worker, for the same reasons: the
pool, the threads and PostgreSQL serve their waiters in order. `PoolTimeout` is a step of the
request, so a checkout that waits long enough ends. `Accounts` has strong fairness of each
registration: waiters for a key are woken in order. Crashes are never fair.

### Mutants

Each property of a passing run has a mutant in `PROJECT.json`: an operator of the
model replaced by a plausible bug (a lock not taken, a flush or a rollback forgotten, a
count off by one, ORDER BY dropped, a session left open, two commits instead of one), with
which TLC finds the property violated. The operators are next to those they replace, marked
"broken variant".

## 4. What is proved

| theorem | module | statement |
|---|---|---|
| `TypeCorrect` | `DocFlowLocks` | `Spec => []TypeOK` |
| `LocksAreOwned` | `DocFlowLocks` | `Spec => []LocksHaveOwners` |
| `NoResurrection` | `DocFlowLocks` | `Spec => []DeletedNeverAvailable` |
| `InvariantHolds` | `DocFlowContent` | `Spec => []IInv` |
| `RowsMatchObjects` | `DocFlowContent` | `Spec => []RowMatchesObject` |
| `RowsAreNotDuplicated` | `DocFlowContent` | `Spec => []NoDuplicateRow` |
| `ReadyMeansAll` | `DocFlowContent` | `Spec => []ReadyHasAllChunks` |
| `OnlyWholeIsFinalized` | `DocFlowContent` | `Spec => []FinalizedUploadsAreValid` |
| `OfferedIsWhole` | `DocFlowContent` | `Spec => []AvailableIsWhole` |
| `ObjectsAreStable` | `DocFlowContent` | `Spec => PermanentObjectStable` |
| `DeletedStaysEmpty` | `DocFlowContent` | `Spec => DeletedGetsNoObject` |
| `LastChunkSeesAll` | `DocFlowContent` | `Spec => []LastChunkMakesReady`, with `SharedLoop` |
| `DownloadsGetTheFile` | `DocFlowOutcomes` | `QuerySpec => []DownloadsAreWhole` |
| `ChecksumsAreFinal` | `DocFlowOutcomes` | `QuerySpec => []ChecksumsHold` |
| `PollsShowAll` | `DocFlowOutcomes` | `QuerySpec => []PollsCountAll` |
| `ProcessingHasOwner` | `DocFlowOutcomes` | `Spec => []ProcessingIsOwned`, without crashes |
| `StatusColumnsAgree` | `DocFlowLifecycle` | `Spec => []StatusesAgree`, with `Solo` |
| `DeletionCancels` | `DocFlowLifecycle` | `Spec => []DeletedSessionsCancelled`, with `Solo` |
| `RetriesCanSucceed` | `DocFlowLifecycle` | `Spec => RetriesHaveChunks`, with `Solo` |
| `AvailableIsFinal` | `DocFlowLifecycle` | `Spec => AvailableStays`, with `Solo` |
| `PollsTellOneStory` | `DocFlowLifecycle` | `QuerySpec => []PollsAgree`, with `Solo` |
| `ImplementsFileLifecycle` | `DocFlowLifecycle` | `Spec => ImplementsLifecycle` |
| `FaultsKeepLocks` | `DocFlowFaultProofs` | `FaultSpec => []LocksHaveOwners` |
| `FaultsDoNotResurrect` | `DocFlowFaultProofs` | `FaultSpec => []DeletedNeverAvailable` |
| `LatePutsSpareRows` | `DocFlowFaultProofs` | `FaultSpec => []RowMatchesObject`, with `SharedLoop` |
| `LatePutsKeepWhole` | `DocFlowFaultProofs` | `FaultSpec => []AvailableIsWhole`, with `SharedLoop` |
| `LatePutsRepeat` | `DocFlowFaultProofs` | `FaultSpec => PermanentObjectStable`, with `SharedLoop` |
| `FaultsKeepTheLifecycle` | `DocFlowFaultProofs` | `FaultSpec => ImplementsLifecycle`, with `SharedLoop` and without `Solo` |
| `PoolTyped` | `RequestPoolProofs` | `Spec => []TypeOK` |
| `NothingIsLeaked` | `RequestPoolProofs` | `Spec => []NothingLeaks` |
| `InitTyped` | `UploadInitProofs` | `Spec => []TypeOK` |
| `BothRowsOrNone` | `UploadInitProofs` | `Spec => []NoHalfUpload` |
| `NothingSlipsThrough` | `UploadInitProofs` | `Spec => []StoredPassed` |
| `StoredNamesAreClean` | `UploadInitProofs` | `Spec => []NamesAreClean` |
| `AccountsTyped` | `AccountsProofs` | `Spec => []TypeOK` |
| `OneUser` | `AccountsProofs` | `Spec => []OneUserPerEmail` |
| `CreatedMeansLogin` | `AccountsProofs` | `Spec => []CreatedCanLogin` |
| `ConflictMeansUser` | `AccountsProofs` | `Spec => []ConflictsAreReal` |

### Files: assumptions

The theorems about `DocFlow` hold for all sets of requests, workers, uploads, payloads and
initialization requests and all bounds that satisfy the assumptions of `DocFlowStore`: the
bounds and lengths are naturals, requests and workers are different processes, `None` is none
of the other values, and an initialization request has positive figures, as its DTO
requires. In particular no bound on the number of processes, faults or messages is used.

Some have a hypothesis, because without it the property is false:

* `SharedLoop`: all requests belong to one event loop. `supervisord.conf` starts one uvicorn
  process. With two, both last chunks may count before either commits (section 3), and a chunk
  put after its lock was lost may land over a committed one (`late_put`).
* `"crash" \notin FaultKinds`: no process dies between its steps. A death around the queue
  leaves a file in PROCESSING (`stuck_processing`).
* `Solo`: there is at most one request in progress, and no message is sent or delivered twice.
  Workers are any number, and publishing, tasks, removals and processes may still fail.
  `double_complete`, `delete_race` and `retry_lost_chunks` are what happens otherwise.
  `ImplementsFileLifecycle` does not assume `Solo`: it is an argument of `FileLifecycle`, which
  promises more where it holds. `FaultsKeepTheLifecycle` assumes that `Solo` is false: that
  stronger promise is the one an ambiguous commit breaks (`ambiguous_commit`).

### Files: the argument

The main invariant is `IInv` of `DocFlowInv`, in named parts:

* `ShapeInv`: a process has an upload exactly when it is not idle, and a flush has an
  operation that flushes. Without it `TypeOK` is not inductive, since an action on
  `file[None]` would leave the type.
* `StartedInv`: before its initialization an upload has no chunk, object, message or process.
* `LockInv`: what each process holds, and what it must hold. A handler about to commit a
  File row, and a worker from the second SELECT on, holds that file's lock. `LocksHaveOwners`
  is one half of it. The other half is what makes it useful: whoever writes a File row
  holds its lock (`OnlyFilesOf`).
* `DeleteInv`: a handler about to commit a deletion has loaded the status the row still has;
  a worker between its tests and its commit works on a file that is not deleted; a queued
  cleanup means a deleted file. Each is about something read earlier, and stays true
  because the row's lock is held in between and nobody else writes without it. So
  `CommitFinal`, the only step that writes AVAILABLE, never meets a deleted file, and neither
  does `Assemble`, the only one that puts an object (`DeletedStaysEmpty`).
* `ChunkInv`: a request between put and commit is the only one with its chunk, has put the
  bytes it is going to record, and found no row. The advisory lock keeps this true. If it is
  going to write READY_TO_COMPLETE then its chunk is the only one missing, which is why the
  count it took cannot turn out too large.
* `WholeInv`: whatever has to do with finalization (statuses, messages, workers, the second
  half of a request) concerns an upload that is whole. It is kept because nobody adds a
  row to a whole upload: a request that could would have found a chunk missing (`RowsStay`).
* `ObjectInv`: the permanent object, the checksum and what a worker has assembled are the
  chunks in order. As rows of a whole upload stay, every repetition of a finalization
  writes the same bytes, and `PermanentObjectStable` follows.

A step of one process is shown to leave the local state and the locks of the others alone
(`RequestLocal`, `WorkerLocal`, `OnlyLocksOf`), so each action is considered once for the
process that takes it. `Writers`, `FileEffects`, `SessEffects` and `ObjectEffects` say once which
actions write which variable, and how, and `ReqMoves`, `WorkerMoves` how a process gets to each
of its program counters. Each part is then shown for the writers of what it mentions.

`LastChunkSeesAll` adds `LoopInv`: on one loop, a request between put and commit is alone
(`StepAlone`), so its count is exact and includes what every earlier one committed.

What clients keep (`DocFlowOutcomes`) needs no more than `IInv`: a query changes nothing, so
`QuerySpec` implies `Spec` (`QueriesOnlyRead`), and what was true of a file when it was shown
stays so, because a checksum once stored stays (`SumStays`) and the object with it. A poll's
count cannot be too small because rows only grow.

`ProcessingHasOwner` needs two more invariants. `LifeInv`: whoever works on a finalization works
on an upload that was accepted for one. `OwnedInv`: a file in PROCESSING has an owner, which is
not everybody busy with it. A flush that has loaded FAILED writes no status, because
SQLAlchemy leaves out columns that are equal to what was loaded; such a process is not
counted. `RequestHandsOver` and `WorkerHandsOver` show that each owner that stops being one has
settled the file or handed it over.

With `Solo`, `SoloInv` says that the two status columns match, that a file has at most one
finalization (a message, or a worker, or a request about to send the message, never two), and
that what a process loaded is still true when it writes. Each of the five properties follows.

The refinement is shown step by step. A step that changes neither rows nor the permanent
object of an offered file is a stutter (`ViewStays`, `SameIsStutter`). A commit of one process
changes the view of one file (`OthersKeepView`), from a status to a status; `CommitTurns` and
`CommitIs` list the pairs and name the abstract action of each. `ReceiveIs` shows that a commit
of a chunk is `Receive`, by `ChunkInv`; `WholeInv` gives `Start` its guard `Complete`, and `ObjectInv`
gives `Offer` its content. `SoloInv` excludes the two moves that `FileLifecycle` allows only
without `Exclusive`.

### Files: the faults

`FaultSpec` has the steps of `Spec` and five more, after which PostgreSQL and a process disagree
about a transaction. The proofs reuse every lemma on a step of `Next` and add what is known of
`late`. `SafeInv` holds in every deployment: types, `ShapeInv`, `LockInv`, `DeleteInv`, and
`LateShape`, which says who can be putting what. A worker that has lost its locks is already on
its way to its error handler, so `LockInv` asks nothing of it.

`FaultInv` needs one event loop: all of `IInv`, and `LateContent`. A late chunk has no row, and no
other request is between put and commit, because the put blocks the loop; so it lands over no
committed chunk. A late permanent object is the chunks in order, as is any other put of it,
because rows of a whole upload stay; so it lands over nothing different. Each step of
`Next` is shown to keep `LateContent` by `WaitForPuts`: what it forbids is needed exactly there.

In the refinement a late put is a stutter, because the bytes offered do not change, and an
ambiguous commit is an `Offer`. The FAILED that follows it is a `Fail` of an available file,
which `FileLifecycle` allows only where requests may meet.

### The other modules

`RequestPool`: for any number of requests, connections and threads. Only the number of those who
have a connection need be finite, and that is part of the invariant. `ConnInv`: whoever runs
code that reads rows has a connection. `HoldInv`: a request between its two UPDATEs has the
File row locked, and so has the worker that assembles and its error handler between its two;
without the second, the end of a task might release the lock of a request.

`UploadInit`: for every set of requests, every width and every set of labels. `RowsInv` says
what is pending and stored at each statement, `PassedInv` which tests a request has passed when
it gets there, `StoredPassed` that it still holds of what is stored. `BothRowsOrNone` lets the
rows be stored with an answer 500 or none at all: a failed reload or a death after the
commit does that. `StoredNamesAreClean` holds for paths of every length over the
four kinds of characters. `PathNameIs` and `StripIs` say which stretch of its argument each
function returns, without induction: least and greatest elements of a set of positions exist
because the numbers are well-founded (`LeastIs`, `GreatestIs`). "." and ".." are excluded by
the test of `_safe_filename`, which comes after the stripping.

`Accounts`: for all sets of registrations, spellings, passwords and
identifiers, and for every idempotent `Lower`; `None` is no spelling and no password. The
invariant has these parts. `ShapeInv`: a registration at work knows its email. `KeyInv`: rows are
in lower case, one per key, and a row inserted and not yet committed is the only one with
its key. It is what makes `Commit` safe, and is kept because `Insert` waits for pending and
committed keys. `AnswerInv`: a registration whose row is committed, and a client that was told
201, can log in; a client told 409 has a user. They are kept because `users` only grows and,
by `KeyInv`, never by a second row of an email.

### Only model-checked

* Liveness (`ProcessingSettles`, `RequestsFinish`, `WorkersFinish`, `DeletedContentGoes`, `RequestsEnd`,
  `TasksEnd`, `RegistrationsEnd`) and `CleanupRetriable`, which is about ENABLED: the provers have no
  rules for fairness and ENABLED.
* `TotalSize` adds the lengths of the chunks by a fold, and what a fold returns for
  every upload takes an induction the provers cannot do. The proofs treat it as an unknown
  function of the chunks; none needs to know more of it.
* Under the faults of `DocFlowFaults`, whatever is not in the table above; the theorems on
  outcomes and on one request at a time are about `Spec` and `QuerySpec`.

## 5. What is not modelled, and why

* Who belongs to which organization. Nothing under `src/` writes memberships. The lookup is
  there as a statement that may refuse (`RequestPool`) or fail (`UploadInit`). A membership that
  is revoked between two reads of a request is left out with it.
* Tokens and password hashes: libraries, without state. `is_active` and `is_verified` are
  never changed. Users put into the table by other means, with capitals in their email, are not
  in `Accounts`; the constraint would not see them as equal.
* Chunk objects of rolled-back requests. They are in the model, and never taken for committed
  chunks; that nothing removes them again is not stated as a property.
* A process that dies in the middle of a put that has already outlived its transaction.
* Creation of the bucket on first use. The puts of one API process follow each other on its
  loop, and a worker puts after them, so only a second API process could race.
* The expiry of links, and MinIO's own errors when a link is used.
* The value of `processing_task_id`; the transaction that stores it is there (`TagTask`).
* In `RequestPool`, more than one upload under finalization, and a successful DELETE, which
  locks the rows that `start` locks and holds them for less.
* Foreign keys with their cascades, since nothing deletes a row; the access log, which no code
  uses; the result backend of Celery, which no code reads.
* Routing, the error envelope, configuration: no state of their own.

## 6. Plan

1. Done: the store, handlers, workers and their composition; types, locks and deletion proved.
2. Done: the abstract life of a file and its refinement; the calls that only read; puts and
   commits that outlive their transaction; threads and connections; initialization in detail;
   registration, with proofs.
3. Done: proofs of every safety property that the passing runs check of `DocFlow`,
   `DocFlowQueries`, `RequestPool`, `UploadInit` and `Accounts`, and of the refinement.
4. Done: proofs for `FaultSpec` of every property the run `finalization` checks, and of the
   refinement with these faults.
5. Open: `ProcessingIsOwned` under connection losses and ambiguous commits. No crash is meant
   by them, but `FaultKinds` does not tell them apart from one.
