------------------------------ MODULE RequestPool ------------------------------
(***************************************************************************)
(* What a request of the API occupies while it is served: the event loop,  *)
(* a thread of the pool that runs synchronous code, a connection of the    *)
(* SQLAlchemy pool, and row locks. All of them can run out, and they are   *)
(* given back at different moments:                                        *)
(*  - get_current_user takes the connection, in a thread, and the session  *)
(*    keeps it (with its locks) until a commit or until the exit code of   *)
(*    get_db closes the session;                                           *)
(*  - that exit code, like every call of an endpoint, is started by the    *)
(*    event loop;                                                          *)
(*  - upload_chunk is a coroutine whose SQL blocks the event loop.         *)
(*                                                                         *)
(* One upload is being finalized by a worker; its two rows are the ones    *)
(* that are locked.                                                        *)
(***************************************************************************)
EXTENDS Naturals, FiniteSets

CONSTANTS
  Reqs,      \* requests that may be in progress together
  Worker,    \* the Celery worker, a process with connections of its own
  None,
  Ops,       \* what clients ask for in a run
  PoolSize,  \* connections (pool_size + max_overflow: 15)
  Threads    \* threads for synchronous code (40)

\* plain: a call that locks no row others know of, which is one that only reads or
\* initialize_upload; start: complete or retry (a successful DELETE
\* locks the same rows and then holds less); refused: a DELETE that locks the file
\* and then commits nothing (no membership, or already deleted); chunk: a chunk of
\* another upload; late: a chunk of the upload being finalized, after its deadline.
AllOps == {"plain", "start", "refused", "chunk", "late"}

ASSUME PoolAssumption == PoolSize \in Nat \ {0} /\ Threads \in Nat \ {0}
ASSUME OpsAssumption == Ops \subseteq AllOps
ASSUME WhoAssumption == Worker \notin Reqs /\ None \notin Reqs \cup {Worker}

VARIABLES
  pc,        \* where each request is
  op,        \* what it asks for; recover: in the except of _enqueue_finalization
  stage,     \* how far a start got: PROCESSING committed, message queued
  conn,      \* the requests whose session has a connection
  fileLock, sessLock,  \* who has locked the rows of the upload
  task       \* where the worker is; flushF, flushS: in _mark_finalization_failed, with
             \* the file row or the session row to write

vars == <<pc, op, stage, conn, fileLock, sessLock, task>>
rowLocks == <<fileLock, sessLock>>

\* auth: in get_current_user; ready: authenticated; run: the endpoint; body:
\* upload_chunk awaiting its file; onloop: upload_chunk after it; flush: file row
\* updated, session row to follow; publish: committed, reading the rows again to
\* queue the finalization; tag: queued; reload: reading the rows again for the
\* response; done: returned, the session still open.
PC == {"idle", "auth", "ready", "run", "body", "onloop", "flush", "publish", "tag",
       "reload", "done"}

Async == {"chunk", "late"}

Init ==
  /\ pc = [r \in Reqs |-> "idle"]
  /\ op = [r \in Reqs |-> "plain"]
  /\ stage = [r \in Reqs |-> "none"]
  /\ conn = {}
  /\ fileLock = None /\ sessLock = None
  /\ task = "idle"

\* Every variable holds a value of its type, and at most PoolSize connections are
\* in use.
TypeOK ==
  /\ pc \in [Reqs -> PC] /\ op \in [Reqs -> AllOps \cup {"recover"}]
  /\ stage \in [Reqs -> {"none", "committed", "queued", "failed"}]
  /\ conn \subseteq Reqs /\ Cardinality(conn) <= PoolSize
  /\ {fileLock, sessLock} \subseteq Reqs \cup {Worker, None}
  /\ task \in {"idle", "lockS", "lockF", "assemble", "flushF", "flushS"}

\* A thread is occupied until the synchronous code it runs returns.
InThread(r) ==
  \/ pc[r] \in {"auth", "body", "run", "flush", "publish", "tag"}
  \/ pc[r] = "reload" /\ op[r] \notin Async
ThreadFree == Cardinality({r \in Reqs : InThread(r)}) < Threads

\* The loop is not free while a coroutine waits for PostgreSQL or for the pool.
OnLoop(r) == pc[r] = "onloop" \/ (pc[r] = "reload" /\ op[r] \in Async)
LoopFree == \A r \in Reqs : ~OnLoop(r)

\* Connections without a limit, and as many as the pool has.
NoLimit == TRUE
ConnFree == Cardinality(conn) < PoolSize

Goto(r, next) == pc' = [pc EXCEPT ![r] = next]

\* Closing a session, or ending its transaction, frees its connection and locks.
LetGo(r) ==
  /\ conn' = conn \ {r}
  /\ fileLock' = IF fileLock = r THEN None ELSE fileLock
  /\ sessLock' = IF sessLock = r THEN None ELSE sessLock

Arrive(r, o) ==
  /\ pc[r] = "idle" /\ LoopFree /\ ThreadFree
  /\ Goto(r, "auth")
  /\ op' = [op EXCEPT ![r] = o]
  /\ UNCHANGED <<stage, conn, rowLocks, task>>

\* get_current_user: the first query of the request checks out a connection.
Authenticate(r) ==
  /\ pc[r] = "auth" /\ ConnFree
  /\ conn' = conn \cup {r}
  /\ Goto(r, "ready")
  /\ UNCHANGED <<op, stage, rowLocks, task>>

\* The loop starts the endpoint: a synchronous one in a thread; upload_chunk by
\* itself, up to the read of the body, which a thread does, or to the UPDATE of an
\* expired session.
CallEndpoint(r) ==
  /\ pc[r] = "ready" /\ LoopFree
  /\ IF op[r] = "late"
     THEN Goto(r, "onloop")
     ELSE ThreadFree /\ Goto(r, IF op[r] = "chunk" THEN "body" ELSE "run")
  /\ UNCHANGED <<op, stage, conn, rowLocks, task>>

BodyRead(r) ==
  /\ pc[r] = "body" /\ LoopFree
  /\ Goto(r, "onloop")
  /\ UNCHANGED <<op, stage, conn, rowLocks, task>>

\* The commit of upload_chunk. Its response reads the session once more, which
\* needs a connection again; the refusal of a late chunk does not.
CommitOnLoop(r) ==
  /\ pc[r] = "onloop"
  /\ op[r] = "late" => sessLock = None
  /\ Goto(r, IF op[r] = "late" THEN "done" ELSE "reload")
  /\ LetGo(r)
  /\ UNCHANGED <<op, stage, task>>

Query(r) ==
  /\ pc[r] = "run" /\ op[r] = "plain"
  /\ Goto(r, "done")
  /\ UNCHANGED <<op, stage, conn, rowLocks, task>>

\* initialize_upload inserts rows nobody else knows of. Its response reads the session
\* again.
InitCommit(r) ==
  /\ pc[r] = "run" /\ op[r] = "plain"
  /\ Goto(r, "reload")
  /\ LetGo(r)
  /\ UNCHANGED <<op, stage, task>>

\* SELECT ... FOR UPDATE, and no commit.
Refuse(r) ==
  /\ pc[r] = "run" /\ op[r] = "refused"
  /\ fileLock = None
  /\ fileLock' = r
  /\ Goto(r, "done")
  /\ UNCHANGED <<op, stage, conn, sessLock, task>>

\* The two UPDATEs of complete, retry and the error path of _enqueue_finalization,
\* and the commit.
FlushFile(r) ==
  /\ pc[r] = "run" /\ op[r] \in {"start", "recover"}
  /\ fileLock = None
  /\ fileLock' = r
  /\ Goto(r, "flush")
  /\ UNCHANGED <<op, stage, conn, sessLock, task>>

FlushCommit(r) ==
  /\ pc[r] = "flush" /\ sessLock = None
  /\ LetGo(r)
  /\ IF op[r] = "start"
     THEN Goto(r, "publish") /\ stage' = [stage EXCEPT ![r] = "committed"]
     ELSE Goto(r, "done") /\ stage' = [stage EXCEPT ![r] = "failed"]
  /\ UNCHANGED <<op, task>>

\* str(upload_session.id), the argument of delay(), needs a connection.
Publish(r) ==
  /\ pc[r] = "publish" /\ ConnFree
  /\ conn' = conn \cup {r}
  /\ IF op[r] = "recover"
     THEN Goto(r, "run") /\ stage' = stage
     ELSE Goto(r, "tag") /\ stage' = [stage EXCEPT ![r] = "queued"]
  /\ UNCHANGED <<op, rowLocks, task>>

\* processing_task_id is stored and committed.
TagTask(r) ==
  /\ pc[r] = "tag" /\ fileLock = None
  /\ LetGo(r)
  /\ Goto(r, "reload")
  /\ UNCHANGED <<op, stage, task>>

Reload(r) ==
  /\ pc[r] = "reload" /\ ConnFree
  /\ conn' = conn \cup {r}
  /\ Goto(r, "done")
  /\ UNCHANGED <<op, stage, rowLocks, task>>

WaitsForPool(r) == pc[r] \in {"auth", "publish", "reload"} /\ ~ConnFree

\* Checkouts without a time-out.
WaitForEver(r) == FALSE

\* A checkout gives up after pool_timeout (30 s), and the request answers 500. In
\* _enqueue_finalization the except clause comes first, and it too begins by
\* reading a row.
PoolTimeout(r) ==
  /\ WaitsForPool(r)
  /\ IF pc[r] = "publish" /\ op[r] = "start"
     THEN op' = [op EXCEPT ![r] = "recover"] /\ pc' = pc
     ELSE Goto(r, "done") /\ op' = op
  /\ UNCHANGED <<stage, conn, rowLocks, task>>

\* The exit code of get_db, awaited by the loop before it sends the response, and
\* the same without its finally.
Leave(r) ==
  /\ pc[r] = "done" /\ LoopFree
  /\ Goto(r, "idle")
  /\ op' = [op EXCEPT ![r] = "plain"]
  /\ stage' = [stage EXCEPT ![r] = "none"]
  /\ UNCHANGED task
LeaveOpen(r) == Leave(r) /\ UNCHANGED <<conn, rowLocks>>
CloseSession(r) == Leave(r) /\ LetGo(r)

(***************************************************************************)
(* The worker: finalize_upload_task and _mark_finalization_failed as far   *)
(* as their locks go. Its connections are its own.                         *)
(***************************************************************************)
TakeTask ==
  /\ task = "idle"
  /\ task' = "lockS"
  /\ UNCHANGED <<pc, op, stage, conn, rowLocks>>

LockSession ==
  /\ task = "lockS" /\ sessLock = None
  /\ sessLock' = Worker /\ task' = "lockF"
  /\ UNCHANGED <<pc, op, stage, conn, fileLock>>

LockFile ==
  /\ task = "lockF" /\ fileLock = None
  /\ fileLock' = Worker /\ task' = "assemble"
  /\ UNCHANGED <<pc, op, stage, conn, sessLock>>

\* Commit, or a rollback, after which an error is recorded unless the file is deleted.
EndTask ==
  /\ task = "assemble"
  /\ task' \in {"idle", "flushF"} /\ fileLock' = None /\ sessLock' = None
  /\ UNCHANGED <<pc, op, stage, conn>>

\* The two UPDATEs of the error handler, and its commit.
MarkFlushFile ==
  /\ task = "flushF" /\ fileLock = None
  /\ fileLock' = Worker /\ task' = "flushS"
  /\ UNCHANGED <<pc, op, stage, conn, sessLock>>

MarkCommit ==
  /\ task = "flushS" /\ sessLock = None
  /\ fileLock' = None /\ task' = "idle"
  /\ UNCHANGED <<pc, op, stage, conn, sessLock>>

\* PostgreSQL breaks the only cycle it can see, that of two of its own locks.
DeadlockVictim ==
  /\ task = "lockF"
  /\ \E r \in Reqs :
       /\ pc[r] = "flush" /\ fileLock = r
       /\ \/ task' \in {"idle", "flushF"} /\ sessLock' = None /\ UNCHANGED <<pc, fileLock>>
          \/ Goto(r, "done") /\ fileLock' = None /\ UNCHANGED <<task, sessLock>>
  /\ UNCHANGED <<op, stage, conn>>

Serve(r) ==
  \/ Authenticate(r) \/ CallEndpoint(r) \/ BodyRead(r) \/ CommitOnLoop(r)
  \/ Query(r) \/ InitCommit(r) \/ Refuse(r) \/ FlushFile(r) \/ FlushCommit(r)
  \/ Publish(r) \/ TagTask(r) \/ Reload(r) \/ PoolTimeout(r) \/ CloseSession(r)

Finalize == LockSession \/ LockFile \/ EndTask \/ MarkFlushFile \/ MarkCommit

Next ==
  \/ \E r \in Reqs : Serve(r) \/ \E o \in Ops : Arrive(r, o)
  \/ TakeTask \/ Finalize \/ DeadlockVictim

(***************************************************************************)
(* Threads, the loop, the pool and PostgreSQL serve those who wait in the  *)
(* order of their arrival.                                                 *)
(***************************************************************************)
Fairness ==
  /\ \A r \in Reqs : SF_vars(Serve(r))
  /\ SF_vars(Finalize) /\ WF_vars(DeadlockVictim)

Spec == Init /\ [][Next]_vars /\ Fairness
-------------------------------------------------------------------------------
\* Connections and row locks are held by requests in progress only, through
\* errors, time-outs and refusals (get_db closes every session).
NothingLeaks ==
  /\ \A r \in conn : pc[r] \notin {"idle", "auth", "publish", "reload"}
  /\ fileLock \in Reqs => pc[fileLock] \in {"flush", "done"} /\ fileLock \in conn

\* The loop waits for the session row, the worker that has it for the file row, and
\* the refused DELETE that has this one for the loop. PostgreSQL sees no cycle.
Wedged ==
  /\ \E r, q \in Reqs :
       /\ pc[r] = "onloop" /\ op[r] = "late"
       /\ pc[q] = "done" /\ fileLock = q
  /\ task = "lockF"

\* Every request is answered, however short the pools: a checkout that cannot
\* succeed gives up, and what it waited for is then given back. Only the loop's own
\* wait for a row lock can stop them (get_db, upload_chunk, _enqueue_finalization
\* and finalize_upload_task on one loop, one pool and two rows).
RequestsEnd == \A r \in Reqs : []<>(pc[r] = "idle" \/ Wedged)

\* The worker and its error handler get their row locks, whatever request holds them
\* and for how long, but for the same cycle (finalize_upload_task and
\* _mark_finalization_failed against soft_delete_file).
TasksEnd == []<>(task = "idle" \/ Wedged)

\* A request that committed PROCESSING queues the finalization before it ends, or
\* marks the file FAILED (complete_upload, _enqueue_finalization).
StartsAreQueued == \A r \in Reqs : pc[r] = "done" => stage[r] # "committed"

\* A request that locks no row, such as one for the status of the file that is being
\* finalized, is answered (get_file_status, initialize_upload).
PollsAnswered == \A r \in Reqs : pc[r] # "idle" /\ op[r] = "plain" ~> pc[r] = "idle"
===============================================================================
