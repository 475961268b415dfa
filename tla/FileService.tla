------------------------------ MODULE FileService ------------------------------
(***************************************************************************)
(* DocFlowFileService: the request handlers behind /files. A request runs  *)
(* as a sequence of SQL statements and calls to MinIO and RabbitMQ under   *)
(* READ COMMITTED, and what it read earlier may be stale when it writes.   *)
(*                                                                         *)
(* A request that the code turns down without having written anything      *)
(* (401, 403, 404, 409, 410, 422) leaves the system as it was. When that   *)
(* can be told from its first read it is left out; when it is only known   *)
(* at a later step that step ends the request.                             *)
(*                                                                         *)
(* SQLAlchemy writes a column only if the value assigned differs from the  *)
(* value loaded. fs and ss are the file and session status this request    *)
(* loaded, and an assignment of an equal value writes nothing, whatever    *)
(* the row holds by now.                                                   *)
(***************************************************************************)
EXTENDS DocFlowStore

VARIABLE req      \* what each handler is doing

\* reading: awaiting the body of a chunk; stored: chunk object written, row
\* flushed but not committed; expire: about to commit EXPIRED; loaded: file or
\* session read, the other still to be read; flushF, flushS: flushing the File,
\* then the UploadSession, and committing; publish: committed, message not yet
\* sent; tag: message sent, processing_task_id not yet stored; failed: delay()
\* raised; cleanup: delete committed, cleanup not yet queued.
ReqPC == {"idle", "reading", "stored", "expire", "loaded", "flushF", "flushS",
          "publish", "tag", "failed", "cleanup"}

\* queue is _enqueue_finalization, and queue_error its error path.
Ops == {"none", "chunk", "complete", "retry", "delete", "queue", "queue_error"}

Idle == [pc |-> "idle", op |-> "none", u |-> None, i |-> 0, c |-> None,
         fs |-> "none", ss |-> "none", ns |-> "none"]

ReqRow == [pc: ReqPC, op: Ops, u: Uploads \cup {None}, i: Nat, c: Payloads \cup {None},
           fs: FileStatus, ss: SessStatus, ns: SessStatus]

ReqTypeOK == req \in [Reqs -> ReqRow]

ReqInit == req = [r \in Reqs |-> Idle]

At(r, pc) == req[r].pc = pc
Goto(r, pc) == req' = [req EXCEPT ![r].pc = pc]
\* The same request, with nothing read in this transaction.
Enter(r, pc, op) ==
  req' = [req EXCEPT ![r] = [Idle EXCEPT !.pc = pc, !.op = op, !.u = req[r].u]]
Finish(r) == req' = [req EXCEPT ![r] = Idle]

\* upload_chunk is a coroutine whose database and MinIO calls block: between two
\* awaits no other coroutine of the same process runs.
OnLoop(r) == At(r, "stored") \/ (At(r, "expire") /\ req[r].op = "chunk")
LoopFree(r) == \A q \in Reqs : LoopOf[q] = LoopOf[r] => ~OnLoop(q)

NoChunkLock(u, i) == TRUE

\* pg_advisory_xact_lock on "<session>:<index>", held until the commit.
ChunkLockFree(u, i) ==
  ~ \E r \in Reqs : At(r, "stored") /\ req[r].u = u /\ req[r].i = i

(***************************************************************************)
(* POST /files/upload/init                                                 *)
(***************************************************************************)
InitializeUpload(u, p) ==
  /\ file[u].status = "none"
  /\ p.limit <= MaxChunkSize
  /\ file' = [file EXCEPT ![u].status = "pending"]
  /\ sess' = [sess EXCEPT ![u] = [status |-> "initiated", count |-> p.count,
                                  size |-> p.size, limit |-> p.limit]]
  /\ UNCHANGED <<chunk, expired, lockVars, objVars, queueVars, faults, req>>

\* The session exists and its file is not deleted.
SessionForAccess(u) == sess[u].status # "none" /\ ~file[u].deleted

(***************************************************************************)
(* upload_chunk and complete_upload look at the clock before they look at  *)
(* the status: whatever the status is, a session found past its deadline   *)
(* is marked EXPIRED. The UPDATE waits for the row lock of the session.    *)
(***************************************************************************)
FindExpired(r, u, op) ==
  /\ At(r, "idle")
  /\ op = "chunk" => LoopFree(r)
  /\ SessionForAccess(u)
  /\ expired[u]
  /\ sess[u].status # "expired"
  /\ req' = [req EXCEPT ![r] = [Idle EXCEPT !.pc = "expire", !.op = op, !.u = u]]
  /\ UNCHANGED storeVars

ExpireCommit(r) ==
  LET u == req[r].u IN
  /\ At(r, "expire")
  /\ SessFree(u)
  /\ sess' = [sess EXCEPT ![u].status = "expired"]
  /\ Finish(r)
  /\ UNCHANGED <<file, chunk, expired, lockVars, objVars, queueVars, faults>>

(***************************************************************************)
(* POST /files/upload/chunk. The status test precedes the await; the       *)
(* chunk-exists test follows it, under the advisory lock.                  *)
(***************************************************************************)
ChunkBegin(r, u, i, c) ==
  /\ At(r, "idle")
  /\ LoopFree(r)
  /\ SessionForAccess(u)
  /\ ~expired[u]
  /\ sess[u].status \in {"initiated", "uploading"}
  /\ i \in Expected(u)
  /\ req' = [req EXCEPT ![r] = [Idle EXCEPT !.pc = "reading", !.op = "chunk", !.u = u,
                                            !.i = i, !.c = c, !.ss = sess[u].status]]
  /\ UNCHANGED storeVars

SizeAllowed(u, c) ==
  SizeOf[c] > 0 /\ SizeOf[c] <= sess[u].limit /\ SizeOf[c] <= MaxChunkSize

ChunkUnchecked(u, i) == TRUE

\* No row for this index has been committed.
ChunkMissing(u, i) == chunk[u][i] = None

\* Broken variants: the new row counted twice; the row not flushed before the
\* count (sessions are created with autoflush=False).
StatusOffByOne(u) ==
  IF Cardinality(Present(u)) + 2 >= sess[u].count THEN "ready_to_complete" ELSE "uploading"
StatusUnflushed(u) ==
  IF Cardinality(Present(u)) = sess[u].count THEN "ready_to_complete" ELSE "uploading"

\* The count taken after the flush sees the committed rows and this request's own.
StatusAfterChunk(u) ==
  IF Cardinality(Present(u)) + 1 = sess[u].count THEN "ready_to_complete" ELSE "uploading"

ChunkStore(r) ==
  LET u == req[r].u  i == req[r].i IN
  /\ At(r, "reading")
  /\ LoopFree(r)
  /\ SizeAllowed(u, req[r].c)
  /\ ChunkLockFree(u, i)
  /\ ChunkMissing(u, i)
  /\ chunkObj' = [chunkObj EXCEPT ![u][i] = req[r].c]
  /\ req' = [req EXCEPT ![r].pc = "stored", ![r].ns = StatusAfterChunk(u)]
  /\ UNCHANGED <<rowVars, expired, lockVars, permObj, queueVars, faults>>

\* 422 for the size, 409 for an index already uploaded.
ChunkReject(r) ==
  LET u == req[r].u IN
  /\ At(r, "reading")
  /\ LoopFree(r)
  /\ SizeAllowed(u, req[r].c) =>
       ChunkLockFree(u, req[r].i) /\ ~ChunkMissing(u, req[r].i)
  /\ Finish(r)
  /\ UNCHANGED storeVars

ChunkCommit(r) ==
  LET u == req[r].u IN
  /\ At(r, "stored")
  /\ chunk' = [chunk EXCEPT ![u][req[r].i] = req[r].c]
  /\ IF req[r].ns = req[r].ss
     THEN sess' = sess
     ELSE SessFree(u) /\ sess' = [sess EXCEPT ![u].status = req[r].ns]
  /\ Finish(r)
  /\ UNCHANGED <<file, expired, lockVars, objVars, queueVars, faults>>

(***************************************************************************)
(* POST /files/upload/complete reads the session, then its file; then it   *)
(* tests the clock, the status and the chunk rows.                         *)
(***************************************************************************)
CompleteBegin(r, u) ==
  /\ At(r, "idle")
  /\ sess[u].status = "ready_to_complete"
  /\ req' = [req EXCEPT ![r] = [Idle EXCEPT !.pc = "loaded", !.op = "complete",
                                            !.u = u, !.ss = sess[u].status]]
  /\ UNCHANGED storeVars

CompleteCheck(r) ==
  LET u == req[r].u IN
  /\ At(r, "loaded") /\ req[r].op = "complete"
  /\ \/ /\ SessionForAccess(u) /\ expired[u]
        /\ Enter(r, "expire", "complete")
     \/ /\ SessionForAccess(u) /\ ~expired[u] /\ RowsValid(u)
        /\ req' = [req EXCEPT ![r].pc = "flushF", ![r].fs = file[u].status]
     \/ /\ ~SessionForAccess(u) \/ (~expired[u] /\ ~RowsValid(u))
        /\ Finish(r)
  /\ UNCHANGED storeVars

(***************************************************************************)
(* POST /files/{id}/retry reads the file, then its session.                *)
(***************************************************************************)
RetryBegin(r, u) ==
  /\ At(r, "idle")
  /\ ~file[u].deleted
  /\ file[u].status = "failed"
  /\ req' = [req EXCEPT ![r] = [Idle EXCEPT !.pc = "loaded", !.op = "retry",
                                            !.u = u, !.fs = file[u].status]]
  /\ UNCHANGED storeVars

RetryCheck(r) ==
  LET u == req[r].u
      retryable == sess[u].status = "failed" /\ RowsValid(u)
  IN
  /\ At(r, "loaded") /\ req[r].op = "retry"
  /\ \/ /\ retryable
        /\ req' = [req EXCEPT ![r].pc = "flushF", ![r].ss = sess[u].status]
     \/ /\ ~retryable
        /\ Finish(r)
  /\ UNCHANGED storeVars

(***************************************************************************)
(* DELETE /files/{id}: SELECT ... FOR UPDATE on the file, then a plain     *)
(* read of its session. Deleting a deleted file changes nothing and queues *)
(* nothing.                                                                *)
(***************************************************************************)
SoftDelete(r, u) ==
  /\ At(r, "idle")
  /\ file[u].status # "none"
  /\ FileFree(u)
  /\ ~file[u].deleted
  /\ fileLock' = [fileLock EXCEPT ![u] = r]
  /\ req' = [req EXCEPT ![r] = [Idle EXCEPT !.pc = "flushS", !.op = "delete", !.u = u,
                                            !.fs = file[u].status, !.ss = sess[u].status]]
  /\ UNCHANGED <<rowVars, expired, sessLock, objVars, queueVars, faults>>

(***************************************************************************)
(* The flush of complete, retry, delete and the error path of              *)
(* _enqueue_finalization. The unit of work updates the File, then the      *)
(* UploadSession, each UPDATE taking the row lock; then it commits.        *)
(***************************************************************************)
FileTarget(op) ==
  CASE op \in {"complete", "retry"} -> "processing"
    [] op = "delete" -> "deleted"
    [] OTHER -> "failed"

\* Broken variants: a status the session does not have; the session forgotten
\* when the message could not be queued.
SessDeleted(op) ==
  CASE op \in {"complete", "retry"} -> "assembling"
    [] op = "delete" -> "deleted"
    [] OTHER -> "failed"
SessForgotten(op) == IF op = "delete" THEN "cancelled" ELSE "assembling"

SessTarget(op) ==
  CASE op \in {"complete", "retry"} -> "assembling"
    [] op = "delete" -> "cancelled"
    [] OTHER -> "failed"

WritesFile(r) == req[r].fs # FileTarget(req[r].op)

WritesSess(r) ==
  /\ req[r].ss # SessTarget(req[r].op)
  /\ req[r].op = "delete" => req[r].ss \in ActiveStatus

\* The error path also stores its message. Where the File was loaded as FAILED, that
\* may be the message it has, and then no UPDATE is sent.
FlushFile(r) ==
  LET u == req[r].u IN
  /\ At(r, "flushF")
  /\ \/ /\ WritesFile(r) \/ req[r].op = "queue_error"
        /\ FileFree(u)
        /\ fileLock' = [fileLock EXCEPT ![u] = r]
     \/ ~WritesFile(r) /\ fileLock' = fileLock
  /\ Goto(r, "flushS")
  /\ UNCHANGED <<rowVars, expired, sessLock, objVars, queueVars, faults>>

FlushCommit(r) ==
  LET u == req[r].u  op == req[r].op IN
  /\ At(r, "flushS")
  /\ WritesSess(r) => SessFree(u)
  /\ file' = [file EXCEPT
       ![u].status = IF req[r].fs # FileTarget(op) THEN FileTarget(op) ELSE @,
       ![u].deleted = @ \/ op = "delete",
       ![u].error = @ \/ (op = "queue_error" /\ fileLock[u] = r)]
  /\ sess' = [sess EXCEPT ![u].status = IF WritesSess(r) THEN SessTarget(op) ELSE @]
  /\ ReleaseAll(r)
  /\ CASE op \in {"complete", "retry"} -> Enter(r, "publish", "queue")
       [] op = "delete" -> Enter(r, "cleanup", "delete")
       [] OTHER -> Finish(r)
  /\ UNCHANGED <<chunk, expired, objVars, queueVars, faults>>

(***************************************************************************)
(* _enqueue_finalization, after the commit of complete or retry. Reading   *)
(* upload_session.id reloads the session that the commit had expired, and  *)
(* reading file_metadata reloads the file.                                 *)
(***************************************************************************)
Publish(r) ==
  LET u == req[r].u IN
  /\ At(r, "publish")
  /\ finq[u] < MaxQueue
  /\ finq' = [finq EXCEPT ![u] = @ + 1]
  /\ Goto(r, "tag")
  /\ UNCHANGED <<rowVars, expired, lockVars, objVars, cleanq, faults>>

PublishError(r) ==
  LET u == req[r].u IN
  /\ At(r, "publish")
  /\ \/ Fault("publish") /\ finq' = finq
     \/ Fault("ambiguous") /\ finq[u] < MaxQueue /\ finq' = [finq EXCEPT ![u] = @ + 1]
  /\ req' = [req EXCEPT ![r].pc = "failed", ![r].ss = sess[u].status]
  /\ UNCHANGED <<rowVars, expired, lockVars, objVars, cleanq>>

\* Storing processing_task_id waits for the row lock of the file.
TagTask(r) ==
  /\ At(r, "tag")
  /\ FileFree(req[r].u)
  /\ Finish(r)
  /\ UNCHANGED storeVars

QueueErrorIgnored(r) == At(r, "failed") /\ Finish(r) /\ UNCHANGED storeVars

\* The error path loads the file and marks both rows FAILED.
MarkQueueError(r) ==
  /\ At(r, "failed")
  /\ req' = [req EXCEPT ![r].pc = "flushF", ![r].op = "queue_error",
                        ![r].fs = file[req[r].u].status]
  /\ UNCHANGED storeVars

\* An exception raised while queueing the cleanup is swallowed.
QueueCleanup(r) ==
  LET u == req[r].u IN
  /\ At(r, "cleanup")
  /\ \/ cleanq' = [cleanq EXCEPT ![u] = @ + 1] /\ faults' = faults
     \/ Fault("publish") /\ cleanq' = cleanq
  /\ Finish(r)
  /\ UNCHANGED <<rowVars, expired, lockVars, objVars, finq>>

(***************************************************************************)
(* The process of a request dies, a statement fails or MinIO refuses: the  *)
(* open transaction is rolled back and the request goes no further.        *)
(***************************************************************************)
Abort(r) ==
  /\ ~At(r, "idle")
  /\ Fault("crash")
  /\ ReleaseAll(r)
  /\ Finish(r)
  /\ UNCHANGED <<rowVars, expired, objVars, queueVars>>

\* What a client may ask for.
Request(r) ==
  \E u \in Uploads :
    \/ \E i \in Index, c \in Payloads : ChunkBegin(r, u, i, c)
    \/ \E op \in {"chunk", "complete"} : FindExpired(r, u, op)
    \/ CompleteBegin(r, u)
    \/ RetryBegin(r, u)
    \/ SoftDelete(r, u)

\* A handler at work on a request it has accepted.
Handle(r) ==
  \/ ChunkStore(r) \/ ChunkReject(r) \/ ChunkCommit(r)
  \/ ExpireCommit(r)
  \/ CompleteCheck(r) \/ RetryCheck(r)
  \/ FlushFile(r) \/ FlushCommit(r)
  \/ Publish(r) \/ PublishError(r) \/ TagTask(r) \/ MarkQueueError(r)
  \/ QueueCleanup(r)
===============================================================================
