----------------------------- MODULE DocFlowFaults -----------------------------
(***************************************************************************)
(* Faults in which PostgreSQL and its client disagree about a transaction. *)
(*                                                                         *)
(* A put to MinIO is made inside a transaction whose locks protect the     *)
(* object. When the database connection is lost while the put is under     *)
(* way, PostgreSQL releases the locks, but the put goes on and lands       *)
(* later; only the statement after it raises. And a commit may take effect *)
(* although the client sees it fail. (For every commit but that of a       *)
(* finalization this is what Abort after the commit does.)                 *)
(***************************************************************************)
EXTENDS DocFlowPromises

VARIABLE late     \* what a process without its transaction is still putting

FaultInit == late = [p \in Reqs \cup Workers |-> None]

Late(p) == late[p] # None

\* upload_chunk has its advisory lock, has found no row, and is in put_bytes, with
\* its event loop.
LoseChunkLock(r) ==
  LET u == req[r].u IN
  /\ At(r, "reading")
  /\ LoopFree(r) /\ \A q \in Reqs : Late(q) => LoopOf[q] # LoopOf[r]
  /\ SizeAllowed(u, req[r].c)
  /\ ChunkLockFree(u, req[r].i) /\ ChunkMissing(u, req[r].i)
  /\ Fault("crash")
  /\ late' = [late EXCEPT ![r] = req[r].c]
  /\ UNCHANGED <<rowVars, expired, lockVars, objVars, queueVars, req, wk>>

\* The put returns, the flush of the row raises, the request answers 500.
LateChunkPut(r) ==
  /\ Late(r)
  /\ chunkObj' = [chunkObj EXCEPT ![req[r].u][req[r].i] = late[r]]
  /\ late' = [late EXCEPT ![r] = None]
  /\ Finish(r)
  /\ UNCHANGED <<rowVars, expired, lockVars, permObj, queueVars, faults, wk>>

\* finalize_upload_task has read the chunks and is in put_bytes. PostgreSQL rolls its
\* transaction back. What the task does once the put has returned is settled: the
\* commit raises, and the error handler runs.
LoseRowLocks(w) ==
  /\ Doing(w, "assemble")
  /\ Assemblable(wk[w].u)
  /\ Fault("crash")
  /\ late' = [late EXCEPT ![w] = ReadChunks(wk[w].u)]
  /\ RollbackAndMark(w)
  /\ UNCHANGED <<rowVars, expired, objVars, queueVars, req>>

LateFinalPut(w) ==
  /\ Late(w)
  /\ permObj' = [permObj EXCEPT ![wk[w].u] = late[w]]
  /\ late' = [late EXCEPT ![w] = None]
  /\ UNCHANGED <<rowVars, expired, lockVars, chunkObj, queueVars, faults, req, wk>>

\* The commit of a finalization is made, and raises.
AmbiguousCommit(w) ==
  LET u == wk[w].u IN
  /\ Doing(w, "commit")
  /\ Fault("crash")
  /\ file' = [file EXCEPT ![u].status = "available", ![u].error = FALSE,
                          ![u].sum = wk[w].asm]
  /\ sess' = [sess EXCEPT ![u].status = "completed"]
  /\ RollbackAndMark(w)
  /\ UNCHANGED <<chunk, expired, objVars, queueVars, req, late>>

\* A process in the middle of a put does nothing else, and a coroutine in the
\* middle of one keeps its event loop.
WaitForPuts ==
  /\ \A w \in Workers : Late(w) => wk'[w] = wk[w]
  /\ \A r, q \in Reqs : Late(q) /\ LoopOf[r] = LoopOf[q] /\ req'[r] # req[r] =>
       req[r].pc # "reading" /\ (req[r].pc = "idle" => req'[r].op # "chunk")

FaultNext ==
  \/ Next /\ WaitForPuts /\ UNCHANGED late
  \/ \E r \in Reqs : LoseChunkLock(r) \/ LateChunkPut(r)
  \/ \E w \in Workers : LoseRowLocks(w) \/ LateFinalPut(w) \/ AmbiguousCommit(w)

FaultSpec == Init /\ FaultInit /\ [][FaultNext]_<<vars, late>>
===============================================================================
