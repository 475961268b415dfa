------------------------------ MODULE UploadTasks ------------------------------
(***************************************************************************)
(* The Celery tasks docflow.finalize_upload and docflow.cleanup_file_      *)
(* storage, run by a pool of worker processes. A message is acknowledged   *)
(* when a worker takes it (Celery's default, which infrastructure/celery   *)
(* leaves in place), so a worker that dies loses it.                       *)
(*                                                                         *)
(* finalize_upload_task holds the row locks of the session and of the file *)
(* (SELECT ... FOR UPDATE, in that order) until it commits. Its error      *)
(* handler _mark_finalization_failed reads both rows again without locking *)
(* them, in a transaction of its own.                                      *)
(***************************************************************************)
EXTENDS DocFlowStore

VARIABLE wk       \* what each worker process is doing

\* lockS, lockF: about to lock the session, the file; assemble: both locked,
\* status and rows checked; commit: permanent object written; remove: committed,
\* chunk objects still there; markS, markF: the error handler about to read the
\* session, the file; flushF, flushS: flushing the File, then the UploadSession.
WorkerPC == {"idle", "lockS", "lockF", "assemble", "commit", "remove",
             "markS", "markF", "flushF", "flushS"}

Asleep == [pc |-> "idle", u |-> None, fs |-> "none", ss |-> "none", asm |-> None]

WorkerRow == [pc: WorkerPC, u: Uploads \cup {None}, fs: FileStatus, ss: SessStatus,
              asm: Content \cup {None}]

WorkerTypeOK == wk \in [Workers -> WorkerRow]

WorkerInit == wk = [w \in Workers |-> Asleep]

Doing(w, pc) == wk[w].pc = pc
Step(w, pc) == wk' = [wk EXCEPT ![w].pc = pc]
Sleep(w) == wk' = [wk EXCEPT ![w] = Asleep]

\* Broken variants: no rollback before the error handler; no error handler.
MarkWithoutRollback(w) ==
  /\ UNCHANGED lockVars
  /\ wk' = [wk EXCEPT ![w] = [Asleep EXCEPT !.pc = "markS", !.u = wk[w].u]]
RollbackOnly(w) == ReleaseAll(w) /\ Sleep(w)

\* Rollback, then _mark_finalization_failed.
RollbackAndMark(w) ==
  /\ ReleaseAll(w)
  /\ wk' = [wk EXCEPT ![w] = [Asleep EXCEPT !.pc = "markS", !.u = wk[w].u]]

TakeFinalize(w, u) ==
  /\ Doing(w, "idle")
  /\ finq[u] > 0
  /\ \/ finq' = [finq EXCEPT ![u] = @ - 1] /\ faults' = faults
     \/ Fault("redeliver") /\ finq' = finq
  /\ wk' = [wk EXCEPT ![w] = [Asleep EXCEPT !.pc = "lockS", !.u = u]]
  /\ UNCHANGED <<rowVars, expired, lockVars, objVars, cleanq>>

LockSession(w) ==
  LET u == wk[w].u IN
  /\ Doing(w, "lockS")
  /\ SessFree(u)
  /\ sessLock' = [sessLock EXCEPT ![u] = w]
  /\ Step(w, "lockF")
  /\ UNCHANGED <<rowVars, expired, fileLock, objVars, queueVars, faults>>

\* The deletion that may have come first, and the same if nobody looked.
DeletionIgnored(u) == FALSE
DeletedFirst(u) == file[u].deleted

\* The tests made once both rows are locked.
Finalizable(u) ==
  /\ sess[u].status = "assembling"
  /\ file[u].status = "processing"
  /\ Present(u) = Expected(u)

\* SELECT ... FOR UPDATE returns the row as last committed, and so do the reads
\* that follow while the locks are held.
LockFile(w) ==
  LET u == wk[w].u IN
  /\ Doing(w, "lockF")
  /\ FileFree(u)
  /\ \/ /\ DeletedFirst(u)
        /\ ReleaseAll(w)
        /\ Sleep(w)
     \/ /\ ~DeletedFirst(u) /\ ~Finalizable(u)
        /\ RollbackAndMark(w)
     \/ /\ ~DeletedFirst(u) /\ Finalizable(u)
        /\ fileLock' = [fileLock EXCEPT ![u] = w]
        /\ sessLock' = sessLock
        /\ Step(w, "assemble")
  /\ UNCHANGED <<rowVars, expired, objVars, queueVars, faults>>

(***************************************************************************)
(* Read every chunk object, compare the total size, write the permanent    *)
(* object. The checksum is computed over what was read.                    *)
(***************************************************************************)
AssemblableAnyway(u) == TRUE
Assemblable(u) ==
  /\ \A i \in Expected(u) : chunkObj[u][i] # None
  /\ TotalSize(Assembled(chunkObj[u], sess[u].count)) = sess[u].size

\* The chunk objects in the order of their rows, and with ORDER BY forgotten.
ReadUnordered(u) == [i \in Expected(u) |-> chunkObj[u][sess[u].count - 1 - i]]
ReadChunks(u) == Assembled(chunkObj[u], sess[u].count)

\* Broken variant: the checksum taken over the chunks in another order.
StoreMislabelled(w, u) ==
  /\ Doing(w, "assemble")
  /\ Assemblable(u)
  /\ permObj' = [permObj EXCEPT ![u] = ReadChunks(u)]
  /\ wk' = [wk EXCEPT ![w].pc = "commit", ![w].asm = ReadUnordered(u)]

StoreWhole(w, u) ==
  /\ Doing(w, "assemble")
  /\ Assemblable(u)
  /\ permObj' = [permObj EXCEPT ![u] = ReadChunks(u)]
  /\ wk' = [wk EXCEPT ![w].pc = "commit", ![w].asm = ReadChunks(u)]

\* Chunk objects removed before the commit that makes them superfluous.
AssembleAndRemove(w) ==
  /\ StoreWhole(w, wk[w].u)
  /\ chunkObj' = [chunkObj EXCEPT ![wk[w].u] = [i \in Index |-> None]]
  /\ UNCHANGED <<rowVars, expired, lockVars, queueVars, faults>>

Assemble(w) ==
  /\ StoreWhole(w, wk[w].u)
  /\ UNCHANGED <<rowVars, expired, lockVars, chunkObj, queueVars, faults>>

\* The permanent object removed when finalization fails.
AssembleFailAndRemove(w) ==
  /\ Doing(w, "assemble")
  /\ ~Assemblable(wk[w].u)
  /\ RollbackAndMark(w)
  /\ permObj' = [permObj EXCEPT ![wk[w].u] = None]
  /\ UNCHANGED <<rowVars, expired, chunkObj, queueVars, faults>>

AssembleFail(w) ==
  /\ Doing(w, "assemble")
  /\ ~Assemblable(wk[w].u)
  /\ RollbackAndMark(w)
  /\ UNCHANGED <<rowVars, expired, objVars, queueVars, faults>>

CommitFinal(w) ==
  LET u == wk[w].u IN
  /\ Doing(w, "commit")
  /\ file' = [file EXCEPT ![u].status = "available", ![u].error = FALSE,
                          ![u].sum = wk[w].asm]
  /\ sess' = [sess EXCEPT ![u].status = "completed"]
  /\ ReleaseAll(w)
  /\ wk' = [wk EXCEPT ![w].pc = "remove", ![w].asm = None]
  /\ UNCHANGED <<chunk, expired, objVars, queueVars, faults>>

\* An attempt on every object of a set, whose failures are swallowed: kept are
\* the objects that could not be removed.
RemoveObjects(u, removed, kept) ==
  chunkObj' = [chunkObj EXCEPT ![u] =
                 [i \in Index |-> IF i \in removed \ kept THEN None ELSE @[i]]]

RemoveChunks(w) ==
  LET u == wk[w].u IN
  /\ Doing(w, "remove")
  /\ \E kept \in SUBSET Expected(u) :
       /\ RemoveObjects(u, Expected(u), kept)
       /\ IF kept = {} THEN faults' = faults ELSE Fault("storage")
  /\ Sleep(w)
  /\ UNCHANGED <<rowVars, expired, lockVars, permObj, queueVars>>

(***************************************************************************)
(* _mark_finalization_failed                                               *)
(***************************************************************************)
MarkLoadSession(w) ==
  /\ Doing(w, "markS")
  /\ wk' = [wk EXCEPT ![w].pc = "markF", ![w].ss = sess[wk[w].u].status]
  /\ UNCHANGED storeVars

MarkLoadFile(w) ==
  LET u == wk[w].u IN
  /\ Doing(w, "markF")
  /\ IF file[u].deleted
     THEN Sleep(w)
     ELSE wk' = [wk EXCEPT ![w].pc = "flushF", ![w].fs = file[u].status]
  /\ UNCHANGED storeVars

\* file_metadata always changes, so the File is always updated.
MarkFlushFile(w) ==
  LET u == wk[w].u IN
  /\ Doing(w, "flushF")
  /\ FileFree(u)
  /\ fileLock' = [fileLock EXCEPT ![u] = w]
  /\ Step(w, "flushS")
  /\ UNCHANGED <<rowVars, expired, sessLock, objVars, queueVars, faults>>

MarkCommit(w) ==
  LET u == wk[w].u IN
  /\ Doing(w, "flushS")
  /\ wk[w].ss # "failed" => SessFree(u)
  /\ file' = [file EXCEPT
       ![u].status = IF wk[w].fs # "failed" THEN "failed" ELSE @,
       ![u].error = TRUE]
  /\ sess' = [sess EXCEPT ![u].status = IF wk[w].ss # "failed" THEN "failed" ELSE @]
  /\ ReleaseAll(w)
  /\ Sleep(w)
  /\ UNCHANGED <<chunk, expired, objVars, queueVars, faults>>

(***************************************************************************)
(* docflow.cleanup_file_storage removes the permanent object and the chunk *)
(* objects that have a committed row; it writes no row. The first variant  *)
(* is broken: it trusts the status of the file, which a stale write may    *)
(* have changed.                                                           *)
(***************************************************************************)
CleanupByStatus(w, u) ==
  /\ Doing(w, "idle")
  /\ cleanq[u] > 0
  /\ cleanq' = [cleanq EXCEPT ![u] = @ - 1]
  /\ IF file[u].status = "deleted"
     THEN RemoveObjects(u, Present(u), {}) /\ permObj' = [permObj EXCEPT ![u] = None]
     ELSE UNCHANGED objVars
  /\ UNCHANGED <<rowVars, expired, lockVars, finq, faults, wk>>

Cleanup(w, u) ==
  /\ Doing(w, "idle")
  /\ cleanq[u] > 0
  /\ cleanq' = [cleanq EXCEPT ![u] = @ - 1]
  /\ \E kept \in SUBSET Present(u), keep \in BOOLEAN :
       /\ RemoveObjects(u, Present(u), kept)
       /\ permObj' = [permObj EXCEPT ![u] = IF keep THEN @ ELSE None]
       /\ IF kept = {} /\ ~keep THEN faults' = faults ELSE Fault("storage")
  /\ UNCHANGED <<rowVars, expired, lockVars, finq, wk>>

\* Where an exception reaches the error handler, and the same if removing a
\* chunk object could raise.
TryOrRemove == {"lockS", "lockF", "assemble", "commit", "remove"}
InTry == {"lockS", "lockF", "assemble", "commit"}

\* A statement or a call to MinIO raises inside the try of finalize_upload_task.
TaskError(w) ==
  /\ wk[w].pc \in InTry
  /\ Fault("task")
  /\ RollbackAndMark(w)
  /\ UNCHANGED <<rowVars, expired, objVars, queueVars>>

\* The process dies or loses its database connection.
WorkerCrash(w) ==
  /\ ~Doing(w, "idle")
  /\ Fault("crash")
  /\ ReleaseAll(w)
  /\ Sleep(w)
  /\ UNCHANGED <<rowVars, expired, objVars, queueVars>>

Work(w) ==
  \/ \E u \in Uploads : TakeFinalize(w, u) \/ Cleanup(w, u)
  \/ LockSession(w) \/ LockFile(w)
  \/ Assemble(w) \/ AssembleFail(w) \/ CommitFinal(w) \/ RemoveChunks(w)
  \/ MarkLoadSession(w) \/ MarkLoadFile(w) \/ MarkFlushFile(w) \/ MarkCommit(w)
===============================================================================
