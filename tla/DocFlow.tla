-------------------------------- MODULE DocFlow --------------------------------
(***************************************************************************)
(* The whole system: clients of the API, the request handlers, the Celery  *)
(* workers, and the store they share.                                      *)
(***************************************************************************)
EXTENDS FileService, UploadTasks

vars == <<storeVars, req, wk>>

Init == StoreInit /\ ReqInit /\ WorkerInit

(***************************************************************************)
(* The finalize task locks the session and then the file; every flush of a *)
(* handler (and of the task's own error handler) updates the file and then *)
(* the session. When the two meet, PostgreSQL rolls one of them back. A    *)
(* handler that is the victim answers 500, a finalize task goes to its     *)
(* error handler, and an error handler that is the victim gives up.        *)
(***************************************************************************)
HandlerWaits(r, w, u) ==
  /\ At(r, "flushS") /\ req[r].u = u /\ WritesSess(r)
  /\ fileLock[u] = r /\ sessLock[u] = w

MarkerWaits(v, w, u) ==
  /\ Doing(v, "flushS") /\ wk[v].u = u /\ wk[v].ss # "failed"
  /\ fileLock[u] = v /\ sessLock[u] = w

Deadlocked(w) ==
  /\ Doing(w, "lockF")
  /\ \/ \E r \in Reqs : HandlerWaits(r, w, wk[w].u)
     \/ \E v \in Workers : MarkerWaits(v, w, wk[w].u)

TaskIsVictim(w) ==
  /\ Deadlocked(w)
  /\ RollbackAndMark(w)
  /\ UNCHANGED <<rowVars, expired, objVars, queueVars, faults, req>>

HandlerIsVictim(w) ==
  /\ Doing(w, "lockF")
  /\ \E r \in Reqs : HandlerWaits(r, w, wk[w].u) /\ ReleaseAll(r) /\ Finish(r)
  /\ UNCHANGED <<rowVars, expired, objVars, queueVars, faults, wk>>

MarkerIsVictim(w) ==
  /\ Doing(w, "lockF")
  /\ \E v \in Workers : MarkerWaits(v, w, wk[w].u) /\ ReleaseAll(v) /\ Sleep(v)
  /\ UNCHANGED <<rowVars, expired, objVars, queueVars, faults, req>>

ResolveDeadlock(w) == TaskIsVictim(w) \/ HandlerIsVictim(w) \/ MarkerIsVictim(w)

\* A session reaches its expires_at.
Expire(u) == SessionTimeout(u) /\ UNCHANGED <<req, wk>>

Next ==
  \/ \E u \in Uploads, p \in InitRequests : InitializeUpload(u, p) /\ UNCHANGED wk
  \/ \E u \in Uploads : Expire(u)
  \/ \E r \in Reqs : (Request(r) \/ Handle(r) \/ Abort(r)) /\ UNCHANGED wk
  \/ \E w \in Workers : (Work(w) \/ TaskError(w) \/ WorkerCrash(w)) /\ UNCHANGED req
  \/ \E w \in Workers : ResolveDeadlock(w)

Spec == Init /\ [][Next]_vars

(***************************************************************************)
(* What the deployment owes: a handler that was started runs on, a worker  *)
(* runs on and the broker hands it messages, and PostgreSQL grants a row   *)
(* lock to its waiters in order (hence strong fairness) and resolves every *)
(* deadlock. Nothing obliges a client to send anything, a session to time  *)
(* out or a fault to happen.                                               *)
(***************************************************************************)
Fairness ==
  /\ \A r \in Reqs : SF_vars(Handle(r) /\ UNCHANGED wk)
  /\ \A w \in Workers : SF_vars(Work(w) /\ UNCHANGED req)
  /\ \A w \in Workers : WF_vars(ResolveDeadlock(w))

FairSpec == Spec /\ Fairness

\* A deployment that serves one request at a time, with a broker that delivers no
\* message twice.
Solo ==
  /\ \A r, q \in Reqs : r = q
  /\ FaultKinds \cap {"ambiguous", "redeliver"} = {}

-------------------------------------------------------------------------------
(***************************************************************************)
(* Properties                                                              *)
(***************************************************************************)

\* Every variable holds a value of its type.
TypeOK == StoreTypeOK /\ ReqTypeOK /\ WorkerTypeOK

\* A file that the API offers for download (AVAILABLE, not deleted) has its
\* object in MinIO, the stored checksum is that object's, and the object is the
\* chunks the client was told were accepted, in order, whatever failed, was
\* redelivered or ran concurrently on the way (finalize_upload_task, upload_chunk).
AvailableIsWhole ==
  \A u \in Uploads :
    file[u].status = "available" /\ ~file[u].deleted =>
      /\ permObj[u] = Assembled(chunk[u], sess[u].count)
      /\ file[u].sum = permObj[u]

\* The upload is being finalized, was finalized, or may be again.
InFinalization(u) ==
  \/ file[u].status \in {"processing", "available", "failed"}
  \/ sess[u].status \in {"assembling", "completed", "failed"}
  \/ finq[u] > 0
  \/ \E w \in Workers : wk[w].u = u

\* Finalization is only ever started for an upload all of whose chunks are
\* committed with the announced total size (complete_upload,
\* retry_finalization), so no chunk of it can still be in the course of being
\* written while a worker reads them.
FinalizedUploadsAreValid ==
  \A u \in Uploads : InFinalization(u) =>
    /\ Present(u) = Expected(u)
    /\ TotalSize(Assembled(chunk[u], sess[u].count)) = sess[u].size
    /\ ~ \E r \in Reqs : At(r, "stored") /\ req[r].u = u

\* READY_TO_COMPLETE is never set, or left set, on an upload that lacks a chunk:
\* the count upload_chunk takes never runs ahead of the rows.
ReadyHasAllChunks ==
  \A u \in Uploads :
    sess[u].status = "ready_to_complete" => Present(u) = Expected(u)

\* Nothing makes a deleted file downloadable, neither a finalization that was
\* under way when soft_delete_file committed nor one that was queued later.
DeletedNeverAvailable ==
  \A u \in Uploads : file[u].deleted => file[u].status # "available"

\* The object under a committed chunk row is the very payload that the row was
\* committed for, unless finalization or cleanup has removed it: two requests
\* for one index never overwrite each other (the advisory lock of upload_chunk).
RowMatchesObject ==
  \A u \in Uploads, i \in Index :
    chunk[u][i] # None => chunkObj[u][i] \in {chunk[u][i], None}

\* Two requests never insert the same chunk: what uq_file_chunks_session_index
\* guards against cannot occur under the advisory lock.
NoDuplicateRow ==
  \A r, q \in Reqs :
    At(r, "stored") => /\ chunk[req[r].u][req[r].i] = None
                       /\ At(q, "stored") /\ req[q].u = req[r].u
                            /\ req[q].i = req[r].i => q = r

\* With every chunk committed and no chunk request left, the session does not
\* stay in INITIATED or UPLOADING, where complete_upload would refuse it for
\* ever: of concurrent requests the last to commit sees all the others.
LastChunkMakesReady ==
  \A u \in Uploads :
    /\ sess[u].status \in {"initiated", "uploading"}
    /\ Present(u) = Expected(u)
    => \E r \in Reqs : At(r, "stored") /\ req[r].u = u

\* A file in PROCESSING has something that will move it on: a message, a worker
\* or a request that has not finished with it. (Where processes do not die.)
Settles(r, u) == req[r].u = u /\ req[r].pc \in {"flushF", "flushS", "publish", "failed"}

ProcessingIsOwned ==
  \A u \in Uploads : file[u].status = "processing" /\ ~file[u].deleted =>
    \/ finq[u] > 0
    \/ \E w \in Workers : wk[w].u = u /\ wk[w].pc # "remove"
    \/ \E r \in Reqs : Settles(r, u)

\* Once written, the permanent object is never replaced by other bytes; only the
\* cleanup of a deleted file removes it. Retries write what was there before.
PermanentObjectStable ==
  [][\A u \in Uploads :
       permObj[u] # None /\ permObj'[u] # permObj[u] =>
         permObj'[u] = None /\ file[u].deleted]_vars

\* No finalization gives a deleted file its object back, be it under way when the file
\* was deleted or started by a completion that had read the file before: the row locks
\* are held from the test of is_deleted until after the put (finalize_upload_task).
DeletedGetsNoObject ==
  [][\A u \in Uploads :
       file[u].deleted /\ permObj'[u] # permObj[u] => permObj'[u] = None]_vars

\* A row lock is only ever held by a transaction that is still running.
LocksHaveOwners ==
  \A u \in Uploads :
    /\ \A r \in Reqs : fileLock[u] = r => At(r, "flushS") /\ req[r].u = u
    /\ \A w \in Workers :
         /\ fileLock[u] = w => wk[w].pc \in {"assemble", "commit", "flushS"} /\ wk[w].u = u
         /\ sessLock[u] = w => wk[w].pc \in {"lockF", "assemble", "commit"} /\ wk[w].u = u

\* An AVAILABLE file stays so until it is deleted.
AvailableStays ==
  [][\A u \in Uploads :
       file[u].status = "available" => file'[u].status \in {"available", "deleted"}]_vars

\* What has been made AVAILABLE is not declared FAILED, by whichever finalization or
\* error handler comes after the one that succeeded (_mark_finalization_failed).
AvailableNeverFails ==
  [][\A u \in Uploads : file[u].status = "available" => file'[u].status # "failed"]_vars

\* The two status columns agree whenever no transaction is between them: they
\* are always written by one commit. Only the clock may set EXPIRED alone.
StatusesAgree ==
  \A u \in Uploads :
    /\ file[u].status = "processing" => sess[u].status \in {"assembling", "expired"}
    /\ file[u].status = "available" =>
         sess[u].status \in {"completed", "expired"} /\ ~file[u].error
    /\ file[u].status = "failed" =>
         sess[u].status \in {"failed", "expired"} /\ file[u].error
    /\ sess[u].status = "assembling" => file[u].status = "processing"

\* A retry is accepted only while every chunk object is still there to be read.
RetriesHaveChunks ==
  [][\A u \in Uploads :
       file[u].status = "failed" /\ file'[u].status = "processing" =>
         \A i \in Expected(u) : chunkObj[u][i] # None]_vars

\* The session of a deleted file is not an active one, whatever was under way.
DeletedSessionsCancelled ==
  \A u \in Uploads : file[u].deleted =>
    sess[u].status \in {"cancelled", "completed", "failed", "expired"}

\* While the permanent object of a deleted file is still in MinIO, its cleanup is
\* queued or about to be, or a repeated DELETE would queue it.
CleanupRetriable ==
  \A u \in Uploads : file[u].deleted /\ permObj[u] # None =>
    \/ cleanq[u] > 0
    \/ \E r \in Reqs : At(r, "cleanup") /\ req[r].u = u
    \/ \E r \in Reqs : ENABLED SoftDelete(r, u)

\* Polling the status ends: a file in PROCESSING leaves it.
ProcessingSettles ==
  \A u \in Uploads :
    file[u].status = "processing" ~> file[u].status # "processing" \/ file[u].deleted

\* No request and no worker waits for a lock for ever.
RequestsFinish == \A r \in Reqs : ~At(r, "idle") ~> At(r, "idle")
WorkersFinish == \A w \in Workers : ~Doing(w, "idle") ~> Doing(w, "idle")

\* Once the cleanup of a deleted file is queued its permanent object goes, and
\* no finalization still under way brings it back.
DeletedContentGoes ==
  \A u \in Uploads : cleanq[u] > 0 ~> [](permObj[u] = None)
===============================================================================
