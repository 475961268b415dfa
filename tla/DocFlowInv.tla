------------------------------ MODULE DocFlowInv ------------------------------
(***************************************************************************)
(* An inductive invariant of DocFlow, in named parts.                      *)
(***************************************************************************)
EXTENDS DocFlow

\* A handler between the checks of complete or retry and the end of its request.
Finalizing(r) ==
  \/ req[r].pc \in {"publish", "tag", "failed"}
  \/ req[r].pc \in {"flushF", "flushS"} /\ req[r].op # "delete"

\* Nothing happens on an upload before it is initialized.
StartedInv ==
  \A u \in Uploads : file[u].status = "none" =>
    /\ file[u] = NoFileRow /\ sess[u] = NoSessRow
    /\ finq[u] = 0 /\ cleanq[u] = 0 /\ permObj[u] = None
    /\ \A i \in Index : chunk[u][i] = None
    /\ \A r \in Reqs : req[r].u # u
    /\ \A w \in Workers : wk[w].u # u

\* What the program counters say about the other fields.
ReqShape(r) ==
  /\ req[r].pc = "idle" <=> req[r].u = None
  /\ req[r].pc = "flushF" => req[r].op \in {"complete", "retry", "queue_error"}
  /\ req[r].pc = "flushS" => req[r].op \in {"complete", "retry", "queue_error", "delete"}
WorkerShape(w) == wk[w].pc = "idle" <=> wk[w].u = None

ShapeInv == (\A r \in Reqs : ReqShape(r)) /\ (\A w \in Workers : WorkerShape(w))

\* Who holds the row locks: what a process holds, and what it must hold.
ReqLocks(r) ==
  /\ \A u \in Uploads : fileLock[u] = r => req[r].pc = "flushS" /\ req[r].u = u
  /\ req[r].pc = "flushS" /\ (WritesFile(r) \/ req[r].op = "delete") =>
       fileLock[req[r].u] = r
WorkerLocks(w) ==
  /\ \A u \in Uploads :
       /\ fileLock[u] = w => wk[w].pc \in {"assemble", "commit", "flushS"} /\ wk[w].u = u
       /\ sessLock[u] = w => wk[w].pc \in {"lockF", "assemble", "commit"} /\ wk[w].u = u
  /\ wk[w].pc \in {"assemble", "commit", "flushS"} => fileLock[wk[w].u] = w

LockInv == (\A r \in Reqs : ReqLocks(r)) /\ (\A w \in Workers : WorkerLocks(w))

\* Chunk rows, chunk objects, and the requests in between.
UploadChunks(u) ==
  /\ \A i \in Index :
       chunk[u][i] # None => i \in Expected(u) /\ chunkObj[u][i] \in {chunk[u][i], None}
  /\ sess[u].status = "ready_to_complete" => Expected(u) \subseteq Present(u)

ReqChunks(r) ==
  /\ req[r].pc \in {"reading", "stored"} =>
       req[r].i \in Expected(req[r].u) /\ req[r].c \in Payloads
  /\ req[r].pc = "stored" =>
       /\ chunk[req[r].u][req[r].i] = None
       /\ chunkObj[req[r].u][req[r].i] = req[r].c
       /\ req[r].ns \in {"uploading", "ready_to_complete"}
       /\ req[r].ns = "ready_to_complete" =>
            Expected(req[r].u) \subseteq Present(req[r].u) \cup {req[r].i}

SameChunk(r, q) ==
  /\ req[r].pc = "stored" /\ req[q].pc = "stored"
  /\ req[q].u = req[r].u /\ req[q].i = req[r].i

ChunkInv ==
  /\ \A u \in Uploads : UploadChunks(u)
  /\ \A r \in Reqs : ReqChunks(r)
  /\ \A r, q \in Reqs : SameChunk(r, q) => q = r

\* Everything that has to do with finalization concerns a whole upload.
WholeInv ==
  /\ \A u \in Uploads :
       \/ file[u].status \in {"processing", "available", "failed"}
       \/ sess[u].status \in {"assembling", "completed", "failed"}
       \/ finq[u] > 0
       \/ permObj[u] # None \/ file[u].sum # None
       => RowsValid(u)
  /\ \A w \in Workers : wk[w].pc # "idle" => RowsValid(wk[w].u)
  /\ \A r \in Reqs : Finalizing(r) => RowsValid(req[r].u)

\* Deletion against finalization.
ReqDeletes(r) ==
  /\ req[r].pc = "cleanup" => file[req[r].u].deleted
  /\ req[r].pc = "flushS" /\ req[r].op = "delete" =>
       ~file[req[r].u].deleted /\ req[r].fs = file[req[r].u].status /\ req[r].fs # "none"
WorkerDeletes(w) == wk[w].pc \in {"assemble", "commit"} => ~file[wk[w].u].deleted

UploadDeletes(u) ==
  /\ file[u].deleted => file[u].status # "available"
  /\ cleanq[u] > 0 => file[u].deleted

DeleteInv ==
  /\ \A u \in Uploads : UploadDeletes(u)
  /\ \A r \in Reqs : ReqDeletes(r)
  /\ \A w \in Workers : WorkerDeletes(w)

\* The permanent object.
ObjectInv ==
  /\ \A u \in Uploads :
       /\ permObj[u] # None => permObj[u] = Assembled(chunk[u], sess[u].count)
       /\ file[u].sum # None => file[u].sum = Assembled(chunk[u], sess[u].count)
       /\ file[u].status = "available" => file[u].sum # None
       /\ file[u].sum # None => permObj[u] # None \/ file[u].deleted
  /\ \A w \in Workers :
       wk[w].pc = "commit" => permObj[wk[w].u] # None /\ wk[w].asm = permObj[wk[w].u]

IInv ==
  /\ TypeOK /\ StartedInv /\ ShapeInv /\ LockInv
  /\ ChunkInv /\ WholeInv /\ DeleteInv /\ ObjectInv

-------------------------------------------------------------------------------
(***************************************************************************)
(* What each process has learnt about the file it works on.                *)
(***************************************************************************)
\* A finalization of the upload has been accepted, now or earlier.
Accepted(u) == file[u].status \notin {"none", "pending"}

ReqLife(r) ==
  \/ req[r].pc \in {"publish", "tag", "failed"}
  \/ req[r].pc \in {"flushF", "flushS"} /\ req[r].op = "queue_error"
  \/ req[r].pc # "idle" /\ req[r].fs \notin {"none", "pending"}
  => Accepted(req[r].u)

WorkerLife(w) ==
  /\ wk[w].pc # "idle" => Accepted(wk[w].u)
  /\ wk[w].pc \in {"assemble", "commit"} => file[wk[w].u].status = "processing"

LifeInv ==
  /\ \A u \in Uploads :
       /\ finq[u] > 0 => Accepted(u)
       /\ file[u].status = "deleted" => file[u].deleted
  /\ \A r \in Reqs : ReqLife(r)
  /\ \A w \in Workers : WorkerLife(w)

(***************************************************************************)
(* Who will move a file on from PROCESSING: not every request or worker    *)
(* that is busy with it, but one whose last write changes the status. A    *)
(* flush that loaded FAILED writes no status.                              *)
(***************************************************************************)
RequestOwns(r, u) ==
  /\ req[r].u = u
  /\ \/ req[r].pc \in {"publish", "failed"}
     \/ req[r].pc \in {"flushF", "flushS"} /\ (req[r].op = "queue_error" => req[r].fs # "failed")

WorkerOwns(w, u) ==
  /\ wk[w].u = u
  /\ wk[w].pc \notin {"idle", "remove"}
  /\ wk[w].pc \in {"flushF", "flushS"} => wk[w].fs # "failed"

Owned(u) ==
  \/ finq[u] > 0
  \/ \E r \in Reqs : RequestOwns(r, u)
  \/ \E w \in Workers : WorkerOwns(w, u)

OwnedInv == \A u \in Uploads : file[u].status = "processing" /\ ~file[u].deleted => Owned(u)

-------------------------------------------------------------------------------
(***************************************************************************)
(* One request at a time, no message twice: the two status columns go      *)
(* together, and at any time a file has at most one thing to be finalized  *)
(* by: a message, a worker, or a request that has yet to send the message. *)
(***************************************************************************)
\* What the session may be when the file is in a status.
Matching(status) ==
  CASE status = "none" -> {"none"}
    [] status = "pending" -> {"initiated", "uploading", "ready_to_complete", "expired"}
    [] status = "processing" -> {"assembling", "expired"}
    [] status = "available" -> {"completed", "expired"}
    [] status = "failed" -> {"failed", "expired"}
    [] OTHER -> {"cancelled", "completed", "failed", "expired"}

StatusesMatch(u) ==
  /\ sess[u].status \in Matching(file[u].status)
  /\ file[u].status = "available" => ~file[u].error
  /\ file[u].status = "failed" => file[u].error
  /\ file[u].deleted => file[u].status \in {"deleted", "failed"}

\* A request between the commit of complete or retry and its message, and a
\* worker before its last commit.
RequestToken(r, u) ==
  /\ req[r].u = u
  /\ \/ req[r].pc \in {"publish", "failed"}
     \/ req[r].pc \in {"flushF", "flushS"} /\ req[r].op = "queue_error"
WorkerToken(w, u) == wk[w].u = u /\ wk[w].pc \notin {"idle", "remove"}

AtWorkers(u) == finq[u] > 0 \/ \E w \in Workers : WorkerToken(w, u)

OneFinalization(u) ==
  /\ AtWorkers(u) => file[u].status \in {"processing", "deleted"}
  /\ finq[u] <= 1
  /\ \A w \in Workers : WorkerToken(w, u) => finq[u] = 0
  /\ \A v, w \in Workers : WorkerToken(v, u) /\ WorkerToken(w, u) => v = w
  /\ \A r \in Reqs : RequestToken(r, u) => ~AtWorkers(u)

ReqSolo(r, u) ==
  /\ req[r].pc \in {"reading", "stored"} => sess[u].status \in {"initiated", "uploading"}
  /\ req[r].pc \in {"loaded", "flushF", "flushS"} /\ req[r].op = "complete" =>
       /\ sess[u].status = "ready_to_complete" /\ req[r].ss = "ready_to_complete"
       /\ req[r].pc # "loaded" => req[r].fs = "pending"
  /\ req[r].pc \in {"loaded", "flushF", "flushS"} /\ req[r].op = "retry" =>
       /\ file[u].status = "failed" /\ ~file[u].deleted /\ req[r].fs = "failed"
       /\ req[r].pc # "loaded" => sess[u].status = "failed" /\ req[r].ss = "failed"
  /\ req[r].pc = "flushS" /\ req[r].op = "delete" => req[r].ss = sess[u].status
  /\ RequestToken(r, u) =>
       /\ file[u].status = "processing" /\ ~file[u].deleted
       /\ req[r].pc # "publish" => req[r].ss # "failed"
       /\ req[r].pc \in {"flushF", "flushS"} => req[r].fs = "processing"

WorkerSolo(w, u) ==
  /\ wk[w].pc = "markF" => wk[w].ss # "failed" \/ file[u].deleted
  /\ wk[w].pc \in {"flushF", "flushS"} => wk[w].ss # "failed" /\ wk[w].fs = "processing"
  /\ wk[w].pc = "remove" => file[u].status = "available" \/ file[u].deleted

\* The chunk objects of a file that is not downloadable yet.
ChunksKept(u) ==
  ~file[u].deleted /\ file[u].status # "available" =>
    \A i \in Index : chunk[u][i] # None => chunkObj[u][i] # None

SoloInv ==
  /\ \A u \in Uploads : StatusesMatch(u) /\ OneFinalization(u) /\ ChunksKept(u)
  /\ \A r \in Reqs, u \in Uploads : req[r].u = u => ReqSolo(r, u)
  /\ \A w \in Workers, u \in Uploads : wk[w].u = u => WorkerSolo(w, u)
===============================================================================
