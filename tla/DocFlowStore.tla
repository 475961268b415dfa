----------------------------- MODULE DocFlowStore -----------------------------
(***************************************************************************)
(* The state that the HTTP handlers and the Celery tasks of DocFlow share: *)
(* the rows of PostgreSQL (files, upload_sessions, file_chunks), the row   *)
(* locks held by open transactions, the objects in MinIO and the messages  *)
(* in RabbitMQ.                                                            *)
(*                                                                         *)
(* initialize_upload always creates one File and one UploadSession         *)
(* together and nothing else creates either, so one identifier u stands    *)
(* for the pair.                                                           *)
(***************************************************************************)
EXTENDS Naturals, FiniteSets, Functions

CONSTANTS
  Reqs,           \* handler threads and coroutines of the API
  LoopOf,         \* the event loop (uvicorn process) each of them belongs to
  Workers,        \* the processes of the Celery worker pool
  Uploads,        \* identifiers of File / UploadSession pairs
  MaxCount,       \* bound on expected_chunk_count (unbounded in the code)
  Payloads,       \* the bodies a client may send as one chunk
  SizeOf,         \* the length in bytes of each payload
  InitRequests,   \* the UploadInitializeRequest bodies a client may send
  MaxChunkSize,   \* APP_MAX_CHUNK_SIZE
  MayExpire,      \* the uploads whose deadline may pass in a run
  FaultKinds,     \* which of the faults below a run considers
  MaxFaults,      \* bound on the number of faults in one behaviour
  MaxQueue,       \* bound on the finalize messages queued for one upload
  None            \* "no value": an absent object, an unheld lock

\* publish: delay() raises and nothing is queued; ambiguous: delay() raises
\* although the message was queued; redeliver: the broker delivers a message a
\* second time; task: a statement or a MinIO call of a task raises; storage: a
\* call to MinIO fails where the code tolerates it; crash: a process dies or its
\* database connection is lost.
AllFaultKinds ==
  {"publish", "ambiguous", "redeliver", "task", "storage", "crash"}

Index == 0 .. (MaxCount - 1)

\* What can be stored as a whole file.
Content == UNION {[0 .. (n - 1) -> Payloads] : n \in 0 .. MaxCount}

ASSUME CountAssumption == MaxCount \in Nat
ASSUME ChunkSizeAssumption == MaxChunkSize \in Nat
ASSUME PayloadAssumption == SizeOf \in [Payloads -> Nat]
ASSUME BoundAssumption == MaxFaults \in Nat /\ MaxQueue \in Nat
ASSUME ExpireAssumption == MayExpire \subseteq Uploads
ASSUME FaultAssumption == FaultKinds \subseteq AllFaultKinds
ASSUME InitAssumption ==
  InitRequests \subseteq [count: 1..MaxCount, size: Nat \ {0}, limit: Nat \ {0}]
ASSUME NoneAssumption ==
  /\ None \notin Payloads /\ None \notin Reqs
  /\ None \notin Workers /\ None \notin Uploads /\ None \notin Content
ASSUME ProcessAssumption == Reqs \cap Workers = {}

VARIABLES
  file,       \* files: status, is_deleted, finalization_error, checksum_sha256
  sess,       \* upload_sessions: status and the figures given at initialization
  chunk,      \* file_chunks: the payload each row was committed for, or None
  expired,    \* has the clock passed upload_sessions.expires_at?
  fileLock,   \* the transaction holding the row lock on the file
  sessLock,   \* the transaction holding the row lock on the session
  chunkObj,   \* MinIO objects under .../uploads/<session>/chunks/<index>
  permObj,    \* MinIO object under the file's storage_key
  finq,       \* docflow.finalize_upload messages in RabbitMQ
  cleanq,     \* docflow.cleanup_file_storage messages in RabbitMQ
  faults      \* faults injected so far

rowVars   == <<file, sess, chunk>>
lockVars  == <<fileLock, sessLock>>
objVars   == <<chunkObj, permObj>>
queueVars == <<finq, cleanq>>
storeVars == <<rowVars, expired, lockVars, objVars, queueVars, faults>>

FileStatus == {"none", "pending", "processing", "available", "failed", "deleted"}

SessStatus == {"none", "initiated", "uploading", "ready_to_complete",
               "assembling", "completed", "failed", "expired", "cancelled"}

\* The statuses soft_delete_file cancels, and the same with one forgotten.
ActiveButAssembling == {"initiated", "uploading", "ready_to_complete"}
ActiveStatus == {"initiated", "uploading", "ready_to_complete", "assembling"}

\* The indexes of the chunks an upload consists of.
Expected(u) == 0 .. (sess[u].count - 1)

Present(u) == {i \in Index : chunk[u][i] # None}

\* The bytes of n chunks, in order. Two files are equal exactly when their
\* SHA-256 checksums are, so the model keeps the content where the code keeps the
\* checksum.
Assembled(content, n) == [i \in 0 .. (n - 1) |-> content[i]]

TotalSize(content) == SumFunction([i \in DOMAIN content |-> SizeOf[content[i]]])

\* As it would be if only the number of chunks were compared.
ValidByCount(content, n, size) ==
  Cardinality({i \in Index : content[i] # None}) = n

\* The test that complete_upload and retry_finalization make on the chunk rows:
\* the indexes are exactly 0..n-1 and the sizes add up to expected_size_bytes.
Valid(content, n, size) ==
  /\ \A i \in Index : content[i] # None <=> i \in 0 .. (n - 1)
  /\ TotalSize(Assembled(content, n)) = size

RowsValid(u) == Valid(chunk[u], sess[u].count, sess[u].size)

FileFree(u) == fileLock[u] = None
SessFree(u) == sessLock[u] = None

\* Ending a transaction, by commit or rollback, releases its row locks.
ReleaseAll(p) ==
  /\ fileLock' = [u \in Uploads |-> IF fileLock[u] = p THEN None ELSE fileLock[u]]
  /\ sessLock' = [u \in Uploads |-> IF sessLock[u] = p THEN None ELSE sessLock[u]]

Fault(kind) ==
  /\ kind \in FaultKinds
  /\ faults < MaxFaults
  /\ faults' = faults + 1

\* Before initialize_upload has run for u there are no rows for it.
NoFileRow == [status |-> "none", deleted |-> FALSE, error |-> FALSE, sum |-> None]
NoSessRow == [status |-> "none", count |-> 0, size |-> 0, limit |-> 0]

StoreInit ==
  /\ file = [u \in Uploads |-> NoFileRow]
  /\ sess = [u \in Uploads |-> NoSessRow]
  /\ chunk = [u \in Uploads |-> [i \in Index |-> None]]
  /\ expired = [u \in Uploads |-> FALSE]
  /\ fileLock = [u \in Uploads |-> None]
  /\ sessLock = [u \in Uploads |-> None]
  /\ chunkObj = [u \in Uploads |-> [i \in Index |-> None]]
  /\ permObj = [u \in Uploads |-> None]
  /\ finq = [u \in Uploads |-> 0]
  /\ cleanq = [u \in Uploads |-> 0]
  /\ faults = 0

FileRow == [status: FileStatus, deleted: BOOLEAN, error: BOOLEAN, sum: Content \cup {None}]
SessRow == [status: SessStatus, count: 0..MaxCount, size: Nat, limit: Nat]

StoreTypeOK ==
  /\ file \in [Uploads -> FileRow]
  /\ sess \in [Uploads -> SessRow]
  /\ chunk \in [Uploads -> [Index -> Payloads \cup {None}]]
  /\ expired \in [Uploads -> BOOLEAN]
  /\ fileLock \in [Uploads -> Reqs \cup Workers \cup {None}]
  /\ sessLock \in [Uploads -> Workers \cup {None}]
  /\ chunkObj \in [Uploads -> [Index -> Payloads \cup {None}]]
  /\ permObj \in [Uploads -> Content \cup {None}]
  /\ finq \in [Uploads -> Nat]
  /\ cleanq \in [Uploads -> Nat]
  /\ faults \in Nat

(***************************************************************************)
(* Time reaches expires_at. Every handler compares it with the current     *)
(* time, so one bit per upload carries all that the code can observe.      *)
(***************************************************************************)
SessionTimeout(u) ==
  /\ u \in MayExpire
  /\ sess[u].status # "none"
  /\ ~expired[u]
  /\ expired' = [expired EXCEPT ![u] = TRUE]
  /\ UNCHANGED <<rowVars, lockVars, objVars, queueVars, faults>>
===============================================================================
