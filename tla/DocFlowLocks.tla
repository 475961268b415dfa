----------------------------- MODULE DocFlowLocks ------------------------------
(***************************************************************************)
(* Types and row locks: every variable keeps its type, every lock has a    *)
(* live owner, and whoever writes a File row holds its lock, which is why  *)
(* no deleted file becomes available.                                      *)
(***************************************************************************)
EXTENDS DocFlowInv, TLAPS

\* The chunks of a whole upload are something that can be stored.
LEMMA AssembledType ==
  ASSUME NEW content, NEW n \in 0 .. MaxCount,
         \A i \in 0 .. (n - 1) : content[i] \in Payloads
  PROVE  Assembled(content, n) \in Content
  BY CountAssumption DEF Assembled, Content

\* Ending a transaction leaves the lock tables lock tables.
LEMMA ReleaseType ==
  ASSUME StoreTypeOK, NEW p, ReleaseAll(p)
  PROVE  /\ fileLock' \in [Uploads -> Reqs \cup Workers \cup {None}]
         /\ sessLock' \in [Uploads -> Workers \cup {None}]
  BY DEF ReleaseAll, StoreTypeOK

LEMMA FaultType == ASSUME StoreTypeOK, NEW k, Fault(k) PROVE faults' \in Nat
  BY DEF Fault, StoreTypeOK

\* Writing the status column of a session, or the File row.
LEMMA SessUpdateType ==
  ASSUME StoreTypeOK, NEW u \in Uploads, NEW st \in SessStatus
  PROVE  [sess EXCEPT ![u].status = st] \in [Uploads -> SessRow]
  BY DEF StoreTypeOK, SessRow

LEMMA FileUpdateType ==
  ASSUME StoreTypeOK, NEW u \in Uploads, NEW st \in FileStatus, NEW d \in BOOLEAN,
         NEW e \in BOOLEAN, NEW c \in Content \cup {None}
  PROVE  /\ [file EXCEPT ![u].status = st, ![u].deleted = d, ![u].error = e]
               \in [Uploads -> FileRow]
         /\ [file EXCEPT ![u].status = st, ![u].error = e, ![u].sum = c]
               \in [Uploads -> FileRow]
         /\ [file EXCEPT ![u].status = st, ![u].error = e] \in [Uploads -> FileRow]
  <1>1. file \in [Uploads -> FileRow]
    BY DEF StoreTypeOK
  <1>2. [file EXCEPT ![u].status = st, ![u].deleted = d, ![u].error = e] \in [Uploads -> FileRow]
    BY <1>1 DEF FileRow
  <1>3. [file EXCEPT ![u].status = st, ![u].error = e, ![u].sum = c] \in [Uploads -> FileRow]
    BY <1>1 DEF FileRow
  <1>4. [file EXCEPT ![u].status = st, ![u].error = e] \in [Uploads -> FileRow]
    BY <1>1 DEF FileRow
  <1> QED BY <1>2, <1>3, <1>4

LEMMA RowTypes ==
  ASSUME StoreTypeOK, NEW u \in Uploads
  PROVE  /\ file[u].status \in FileStatus /\ file[u].deleted \in BOOLEAN
         /\ file[u].error \in BOOLEAN /\ file[u].sum \in Content \cup {None}
         /\ sess[u].status \in SessStatus /\ sess[u].count \in 0 .. MaxCount
         /\ sess[u].size \in Nat
  BY DEF StoreTypeOK, FileRow, SessRow

\* The statuses the code assigns exist.
LEMMA TargetTypes ==
  /\ \A u : StatusAfterChunk(u) \in SessStatus
  /\ \A op : FileTarget(op) \in FileStatus /\ SessTarget(op) \in SessStatus
  BY DEF StatusAfterChunk, FileTarget, SessTarget, FileStatus, SessStatus

\* A step that leaves the store alone.
LEMMA StoreSame == ASSUME StoreTypeOK, UNCHANGED storeVars PROVE StoreTypeOK'
  BY DEF StoreTypeOK, storeVars, rowVars, lockVars, objVars, queueVars

\* The fields of a handler, and of a worker.
LEMMA ReqRowType ==
  ASSUME ReqTypeOK, NEW r \in Reqs
  PROVE  /\ req[r].pc \in ReqPC /\ req[r].op \in Ops /\ req[r].u \in Uploads \cup {None}
         /\ req[r].i \in Nat /\ req[r].c \in Payloads \cup {None}
         /\ req[r].fs \in FileStatus /\ req[r].ss \in SessStatus /\ req[r].ns \in SessStatus
  BY DEF ReqTypeOK, ReqRow

LEMMA WorkerRowType ==
  ASSUME WorkerTypeOK, NEW w \in Workers
  PROVE  /\ wk[w].pc \in WorkerPC /\ wk[w].u \in Uploads \cup {None}
         /\ wk[w].fs \in FileStatus /\ wk[w].ss \in SessStatus
         /\ wk[w].asm \in Content \cup {None}
  BY DEF WorkerTypeOK, WorkerRow

\* How a handler moves on.
LEMMA GotoType ==
  ASSUME ReqTypeOK, NEW r \in Reqs, NEW pc \in ReqPC, Goto(r, pc)
  PROVE  ReqTypeOK'
  BY DEF ReqTypeOK, ReqRow, Goto

LEMMA EnterType ==
  ASSUME ReqTypeOK, NEW r \in Reqs, NEW pc \in ReqPC, NEW op \in Ops, Enter(r, pc, op)
  PROVE  ReqTypeOK'
  BY DEF ReqTypeOK, ReqRow, Enter, Idle, FileStatus, SessStatus

LEMMA FinishType ==
  ASSUME ReqTypeOK, NEW r \in Reqs, Finish(r)
  PROVE  ReqTypeOK'
  BY DEF ReqTypeOK, ReqRow, Finish, Idle, FileStatus, SessStatus, ReqPC, Ops

\* How a worker moves on.
LEMMA StepPCType ==
  ASSUME WorkerTypeOK, NEW w \in Workers, NEW pc \in WorkerPC, Step(w, pc)
  PROVE  WorkerTypeOK'
  BY DEF WorkerTypeOK, WorkerRow, Step

LEMMA SleepType ==
  ASSUME WorkerTypeOK, NEW w \in Workers, Sleep(w)
  PROVE  WorkerTypeOK'
  BY DEF WorkerTypeOK, WorkerRow, Sleep, Asleep, FileStatus, SessStatus, WorkerPC

LEMMA RollbackType ==
  ASSUME StoreTypeOK, WorkerTypeOK, NEW w \in Workers, RollbackAndMark(w)
  PROVE  /\ WorkerTypeOK'
         /\ fileLock' \in [Uploads -> Reqs \cup Workers \cup {None}]
         /\ sessLock' \in [Uploads -> Workers \cup {None}]
  BY ReleaseType DEF WorkerTypeOK, WorkerRow, RollbackAndMark, Asleep, FileStatus,
                     SessStatus, WorkerPC

\* A client's request puts its handler to work.
LEMMA RequestType ==
  ASSUME TypeOK, NEW r \in Reqs, Request(r), UNCHANGED wk
  PROVE  TypeOK'
  <1>1. StoreTypeOK /\ ReqTypeOK /\ WorkerTypeOK'
    BY DEF TypeOK, WorkerTypeOK
  <1>2. ASSUME NEW u \in Uploads, NEW i \in Index, NEW c \in Payloads, ChunkBegin(r, u, i, c)
        PROVE  TypeOK'
    <2>1. i \in Nat /\ u \in Uploads \cup {None} /\ c \in Payloads \cup {None}
          /\ sess[u].status \in SessStatus
      BY <1>1, CountAssumption, RowTypes DEF Index
    <2>2. ReqTypeOK'
      BY <1>1, <1>2, <2>1 DEF ChunkBegin, ReqTypeOK, ReqRow, Idle, FileStatus, SessStatus,
                              ReqPC, Ops
    <2> QED BY <1>1, <1>2, <2>2, StoreSame DEF ChunkBegin, TypeOK
  <1>3. ASSUME NEW u \in Uploads, NEW op \in {"chunk", "complete"}, FindExpired(r, u, op)
        PROVE  TypeOK'
    <2>1. ReqTypeOK'
      BY <1>1, <1>3 DEF FindExpired, ReqTypeOK, ReqRow, Idle, FileStatus, SessStatus,
                        ReqPC, Ops
    <2> QED BY <1>1, <1>3, <2>1, StoreSame DEF FindExpired, TypeOK
  <1>4. ASSUME NEW u \in Uploads, CompleteBegin(r, u) PROVE TypeOK'
    <2>1. ReqTypeOK'
      BY <1>1, <1>4 DEF CompleteBegin, ReqTypeOK, ReqRow, Idle, FileStatus, SessStatus,
                        ReqPC, Ops
    <2> QED BY <1>1, <1>4, <2>1, StoreSame DEF CompleteBegin, TypeOK
  <1>5. ASSUME NEW u \in Uploads, RetryBegin(r, u) PROVE TypeOK'
    <2>1. ReqTypeOK'
      BY <1>1, <1>5 DEF RetryBegin, ReqTypeOK, ReqRow, Idle, FileStatus, SessStatus, ReqPC,
                        Ops
    <2> QED BY <1>1, <1>5, <2>1, StoreSame DEF RetryBegin, TypeOK
  <1>6. ASSUME NEW u \in Uploads, SoftDelete(r, u) PROVE TypeOK'
    <2>1. file[u].status \in FileStatus /\ sess[u].status \in SessStatus
      BY <1>1, RowTypes
    <2>2. ReqTypeOK'
      BY <1>1, <1>6, <2>1 DEF SoftDelete, ReqTypeOK, ReqRow, Idle, FileStatus, SessStatus,
                              ReqPC, Ops
    <2>3. StoreTypeOK'
      BY <1>1, <1>6 DEF SoftDelete, StoreTypeOK, rowVars, objVars, queueVars
    <2> QED BY <1>1, <2>2, <2>3 DEF TypeOK
  <1> QED BY <1>2, <1>3, <1>4, <1>5, <1>6 DEF Request

\* A handler at work.
LEMMA HandleType ==
  ASSUME TypeOK, ShapeInv, NEW r \in Reqs, Handle(r) \/ Abort(r), UNCHANGED wk
  PROVE  TypeOK'
  <1>0. StoreTypeOK /\ ReqTypeOK /\ WorkerTypeOK'
    BY DEF TypeOK, WorkerTypeOK
  <1>u. req[r].pc # "idle" => req[r].u \in Uploads
    BY <1>0, ReqRowType DEF ShapeInv, ReqShape
  <1>1. CASE ChunkStore(r)
    <2>t. req \in [Reqs -> ReqRow]
      BY <1>0 DEF ReqTypeOK
    <2>0. PICK st \in SessStatus : req' = [req EXCEPT ![r].pc = "stored", ![r].ns = st]
      BY <1>1, TargetTypes DEF ChunkStore
    <2>1. ReqTypeOK'
      <3>1. "stored" \in ReqPC
        BY DEF ReqPC
      <3>2. [req EXCEPT ![r].pc = "stored", ![r].ns = st] \in [Reqs -> ReqRow]
        BY <2>t, <2>0, <3>1 DEF ReqRow
      <3> QED BY <2>0, <3>2 DEF ReqTypeOK
    <2>2. StoreTypeOK'
      BY <1>0, <1>1, <1>u, ReqRowType DEF ChunkStore, At, StoreTypeOK, rowVars, lockVars,
                                          queueVars
    <2> QED BY <1>0, <2>1, <2>2 DEF TypeOK
  <1>2. CASE ChunkReject(r)
    <2>1. ReqTypeOK'
      BY <1>0, <1>2, FinishType DEF ChunkReject
    <2> QED BY <1>0, <1>2, <2>1, StoreSame DEF ChunkReject, TypeOK
  <1>3. CASE ChunkCommit(r)
    <2>1. ReqTypeOK'
      BY <1>0, <1>3, FinishType DEF ChunkCommit
    <2>2. req[r].u \in Uploads /\ req[r].c \in Payloads \cup {None} /\ req[r].ns \in SessStatus
      BY <1>0, <1>3, <1>u, ReqRowType DEF ChunkCommit, At
    <2>3. chunk' \in [Uploads -> [Index -> Payloads \cup {None}]]
      BY <1>0, <1>3, <2>2 DEF ChunkCommit, StoreTypeOK
    <2>4. sess' \in [Uploads -> SessRow]
      <3>1. sess' = sess \/ sess' = [sess EXCEPT ![req[r].u].status = req[r].ns]
        BY <1>3 DEF ChunkCommit
      <3>2. sess \in [Uploads -> SessRow]
        BY <1>0 DEF StoreTypeOK
      <3> QED BY <1>0, <2>2, <3>1, <3>2, SessUpdateType
    <2>5. StoreTypeOK'
      BY <1>0, <1>3, <2>3, <2>4 DEF ChunkCommit, StoreTypeOK, lockVars, objVars, queueVars
    <2> QED BY <1>0, <2>1, <2>5 DEF TypeOK
  <1>4. CASE ExpireCommit(r)
    <2>1. ReqTypeOK'
      BY <1>0, <1>4, FinishType DEF ExpireCommit
    <2>2. StoreTypeOK'
      BY <1>0, <1>4, <1>u, SessUpdateType
         DEF ExpireCommit, At, StoreTypeOK, SessStatus, lockVars, objVars, queueVars
    <2> QED BY <1>0, <2>1, <2>2 DEF TypeOK
  <1>5. CASE CompleteCheck(r)
    <2>1. ReqTypeOK'
      BY <1>0, <1>5, <1>u, RowTypes, EnterType, FinishType
         DEF CompleteCheck, At, ReqTypeOK, ReqRow, ReqPC, Ops
    <2> QED BY <1>0, <1>5, <2>1, StoreSame DEF CompleteCheck, TypeOK
  <1>6. CASE RetryCheck(r)
    <2>1. ReqTypeOK'
      BY <1>0, <1>6, <1>u, RowTypes, FinishType DEF RetryCheck, At, ReqTypeOK, ReqRow, ReqPC
    <2> QED BY <1>0, <1>6, <2>1, StoreSame DEF RetryCheck, TypeOK
  <1>7. CASE FlushFile(r)
    <2>1. ReqTypeOK'
      BY <1>0, <1>7, GotoType DEF FlushFile, ReqPC
    <2>2. StoreTypeOK'
      <3>1. fileLock' = fileLock \/ fileLock' = [fileLock EXCEPT ![req[r].u] = r]
        BY <1>7 DEF FlushFile
      <3>2. UNCHANGED <<rowVars, expired, sessLock, objVars, queueVars, faults>>
        BY <1>7 DEF FlushFile
      <3> QED BY <1>0, <1>u, <3>1, <3>2 DEF StoreTypeOK, rowVars, objVars, queueVars
    <2> QED BY <1>0, <2>1, <2>2 DEF TypeOK
  <1>8. CASE FlushCommit(r)
    <2>1. ReqTypeOK'
      BY <1>0, <1>8, EnterType, FinishType DEF FlushCommit, ReqPC, Ops
    <2>u. req[r].u \in Uploads
      BY <1>u, <1>8 DEF FlushCommit, At
    <2>2. PICK st \in FileStatus, d \in BOOLEAN, e \in BOOLEAN :
            file' = [file EXCEPT ![req[r].u].status = st, ![req[r].u].deleted = d,
                                 ![req[r].u].error = e]
      BY <1>0, <1>8, <2>u, RowTypes, TargetTypes DEF FlushCommit
    <2>3. PICK ss \in SessStatus : sess' = [sess EXCEPT ![req[r].u].status = ss]
      BY <1>0, <1>8, <2>u, RowTypes, TargetTypes DEF FlushCommit
    <2>4. file' \in [Uploads -> FileRow] /\ sess' \in [Uploads -> SessRow]
      BY <1>0, <2>u, <2>2, <2>3, FileUpdateType, SessUpdateType
    <2>5. StoreTypeOK'
      BY <1>0, <1>8, <2>4, ReleaseType DEF FlushCommit, StoreTypeOK, objVars, queueVars
    <2> QED BY <1>0, <2>1, <2>5 DEF TypeOK
  <1>9. CASE Publish(r)
    <2>1. ReqTypeOK'
      BY <1>0, <1>9, GotoType DEF Publish, ReqPC
    <2>2. StoreTypeOK'
      BY <1>0, <1>9, <1>u DEF Publish, At, StoreTypeOK, rowVars, lockVars, objVars
    <2> QED BY <1>0, <2>1, <2>2 DEF TypeOK
  <1>10. CASE PublishError(r)
    <2>t. req \in [Reqs -> ReqRow]
      BY <1>0 DEF ReqTypeOK
    <2>0. PICK st \in SessStatus : req' = [req EXCEPT ![r].pc = "failed", ![r].ss = st]
      BY <1>0, <1>10, <1>u, RowTypes DEF PublishError, At
    <2>1. ReqTypeOK'
      <3>1. "failed" \in ReqPC
        BY DEF ReqPC
      <3>2. [req EXCEPT ![r].pc = "failed", ![r].ss = st] \in [Reqs -> ReqRow]
        BY <2>t, <2>0, <3>1 DEF ReqRow
      <3> QED BY <2>0, <3>2 DEF ReqTypeOK
    <2>2. StoreTypeOK'
      BY <1>0, <1>10, <1>u, FaultType DEF PublishError, At, StoreTypeOK, rowVars, lockVars,
                                          objVars
    <2> QED BY <1>0, <2>1, <2>2 DEF TypeOK
  <1>11. CASE TagTask(r)
    <2>1. ReqTypeOK'
      BY <1>0, <1>11, FinishType DEF TagTask
    <2> QED BY <1>0, <1>11, <2>1, StoreSame DEF TagTask, TypeOK
  <1>12. CASE MarkQueueError(r)
    <2>t. req \in [Reqs -> ReqRow]
      BY <1>0 DEF ReqTypeOK
    <2>0. PICK st \in FileStatus :
            req' = [req EXCEPT ![r].pc = "flushF", ![r].op = "queue_error", ![r].fs = st]
      BY <1>0, <1>12, <1>u, RowTypes DEF MarkQueueError, At
    <2>1. ReqTypeOK'
      <3>1. "flushF" \in ReqPC /\ "queue_error" \in Ops
        BY DEF ReqPC, Ops
      <3>2. [req EXCEPT ![r].pc = "flushF", ![r].op = "queue_error", ![r].fs = st]
              \in [Reqs -> ReqRow]
        BY <2>t, <2>0, <3>1 DEF ReqRow
      <3> QED BY <2>0, <3>2 DEF ReqTypeOK
    <2> QED BY <1>0, <1>12, <2>1, StoreSame DEF MarkQueueError, TypeOK
  <1>13. CASE QueueCleanup(r)
    <2>1. ReqTypeOK'
      BY <1>0, <1>13, FinishType DEF QueueCleanup
    <2>2. StoreTypeOK'
      <3>1. cleanq' \in [Uploads -> Nat] /\ faults' \in Nat
        BY <1>0, <1>13, <1>u, FaultType DEF QueueCleanup, At, StoreTypeOK
      <3> QED BY <1>0, <1>13, <3>1 DEF QueueCleanup, StoreTypeOK, rowVars, lockVars, objVars
    <2> QED BY <1>0, <2>1, <2>2 DEF TypeOK
  <1>14. CASE Abort(r)
    <2>1. ReqTypeOK'
      BY <1>0, <1>14, FinishType DEF Abort
    <2>2. StoreTypeOK'
      BY <1>0, <1>14, FaultType, ReleaseType
         DEF Abort, StoreTypeOK, rowVars, objVars, queueVars
    <2> QED BY <1>0, <2>1, <2>2 DEF TypeOK
  <1> QED BY <1>1, <1>2, <1>3, <1>4, <1>5, <1>6, <1>7, <1>8, <1>9, <1>10, <1>11, <1>12,
             <1>13, <1>14 DEF Handle

\* A worker.
LEMMA WorkType ==
  ASSUME TypeOK, ShapeInv, NEW w \in Workers,
         Work(w) \/ TaskError(w) \/ WorkerCrash(w), UNCHANGED req
  PROVE  TypeOK'
  <1>0. StoreTypeOK /\ WorkerTypeOK /\ ReqTypeOK'
    BY DEF TypeOK, ReqTypeOK
  <1>u. wk[w].pc # "idle" => wk[w].u \in Uploads
    BY <1>0, WorkerRowType DEF ShapeInv, WorkerShape
  <1>1. CASE LockSession(w)
    <2>1. WorkerTypeOK'
      BY <1>0, <1>1, StepPCType DEF LockSession, WorkerPC
    <2>2. StoreTypeOK'
      BY <1>0, <1>1, <1>u DEF LockSession, Doing, StoreTypeOK, rowVars, objVars, queueVars
    <2> QED BY <1>0, <2>1, <2>2 DEF TypeOK
  <1>2. CASE LockFile(w)
    <2>1. WorkerTypeOK'
      BY <1>0, <1>2, SleepType, RollbackType, StepPCType DEF LockFile, WorkerPC
    <2>2. StoreTypeOK'
      BY <1>0, <1>2, <1>u, ReleaseType, RollbackType
         DEF LockFile, Doing, StoreTypeOK, rowVars, objVars, queueVars
    <2> QED BY <1>0, <2>1, <2>2 DEF TypeOK
  <1>3. CASE Assemble(w)
    <2>u. wk[w].u \in Uploads
      BY <1>u, <1>3 DEF Assemble, StoreWhole, Doing
    <2>0. ReadChunks(wk[w].u) \in Content
      <3>1. \A i \in 0 .. (sess[wk[w].u].count - 1) : chunkObj[wk[w].u][i] \in Payloads
        <4>1. 0 .. (sess[wk[w].u].count - 1) \subseteq Index
          BY <1>0, <2>u, RowTypes, CountAssumption DEF Index
        <4>2. chunkObj[wk[w].u] \in [Index -> Payloads \cup {None}]
          BY <1>0, <2>u DEF StoreTypeOK
        <4> QED BY <1>3, <4>1, <4>2 DEF Assemble, StoreWhole, Assemblable, Expected
      <3> QED BY <1>0, <2>u, <3>1, RowTypes, AssembledType DEF ReadChunks
    <2>1. WorkerTypeOK'
      BY <1>0, <1>3, <2>0 DEF Assemble, StoreWhole, WorkerTypeOK, WorkerRow, WorkerPC
    <2>2. StoreTypeOK'
      BY <1>0, <1>3, <2>0, <2>u DEF Assemble, StoreWhole, StoreTypeOK, rowVars, lockVars,
                                    queueVars
    <2> QED BY <1>0, <2>1, <2>2 DEF TypeOK
  <1>4. CASE AssembleFail(w)
    <2>1. WorkerTypeOK'
      BY <1>0, <1>4, RollbackType DEF AssembleFail
    <2>2. StoreTypeOK'
      BY <1>0, <1>4, RollbackType DEF AssembleFail, StoreTypeOK, rowVars, objVars, queueVars
    <2> QED BY <1>0, <2>1, <2>2 DEF TypeOK
  <1>5. CASE CommitFinal(w)
    <2>1. WorkerTypeOK'
      BY <1>0, <1>5 DEF CommitFinal, WorkerTypeOK, WorkerRow, WorkerPC
    <2>u. wk[w].u \in Uploads /\ wk[w].asm \in Content \cup {None}
      BY <1>0, <1>u, <1>5, WorkerRowType DEF CommitFinal, Doing
    <2>0. "available" \in FileStatus /\ "completed" \in SessStatus
      BY DEF FileStatus, SessStatus
    <2>2. file' \in [Uploads -> FileRow] /\ sess' \in [Uploads -> SessRow]
      BY <1>0, <1>5, <2>0, <2>u, FileUpdateType, SessUpdateType DEF CommitFinal
    <2>3. StoreTypeOK'
      BY <1>0, <1>5, <2>2, ReleaseType DEF CommitFinal, StoreTypeOK, objVars, queueVars
    <2> QED BY <1>0, <2>1, <2>3 DEF TypeOK
  <1>6. CASE RemoveChunks(w)
    <2>1. WorkerTypeOK'
      BY <1>0, <1>6, SleepType DEF RemoveChunks
    <2>2. StoreTypeOK'
      BY <1>0, <1>6, <1>u, FaultType DEF RemoveChunks, Doing, RemoveObjects, StoreTypeOK,
                                         rowVars, lockVars, queueVars
    <2> QED BY <1>0, <2>1, <2>2 DEF TypeOK
  <1>7. CASE MarkLoadSession(w)
    <2>1. WorkerTypeOK'
      BY <1>0, <1>7, <1>u, RowTypes DEF MarkLoadSession, Doing, WorkerTypeOK, WorkerRow,
                                        WorkerPC
    <2> QED BY <1>0, <1>7, <2>1, StoreSame DEF MarkLoadSession, TypeOK
  <1>8. CASE MarkLoadFile(w)
    <2>1. WorkerTypeOK'
      BY <1>0, <1>8, <1>u, RowTypes, SleepType
         DEF MarkLoadFile, Doing, WorkerTypeOK, WorkerRow, WorkerPC
    <2> QED BY <1>0, <1>8, <2>1, StoreSame DEF MarkLoadFile, TypeOK
  <1>9. CASE MarkFlushFile(w)
    <2>1. WorkerTypeOK'
      BY <1>0, <1>9, StepPCType DEF MarkFlushFile, WorkerPC
    <2>2. StoreTypeOK'
      BY <1>0, <1>9, <1>u DEF MarkFlushFile, Doing, StoreTypeOK, rowVars, objVars, queueVars
    <2> QED BY <1>0, <2>1, <2>2 DEF TypeOK
  <1>10. CASE MarkCommit(w)
    <2>1. WorkerTypeOK'
      BY <1>0, <1>10, SleepType DEF MarkCommit
    <2>u. wk[w].u \in Uploads
      BY <1>u, <1>10 DEF MarkCommit, Doing
    <2>2. PICK st \in FileStatus : file' = [file EXCEPT ![wk[w].u].status = st, ![wk[w].u].error = TRUE]
      BY <1>0, <1>10, <2>u, RowTypes DEF MarkCommit, FileStatus
    <2>3. PICK ss \in SessStatus : sess' = [sess EXCEPT ![wk[w].u].status = ss]
      BY <1>0, <1>10, <2>u, RowTypes DEF MarkCommit, SessStatus
    <2>4. file' \in [Uploads -> FileRow] /\ sess' \in [Uploads -> SessRow]
      BY <1>0, <2>u, <2>2, <2>3, RowTypes, FileUpdateType, SessUpdateType
    <2>5. StoreTypeOK'
      BY <1>0, <1>10, <2>4, ReleaseType DEF MarkCommit, StoreTypeOK, objVars, queueVars
    <2> QED BY <1>0, <2>1, <2>5 DEF TypeOK
  <1>11. CASE TaskError(w)
    <2>1. WorkerTypeOK'
      BY <1>0, <1>11, RollbackType DEF TaskError
    <2>2. StoreTypeOK'
      BY <1>0, <1>11, RollbackType, FaultType
         DEF TaskError, StoreTypeOK, rowVars, objVars, queueVars
    <2> QED BY <1>0, <2>1, <2>2 DEF TypeOK
  <1>12. CASE WorkerCrash(w)
    <2>1. WorkerTypeOK'
      BY <1>0, <1>12, SleepType DEF WorkerCrash
    <2>2. StoreTypeOK'
      BY <1>0, <1>12, ReleaseType, FaultType
         DEF WorkerCrash, StoreTypeOK, rowVars, objVars, queueVars
    <2> QED BY <1>0, <2>1, <2>2 DEF TypeOK
  <1>13. ASSUME NEW u \in Uploads, TakeFinalize(w, u) PROVE TypeOK'
    <2>1. WorkerTypeOK'
      BY <1>0, <1>13 DEF TakeFinalize, WorkerTypeOK, WorkerRow, Asleep, WorkerPC,
                         FileStatus, SessStatus
    <2>2. StoreTypeOK'
      BY <1>0, <1>13, FaultType DEF TakeFinalize, StoreTypeOK, rowVars, lockVars, objVars
    <2> QED BY <1>0, <2>1, <2>2 DEF TypeOK
  <1>14. ASSUME NEW u \in Uploads, Cleanup(w, u) PROVE TypeOK'
    <2>1. WorkerTypeOK'
      BY <1>0, <1>14 DEF Cleanup, WorkerTypeOK
    <2>2. StoreTypeOK'
      BY <1>0, <1>14, FaultType DEF Cleanup, RemoveObjects, StoreTypeOK, rowVars, lockVars
    <2> QED BY <1>0, <2>1, <2>2 DEF TypeOK
  <1> QED BY <1>1, <1>2, <1>3, <1>4, <1>5, <1>6, <1>7, <1>8, <1>9, <1>10, <1>11, <1>12,
             <1>13, <1>14 DEF Work

\* A deadlock and its victim.
LEMMA DeadlockType ==
  ASSUME TypeOK, NEW w \in Workers, ResolveDeadlock(w)
  PROVE  TypeOK'
  <1>0. StoreTypeOK /\ ReqTypeOK /\ WorkerTypeOK
    BY DEF TypeOK
  <1>1. CASE TaskIsVictim(w)
    <2>1. WorkerTypeOK' /\ ReqTypeOK'
      BY <1>0, <1>1, RollbackType DEF TaskIsVictim, ReqTypeOK
    <2>2. StoreTypeOK'
      BY <1>0, <1>1, RollbackType DEF TaskIsVictim, StoreTypeOK, rowVars, objVars, queueVars
    <2> QED BY <2>1, <2>2 DEF TypeOK
  <1>2. CASE HandlerIsVictim(w)
    <2>1. WorkerTypeOK' /\ ReqTypeOK'
      BY <1>0, <1>2, FinishType DEF HandlerIsVictim, WorkerTypeOK
    <2>2. StoreTypeOK'
      BY <1>0, <1>2, ReleaseType DEF HandlerIsVictim, StoreTypeOK, rowVars, objVars,
                                     queueVars
    <2> QED BY <2>1, <2>2 DEF TypeOK
  <1>3. CASE MarkerIsVictim(w)
    <2>1. WorkerTypeOK' /\ ReqTypeOK'
      BY <1>0, <1>3, SleepType DEF MarkerIsVictim, ReqTypeOK
    <2>2. StoreTypeOK'
      BY <1>0, <1>3, ReleaseType DEF MarkerIsVictim, StoreTypeOK, rowVars, objVars,
                                     queueVars
    <2> QED BY <2>1, <2>2 DEF TypeOK
  <1> QED BY <1>1, <1>2, <1>3 DEF ResolveDeadlock

LEMMA InitType == Init => TypeOK
  <1> SUFFICES ASSUME Init PROVE TypeOK
    OBVIOUS
  <1>0. NoFileRow \in FileRow /\ NoSessRow \in SessRow
    BY CountAssumption DEF NoFileRow, NoSessRow, FileRow, SessRow, FileStatus, SessStatus
  <1>1. StoreTypeOK
    BY <1>0 DEF Init, StoreInit, StoreTypeOK
  <1>2. ReqTypeOK /\ WorkerTypeOK
    BY DEF Init, ReqInit, WorkerInit, ReqTypeOK, ReqRow, WorkerTypeOK, WorkerRow, Idle,
           Asleep, FileStatus, SessStatus, ReqPC, Ops, WorkerPC
  <1> QED BY <1>1, <1>2 DEF TypeOK

-------------------------------------------------------------------------------
(***************************************************************************)
(* Whose step it is                                                        *)
(***************************************************************************)

\* A request, a handler, a worker touches the state of no other.
LEMMA RequestLocal ==
  ASSUME ReqTypeOK, NEW r \in Reqs, Request(r) \/ Handle(r) \/ Abort(r)
  PROVE  req' = [req EXCEPT ![r] = req'[r]]
  <1>0. req \in [Reqs -> ReqRow]
    BY DEF ReqTypeOK
  <1>h. CASE Handle(r) \/ Abort(r)
    BY <1>0, <1>h DEF Handle, ChunkStore, ChunkReject, ChunkCommit, ExpireCommit,
                      CompleteCheck, RetryCheck, FlushFile, FlushCommit, Publish,
                      PublishError, TagTask, MarkQueueError, QueueCleanup, Abort, Goto,
                      Enter, Finish, storeVars
  <1>r. CASE Request(r)
    BY <1>0, <1>r DEF Request, ChunkBegin, FindExpired, CompleteBegin, RetryBegin,
                      SoftDelete
  <1> QED BY <1>h, <1>r

\* What ending, or going on to a new transaction, leaves behind.
LEMMA FinishIs == ASSUME ReqTypeOK, NEW r \in Reqs, Finish(r) PROVE req'[r] = Idle
  BY DEF ReqTypeOK, Finish

LEMMA EnterIs ==
  ASSUME ReqTypeOK, NEW r \in Reqs, NEW pc, NEW op, Enter(r, pc, op)
  PROVE  /\ req'[r].pc = pc /\ req'[r].op = op /\ req'[r].u = req[r].u
         /\ req'[r].fs = "none" /\ req'[r].ss = "none"
  BY DEF ReqTypeOK, Enter, Idle

LEMMA SleepIs == ASSUME WorkerTypeOK, NEW w \in Workers, Sleep(w) PROVE wk'[w] = Asleep
  BY DEF WorkerTypeOK, Sleep

LEMMA RollbackIs ==
  ASSUME WorkerTypeOK, NEW w \in Workers, RollbackAndMark(w)
  PROVE  wk'[w].pc = "markS" /\ wk'[w].u = wk[w].u
  BY DEF WorkerTypeOK, RollbackAndMark, Asleep

LEMMA WorkerLocal ==
  ASSUME WorkerTypeOK, NEW w \in Workers, Work(w) \/ TaskError(w) \/ WorkerCrash(w)
  PROVE  wk' = [wk EXCEPT ![w] = wk'[w]]
  <1>0. wk \in [Workers -> WorkerRow]
    BY DEF WorkerTypeOK
  <1> QED BY <1>0 DEF Work, TakeFinalize, Cleanup, LockSession, LockFile, Assemble,
                      AssembleFail, CommitFinal, RemoveChunks, MarkLoadSession,
                      MarkLoadFile, MarkFlushFile, MarkCommit, TaskError, WorkerCrash,
                      StoreWhole, RollbackAndMark, Step, Sleep

-------------------------------------------------------------------------------
(***************************************************************************)
(* Shape                                                                   *)
(***************************************************************************)

LEMMA RequestShape ==
  ASSUME TypeOK, ShapeInv, NEW r \in Reqs, Request(r), UNCHANGED wk
  PROVE  ShapeInv'
  <1>0. req \in [Reqs -> ReqRow] /\ None \notin Uploads
    BY NoneAssumption DEF TypeOK, ReqTypeOK
  <1>1. req' = [req EXCEPT ![r] = req'[r]]
    BY RequestLocal DEF TypeOK
  <1>2. SUFFICES ReqShape(r)'
    BY <1>0, <1>1 DEF ShapeInv, ReqShape, WorkerShape
  <1>3. ASSUME NEW u \in Uploads, NEW i \in Index, NEW c \in Payloads, ChunkBegin(r, u, i, c)
        PROVE  ReqShape(r)'
    BY <1>0, <1>3 DEF ChunkBegin, ReqShape, Idle
  <1>4. ASSUME NEW u \in Uploads, NEW op \in {"chunk", "complete"}, FindExpired(r, u, op)
        PROVE  ReqShape(r)'
    BY <1>0, <1>4 DEF FindExpired, ReqShape, Idle
  <1>5. ASSUME NEW u \in Uploads, CompleteBegin(r, u) PROVE ReqShape(r)'
    BY <1>0, <1>5 DEF CompleteBegin, ReqShape, Idle
  <1>6. ASSUME NEW u \in Uploads, RetryBegin(r, u) PROVE ReqShape(r)'
    BY <1>0, <1>6 DEF RetryBegin, ReqShape, Idle
  <1>7. ASSUME NEW u \in Uploads, SoftDelete(r, u) PROVE ReqShape(r)'
    BY <1>0, <1>7 DEF SoftDelete, ReqShape, Idle
  <1> QED BY <1>3, <1>4, <1>5, <1>6, <1>7 DEF Request

\* A handler that ends, or goes on to a new transaction.
LEMMA FinishShape == ASSUME ReqTypeOK, NEW r \in Reqs, Finish(r) PROVE ReqShape(r)'
  BY DEF ReqTypeOK, Finish, ReqShape, Idle

LEMMA EnterShape ==
  ASSUME ReqTypeOK, NEW r \in Reqs, ReqShape(r), ~At(r, "idle"),
         NEW pc \in {"expire", "publish", "cleanup"}, NEW op, Enter(r, pc, op)
  PROVE  ReqShape(r)'
  BY DEF ReqTypeOK, Enter, ReqShape, Idle, At

LEMMA HandleShape ==
  ASSUME TypeOK, ShapeInv, NEW r \in Reqs, Handle(r) \/ Abort(r), UNCHANGED wk
  PROVE  ShapeInv'
  <1>0. req \in [Reqs -> ReqRow] /\ ReqShape(r) /\ ReqTypeOK
    BY DEF TypeOK, ReqTypeOK, ShapeInv
  <1>a. req' = [req EXCEPT ![r] = req'[r]]
    BY RequestLocal DEF TypeOK
  <1>b. SUFFICES ReqShape(r)'
    BY <1>0, <1>a DEF ShapeInv, ReqShape, WorkerShape
  <1>1. CASE ChunkStore(r)
    BY <1>0, <1>1 DEF ChunkStore, At, ReqShape
  <1>2. CASE ChunkReject(r)
    BY <1>0, <1>2 DEF ChunkReject, At, ReqShape, Finish, Idle
  <1>3. CASE ChunkCommit(r)
    BY <1>0, <1>3 DEF ChunkCommit, At, ReqShape, Finish, Idle
  <1>4. CASE ExpireCommit(r)
    BY <1>0, <1>4 DEF ExpireCommit, At, ReqShape, Finish, Idle
  <1>5. CASE CompleteCheck(r)
    <2>1. ~At(r, "idle") /\ req[r].op = "complete"
      BY <1>5 DEF CompleteCheck, At
    <2>2. ASSUME req' = [req EXCEPT ![r].pc = "flushF", ![r].fs = file[req[r].u].status]
          PROVE  ReqShape(r)'
      BY <1>0, <2>1, <2>2 DEF ReqShape, At
    <2> QED BY <1>0, <1>5, <2>1, <2>2, EnterShape, FinishShape DEF CompleteCheck
  <1>6. CASE RetryCheck(r)
    <2>1. ~At(r, "idle") /\ req[r].op = "retry"
      BY <1>6 DEF RetryCheck, At
    <2>2. ASSUME req' = [req EXCEPT ![r].pc = "flushF", ![r].ss = sess[req[r].u].status]
          PROVE  ReqShape(r)'
      BY <1>0, <2>1, <2>2 DEF ReqShape, At
    <2> QED BY <1>0, <1>6, <2>2, FinishShape DEF RetryCheck
  <1>7. CASE FlushFile(r)
    BY <1>0, <1>7 DEF FlushFile, At, ReqShape, Goto
  <1>8. CASE FlushCommit(r)
    <2>1. ~At(r, "idle")
      BY <1>8 DEF FlushCommit, At
    <2> QED BY <1>0, <1>8, <2>1, EnterShape, FinishShape DEF FlushCommit
  <1>9. CASE Publish(r)
    BY <1>0, <1>9 DEF Publish, At, ReqShape, Goto
  <1>10. CASE PublishError(r)
    BY <1>0, <1>10 DEF PublishError, At, ReqShape
  <1>11. CASE TagTask(r)
    BY <1>0, <1>11 DEF TagTask, At, ReqShape, Finish, Idle
  <1>12. CASE MarkQueueError(r)
    BY <1>0, <1>12 DEF MarkQueueError, At, ReqShape
  <1>13. CASE QueueCleanup(r)
    BY <1>0, <1>13 DEF QueueCleanup, At, ReqShape, Finish, Idle
  <1>14. CASE Abort(r)
    BY <1>0, <1>14 DEF Abort, At, ReqShape, Finish, Idle
  <1> QED BY <1>1, <1>2, <1>3, <1>4, <1>5, <1>6, <1>7, <1>8, <1>9, <1>10, <1>11, <1>12,
             <1>13, <1>14 DEF Handle

\* A worker that ends, or goes to its error handler.
LEMMA SleepShape == ASSUME WorkerTypeOK, NEW w \in Workers, Sleep(w) PROVE WorkerShape(w)'
  BY DEF WorkerTypeOK, Sleep, WorkerShape, Asleep

LEMMA RollbackShape ==
  ASSUME WorkerTypeOK, NEW w \in Workers, WorkerShape(w), ~Doing(w, "idle"), RollbackAndMark(w)
  PROVE  WorkerShape(w)'
  BY DEF WorkerTypeOK, RollbackAndMark, WorkerShape, Asleep, Doing

LEMMA WorkShape ==
  ASSUME TypeOK, ShapeInv, NEW w \in Workers, Work(w) \/ TaskError(w) \/ WorkerCrash(w), UNCHANGED req
  PROVE  ShapeInv'
  <1>0. wk \in [Workers -> WorkerRow] /\ WorkerTypeOK /\ WorkerShape(w) /\ None \notin Uploads
    BY NoneAssumption DEF TypeOK, WorkerTypeOK, ShapeInv
  <1>a. wk' = [wk EXCEPT ![w] = wk'[w]]
    BY WorkerLocal DEF TypeOK
  <1>b. SUFFICES WorkerShape(w)'
    BY <1>0, <1>a DEF ShapeInv, ReqShape, WorkerShape
  <1>1. CASE LockSession(w)
    BY <1>0, <1>1 DEF LockSession, Doing, WorkerShape, Step
  <1>2. CASE LockFile(w)
    <2>1. ~Doing(w, "idle")
      BY <1>2 DEF LockFile, Doing
    <2>2. ASSUME Step(w, "assemble") PROVE WorkerShape(w)'
      BY <1>0, <2>1, <2>2 DEF Step, Doing, WorkerShape
    <2> QED BY <1>0, <1>2, <2>1, <2>2, SleepShape, RollbackShape DEF LockFile
  <1>3. CASE Assemble(w)
    BY <1>0, <1>3 DEF Assemble, Doing, WorkerShape, StoreWhole
  <1>4. CASE AssembleFail(w)
    BY <1>0, <1>4 DEF AssembleFail, Doing, WorkerShape, RollbackAndMark, Asleep
  <1>5. CASE CommitFinal(w)
    BY <1>0, <1>5 DEF CommitFinal, Doing, WorkerShape
  <1>6. CASE RemoveChunks(w)
    BY <1>0, <1>6 DEF RemoveChunks, Doing, WorkerShape, Sleep, Asleep
  <1>7. CASE MarkLoadSession(w)
    BY <1>0, <1>7 DEF MarkLoadSession, Doing, WorkerShape
  <1>8. CASE MarkLoadFile(w)
    <2>1. ~Doing(w, "idle")
      BY <1>8 DEF MarkLoadFile, Doing
    <2>2. ASSUME wk' = [wk EXCEPT ![w].pc = "flushF", ![w].fs = file[wk[w].u].status]
          PROVE  WorkerShape(w)'
      BY <1>0, <2>1, <2>2 DEF Doing, WorkerShape
    <2> QED BY <1>0, <1>8, <2>2, SleepShape DEF MarkLoadFile
  <1>9. CASE MarkFlushFile(w)
    BY <1>0, <1>9 DEF MarkFlushFile, Doing, WorkerShape, Step
  <1>10. CASE MarkCommit(w)
    BY <1>0, <1>10 DEF MarkCommit, Doing, WorkerShape, Sleep, Asleep
  <1>11. CASE TaskError(w)
    BY <1>0, <1>11 DEF TaskError, Doing, WorkerShape, RollbackAndMark, InTry, Asleep
  <1>12. CASE WorkerCrash(w)
    BY <1>0, <1>12 DEF WorkerCrash, Doing, WorkerShape, Sleep, Asleep
  <1>13. ASSUME NEW u \in Uploads, TakeFinalize(w, u) \/ Cleanup(w, u) PROVE WorkerShape(w)'
    BY <1>0, <1>13 DEF TakeFinalize, Cleanup, Asleep, WorkerShape
  <1> QED BY <1>1, <1>2, <1>3, <1>4, <1>5, <1>6, <1>7, <1>8, <1>9, <1>10, <1>11, <1>12,
             <1>13 DEF Work

LEMMA DeadlockShape ==
  ASSUME TypeOK, ShapeInv, NEW w \in Workers, ResolveDeadlock(w)
  PROVE  ShapeInv'
  <1>0. wk \in [Workers -> WorkerRow] /\ WorkerShape(w) /\ req \in [Reqs -> ReqRow]
    BY DEF TypeOK, WorkerTypeOK, ReqTypeOK, ShapeInv
  <1>1. CASE TaskIsVictim(w)
    BY <1>0, <1>1 DEF TaskIsVictim, Deadlocked, Doing, RollbackAndMark, Asleep, ShapeInv,
                      ReqShape, WorkerShape
  <1>2. CASE HandlerIsVictim(w)
    BY <1>0, <1>2 DEF HandlerIsVictim, Finish, Idle, ShapeInv, ReqShape, WorkerShape
  <1>3. CASE MarkerIsVictim(w)
    BY <1>0, <1>3 DEF MarkerIsVictim, Sleep, Asleep, ShapeInv, ReqShape, WorkerShape
  <1> QED BY <1>1, <1>2, <1>3 DEF ResolveDeadlock

LEMMA InitShape == Init => ShapeInv
  BY DEF Init, ReqInit, WorkerInit, Idle, Asleep, ShapeInv, ReqShape, WorkerShape

-------------------------------------------------------------------------------
LEMMA InitializeType ==
  ASSUME TypeOK, NEW u \in Uploads, NEW p \in InitRequests, InitializeUpload(u, p), UNCHANGED wk
  PROVE  TypeOK'
  <1>0. StoreTypeOK /\ ReqTypeOK' /\ WorkerTypeOK'
    BY DEF TypeOK, ReqTypeOK, WorkerTypeOK, InitializeUpload
  <1>1. p.count \in 0 .. MaxCount /\ p.size \in Nat /\ p.limit \in Nat
    BY InitAssumption, CountAssumption
  <1>2. sess' \in [Uploads -> SessRow]
    BY <1>0, <1>1 DEF InitializeUpload, StoreTypeOK, SessRow, SessStatus
  <1>3. file' \in [Uploads -> FileRow]
    BY <1>0 DEF InitializeUpload, StoreTypeOK, FileRow, FileStatus
  <1>4. StoreTypeOK'
    BY <1>0, <1>2, <1>3 DEF InitializeUpload, StoreTypeOK, lockVars, objVars, queueVars
  <1> QED BY <1>0, <1>4 DEF TypeOK

LEMMA TimeoutType ==
  ASSUME TypeOK, NEW u \in Uploads, SessionTimeout(u), UNCHANGED <<req, wk>>
  PROVE  TypeOK'
  BY DEF TypeOK, StoreTypeOK, ReqTypeOK, WorkerTypeOK, SessionTimeout, rowVars, lockVars,
         objVars, queueVars

\* TypeOK is not inductive alone: that a working request or worker has an upload
\* is part of ShapeInv.
LEMMA StepType == TypeOK /\ ShapeInv /\ [Next]_vars => TypeOK' /\ ShapeInv'
  <1> SUFFICES ASSUME TypeOK, ShapeInv, [Next]_vars PROVE TypeOK' /\ ShapeInv'
    OBVIOUS
  <1>1. ASSUME NEW u \in Uploads, NEW p \in InitRequests, InitializeUpload(u, p), UNCHANGED wk
        PROVE  TypeOK' /\ ShapeInv'
    BY <1>1, InitializeType DEF InitializeUpload, ShapeInv, ReqShape, WorkerShape
  <1>2. ASSUME NEW u \in Uploads, SessionTimeout(u), UNCHANGED <<req, wk>>
        PROVE  TypeOK' /\ ShapeInv'
    BY <1>2, TimeoutType DEF ShapeInv, ReqShape, WorkerShape
  <1>3. ASSUME NEW r \in Reqs, Request(r) \/ Handle(r) \/ Abort(r), UNCHANGED wk
        PROVE  TypeOK' /\ ShapeInv'
    BY <1>3, RequestType, HandleType, RequestShape, HandleShape
  <1>4. ASSUME NEW w \in Workers, Work(w) \/ TaskError(w) \/ WorkerCrash(w), UNCHANGED req
        PROVE  TypeOK' /\ ShapeInv'
    BY <1>4, WorkType, WorkShape
  <1>5. ASSUME NEW w \in Workers, ResolveDeadlock(w)
        PROVE  TypeOK' /\ ShapeInv'
    BY <1>5, DeadlockType, DeadlockShape
  <1>6. CASE UNCHANGED vars
    BY <1>6 DEF vars, storeVars, rowVars, lockVars, objVars, queueVars, TypeOK, StoreTypeOK,
                ReqTypeOK, WorkerTypeOK, ShapeInv, ReqShape, WorkerShape
  <1> QED BY <1>1, <1>2, <1>3, <1>4, <1>5, <1>6 DEF Next, Expire

\* Type correctness.
THEOREM TypeCorrect == Spec => []TypeOK
  <1>1. Init => TypeOK /\ ShapeInv
    BY InitType, InitShape
  <1>2. TypeOK /\ ShapeInv /\ [Next]_vars => (TypeOK /\ ShapeInv)'
    BY StepType
  <1> QED BY <1>1, <1>2, PTL DEF Spec

(***************************************************************************)
(* Who holds the row locks.                                                *)
(***************************************************************************)
Procs == Reqs \cup Workers

\* p is the only process whose locks may change.
OnlyLocksOf(p) ==
  \A q \in Procs \ {p}, u \in Uploads :
    /\ fileLock'[u] = q <=> fileLock[u] = q
    /\ sessLock'[u] = q <=> sessLock[u] = q

HoldsNone(p) == \A u \in Uploads : fileLock[u] # p /\ sessLock[u] # p

LEMMA ProcsNotNone == None \notin Procs /\ Reqs \cap Workers = {}
  BY NoneAssumption, ProcessAssumption DEF Procs

LEMMA ReleaseLocks ==
  ASSUME NEW p \in Procs, ReleaseAll(p)
  PROVE  OnlyLocksOf(p) /\ HoldsNone(p)'
  BY ProcsNotNone DEF ReleaseAll, OnlyLocksOf, HoldsNone

LEMMA SameLocks ==
  ASSUME NEW p \in Procs, UNCHANGED lockVars
  PROVE  OnlyLocksOf(p) /\ (HoldsNone(p) => HoldsNone(p)')
  BY DEF lockVars, OnlyLocksOf, HoldsNone

LEMMA TakeFileLock ==
  ASSUME StoreTypeOK, NEW p \in Procs, NEW u \in Uploads, FileFree(u),
         fileLock' = [fileLock EXCEPT ![u] = p], sessLock' = sessLock
  PROVE  /\ OnlyLocksOf(p) /\ fileLock'[u] = p
         /\ \A v \in Uploads \ {u} : fileLock'[v] = fileLock[v]
  BY ProcsNotNone DEF StoreTypeOK, FileFree, OnlyLocksOf

LEMMA TakeSessLock ==
  ASSUME StoreTypeOK, NEW p \in Procs, NEW u \in Uploads, SessFree(u),
         sessLock' = [sessLock EXCEPT ![u] = p], fileLock' = fileLock
  PROVE  /\ OnlyLocksOf(p) /\ sessLock'[u] = p
         /\ \A v \in Uploads \ {u} : sessLock'[v] = sessLock[v]
  BY ProcsNotNone DEF StoreTypeOK, SessFree, OnlyLocksOf

\* A process that does nothing keeps its part of the invariant.
LEMMA RestingReq ==
  ASSUME TypeOK, ShapeInv, NEW r \in Reqs, ReqLocks(r), req'[r] = req[r],
         NEW p \in Procs, p # r, OnlyLocksOf(p)
  PROVE  ReqLocks(r)'
  <1>1. r \in Procs \ {p}
    BY DEF Procs
  <1>2. req[r].pc = "flushS" => req[r].u \in Uploads
    BY ReqRowType DEF TypeOK, ShapeInv, ReqShape
  <1> QED BY <1>1, <1>2 DEF OnlyLocksOf, ReqLocks, WritesFile

LEMMA RestingWorker ==
  ASSUME TypeOK, ShapeInv, NEW w \in Workers, WorkerLocks(w), wk'[w] = wk[w],
         NEW p \in Procs, p # w, OnlyLocksOf(p)
  PROVE  WorkerLocks(w)'
  <1>1. w \in Procs \ {p}
    BY DEF Procs
  <1>2. wk[w].pc # "idle" => wk[w].u \in Uploads
    BY WorkerRowType DEF TypeOK, ShapeInv, WorkerShape
  <1> QED BY <1>1, <1>2 DEF OnlyLocksOf, WorkerLocks

\* A step of a handler that starts and ends outside flushS, where it holds nothing.
LEMMA HandlerWithoutLock ==
  ASSUME NEW r \in Reqs, ReqLocks(r), req[r].pc # "flushS", req'[r].pc # "flushS",
         UNCHANGED lockVars
  PROVE  ReqLocks(r)' /\ OnlyLocksOf(r)
  <1>1. r \in Procs
    BY DEF Procs
  <1> QED BY <1>1, SameLocks DEF ReqLocks, lockVars

LEMMA HandlerReleases ==
  ASSUME NEW r \in Reqs, ReleaseAll(r), req'[r].pc # "flushS"
  PROVE  ReqLocks(r)' /\ OnlyLocksOf(r)
  <1>1. r \in Procs
    BY DEF Procs
  <1> QED BY <1>1, ReleaseLocks DEF ReqLocks, HoldsNone

LEMMA WorkerReleases ==
  ASSUME NEW w \in Workers, ReleaseAll(w), wk'[w].pc \notin {"assemble", "commit", "flushS"}
  PROVE  WorkerLocks(w)' /\ OnlyLocksOf(w)
  <1>1. w \in Procs
    BY DEF Procs
  <1> QED BY <1>1, ReleaseLocks DEF WorkerLocks, HoldsNone

\* Where a worker ends up when it gives up.
LEMMA GivesUp ==
  ASSUME WorkerTypeOK, NEW w \in Workers, Sleep(w) \/ RollbackAndMark(w)
  PROVE  wk'[w].pc \in {"idle", "markS"}
  BY SleepIs, RollbackIs DEF Asleep

LEMMA OthersRest ==
  ASSUME TypeOK, ShapeInv, LockInv
  PROVE  /\ \A r \in Reqs : /\ req' = [req EXCEPT ![r] = req'[r]] /\ wk' = wk
                           /\ ReqLocks(r)' /\ OnlyLocksOf(r) => LockInv'
         /\ \A w \in Workers : /\ wk' = [wk EXCEPT ![w] = wk'[w]] /\ req' = req
                              /\ WorkerLocks(w)' /\ OnlyLocksOf(w) => LockInv'
  <1>0. req \in [Reqs -> ReqRow] /\ wk \in [Workers -> WorkerRow]
    BY DEF TypeOK, ReqTypeOK, WorkerTypeOK
  <1>1. ASSUME NEW r \in Reqs, req' = [req EXCEPT ![r] = req'[r]], wk' = wk,
               ReqLocks(r)', OnlyLocksOf(r)
        PROVE  LockInv'
    <2>1. r \in Procs /\ r \notin Workers
      BY ProcsNotNone DEF Procs
    <2>2. ASSUME NEW q \in Reqs, q # r PROVE ReqLocks(q)'
      <3>1. req'[q] = req[q] /\ ReqLocks(q)
        BY <1>0, <1>1, <2>2 DEF LockInv
      <3> QED BY <1>1, <2>1, <2>2, <3>1, RestingReq
    <2>3. ASSUME NEW w \in Workers PROVE WorkerLocks(w)'
      <3>1. wk'[w] = wk[w] /\ WorkerLocks(w) /\ r # w
        BY <1>1, <2>1 DEF LockInv
      <3> QED BY <1>1, <2>1, <3>1, RestingWorker
    <2> QED BY <1>1, <2>2, <2>3 DEF LockInv
  <1>2. ASSUME NEW w \in Workers, wk' = [wk EXCEPT ![w] = wk'[w]], req' = req,
               WorkerLocks(w)', OnlyLocksOf(w)
        PROVE  LockInv'
    <2>1. w \in Procs /\ w \notin Reqs
      BY ProcsNotNone DEF Procs
    <2>2. ASSUME NEW v \in Workers, v # w PROVE WorkerLocks(v)'
      <3>1. wk'[v] = wk[v] /\ WorkerLocks(v)
        BY <1>0, <1>2, <2>2 DEF LockInv
      <3> QED BY <1>2, <2>1, <2>2, <3>1, RestingWorker
    <2>3. ASSUME NEW r \in Reqs PROVE ReqLocks(r)'
      <3>1. req'[r] = req[r] /\ ReqLocks(r) /\ w # r
        BY <1>2, <2>1 DEF LockInv
      <3> QED BY <1>2, <2>1, <3>1, RestingReq
    <2> QED BY <1>2, <2>2, <2>3 DEF LockInv
  <1> QED BY <1>1, <1>2

LEMMA SameKeepsLocks ==
  ASSUME LockInv, UNCHANGED <<lockVars, req, wk>>
  PROVE  LockInv'
  BY DEF LockInv, ReqLocks, WorkerLocks, WritesFile, lockVars

-------------------------------------------------------------------------------
LEMMA RequestLocks ==
  ASSUME TypeOK, ShapeInv, LockInv, NEW r \in Reqs, Request(r)
  PROVE  ReqLocks(r)' /\ OnlyLocksOf(r)
  <1>0. StoreTypeOK /\ req \in [Reqs -> ReqRow] /\ ReqLocks(r)
    BY DEF TypeOK, ReqTypeOK, LockInv
  <1>1. ASSUME NEW u \in Uploads, NEW i \in Index, NEW c \in Payloads, ChunkBegin(r, u, i, c)
        PROVE  ReqLocks(r)' /\ OnlyLocksOf(r)
    BY <1>0, <1>1, HandlerWithoutLock DEF ChunkBegin, At, Idle, storeVars
  <1>2. ASSUME NEW u \in Uploads, NEW op \in {"chunk", "complete"}, FindExpired(r, u, op)
        PROVE  ReqLocks(r)' /\ OnlyLocksOf(r)
    BY <1>0, <1>2, HandlerWithoutLock DEF FindExpired, At, Idle, storeVars
  <1>3. ASSUME NEW u \in Uploads, CompleteBegin(r, u) PROVE ReqLocks(r)' /\ OnlyLocksOf(r)
    BY <1>0, <1>3, HandlerWithoutLock DEF CompleteBegin, At, Idle, storeVars
  <1>4. ASSUME NEW u \in Uploads, RetryBegin(r, u) PROVE ReqLocks(r)' /\ OnlyLocksOf(r)
    BY <1>0, <1>4, HandlerWithoutLock DEF RetryBegin, At, Idle, storeVars
  <1>5. ASSUME NEW u \in Uploads, SoftDelete(r, u) PROVE ReqLocks(r)' /\ OnlyLocksOf(r)
    <2>1. req'[r].pc = "flushS" /\ req'[r].u = u
      BY <1>0, <1>5 DEF SoftDelete, Idle
    <2>2. \A v \in Uploads : fileLock[v] # r
      BY <1>0, <1>5 DEF SoftDelete, At, ReqLocks
    <2>3. /\ OnlyLocksOf(r) /\ fileLock'[u] = r
          /\ \A v \in Uploads \ {u} : fileLock'[v] = fileLock[v]
      BY <1>0, <1>5, TakeFileLock DEF SoftDelete, Procs
    <2> QED BY <2>1, <2>2, <2>3 DEF ReqLocks
  <1> QED BY <1>1, <1>2, <1>3, <1>4, <1>5 DEF Request

LEMMA HandleLocks ==
  ASSUME TypeOK, ShapeInv, LockInv, NEW r \in Reqs, Handle(r) \/ Abort(r)
  PROVE  ReqLocks(r)' /\ OnlyLocksOf(r)
  <1>0. /\ StoreTypeOK /\ ReqTypeOK /\ req \in [Reqs -> ReqRow]
        /\ ReqLocks(r) /\ r \in Procs
    BY DEF TypeOK, ReqTypeOK, LockInv, Procs
  <1>u. req[r].pc # "idle" => req[r].u \in Uploads
    BY ReqRowType DEF TypeOK, ShapeInv, ReqShape
  <1>1. CASE ChunkStore(r)
    <2>1. req[r].pc # "flushS" /\ req'[r].pc # "flushS" /\ UNCHANGED lockVars
      BY <1>0, <1>1 DEF ChunkStore, At
    <2> QED BY <1>0, <2>1, HandlerWithoutLock
  <1>2. CASE ChunkReject(r)
    <2>1. req[r].pc # "flushS" /\ req'[r].pc # "flushS" /\ UNCHANGED lockVars
      BY <1>0, <1>2 DEF ChunkReject, At, Finish, Idle, storeVars
    <2> QED BY <1>0, <2>1, HandlerWithoutLock
  <1>3. CASE ChunkCommit(r)
    <2>1. req[r].pc # "flushS" /\ req'[r].pc # "flushS" /\ UNCHANGED lockVars
      BY <1>0, <1>3 DEF ChunkCommit, At, Finish, Idle
    <2> QED BY <1>0, <2>1, HandlerWithoutLock
  <1>4. CASE ExpireCommit(r)
    <2>1. req[r].pc # "flushS" /\ req'[r].pc # "flushS" /\ UNCHANGED lockVars
      BY <1>0, <1>4 DEF ExpireCommit, At, Finish, Idle
    <2> QED BY <1>0, <2>1, HandlerWithoutLock
  <1>5. CASE CompleteCheck(r)
    <2>1. req[r].pc # "flushS" /\ req'[r].pc # "flushS" /\ UNCHANGED lockVars
      <3>1. req[r].pc = "loaded" /\ UNCHANGED lockVars
        BY <1>5 DEF CompleteCheck, At, storeVars
      <3>2. ASSUME req' = [req EXCEPT ![r].pc = "flushF", ![r].fs = file[req[r].u].status]
            PROVE  req'[r].pc = "flushF"
        BY <1>0, <3>2
      <3> QED BY <1>0, <1>5, <3>1, <3>2, FinishIs, EnterIs DEF CompleteCheck, Idle
    <2> QED BY <1>0, <2>1, HandlerWithoutLock
  <1>6. CASE RetryCheck(r)
    <2>1. req[r].pc # "flushS" /\ req'[r].pc # "flushS" /\ UNCHANGED lockVars
      <3>1. req[r].pc = "loaded" /\ UNCHANGED lockVars
        BY <1>6 DEF RetryCheck, At, storeVars
      <3>2. ASSUME req' = [req EXCEPT ![r].pc = "flushF", ![r].ss = sess[req[r].u].status]
            PROVE  req'[r].pc = "flushF"
        BY <1>0, <3>2
      <3> QED BY <1>0, <1>6, <3>1, <3>2, FinishIs DEF RetryCheck, Idle
    <2> QED BY <1>0, <2>1, HandlerWithoutLock
  <1>7. CASE FlushFile(r)
    <2>1. req'[r] = [req[r] EXCEPT !.pc = "flushS"] /\ req[r].u \in Uploads
      BY <1>0, <1>u, <1>7 DEF FlushFile, Goto, At
    <2>2. \A v \in Uploads : fileLock[v] # r
      BY <1>0, <1>7 DEF FlushFile, At, ReqLocks
    <2>3. req[r].op # "delete"
      BY <1>7 DEF FlushFile, At, ShapeInv, ReqShape
    <2>4. CASE FileFree(req[r].u) /\ fileLock' = [fileLock EXCEPT ![req[r].u] = r]
      <3>1. /\ OnlyLocksOf(r) /\ fileLock'[req[r].u] = r
            /\ \A v \in Uploads \ {req[r].u} : fileLock'[v] = fileLock[v]
        BY <1>0, <1>7, <2>1, <2>4, TakeFileLock DEF FlushFile
      <3> QED BY <1>0, <2>1, <2>2, <3>1 DEF ReqLocks
    <2>5. CASE ~WritesFile(r) /\ fileLock' = fileLock
      <3>1. UNCHANGED lockVars
        BY <1>7, <2>5 DEF FlushFile, lockVars
      <3>2. ~WritesFile(r)'
        BY <1>0, <2>1, <2>5 DEF WritesFile
      <3> QED BY <1>0, <2>1, <2>2, <2>3, <3>1, <3>2, SameLocks DEF ReqLocks, lockVars
    <2> QED BY <1>7, <2>4, <2>5 DEF FlushFile
  <1>8. CASE FlushCommit(r)
    <2>1. req'[r].pc # "flushS"
      BY <1>0, <1>8, FinishIs, EnterIs DEF FlushCommit, Idle
    <2> QED BY <1>8, <2>1, HandlerReleases DEF FlushCommit
  <1>9. CASE Publish(r)
    <2>1. req[r].pc # "flushS" /\ req'[r].pc # "flushS" /\ UNCHANGED lockVars
      BY <1>0, <1>9 DEF Publish, At, Goto
    <2> QED BY <1>0, <2>1, HandlerWithoutLock
  <1>10. CASE PublishError(r)
    <2>1. req[r].pc # "flushS" /\ req'[r].pc # "flushS" /\ UNCHANGED lockVars
      BY <1>0, <1>10 DEF PublishError, At
    <2> QED BY <1>0, <2>1, HandlerWithoutLock
  <1>11. CASE TagTask(r)
    <2>1. req[r].pc # "flushS" /\ req'[r].pc # "flushS" /\ UNCHANGED lockVars
      BY <1>0, <1>11 DEF TagTask, At, Finish, Idle, storeVars
    <2> QED BY <1>0, <2>1, HandlerWithoutLock
  <1>12. CASE MarkQueueError(r)
    <2>1. req[r].pc # "flushS" /\ req'[r].pc # "flushS" /\ UNCHANGED lockVars
      BY <1>0, <1>12 DEF MarkQueueError, At, storeVars
    <2> QED BY <1>0, <2>1, HandlerWithoutLock
  <1>13. CASE QueueCleanup(r)
    <2>1. req[r].pc # "flushS" /\ req'[r].pc # "flushS" /\ UNCHANGED lockVars
      BY <1>0, <1>13 DEF QueueCleanup, At, Finish, Idle
    <2> QED BY <1>0, <2>1, HandlerWithoutLock
  <1>14. CASE Abort(r)
    <2>1. req'[r].pc # "flushS"
      BY <1>0, <1>14 DEF Abort, Finish, Idle
    <2> QED BY <1>14, <2>1, HandlerReleases DEF Abort
  <1> QED BY <1>1, <1>2, <1>3, <1>4, <1>5, <1>6, <1>7, <1>8, <1>9, <1>10, <1>11, <1>12,
             <1>13, <1>14 DEF Handle

LEMMA WorkLocks ==
  ASSUME TypeOK, ShapeInv, LockInv, NEW w \in Workers, Work(w) \/ TaskError(w) \/ WorkerCrash(w)
  PROVE  WorkerLocks(w)' /\ OnlyLocksOf(w)
  <1>0. StoreTypeOK /\ WorkerTypeOK /\ wk \in [Workers -> WorkerRow] /\ WorkerLocks(w) /\ w \in Procs
    BY DEF TypeOK, WorkerTypeOK, LockInv, Procs
  <1>u. wk[w].pc # "idle" => wk[w].u \in Uploads
    BY WorkerRowType DEF TypeOK, ShapeInv, WorkerShape
  <1>1. CASE LockSession(w)
    <2>1. wk'[w] = [wk[w] EXCEPT !.pc = "lockF"] /\ wk[w].pc = "lockS" /\ wk[w].u \in Uploads
      BY <1>0, <1>u, <1>1 DEF LockSession, Step, Doing
    <2>2. HoldsNone(w)
      BY <1>0, <2>1 DEF HoldsNone, WorkerLocks
    <2>3. /\ OnlyLocksOf(w) /\ sessLock'[wk[w].u] = w /\ fileLock' = fileLock
          /\ \A v \in Uploads \ {wk[w].u} : sessLock'[v] = sessLock[v]
      BY <1>0, <1>1, <2>1, TakeSessLock DEF LockSession
    <2> QED BY <1>0, <2>1, <2>2, <2>3 DEF WorkerLocks, HoldsNone
  <1>2. CASE LockFile(w)
    <2>1. CASE ReleaseAll(w) /\ (Sleep(w) \/ RollbackAndMark(w))
      BY <1>0, <2>1, GivesUp, WorkerReleases
    <2>2. CASE /\ fileLock' = [fileLock EXCEPT ![wk[w].u] = w] /\ sessLock' = sessLock
               /\ Step(w, "assemble")
      <3>1. /\ wk'[w] = [wk[w] EXCEPT !.pc = "assemble"] /\ wk[w].pc = "lockF"
            /\ wk[w].u \in Uploads
        BY <1>0, <1>u, <1>2, <2>2 DEF LockFile, Step, Doing
      <3>2. /\ OnlyLocksOf(w) /\ fileLock'[wk[w].u] = w
            /\ \A v \in Uploads \ {wk[w].u} : fileLock'[v] = fileLock[v]
        BY <1>0, <1>2, <2>2, <3>1, TakeFileLock DEF LockFile
      <3> QED BY <1>0, <2>2, <3>1, <3>2 DEF WorkerLocks
    <2> QED BY <1>2, <2>1, <2>2 DEF LockFile, RollbackAndMark
  <1>3. CASE Assemble(w)
    <2>1. /\ wk'[w].pc = "commit" /\ wk'[w].u = wk[w].u /\ wk[w].pc = "assemble"
          /\ UNCHANGED lockVars
      BY <1>0, <1>3 DEF Assemble, StoreWhole, Doing
    <2> QED BY <1>0, <2>1, SameLocks DEF WorkerLocks, lockVars
  <1>4. CASE AssembleFail(w)
    BY <1>0, <1>4, GivesUp, WorkerReleases DEF AssembleFail, RollbackAndMark
  <1>5. CASE CommitFinal(w)
    <2>1. wk'[w].pc = "remove"
      BY <1>0, <1>5 DEF CommitFinal
    <2> QED BY <1>5, <2>1, WorkerReleases DEF CommitFinal
  <1>6. CASE RemoveChunks(w)
    <2>1. /\ wk[w].pc \notin {"lockF", "assemble", "commit", "flushS"}
          /\ wk'[w].pc \notin {"assemble", "commit", "flushS"} /\ UNCHANGED lockVars
      BY <1>0, <1>6 DEF RemoveChunks, Doing, Sleep, Asleep
    <2> QED BY <1>0, <2>1, SameLocks DEF WorkerLocks, lockVars
  <1>7. CASE MarkLoadSession(w)
    <2>1. /\ wk[w].pc \notin {"lockF", "assemble", "commit", "flushS"}
          /\ wk'[w].pc \notin {"assemble", "commit", "flushS"} /\ UNCHANGED lockVars
      BY <1>0, <1>7 DEF MarkLoadSession, Doing, storeVars
    <2> QED BY <1>0, <2>1, SameLocks DEF WorkerLocks, lockVars
  <1>8. CASE MarkLoadFile(w)
    <2>1. /\ wk[w].pc \notin {"lockF", "assemble", "commit", "flushS"}
          /\ wk'[w].pc \notin {"assemble", "commit", "flushS"} /\ UNCHANGED lockVars
      <3>1. wk[w].pc = "markF" /\ UNCHANGED lockVars
        BY <1>8 DEF MarkLoadFile, Doing, storeVars
      <3>2. ASSUME wk' = [wk EXCEPT ![w].pc = "flushF", ![w].fs = file[wk[w].u].status]
            PROVE  wk'[w].pc = "flushF"
        BY <1>0, <3>2
      <3> QED BY <1>0, <1>8, <3>1, <3>2, SleepIs DEF MarkLoadFile, Asleep
    <2> QED BY <1>0, <2>1, SameLocks DEF WorkerLocks, lockVars
  <1>9. CASE MarkFlushFile(w)
    <2>1. wk'[w] = [wk[w] EXCEPT !.pc = "flushS"] /\ wk[w].pc = "flushF" /\ wk[w].u \in Uploads
      BY <1>0, <1>u, <1>9 DEF MarkFlushFile, Step, Doing
    <2>2. HoldsNone(w)
      BY <1>0, <2>1 DEF HoldsNone, WorkerLocks
    <2>3. /\ OnlyLocksOf(w) /\ fileLock'[wk[w].u] = w /\ sessLock' = sessLock
          /\ \A v \in Uploads \ {wk[w].u} : fileLock'[v] = fileLock[v]
      BY <1>0, <1>9, <2>1, TakeFileLock DEF MarkFlushFile
    <2> QED BY <1>0, <2>1, <2>2, <2>3 DEF WorkerLocks, HoldsNone
  <1>10. CASE MarkCommit(w)
    BY <1>0, <1>10, GivesUp, WorkerReleases DEF MarkCommit
  <1>11. CASE TaskError(w)
    BY <1>0, <1>11, GivesUp, WorkerReleases DEF TaskError, RollbackAndMark
  <1>12. CASE WorkerCrash(w)
    BY <1>0, <1>12, GivesUp, WorkerReleases DEF WorkerCrash
  <1>13. ASSUME NEW u \in Uploads, TakeFinalize(w, u) \/ Cleanup(w, u)
         PROVE  WorkerLocks(w)' /\ OnlyLocksOf(w)
    <2>1. wk[w].pc = "idle" /\ wk'[w].pc \in {"idle", "lockS"} /\ UNCHANGED lockVars
      BY <1>0, <1>13 DEF TakeFinalize, Cleanup, Doing, Asleep
    <2> QED BY <1>0, <2>1, SameLocks DEF WorkerLocks, lockVars
  <1> QED BY <1>1, <1>2, <1>3, <1>4, <1>5, <1>6, <1>7, <1>8, <1>9, <1>10, <1>11, <1>12,
             <1>13 DEF Work

\* The victim of a deadlock releases what it holds.
LEMMA DeadlockLocks ==
  ASSUME TypeOK, ShapeInv, LockInv, NEW w \in Workers, ResolveDeadlock(w)
  PROVE  LockInv'
  <1>0. WorkerTypeOK /\ wk \in [Workers -> WorkerRow] /\ req \in [Reqs -> ReqRow]
    BY DEF TypeOK, WorkerTypeOK, ReqTypeOK
  <1>1. CASE TaskIsVictim(w)
    <2>1. /\ wk' = [wk EXCEPT ![w] = wk'[w]] /\ req' = req
          /\ WorkerLocks(w)' /\ OnlyLocksOf(w)
      BY <1>0, <1>1, GivesUp, WorkerReleases DEF TaskIsVictim, RollbackAndMark
    <2> QED BY <1>0, <2>1, OthersRest
  <1>2. CASE HandlerIsVictim(w)
    <2>1. PICK r \in Reqs : ReleaseAll(r) /\ Finish(r)
      BY <1>2 DEF HandlerIsVictim
    <2>2. /\ req' = [req EXCEPT ![r] = req'[r]] /\ wk' = wk
          /\ ReqLocks(r)' /\ OnlyLocksOf(r)
      BY <1>0, <1>2, <2>1, HandlerReleases DEF HandlerIsVictim, Finish, Idle
    <2> QED BY <1>0, <2>2, OthersRest
  <1>3. CASE MarkerIsVictim(w)
    <2>1. PICK v \in Workers : ReleaseAll(v) /\ Sleep(v)
      BY <1>3 DEF MarkerIsVictim
    <2>2. /\ wk' = [wk EXCEPT ![v] = wk'[v]] /\ req' = req
          /\ WorkerLocks(v)' /\ OnlyLocksOf(v)
      BY <1>0, <1>3, <2>1, GivesUp, WorkerReleases DEF MarkerIsVictim, Sleep
    <2> QED BY <1>0, <2>2, OthersRest
  <1> QED BY <1>1, <1>2, <1>3 DEF ResolveDeadlock

LEMMA InitLocks == Init => LockInv
  BY ProcsNotNone DEF Init, StoreInit, ReqInit, WorkerInit, Idle, Asleep, LockInv, ReqLocks,
                      WorkerLocks, Procs

LEMMA StepLocks == TypeOK /\ ShapeInv /\ LockInv /\ [Next]_vars => LockInv'
  <1> SUFFICES ASSUME TypeOK, ShapeInv, LockInv, [Next]_vars PROVE LockInv'
    OBVIOUS
  <1>1. ASSUME NEW u \in Uploads, NEW p \in InitRequests, InitializeUpload(u, p), UNCHANGED wk
        PROVE  LockInv'
    BY <1>1, SameKeepsLocks DEF InitializeUpload
  <1>2. ASSUME NEW u \in Uploads, SessionTimeout(u), UNCHANGED <<req, wk>> PROVE LockInv'
    BY <1>2, SameKeepsLocks DEF SessionTimeout
  <1>3. ASSUME NEW r \in Reqs, Request(r) \/ Handle(r) \/ Abort(r), UNCHANGED wk
        PROVE  LockInv'
    BY <1>3, RequestLocks, HandleLocks, RequestLocal, OthersRest DEF TypeOK
  <1>4. ASSUME NEW w \in Workers, Work(w) \/ TaskError(w) \/ WorkerCrash(w), UNCHANGED req
        PROVE  LockInv'
    BY <1>4, WorkLocks, WorkerLocal, OthersRest DEF TypeOK
  <1>5. ASSUME NEW w \in Workers, ResolveDeadlock(w) PROVE LockInv'
    BY <1>5, DeadlockLocks
  <1>6. CASE UNCHANGED vars
    BY <1>6, SameKeepsLocks DEF vars, storeVars
  <1> QED BY <1>1, <1>2, <1>3, <1>4, <1>5, <1>6 DEF Next, Expire

\* A row lock never outlives its transaction, and PostgreSQL never has to wait
\* for a process that is not going to commit.
THEOREM LocksAreOwned == Spec => []LocksHaveOwners
  <1>1. Init => TypeOK /\ ShapeInv /\ LockInv
    BY InitType, InitShape, InitLocks
  <1>2. TypeOK /\ ShapeInv /\ LockInv /\ [Next]_vars => (TypeOK /\ ShapeInv /\ LockInv)'
    BY StepType, StepLocks
  <1>3. LockInv => LocksHaveOwners
    BY DEF LockInv, ReqLocks, WorkerLocks, LocksHaveOwners, At
  <1> QED BY <1>1, <1>2, <1>3, PTL DEF Spec

(***************************************************************************)
(* Deletion against finalization: whoever writes a File row holds its      *)
(* lock, so what was read under the lock still holds at the commit.        *)
(***************************************************************************)
\* Files change only under the lock of p, and a deleted file stays deleted.
OnlyFilesOf(p) ==
  \A u \in Uploads :
    /\ file'[u] # file[u] => fileLock[u] = p
    /\ file[u].deleted => file'[u].deleted

LEMMA FlushWrites ==
  ASSUME TypeOK, ShapeInv, LockInv, NEW r \in Reqs, FlushCommit(r)
  PROVE  OnlyFilesOf(r)
  <1>1. req[r].u \in Uploads /\ req[r].pc = "flushS" /\ ReqLocks(r)
    BY ReqRowType DEF TypeOK, ShapeInv, ReqShape, FlushCommit, At, LockInv
  <1>2. file \in [Uploads -> FileRow]
    BY DEF TypeOK, StoreTypeOK
  <1>3. \A u \in Uploads : file[u].deleted => file'[u].deleted
    BY <1>1, <1>2 DEF FlushCommit, FileRow
  <1>4. CASE fileLock[req[r].u] = r
    <2>1. \A u \in Uploads : u # req[r].u => file'[u] = file[u]
      BY <1>1, <1>2 DEF FlushCommit
    <2> QED BY <1>3, <1>4, <2>1 DEF OnlyFilesOf
  <1>5. CASE fileLock[req[r].u] # r
    <2>0. ~WritesFile(r) /\ req[r].op # "delete"
      BY <1>1, <1>5 DEF ReqLocks
    <2>1. \A u \in Uploads : file'[u] = file[u]
      BY <1>1, <1>2, <1>5, <2>0 DEF FlushCommit, WritesFile, FileRow
    <2> QED BY <1>3, <2>1 DEF OnlyFilesOf
  <1> QED BY <1>4, <1>5

LEMMA RequestFiles == ASSUME NEW r \in Reqs, Request(r) PROVE UNCHANGED <<file, cleanq>>
  BY DEF Request, ChunkBegin, FindExpired, CompleteBegin, RetryBegin, SoftDelete, storeVars,
         rowVars, queueVars

LEMMA HandleFiles ==
  ASSUME TypeOK, ShapeInv, LockInv, NEW r \in Reqs, Handle(r) \/ Abort(r)
  PROVE  OnlyFilesOf(r)
  <1>1. CASE FlushCommit(r)
    BY <1>1, FlushWrites
  <1>2. CASE ~FlushCommit(r)
    <2>1. file' = file
      BY <1>2 DEF Handle, ChunkStore, ChunkReject, ChunkCommit, ExpireCommit, CompleteCheck,
                  RetryCheck, FlushFile, Publish, PublishError, TagTask, MarkQueueError,
                  QueueCleanup, Abort, storeVars, rowVars
    <2> QED BY <2>1 DEF OnlyFilesOf
  <1> QED BY <1>1, <1>2

LEMMA WorkFiles ==
  ASSUME TypeOK, ShapeInv, LockInv, NEW w \in Workers, Work(w) \/ TaskError(w) \/ WorkerCrash(w)
  PROVE  OnlyFilesOf(w)
  <1>1. CASE CommitFinal(w) \/ MarkCommit(w)
    <2>1. /\ wk[w].u \in Uploads /\ wk[w].pc \in {"commit", "flushS"}
          /\ WorkerLocks(w) /\ file \in [Uploads -> FileRow]
      BY <1>1, WorkerRowType DEF TypeOK, StoreTypeOK, ShapeInv, WorkerShape, CommitFinal,
                                 MarkCommit, Doing, LockInv
    <2>2. fileLock[wk[w].u] = w
      BY <2>1 DEF WorkerLocks
    <2>3. \A u \in Uploads : (u # wk[w].u => file'[u] = file[u]) /\ file'[u].deleted = file[u].deleted
      <3>1. CASE CommitFinal(w)
        BY <2>1, <3>1 DEF CommitFinal, FileRow
      <3>2. CASE MarkCommit(w)
        BY <2>1, <3>2 DEF MarkCommit, FileRow
      <3> QED BY <1>1, <3>1, <3>2
    <2> QED BY <2>2, <2>3 DEF OnlyFilesOf
  <1>2. CASE ~(CommitFinal(w) \/ MarkCommit(w))
    <2>1. file' = file
      BY <1>2 DEF Work, TakeFinalize, Cleanup, LockSession, LockFile, Assemble,
                  AssembleFail,
                  RemoveChunks, MarkLoadSession, MarkLoadFile, MarkFlushFile, TaskError,
                  WorkerCrash, storeVars, rowVars
    <2> QED BY <2>1 DEF OnlyFilesOf
  <1> QED BY <1>1, <1>2

-------------------------------------------------------------------------------
\* A process that does nothing keeps its part of the invariant, because the one
\* at work does not hold its lock.
LEMMA RestingReqDeletes ==
  ASSUME TypeOK, ShapeInv, LockInv, NEW r \in Reqs, ReqDeletes(r), req'[r] = req[r],
         NEW p, p # r, OnlyFilesOf(p)
  PROVE  ReqDeletes(r)'
  <1>1. req[r].pc # "idle" => req[r].u \in Uploads
    BY ReqRowType DEF TypeOK, ShapeInv, ReqShape
  <1>2. CASE req[r].pc = "cleanup"
    BY <1>1, <1>2 DEF ReqDeletes, OnlyFilesOf
  <1>3. CASE req[r].pc = "flushS" /\ req[r].op = "delete"
    <2>1. fileLock[req[r].u] = r
      BY <1>3 DEF LockInv, ReqLocks
    <2>2. file'[req[r].u] = file[req[r].u]
      BY <1>1, <1>3, <2>1 DEF OnlyFilesOf
    <2> QED BY <1>3, <2>2 DEF ReqDeletes
  <1> QED BY <1>2, <1>3 DEF ReqDeletes

LEMMA RestingWorkerDeletes ==
  ASSUME TypeOK, ShapeInv, LockInv, NEW w \in Workers, WorkerDeletes(w), wk'[w] = wk[w],
         NEW p, p # w, OnlyFilesOf(p)
  PROVE  WorkerDeletes(w)'
  <1>1. wk[w].pc # "idle" => wk[w].u \in Uploads
    BY WorkerRowType DEF TypeOK, ShapeInv, WorkerShape
  <1>2. CASE wk[w].pc \in {"assemble", "commit"}
    <2>1. fileLock[wk[w].u] = w
      BY <1>2 DEF LockInv, WorkerLocks
    <2>2. file'[wk[w].u] = file[wk[w].u]
      BY <1>1, <1>2, <2>1 DEF OnlyFilesOf
    <2> QED BY <1>2, <2>2 DEF WorkerDeletes
  <1> QED BY <1>2 DEF WorkerDeletes

LEMMA OthersKeepDeletes ==
  ASSUME TypeOK, ShapeInv, LockInv, DeleteInv, \A u \in Uploads : UploadDeletes(u)'
  PROVE  /\ \A r \in Reqs : /\ req' = [req EXCEPT ![r] = req'[r]] /\ wk' = wk
                           /\ ReqDeletes(r)' /\ OnlyFilesOf(r) => DeleteInv'
         /\ \A w \in Workers : /\ wk' = [wk EXCEPT ![w] = wk'[w]] /\ req' = req
                              /\ WorkerDeletes(w)' /\ OnlyFilesOf(w) => DeleteInv'
  <1>0. req \in [Reqs -> ReqRow] /\ wk \in [Workers -> WorkerRow]
    BY DEF TypeOK, ReqTypeOK, WorkerTypeOK
  <1>1. ASSUME NEW r \in Reqs, req' = [req EXCEPT ![r] = req'[r]], wk' = wk,
               ReqDeletes(r)', OnlyFilesOf(r)
        PROVE  DeleteInv'
    <2>2. ASSUME NEW q \in Reqs, q # r PROVE ReqDeletes(q)'
      <3>1. req'[q] = req[q] /\ ReqDeletes(q)
        BY <1>0, <1>1, <2>2 DEF DeleteInv
      <3> QED BY <1>1, <2>2, <3>1, RestingReqDeletes
    <2>3. ASSUME NEW w \in Workers PROVE WorkerDeletes(w)'
      <3>1. wk'[w] = wk[w] /\ WorkerDeletes(w) /\ r # w
        BY <1>1, ProcsNotNone DEF DeleteInv
      <3> QED BY <1>1, <3>1, RestingWorkerDeletes
    <2> QED BY <1>1, <2>2, <2>3 DEF DeleteInv
  <1>2. ASSUME NEW w \in Workers, wk' = [wk EXCEPT ![w] = wk'[w]], req' = req,
               WorkerDeletes(w)', OnlyFilesOf(w)
        PROVE  DeleteInv'
    <2>2. ASSUME NEW v \in Workers, v # w PROVE WorkerDeletes(v)'
      <3>1. wk'[v] = wk[v] /\ WorkerDeletes(v)
        BY <1>0, <1>2, <2>2 DEF DeleteInv
      <3> QED BY <1>2, <2>2, <3>1, RestingWorkerDeletes
    <2>3. ASSUME NEW r \in Reqs PROVE ReqDeletes(r)'
      <3>1. req'[r] = req[r] /\ ReqDeletes(r) /\ w # r
        BY <1>2, ProcsNotNone DEF DeleteInv
      <3> QED BY <1>2, <3>1, RestingReqDeletes
    <2> QED BY <1>2, <2>2, <2>3 DEF DeleteInv
  <1> QED BY <1>1, <1>2

-------------------------------------------------------------------------------
LEMMA RequestDeletes ==
  ASSUME TypeOK, DeleteInv, NEW r \in Reqs, Request(r)
  PROVE  ReqDeletes(r)' /\ \A u \in Uploads : UploadDeletes(u)'
  <1>0. req \in [Reqs -> ReqRow]
    BY DEF TypeOK, ReqTypeOK
  <1>1. file' = file /\ cleanq' = cleanq
    BY RequestFiles
  <1>2. \A u \in Uploads : UploadDeletes(u)'
    BY <1>1 DEF DeleteInv, UploadDeletes
  <1>3. ASSUME NEW u \in Uploads, NEW i \in Index, NEW c \in Payloads, ChunkBegin(r, u, i, c)
        PROVE  ReqDeletes(r)'
    BY <1>0, <1>3 DEF ChunkBegin, Idle, ReqDeletes
  <1>4. ASSUME NEW u \in Uploads, NEW op \in {"chunk", "complete"}, FindExpired(r, u, op)
        PROVE  ReqDeletes(r)'
    BY <1>0, <1>4 DEF FindExpired, Idle, ReqDeletes
  <1>5. ASSUME NEW u \in Uploads, CompleteBegin(r, u) PROVE ReqDeletes(r)'
    BY <1>0, <1>5 DEF CompleteBegin, Idle, ReqDeletes
  <1>6. ASSUME NEW u \in Uploads, RetryBegin(r, u) PROVE ReqDeletes(r)'
    BY <1>0, <1>6 DEF RetryBegin, Idle, ReqDeletes
  <1>7. ASSUME NEW u \in Uploads, SoftDelete(r, u) PROVE ReqDeletes(r)'
    BY <1>0, <1>1, <1>7 DEF SoftDelete, Idle, ReqDeletes
  <1> QED BY <1>2, <1>3, <1>4, <1>5, <1>6, <1>7 DEF Request

\* A step after which r is neither deleting nor cleaning up, and which writes no
\* File row and queues no cleanup.
LEMMA PlainHandler ==
  ASSUME DeleteInv, NEW r \in Reqs, UNCHANGED <<file, cleanq>>, req'[r].pc # "cleanup",
         req'[r].pc # "flushS" \/ req'[r].op # "delete"
  PROVE  ReqDeletes(r)' /\ \A u \in Uploads : UploadDeletes(u)'
  BY DEF DeleteInv, UploadDeletes, ReqDeletes

LEMMA HandleDeletes ==
  ASSUME TypeOK, ShapeInv, DeleteInv, NEW r \in Reqs, Handle(r) \/ Abort(r)
  PROVE  ReqDeletes(r)' /\ \A u \in Uploads : UploadDeletes(u)'
  <1>0. ReqTypeOK /\ req \in [Reqs -> ReqRow] /\ file \in [Uploads -> FileRow] /\ ReqDeletes(r)
    BY DEF TypeOK, StoreTypeOK, ReqTypeOK, DeleteInv
  <1>u. req[r].pc # "idle" => req[r].u \in Uploads
    BY ReqRowType DEF TypeOK, ShapeInv, ReqShape
  <1>f. Finish(r) => req'[r].pc = "idle"
    BY <1>0, FinishIs DEF Idle
  <1>1. CASE ChunkStore(r)
    <2>1. req'[r].pc = "stored"
      BY <1>0, <1>1 DEF ChunkStore
    <2> QED BY <1>1, <2>1, PlainHandler DEF ChunkStore, rowVars, queueVars
  <1>2. CASE ChunkReject(r)
    BY <1>f, <1>2, PlainHandler DEF ChunkReject, storeVars, rowVars, queueVars
  <1>3. CASE ChunkCommit(r)
    BY <1>f, <1>3, PlainHandler DEF ChunkCommit, rowVars, queueVars
  <1>4. CASE ExpireCommit(r)
    BY <1>f, <1>4, PlainHandler DEF ExpireCommit, rowVars, queueVars
  <1>5. CASE CompleteCheck(r)
    <2>1. ASSUME req' = [req EXCEPT ![r].pc = "flushF", ![r].fs = file[req[r].u].status]
          PROVE  req'[r].pc = "flushF"
      BY <1>0, <2>1
    <2>2. req'[r].pc \in {"idle", "expire", "flushF"}
      BY <1>0, <1>f, <1>5, <2>1, EnterIs DEF CompleteCheck
    <2> QED BY <1>5, <2>2, PlainHandler DEF CompleteCheck, storeVars, rowVars, queueVars
  <1>6. CASE RetryCheck(r)
    <2>1. ASSUME req' = [req EXCEPT ![r].pc = "flushF", ![r].ss = sess[req[r].u].status]
          PROVE  req'[r].pc = "flushF"
      BY <1>0, <2>1
    <2>2. req'[r].pc \in {"idle", "flushF"}
      BY <1>f, <1>6, <2>1 DEF RetryCheck
    <2> QED BY <1>6, <2>2, PlainHandler DEF RetryCheck, storeVars, rowVars, queueVars
  <1>7. CASE FlushFile(r)
    <2>1. req'[r].pc = "flushS" /\ req'[r].op = req[r].op /\ req[r].op # "delete"
      BY <1>0, <1>7 DEF FlushFile, Goto, At, ShapeInv, ReqShape
    <2> QED BY <1>7, <2>1, PlainHandler DEF FlushFile, rowVars, queueVars
  <1>8. CASE FlushCommit(r)
    <2>1. req[r].u \in Uploads /\ req[r].pc = "flushS" /\ cleanq' = cleanq
      BY <1>u, <1>8 DEF FlushCommit, At, queueVars
    <2>2. CASE req[r].op = "delete"
      <3>1. req'[r].pc = "cleanup" /\ req'[r].u = req[r].u
        BY <1>0, <1>8, <2>2, EnterIs DEF FlushCommit
      <3>2. file'[req[r].u].deleted /\ file'[req[r].u].status = "deleted"
        BY <1>0, <1>8, <2>1, <2>2 DEF FlushCommit, FileTarget, ReqDeletes, FileRow
      <3>3. \A u \in Uploads : u # req[r].u => file'[u] = file[u]
        BY <1>0, <1>8, <2>1 DEF FlushCommit
      <3> QED BY <2>1, <3>1, <3>2, <3>3 DEF ReqDeletes, DeleteInv, UploadDeletes
    <2>3. CASE req[r].op # "delete"
      <3>1. req'[r].pc \in {"idle", "publish"}
        BY <1>0, <1>f, <1>8, <2>3, EnterIs DEF FlushCommit
      <3>2. FileTarget(req[r].op) \in {"processing", "failed"}
        BY <2>3 DEF FileTarget
      <3>3. \A u \in Uploads : /\ file'[u].deleted = file[u].deleted
                               /\ \/ file'[u].status = file[u].status
                                  \/ file'[u].status = FileTarget(req[r].op)
        BY <1>0, <1>8, <2>1, <2>3 DEF FlushCommit, FileRow
      <3> QED BY <2>1, <3>1, <3>2, <3>3 DEF ReqDeletes, DeleteInv, UploadDeletes
    <2> QED BY <2>2, <2>3
  <1>9. CASE Publish(r)
    <2>1. req'[r].pc = "tag"
      BY <1>0, <1>9 DEF Publish, Goto
    <2> QED BY <1>9, <2>1, PlainHandler DEF Publish, rowVars, queueVars
  <1>10. CASE PublishError(r)
    <2>1. req'[r].pc = "failed"
      BY <1>0, <1>10 DEF PublishError
    <2> QED BY <1>10, <2>1, PlainHandler DEF PublishError, rowVars, queueVars
  <1>11. CASE TagTask(r)
    BY <1>f, <1>11, PlainHandler DEF TagTask, storeVars, rowVars, queueVars
  <1>12. CASE MarkQueueError(r)
    <2>1. req'[r].pc = "flushF"
      BY <1>0, <1>12 DEF MarkQueueError
    <2> QED BY <1>12, <2>1, PlainHandler DEF MarkQueueError, storeVars, rowVars, queueVars
  <1>13. CASE QueueCleanup(r)
    <2>1. file' = file /\ req[r].pc = "cleanup" /\ req[r].u \in Uploads
      BY <1>u, <1>13 DEF QueueCleanup, At, rowVars
    <2>2. file[req[r].u].deleted
      BY <1>0, <2>1 DEF ReqDeletes
    <2>3. \A u \in Uploads : u # req[r].u => cleanq'[u] = cleanq[u]
      BY <1>13, <2>1 DEF QueueCleanup, TypeOK, StoreTypeOK
    <2>4. req'[r].pc = "idle"
      BY <1>f, <1>13 DEF QueueCleanup
    <2> QED BY <2>1, <2>2, <2>3, <2>4 DEF ReqDeletes, DeleteInv, UploadDeletes
  <1>14. CASE Abort(r)
    BY <1>f, <1>14, PlainHandler DEF Abort, rowVars, queueVars
  <1> QED BY <1>1, <1>2, <1>3, <1>4, <1>5, <1>6, <1>7, <1>8, <1>9, <1>10, <1>11, <1>12,
             <1>13, <1>14 DEF Handle

LEMMA PlainWorker ==
  ASSUME DeleteInv, NEW w \in Workers, file' = file,
         \A u \in Uploads : cleanq'[u] > 0 => cleanq[u] > 0,
         \/ wk'[w].pc \notin {"assemble", "commit"}
         \/ ~file[wk'[w].u].deleted
  PROVE  WorkerDeletes(w)' /\ \A u \in Uploads : UploadDeletes(u)'
  BY DEF DeleteInv, UploadDeletes, WorkerDeletes

LEMMA WorkDeletes ==
  ASSUME TypeOK, ShapeInv, DeleteInv, NEW w \in Workers,
         Work(w) \/ TaskError(w) \/ WorkerCrash(w)
  PROVE  WorkerDeletes(w)' /\ \A u \in Uploads : UploadDeletes(u)'
  <1>0. /\ WorkerTypeOK /\ wk \in [Workers -> WorkerRow] /\ file \in [Uploads -> FileRow]
        /\ WorkerDeletes(w) /\ cleanq \in [Uploads -> Nat]
    BY DEF TypeOK, StoreTypeOK, WorkerTypeOK, DeleteInv
  <1>u. wk[w].pc # "idle" => wk[w].u \in Uploads
    BY WorkerRowType DEF TypeOK, ShapeInv, WorkerShape
  <1>g. Sleep(w) \/ RollbackAndMark(w) => wk'[w].pc \notin {"assemble", "commit"}
    BY <1>0, GivesUp
  <1>1. CASE LockSession(w)
    <2>1. wk'[w].pc = "lockF"
      BY <1>0, <1>1 DEF LockSession, Step
    <2> QED BY <1>1, <2>1, PlainWorker DEF LockSession, rowVars, queueVars
  <1>2. CASE LockFile(w)
    <2>1. file' = file /\ cleanq' = cleanq
      BY <1>2 DEF LockFile, rowVars, queueVars
    <2>2. ASSUME Step(w, "assemble") PROVE wk'[w].u = wk[w].u
      BY <1>0, <2>2 DEF Step
    <2> QED BY <1>g, <1>2, <2>1, <2>2, PlainWorker DEF LockFile, DeletedFirst
  <1>3. CASE Assemble(w)
    <2>1. wk'[w].u = wk[w].u /\ wk[w].pc = "assemble"
      BY <1>0, <1>3 DEF Assemble, StoreWhole, Doing
    <2> QED BY <1>0, <1>3, <2>1, PlainWorker DEF Assemble, WorkerDeletes, rowVars, queueVars
  <1>4. CASE AssembleFail(w)
    BY <1>g, <1>4, PlainWorker DEF AssembleFail, rowVars, queueVars
  <1>5. CASE CommitFinal(w)
    <2>1. /\ wk[w].u \in Uploads /\ ~file[wk[w].u].deleted /\ wk'[w].pc = "remove"
          /\ cleanq' = cleanq
      BY <1>0, <1>u, <1>5 DEF CommitFinal, Doing, WorkerDeletes, queueVars
    <2>2. \A u \in Uploads : /\ file'[u].deleted = file[u].deleted
                             /\ u # wk[w].u => file'[u].status = file[u].status
      BY <1>0, <1>5, <2>1 DEF CommitFinal, FileRow
    <2> QED BY <2>1, <2>2 DEF WorkerDeletes, DeleteInv, UploadDeletes
  <1>6. CASE RemoveChunks(w)
    BY <1>g, <1>6, PlainWorker DEF RemoveChunks, rowVars, queueVars
  <1>7. CASE MarkLoadSession(w)
    <2>1. wk'[w].pc = "markF"
      BY <1>0, <1>7 DEF MarkLoadSession
    <2> QED BY <1>7, <2>1, PlainWorker DEF MarkLoadSession, storeVars, rowVars, queueVars
  <1>8. CASE MarkLoadFile(w)
    <2>1. ASSUME wk' = [wk EXCEPT ![w].pc = "flushF", ![w].fs = file[wk[w].u].status]
          PROVE  wk'[w].pc = "flushF"
      BY <1>0, <2>1
    <2> QED BY <1>g, <1>8, <2>1, PlainWorker DEF MarkLoadFile, storeVars, rowVars, queueVars
  <1>9. CASE MarkFlushFile(w)
    <2>1. wk'[w].pc = "flushS"
      BY <1>0, <1>9 DEF MarkFlushFile, Step
    <2> QED BY <1>9, <2>1, PlainWorker DEF MarkFlushFile, rowVars, queueVars
  <1>10. CASE MarkCommit(w)
    <2>1. wk[w].u \in Uploads /\ cleanq' = cleanq
      BY <1>u, <1>10 DEF MarkCommit, Doing, queueVars
    <2>2. \A u \in Uploads : /\ file'[u].deleted = file[u].deleted
                             /\ file'[u].status \in {file[u].status, "failed"}
      BY <1>0, <1>10, <2>1 DEF MarkCommit, FileRow
    <2> QED BY <1>g, <1>10, <2>1, <2>2 DEF MarkCommit, WorkerDeletes, DeleteInv,
                                           UploadDeletes
  <1>11. CASE TaskError(w)
    BY <1>g, <1>11, PlainWorker DEF TaskError, rowVars, queueVars
  <1>12. CASE WorkerCrash(w)
    BY <1>g, <1>12, PlainWorker DEF WorkerCrash, rowVars, queueVars
  <1>13. ASSUME NEW u \in Uploads, TakeFinalize(w, u)
         PROVE  WorkerDeletes(w)' /\ \A v \in Uploads : UploadDeletes(v)'
    <2>1. wk'[w].pc = "lockS"
      BY <1>0, <1>13 DEF TakeFinalize, Asleep
    <2> QED BY <1>13, <2>1, PlainWorker DEF TakeFinalize, rowVars
  <1>14. ASSUME NEW u \in Uploads, Cleanup(w, u)
         PROVE  WorkerDeletes(w)' /\ \A v \in Uploads : UploadDeletes(v)'
    <2>1. wk'[w].pc = "idle" /\ file' = file
      BY <1>14 DEF Cleanup, Doing, rowVars
    <2>2. \A v \in Uploads : cleanq'[v] > 0 => cleanq[v] > 0
      BY <1>0, <1>14 DEF Cleanup
    <2> QED BY <2>1, <2>2, PlainWorker
  <1> QED BY <1>1, <1>2, <1>3, <1>4, <1>5, <1>6, <1>7, <1>8, <1>9, <1>10, <1>11, <1>12,
             <1>13, <1>14 DEF Work

\* Initializing an upload concerns no request: none has loaded status "none".
LEMMA InitializeDeletes ==
  ASSUME TypeOK, ShapeInv, DeleteInv, NEW u \in Uploads, NEW p \in InitRequests,
         InitializeUpload(u, p), UNCHANGED wk
  PROVE  DeleteInv'
  <1>0. file \in [Uploads -> FileRow]
    BY DEF TypeOK, StoreTypeOK
  <1>1. \A v \in Uploads :
          /\ file'[v].deleted = file[v].deleted
          /\ \/ file'[v].status = file[v].status
             \/ file[v].status = "none" /\ file'[v].status = "pending"
    BY <1>0 DEF InitializeUpload, FileRow
  <1>s. cleanq' = cleanq /\ req' = req /\ wk' = wk
    BY DEF InitializeUpload, queueVars
  <1>2. \A r \in Reqs : req[r].pc # "idle" => req[r].u \in Uploads
    BY ReqRowType DEF TypeOK, ShapeInv, ReqShape
  <1>3. \A w \in Workers : wk[w].pc # "idle" => wk[w].u \in Uploads
    BY WorkerRowType DEF TypeOK, ShapeInv, WorkerShape
  <1>4. \A v \in Uploads : UploadDeletes(v)'
    BY <1>1, <1>s DEF DeleteInv, UploadDeletes
  <1>5. ASSUME NEW r \in Reqs PROVE ReqDeletes(r)'
    BY <1>1, <1>s, <1>2 DEF DeleteInv, ReqDeletes
  <1>6. ASSUME NEW w \in Workers PROVE WorkerDeletes(w)'
    BY <1>1, <1>s, <1>3 DEF DeleteInv, WorkerDeletes
  <1> QED BY <1>4, <1>5, <1>6 DEF DeleteInv

LEMMA DeadlockDeletes ==
  ASSUME TypeOK, ShapeInv, DeleteInv, NEW w \in Workers, ResolveDeadlock(w)
  PROVE  DeleteInv'
  <1>0. WorkerTypeOK /\ ReqTypeOK /\ wk \in [Workers -> WorkerRow] /\ req \in [Reqs -> ReqRow]
    BY DEF TypeOK, WorkerTypeOK, ReqTypeOK
  <1>1. file' = file /\ cleanq' = cleanq
    BY DEF ResolveDeadlock, TaskIsVictim, HandlerIsVictim, MarkerIsVictim, rowVars,
           queueVars
  <1>2. \A u \in Uploads : UploadDeletes(u)'
    BY <1>1 DEF DeleteInv, UploadDeletes
  <1>3. ASSUME NEW r \in Reqs PROVE ReqDeletes(r)'
    <2>1. req'[r] = req[r] \/ req'[r] = Idle
      BY <1>0 DEF ResolveDeadlock, TaskIsVictim, HandlerIsVictim, MarkerIsVictim, Finish
    <2> QED BY <1>1, <2>1 DEF Idle, DeleteInv, ReqDeletes
  <1>4. ASSUME NEW v \in Workers PROVE WorkerDeletes(v)'
    <2>1. wk'[v] = wk[v] \/ wk'[v].pc \in {"idle", "markS"}
      <3>1. CASE TaskIsVictim(w)
        BY <1>0, <3>1, GivesUp DEF TaskIsVictim, RollbackAndMark
      <3>2. CASE HandlerIsVictim(w)
        BY <3>2 DEF HandlerIsVictim
      <3>3. CASE MarkerIsVictim(w)
        BY <1>0, <3>3 DEF MarkerIsVictim, Sleep, Asleep
      <3> QED BY <3>1, <3>2, <3>3 DEF ResolveDeadlock
    <2> QED BY <1>1, <2>1 DEF DeleteInv, WorkerDeletes
  <1> QED BY <1>2, <1>3, <1>4 DEF DeleteInv

LEMMA InitDeletes == Init => DeleteInv
  BY DEF Init, StoreInit, ReqInit, WorkerInit, NoFileRow, Idle, Asleep, DeleteInv,
         UploadDeletes, ReqDeletes, WorkerDeletes

LEMMA StepDeletes == TypeOK /\ ShapeInv /\ LockInv /\ DeleteInv /\ [Next]_vars => DeleteInv'
  <1> SUFFICES ASSUME TypeOK, ShapeInv, LockInv, DeleteInv, [Next]_vars PROVE DeleteInv'
    OBVIOUS
  <1>1. ASSUME NEW u \in Uploads, NEW p \in InitRequests, InitializeUpload(u, p), UNCHANGED wk
        PROVE  DeleteInv'
    BY <1>1, InitializeDeletes
  <1>2. ASSUME NEW u \in Uploads, SessionTimeout(u), UNCHANGED <<req, wk>> PROVE DeleteInv'
    BY <1>2 DEF SessionTimeout, rowVars, queueVars, DeleteInv, UploadDeletes, ReqDeletes,
                WorkerDeletes
  <1>3. ASSUME NEW r \in Reqs, Request(r) \/ Handle(r) \/ Abort(r), UNCHANGED wk
        PROVE  DeleteInv'
    <2>1. OnlyFilesOf(r)
      <3>1. file' = file => OnlyFilesOf(r)
        BY DEF OnlyFilesOf
      <3> QED BY <1>3, <3>1, RequestFiles, HandleFiles
    <2> QED BY <1>3, <2>1, RequestDeletes, HandleDeletes, RequestLocal,
               OthersKeepDeletes DEF TypeOK
  <1>4. ASSUME NEW w \in Workers, Work(w) \/ TaskError(w) \/ WorkerCrash(w), UNCHANGED req
        PROVE  DeleteInv'
    BY <1>4, WorkFiles, WorkDeletes, WorkerLocal, OthersKeepDeletes DEF TypeOK
  <1>5. ASSUME NEW w \in Workers, ResolveDeadlock(w) PROVE DeleteInv'
    BY <1>5, DeadlockDeletes
  <1>6. CASE UNCHANGED vars
    BY <1>6 DEF vars, storeVars, rowVars, queueVars, DeleteInv, UploadDeletes, ReqDeletes,
                WorkerDeletes
  <1> QED BY <1>1, <1>2, <1>3, <1>4, <1>5, <1>6 DEF Next, Expire

\* Whatever finalization was under way or queued when soft_delete_file committed,
\* and whatever failed since, a deleted file does not become downloadable.
THEOREM NoResurrection == Spec => []DeletedNeverAvailable
  <1>1. Init => TypeOK /\ ShapeInv /\ LockInv /\ DeleteInv
    BY InitType, InitShape, InitLocks, InitDeletes
  <1>2. TypeOK /\ ShapeInv /\ LockInv /\ DeleteInv /\ [Next]_vars
          => (TypeOK /\ ShapeInv /\ LockInv /\ DeleteInv)'
    BY StepType, StepLocks, StepDeletes
  <1>3. DeleteInv => DeletedNeverAvailable
    BY DEF DeleteInv, UploadDeletes, DeletedNeverAvailable
  <1> QED BY <1>1, <1>2, <1>3, PTL DEF Spec
===============================================================================
