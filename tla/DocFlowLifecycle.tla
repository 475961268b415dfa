--------------------------- MODULE DocFlowLifecycle ----------------------------
(***************************************************************************)
(* The life of a file: with one request at a time and no message twice the *)
(* two status columns agree and what is settled stays so; and in every     *)
(* case DocFlow implements FileLifecycle.                                  *)
(***************************************************************************)
EXTENDS DocFlowOutcomes

\* What the commits write besides the status of the File.
LEMMA CommitsAre ==
  ASSUME TypeOK, NEW u \in Uploads
  PROVE  /\ \A r \in Reqs : Flushes(r, u) =>
              /\ WritesSess(r) => sess'[u].status = SessTarget(req[r].op)
              /\ ~WritesSess(r) => sess'[u].status = sess[u].status
              /\ req[r].op = "queue_error" /\ fileLock[u] = r => file'[u].error
         /\ \A w \in Workers : Finalizes(w, u) =>
              sess'[u].status = "completed" /\ ~file'[u].error
         /\ \A w \in Workers : Marks(w, u) =>
              /\ wk[w].ss # "failed" => sess'[u].status = "failed"
              /\ file'[u].error
  <1>0. file \in [Uploads -> FileRow] /\ sess \in [Uploads -> SessRow]
    BY DEF TypeOK, StoreTypeOK
  <1>1. ASSUME NEW r \in Reqs, Flushes(r, u)
        PROVE  /\ WritesSess(r) => sess'[u].status = SessTarget(req[r].op)
               /\ ~WritesSess(r) => sess'[u].status = sess[u].status
               /\ req[r].op = "queue_error" /\ fileLock[u] = r => file'[u].error
    BY <1>0, <1>1 DEF Flushes, FlushCommit, FileRow, SessRow
  <1>2. ASSUME NEW w \in Workers, Finalizes(w, u)
        PROVE  sess'[u].status = "completed" /\ ~file'[u].error
    BY <1>0, <1>2 DEF Finalizes, CommitFinal, FileRow, SessRow
  <1>3. ASSUME NEW w \in Workers, Marks(w, u)
        PROVE  /\ wk[w].ss # "failed" => sess'[u].status = "failed"
               /\ file'[u].error
    BY <1>0, <1>3 DEF Marks, MarkCommit, FileRow, SessRow
  <1> QED BY <1>1, <1>2, <1>3

-------------------------------------------------------------------------------
(***************************************************************************)
(* One request at a time, no message twice.                                *)
(***************************************************************************)
\* What the status of the file says of its session, and the other way round.
LEMMA MatchIs ==
  ASSUME SoloInv, NEW u \in Uploads
  PROVE  LET s == sess[u].status  f == file[u].status IN
         /\ s \in {"initiated", "uploading", "ready_to_complete"} =>
              f = "pending" /\ ~file[u].deleted /\ ~AtWorkers(u)
         /\ s = "assembling" => f = "processing"
         /\ s = "cancelled" => f \notin {"none", "pending", "processing", "available", "failed"}
         /\ f = "none" => s = "none"
         /\ f = "pending" => s \in {"initiated", "uploading", "ready_to_complete", "expired"}
         /\ f = "processing" => s \in {"assembling", "expired"}
         /\ f = "available" => s \in {"completed", "expired"} /\ ~file[u].error
         /\ f = "failed" => s \in {"failed", "expired"} /\ file[u].error /\ ~AtWorkers(u)
         /\ f = "deleted" => s \in {"cancelled", "completed", "failed", "expired"}
         /\ s = "none" => f = "none"
         /\ file[u].deleted => f \in {"deleted", "failed"}
  <1>1. StatusesMatch(u) /\ OneFinalization(u)
    BY DEF SoloInv
  <1> QED BY <1>1 DEF StatusesMatch, OneFinalization, Matching

\* The commit of a handler, by what it was asked for.
LEMMA SoloFlush ==
  ASSUME IInv, LifeInv, SoloInv, NEW r \in Reqs, NEW u \in Uploads, Flushes(r, u)
  PROVE  \/ /\ req[r].op \in {"complete", "retry"}
            /\ file[u].status \in {"pending", "failed"} /\ ~file[u].deleted
            /\ req[r].op = "complete" => file[u].status = "pending"
            /\ file'[u].status = "processing" /\ ~file'[u].deleted
            /\ sess'[u].status = "assembling"
         \/ /\ req[r].op = "delete" /\ ~file[u].deleted
            /\ file'[u].status = "deleted" /\ file'[u].deleted
            /\ sess'[u].status \in {"cancelled", "completed", "failed", "expired"}
         \/ /\ req[r].op = "queue_error"
            /\ file[u].status = "processing" /\ ~file[u].deleted
            /\ ~AtWorkers(u)
            /\ file'[u].status = "failed" /\ ~file'[u].deleted /\ file'[u].error
            /\ sess'[u].status = "failed"
  <1>0. TypeOK /\ ReqShape(r) /\ ReqSolo(r, u) /\ req[r].u = u /\ req[r].pc = "flushS"
    BY DEF IInv, ShapeInv, SoloInv, Flushes, FlushCommit, At
  <1>1. CASE req[r].op \in {"complete", "retry"}
    <2>1. WritesSess(r) /\ SessTarget(req[r].op) = "assembling" /\ FileTarget(req[r].op) = "processing"
      BY <1>0, <1>1 DEF ReqSolo, WritesSess, SessTarget, FileTarget
    <2>2. /\ file[u].status \in {"pending", "failed"} /\ ~file[u].deleted
          /\ req[r].op = "complete" => file[u].status = "pending"
          /\ req[r].fs \in {"pending", "failed"}
      BY <1>0, <1>1, MatchIs DEF ReqSolo
    <2> QED BY <1>0, <1>1, <2>1, <2>2, FlushIs, CommitsAre
  <1>2. CASE req[r].op = "delete"
    <2>1. ~file[u].deleted /\ req[r].fs = file[u].status /\ req[r].fs # "none" /\ req[r].fs # "deleted"
      BY <1>0, <1>2 DEF IInv, DeleteInv, ReqDeletes, LifeInv
    <2>2. SessTarget(req[r].op) = "cancelled" /\ FileTarget(req[r].op) = "deleted"
      BY <1>2 DEF SessTarget, FileTarget
    <2>3. sess[u].status # "none"
      BY <2>1, MatchIs
    <2>4. sess[u].status \in SessStatus
      BY <1>0 DEF TypeOK, StoreTypeOK, SessRow
    <2>5. req[r].ss = sess[u].status
      BY <1>0, <1>2 DEF ReqSolo
    <2>6. sess'[u].status \in {"cancelled", "completed", "failed", "expired"}
      BY <1>2, <2>2, <2>3, <2>4, <2>5, <1>0, CommitsAre DEF WritesSess, ActiveStatus, SessStatus
    <2> QED BY <1>0, <1>2, <2>1, <2>2, <2>6, FlushIs
  <1>3. CASE req[r].op = "queue_error"
    <2>1. RequestToken(r, u)
      BY <1>0, <1>3 DEF RequestToken
    <2>2. /\ file[u].status = "processing" /\ ~file[u].deleted /\ ~AtWorkers(u)
          /\ req[r].ss # "failed" /\ req[r].fs = "processing"
      BY <1>0, <2>1 DEF ReqSolo, SoloInv, OneFinalization
    <2>3. WritesSess(r) /\ SessTarget(req[r].op) = "failed" /\ FileTarget(req[r].op) = "failed"
      BY <1>3, <2>2 DEF WritesSess, SessTarget, FileTarget
    <2>4. WritesFile(r)
      BY <1>3, <2>2 DEF WritesFile, FileTarget
    <2>5. fileLock[u] = r
      BY <1>0, <2>4 DEF IInv, LockInv, ReqLocks
    <2> QED BY <1>0, <1>3, <2>2, <2>3, <2>5, FlushIs, CommitsAre
  <1> QED BY <1>0, <1>1, <1>2, <1>3 DEF ReqShape

\* The commits of a worker.
LEMMA SoloTask ==
  ASSUME IInv, LifeInv, SoloInv, NEW w \in Workers, NEW u \in Uploads,
         Finalizes(w, u) \/ Marks(w, u)
  PROVE  /\ WorkerToken(w, u) /\ file[u].status \in {"processing", "deleted"}
         /\ fileLock[u] = w
         /\ \/ /\ Finalizes(w, u) /\ ~file'[u].deleted
               /\ file'[u].status = "available" /\ ~file'[u].error /\ sess'[u].status = "completed"
            \/ /\ Marks(w, u) /\ (file'[u].deleted <=> file[u].deleted)
               /\ file'[u].status = "failed" /\ file'[u].error /\ sess'[u].status = "failed"
  <1>0. TypeOK /\ WorkerLocks(w) /\ WorkerSolo(w, u) /\ wk[w].u = u /\ WorkerDeletes(w)
    BY DEF IInv, LockInv, DeleteInv, SoloInv, Finalizes, Marks
  <1>1. wk[w].pc \in {"commit", "flushS"}
    BY <1>0, FileEffects
  <1>2. /\ WorkerToken(w, u) /\ file[u].status \in {"processing", "deleted"}
        /\ fileLock[u] = w
    BY <1>0, <1>1 DEF WorkerToken, WorkerLocks, SoloInv, OneFinalization, AtWorkers
  <1>3. ASSUME Finalizes(w, u)
        PROVE  /\ ~file'[u].deleted
               /\ file'[u].status = "available" /\ ~file'[u].error /\ sess'[u].status = "completed"
    BY <1>0, <1>3, FileEffects, CommitsAre DEF WorkerDeletes
  <1>4. ASSUME Marks(w, u)
        PROVE  /\ file'[u].deleted <=> file[u].deleted
               /\ file'[u].status = "failed" /\ file'[u].error /\ sess'[u].status = "failed"
    <2>1. wk[w].pc = "flushS"
      BY <1>0, <1>4, FileEffects
    <2>2. wk[w].fs # "failed" /\ wk[w].ss # "failed"
      BY <1>0, <2>1 DEF WorkerSolo
    <2> QED BY <1>0, <1>4, <2>2, FileEffects, CommitsAre, MarkIs
  <1> QED BY <1>2, <1>3, <1>4

LEMMA StepStatusesMatch ==
  ASSUME IInv, LifeInv, SoloInv, [Next]_vars, NEW u \in Uploads
  PROVE  StatusesMatch(u)'
  <1>0. TypeOK /\ ShapeInv /\ StartedInv /\ StatusesMatch(u)
    BY DEF IInv, SoloInv
  <1>1. CASE file'[u] = file[u] /\ sess'[u] = sess[u]
    BY <1>0, <1>1 DEF StatusesMatch
  <1>2. CASE Initializes(u)
    <2>1. /\ file[u] = NoFileRow /\ file'[u].status = "pending" /\ sess'[u].status = "initiated"
          /\ file'[u].deleted = file[u].deleted
      BY <1>0, <1>2, FileEffects, SessEffects DEF StartedInv
    <2> QED BY <2>1 DEF StatusesMatch, Matching, NoFileRow
  <1>3. ASSUME NEW r \in Reqs, ExpireCommit(r) \/ ChunkCommit(r), req[r].u = u
        PROVE  StatusesMatch(u)'
    <2>1. file' = file /\ file[u].status # "none"
      BY <1>0, <1>3, Begun DEF ExpireCommit, ChunkCommit
    <2>2. CASE ExpireCommit(r)
      BY <1>0, <1>3, <2>1, <2>2, SessEffects DEF StatusesMatch, Matching
    <2>3. CASE ChunkCommit(r)
      <3>1. req[r].pc = "stored" /\ req[r].ns \in {"uploading", "ready_to_complete"}
        BY <1>0, <1>3, <2>3, CommittedIs DEF IInv, ChunkInv, ReqChunks
      <3>2. file[u].status = "pending"
        BY <1>3, <3>1, MatchIs DEF SoloInv, ReqSolo
      <3> QED BY <1>0, <1>3, <2>1, <2>3, <3>1, <3>2, SessEffects DEF StatusesMatch, Matching
    <2> QED BY <1>3, <2>2, <2>3
  <1>4. ASSUME NEW r \in Reqs, Flushes(r, u) PROVE StatusesMatch(u)'
    BY <1>4, SoloFlush DEF StatusesMatch, Matching
  <1>5. ASSUME NEW w \in Workers, Finalizes(w, u) \/ Marks(w, u) PROVE StatusesMatch(u)'
    BY <1>5, SoloTask DEF StatusesMatch, Matching
  <1> QED BY <1>0, <1>1, <1>2, <1>3, <1>4, <1>5, UploadWriters

\* A file that is offered stays so until it is deleted, and a deleted one stays
\* deleted.
LEMMA SettledStays ==
  ASSUME IInv, LifeInv, SoloInv, [Next]_vars, NEW u \in Uploads
  PROVE  /\ file[u].deleted => file'[u].deleted
         /\ file[u].status = "available" =>
              \/ file'[u].status = "available"
              \/ file'[u].status = "deleted" /\ file'[u].deleted
  <1>0. TypeOK /\ ShapeInv
    BY DEF IInv
  <1>1. ASSUME file[u].deleted PROVE file'[u].deleted
    BY <1>0, <1>1, UploadWriters, FileEffects
  <1>2. ASSUME file[u].status = "available"
        PROVE  \/ file'[u].status = "available"
               \/ file'[u].status = "deleted" /\ file'[u].deleted
    <2>1. ~Initializes(u)
      BY <1>0, <1>2, FileEffects
    <2> QED BY <1>0, <1>2, <2>1, UploadWriters, SoloFlush, SoloTask
  <1> QED BY <1>1, <1>2

\* While its only request waits, and no worker is to write them or the request
\* has the File locked, the rows of an upload stay as they are.
LEMMA Untouched ==
  ASSUME Solo, IInv, LifeInv, SoloInv, [Next]_vars, NEW u \in Uploads, NEW r \in Reqs,
         req[r].u = u, req'[r] = req[r], ~AtWorkers(u) \/ fileLock[u] = r
  PROVE  file'[u] = file[u] /\ sess'[u] = sess[u]
  <1>0. TypeOK /\ ShapeInv /\ StartedInv /\ ReqTypeOK /\ u # None
    BY NoneAssumption DEF IInv, TypeOK
  <1>1. ~Initializes(u)
    BY <1>0, Begun, FileEffects
  <1>2. ASSUME NEW q \in Reqs, Flushes(q, u) \/ ExpireCommit(q) \/ ChunkCommit(q) PROVE FALSE
    <2>1. q = r /\ Handle(r)
      BY <1>2 DEF Solo, Flushes, Handle
    <2>2. Flushes(r, u) \/ ExpireCommit(r) \/ ChunkCommit(r)
      BY <1>2, <2>1
    <2>3. ASSUME ExpireCommit(r) \/ ChunkCommit(r) PROVE FALSE
      BY <1>0, <2>3, FinishIs DEF ExpireCommit, ChunkCommit, Idle
    <2>4. ASSUME Flushes(r, u) PROVE FALSE
      <3>1. req[r].pc = "flushS"
        BY <2>4 DEF Flushes, FlushCommit, At
      <3>2. HandleStep(r, u)
        BY <1>0, <2>1, HandleIs
      <3> QED BY <1>0, <3>1, <3>2 DEF HandleStep, Idle
    <2> QED BY <2>2, <2>3, <2>4
  <1>3. ASSUME NEW w \in Workers, Finalizes(w, u) \/ Marks(w, u) PROVE FALSE
    BY <1>3, SoloTask, ProcessAssumption DEF AtWorkers
  <1> QED BY <1>0, <1>1, <1>2, <1>3, UploadWriters

\* The queue and the workers: a message is sent by the request that has the token
\* and taken by one worker.
Sends(r, u) == Publish(r) /\ req[r].u = u

LEMMA SoloQueue ==
  ASSUME Solo, TypeOK, ShapeInv, [Next]_vars, NEW u \in Uploads
  PROVE  \/ finq'[u] = finq[u]
         \/ \E r \in Reqs : Sends(r, u) /\ finq'[u] = finq[u] + 1 /\ file' = file /\ wk' = wk
         \/ \E w \in Workers : TakeFinalize(w, u) /\ finq'[u] = finq[u] - 1 /\ file' = file
  <1>0. finq \in [Uploads -> Nat]
    BY DEF TypeOK, StoreTypeOK
  <1>1. ASSUME NEW r \in Reqs, Publish(r), UNCHANGED wk
        PROVE  \/ finq'[u] = finq[u]
               \/ Sends(r, u) /\ finq'[u] = finq[u] + 1 /\ file' = file /\ wk' = wk
    BY <1>0, <1>1 DEF Publish, Sends, rowVars
  <1>2. ASSUME NEW r \in Reqs, PublishError(r) PROVE finq' = finq
    BY <1>2 DEF PublishError, Fault, Solo
  <1>3. ASSUME NEW w \in Workers, NEW v \in Uploads, TakeFinalize(w, v)
        PROVE  \/ finq'[u] = finq[u]
               \/ TakeFinalize(w, u) /\ finq'[u] = finq[u] - 1 /\ file' = file
    BY <1>0, <1>3 DEF TakeFinalize, Fault, Solo, rowVars
  <1> QED BY <1>1, <1>2, <1>3, Writers

LEMMA TokenFrom ==
  ASSUME TypeOK, ShapeInv, [Next]_vars, NEW u \in Uploads, NEW w \in Workers, WorkerToken(w, u)'
  PROVE  \/ WorkerToken(w, u) /\ ~Finalizes(w, u) /\ ~Marks(w, u)
         \/ /\ TakeFinalize(w, u) /\ wk[w].pc = "idle"
            /\ \A v \in Workers : v # w => wk'[v] = wk[v]
  <1>0. WorkerTypeOK /\ wk \in [Workers -> WorkerRow] /\ u # None
    BY NoneAssumption DEF TypeOK, WorkerTypeOK
  <1>1. CASE wk[w].u = u
    <2>1. WorkerToken(w, u)
      BY <1>0, <1>1, WorkIs DEF WorkerToken, WorkStep, Asleep, ShapeInv, WorkerShape, InTry, Finalizes
    <2>2. ~Finalizes(w, u)
      BY <1>0 DEF Finalizes, CommitFinal, WorkerToken, WorkerRow
    <2>3. ~Marks(w, u)
      BY <1>0, SleepIs DEF Marks, MarkCommit, WorkerToken, Asleep
    <2> QED BY <2>1, <2>2, <2>3
  <1>2. CASE wk[w].u # u
    <2>1. PICK v \in Uploads : TakeFinalize(w, v)
      <3>1. ~Assemble(w) /\ wk'[w] # wk[w] /\ wk'[w] # Asleep /\ ~WorksOn(w)
        BY <1>0, <1>2, AssembledIs DEF WorkerToken, Asleep, WorksOn
      <3> QED BY <3>1, WorkerMoves
    <2>2. v = u
      BY <1>0, <2>1, TakenIs DEF WorkerToken
    <2> QED BY <1>0, <2>1, <2>2 DEF TakeFinalize, Doing
  <1> QED BY <1>1, <1>2

\* Only the request that has it keeps the token, or the one whose commit makes the
\* file PROCESSING gets it.
LEMMA RequestTokenFrom ==
  ASSUME TypeOK, ShapeInv, [Next]_vars, NEW u \in Uploads, NEW r \in Reqs, RequestToken(r, u)'
  PROVE  \/ RequestToken(r, u) /\ ~Sends(r, u)
         \/ Flushes(r, u) /\ req[r].op \in {"complete", "retry"} /\ finq' = finq
  <1>0. ReqTypeOK /\ req \in [Reqs -> ReqRow] /\ u # None /\ ReqShape(r)
    BY NoneAssumption DEF TypeOK, ReqTypeOK, ShapeInv
  <1>s. ~Sends(r, u)
    BY <1>0 DEF Sends, Publish, Goto, RequestToken, ReqRow
  <1>1. CASE req'[r] = req[r]
    BY <1>0, <1>s, <1>1 DEF RequestToken
  <1>2. ASSUME Handle(r) PROVE req[r].u = u
    <2>1. req[r].u \in Uploads
      <3>1. req[r].pc # "idle"
        BY <1>2 DEF Handle, ChunkStore, ChunkReject, ChunkCommit, ExpireCommit, CompleteCheck, RetryCheck,
           FlushFile, FlushCommit, Publish, PublishError, TagTask, MarkQueueError, QueueCleanup, At
      <3> QED BY <1>0, <3>1 DEF ReqRow, ReqShape
    <2> QED BY <1>0, <1>2, <2>1, HandleIs DEF RequestToken, Idle
  <1>3. CASE Handle(r)
    <2>1. HandleStep(r, u)
      BY <1>2, <1>3, HandleIs
    <2>2. Flushes(r, u) => finq' = finq /\ req[r].pc = "flushS"
      BY DEF Flushes, FlushCommit, queueVars, At
    <2> QED BY <1>2, <1>3, <1>s, <2>1, <2>2 DEF HandleStep, RequestToken, Idle
  <1>4. ~Request(r)
    BY <1>0, RequestIs DEF RequestToken
  <1> QED BY <1>0, <1>1, <1>3, <1>4, ReqIs DEF RequestToken, Idle

\* Work for the workers comes from a request that has the token.
LEMMA WorkFrom ==
  ASSUME Solo, TypeOK, ShapeInv, [Next]_vars, NEW u \in Uploads, AtWorkers(u)'
  PROVE  AtWorkers(u) \/ \E r \in Reqs : Sends(r, u) /\ file' = file
  <1>1. ASSUME NEW w \in Workers, WorkerToken(w, u)' PROVE AtWorkers(u)
    BY <1>1, TokenFrom DEF AtWorkers, TakeFinalize
  <1>2. ASSUME finq'[u] > 0 PROVE AtWorkers(u) \/ \E r \in Reqs : Sends(r, u) /\ file' = file
    <2>1. finq[u] \in Nat
      BY DEF TypeOK, StoreTypeOK
    <2> QED BY <1>2, <2>1, SoloQueue DEF AtWorkers
  <1> QED BY <1>1, <1>2 DEF AtWorkers

LEMMA SendsOnce ==
  ASSUME SoloInv, NEW u \in Uploads, NEW r \in Reqs, Sends(r, u)
  PROVE  ~AtWorkers(u) /\ file[u].status = "processing"
  BY DEF Sends, Publish, At, RequestToken, SoloInv, OneFinalization, ReqSolo

LEMMA StepOneFinalization ==
  ASSUME Solo, IInv, LifeInv, SoloInv, [Next]_vars, NEW u \in Uploads
  PROVE  OneFinalization(u)'
  <1>0. TypeOK /\ ShapeInv /\ OneFinalization(u) /\ finq[u] \in Nat
    BY DEF IInv, SoloInv, TypeOK, StoreTypeOK
  <1>s. \A r \in Reqs : Sends(r, u) => ~AtWorkers(u) /\ file[u].status = "processing"
    BY SendsOnce
  <1>1. AtWorkers(u)' => AtWorkers(u) \/ \E r \in Reqs : Sends(r, u) /\ file' = file
    BY <1>0, WorkFrom
  <1>2. ASSUME AtWorkers(u)' PROVE file'[u].status \in {"processing", "deleted"}
    <2>1. CASE file'[u] = file[u]
      BY <1>0, <1>s, <1>1, <1>2, <2>1 DEF OneFinalization
    <2>2. CASE file'[u] # file[u]
      <3>1. AtWorkers(u) /\ file[u].status \in {"processing", "deleted"}
        BY <1>0, <1>1, <1>2, <2>2 DEF OneFinalization
      <3>2. ~Initializes(u)
        BY <1>0, <3>1, FileEffects
      <3>3. ASSUME NEW w \in Workers, Finalizes(w, u) \/ Marks(w, u) PROVE FALSE
        <4>1. WorkerToken(w, u) /\ finq[u] = 0
          BY <1>0, <3>3, SoloTask DEF OneFinalization
        <4>2. finq'[u] = 0
          BY <3>3, <4>1 DEF Finalizes, Marks, CommitFinal, MarkCommit, queueVars
        <4>3. PICK v \in Workers : WorkerToken(v, u)'
          BY <1>2, <4>2 DEF AtWorkers
        <4>4. WorkerToken(v, u) /\ ~Finalizes(v, u) /\ ~Marks(v, u)
          <5>1. ~TakeFinalize(v, u)
            BY <4>1 DEF TakeFinalize
          <5> QED BY <1>0, <4>3, <5>1, TokenFrom
        <4> QED BY <1>0, <3>3, <4>1, <4>4 DEF OneFinalization
      <3> QED BY <1>0, <2>2, <3>1, <3>2, <3>3, UploadWriters, SoloFlush
    <2> QED BY <2>1, <2>2
  <1>3. finq'[u] <= 1
    BY <1>0, <1>s, SoloQueue DEF OneFinalization, AtWorkers
  <1>4. ASSUME NEW w \in Workers, WorkerToken(w, u)' PROVE finq'[u] = 0
    <2>1. CASE WorkerToken(w, u)
      <3>1. finq[u] = 0 /\ AtWorkers(u)
        BY <1>0, <2>1 DEF OneFinalization, AtWorkers
      <3>2. \A v \in Workers : ~TakeFinalize(v, u)
        BY <3>1 DEF TakeFinalize
      <3> QED BY <1>0, <1>s, <3>1, <3>2, SoloQueue
    <2>2. CASE TakeFinalize(w, u)
      BY <1>0, <2>2 DEF TakeFinalize, Fault, Solo, TypeOK, StoreTypeOK, OneFinalization
    <2> QED BY <1>0, <1>4, <2>1, <2>2, TokenFrom
  <1>5. ASSUME NEW v \in Workers, NEW w \in Workers, WorkerToken(v, u)', WorkerToken(w, u)' PROVE v = w
    <2>1. ASSUME NEW x \in Workers, TakeFinalize(x, u), NEW y \in Workers, WorkerToken(y, u) PROVE FALSE
      BY <1>0, <2>1 DEF OneFinalization, TakeFinalize
    <2>2. ASSUME NEW x \in Workers, TakeFinalize(x, u), wk[x].pc = "idle", NEW y \in Workers, y # x,
                 wk'[x] = wk[x], WorkerToken(x, u)'
          PROVE  FALSE
      BY <2>2 DEF WorkerToken
    <2> QED BY <1>0, <1>5, <2>1, <2>2, TokenFrom DEF OneFinalization
  <1>6. ASSUME NEW r \in Reqs, RequestToken(r, u)' PROVE ~AtWorkers(u)'
    <2>1. ~AtWorkers(u)
      <3>1. CASE RequestToken(r, u)
        BY <1>0, <3>1 DEF OneFinalization
      <3>2. ASSUME Flushes(r, u), req[r].op \in {"complete", "retry"} PROVE ~AtWorkers(u)
        BY <1>0, <3>2, SoloFlush DEF OneFinalization
      <3> QED BY <1>0, <1>6, <3>1, <3>2, RequestTokenFrom
    <2>2. ASSUME NEW q \in Reqs, Sends(q, u) PROVE FALSE
      <3>1. q = r
        BY DEF Solo
      <3>2. req[r].pc = "publish"
        BY <2>2, <3>1 DEF Sends, Publish, At
      <3> QED BY <1>0, <1>6, <2>2, <3>1, <3>2, RequestTokenFrom, FileEffects
    <2> QED BY <1>1, <2>1, <2>2
  <1> QED BY <1>2, <1>3, <1>4, <1>5, <1>6 DEF OneFinalization

\* What the steps of a handler that write no row take over from the rows.
LEMMA RequestReads ==
  ASSUME ReqTypeOK, NEW r \in Reqs, Request(r), NEW u \in Uploads, req'[r].u = u
  PROVE  /\ UNCHANGED rowVars /\ ~RequestToken(r, u)'
         /\ req'[r].pc \in {"reading", "stored"} => sess[u].status \in {"initiated", "uploading"}
         /\ req'[r].pc \in {"loaded", "flushF", "flushS"} =>
              /\ req'[r].op = "complete" =>
                   /\ sess[u].status = "ready_to_complete" /\ req'[r].ss = "ready_to_complete"
                   /\ req'[r].pc = "loaded"
              /\ req'[r].op = "retry" =>
                   /\ file[u].status = "failed" /\ ~file[u].deleted /\ req'[r].fs = "failed"
                   /\ req'[r].pc = "loaded"
              /\ req'[r].op = "delete" => req'[r].ss = sess[u].status
  <1> USE DEF storeVars, RequestToken, At
  <1>0. req \in [Reqs -> ReqRow]
    BY DEF ReqTypeOK
  <1>1. ASSUME NEW v \in Uploads, NEW i \in Index, NEW c \in Payloads, ChunkBegin(r, v, i, c)
        PROVE  /\ req'[r].u = v /\ req'[r].pc = "reading" /\ UNCHANGED rowVars
               /\ sess[v].status \in {"initiated", "uploading"}
    BY <1>0, <1>1 DEF ChunkBegin, Idle
  <1>2. ASSUME NEW v \in Uploads, NEW op \in {"chunk", "complete"}, FindExpired(r, v, op)
        PROVE  req'[r].u = v /\ req'[r].pc = "expire" /\ UNCHANGED rowVars
    BY <1>0, <1>2 DEF FindExpired, Idle
  <1>3. ASSUME NEW v \in Uploads, CompleteBegin(r, v)
        PROVE  /\ req'[r].u = v /\ req'[r].pc = "loaded" /\ UNCHANGED rowVars
               /\ req'[r].op = "complete"
               /\ sess[v].status = "ready_to_complete" /\ req'[r].ss = sess[v].status
    BY <1>0, <1>3 DEF CompleteBegin, Idle
  <1>4. ASSUME NEW v \in Uploads, RetryBegin(r, v)
        PROVE  /\ req'[r].u = v /\ req'[r].pc = "loaded" /\ UNCHANGED rowVars
               /\ req'[r].op = "retry"
               /\ file[v].status = "failed" /\ ~file[v].deleted /\ req'[r].fs = file[v].status
    BY <1>0, <1>4 DEF RetryBegin, Idle
  <1>5. ASSUME NEW v \in Uploads, SoftDelete(r, v)
        PROVE  /\ req'[r].u = v /\ req'[r].pc = "flushS" /\ UNCHANGED rowVars
               /\ req'[r].op = "delete" /\ req'[r].ss = sess[v].status
    BY <1>0, <1>5 DEF SoftDelete, Idle
  <1> QED BY <1>1, <1>2, <1>3, <1>4, <1>5 DEF Request

\* How a handler goes on without writing a row, and what it has read by then.
HandleRead(r, u) ==
  \/ req[r].pc = "reading" /\ req'[r].pc = "stored"
  \/ req[r].pc = "loaded" /\ req'[r].pc = "expire"
  \/ /\ req[r].pc = "loaded" /\ req'[r].pc = "flushF"
     /\ \/ /\ req[r].op = "complete" /\ req'[r].op = "complete" /\ req'[r].ss = req[r].ss
           /\ req'[r].fs = file[u].status
        \/ /\ req[r].op = "retry" /\ req'[r].op = "retry" /\ req'[r].fs = req[r].fs
           /\ sess[u].status = "failed" /\ req'[r].ss = "failed"
  \/ /\ req[r].pc = "flushF" /\ req'[r].pc = "flushS" /\ req'[r].op = req[r].op
     /\ req'[r].fs = req[r].fs /\ req'[r].ss = req[r].ss
  \/ req[r].pc = "publish" /\ req'[r].pc = "tag"
  \/ req[r].pc = "publish" /\ req'[r].pc = "failed" /\ req'[r].ss = sess[u].status
  \/ /\ req[r].pc = "failed" /\ req'[r].pc = "flushF" /\ req'[r].op = "queue_error"
     /\ req'[r].fs = file[u].status /\ req'[r].ss = req[r].ss

LEMMA HandleReads ==
  ASSUME TypeOK, NEW r \in Reqs, Handle(r), NEW u \in Uploads, req[r].u = u, req'[r].u = u
  PROVE  \/ HandleRead(r, u) /\ UNCHANGED <<file, sess>>
         \/ /\ Flushes(r, u) /\ req[r].pc = "flushS"
            /\ \/ /\ req[r].op \in {"complete", "retry"}
                  /\ req'[r].pc = "publish" /\ req'[r].op = "queue"
               \/ /\ req[r].op = "delete"
                  /\ req'[r].pc = "cleanup"
  <1> USE DEF storeVars, rowVars, At
  <1>0. ReqTypeOK /\ req \in [Reqs -> ReqRow]
    BY DEF TypeOK, ReqTypeOK
  <1>f. ~Finish(r)
    BY <1>0, FinishIs, NoneAssumption DEF Idle
  <1>1. ~(ChunkReject(r) \/ ChunkCommit(r) \/ ExpireCommit(r) \/ TagTask(r) \/ QueueCleanup(r))
    BY <1>f DEF ChunkReject, ChunkCommit, ExpireCommit, TagTask, QueueCleanup
  <1>2. CASE ChunkStore(r)
    BY <1>0, <1>2, StoredIs DEF HandleRead, ChunkStore
  <1>3. CASE CompleteCheck(r)
    <2>0. req[r].pc = "loaded" /\ req[r].op = "complete" /\ UNCHANGED <<file, sess>>
      BY <1>3 DEF CompleteCheck
    <2>1. Enter(r, "expire", "complete") => HandleRead(r, u)
      BY <1>0, <2>0, EnterIs DEF HandleRead
    <2>2. ASSUME req' = [req EXCEPT ![r].pc = "flushF", ![r].fs = file[u].status]
          PROVE  HandleRead(r, u)
      <3>1. /\ req'[r].pc = "flushF" /\ req'[r].fs = file[u].status
            /\ req'[r].op = "complete" /\ req'[r].ss = req[r].ss
        BY <1>0, <2>0, <2>2 DEF ReqRow
      <3> QED BY <2>0, <3>1 DEF HandleRead
    <2> QED BY <1>f, <1>3, <2>0, <2>1, <2>2 DEF CompleteCheck
  <1>4. CASE RetryCheck(r)
    <2>0. /\ req[r].pc = "loaded" /\ req[r].op = "retry" /\ UNCHANGED <<file, sess>>
          /\ sess[u].status = "failed"
          /\ req' = [req EXCEPT ![r].pc = "flushF", ![r].ss = sess[u].status]
      BY <1>f, <1>4 DEF RetryCheck
    <2>1. /\ req'[r].pc = "flushF" /\ req'[r].fs = req[r].fs
          /\ req'[r].op = "retry" /\ req'[r].ss = sess[u].status
      BY <1>0, <2>0 DEF ReqRow
    <2> QED BY <2>0, <2>1 DEF HandleRead
  <1>5. CASE FlushFile(r)
    <2>1. /\ req[r].pc = "flushF" /\ req'[r].pc = "flushS" /\ req'[r].op = req[r].op
          /\ req'[r].fs = req[r].fs /\ req'[r].ss = req[r].ss /\ UNCHANGED <<file, sess>>
      BY <1>0, <1>5 DEF FlushFile, Goto, ReqRow
    <2> QED BY <2>1 DEF HandleRead
  <1>6. CASE FlushCommit(r)
    <2>1. ASSUME req[r].op \in {"complete", "retry"}
          PROVE  req'[r].pc = "publish" /\ req'[r].op = "queue"
      BY <1>0, <1>6, <2>1, EnterIs DEF FlushCommit
    <2>2. ASSUME req[r].op = "delete" PROVE req'[r].pc = "cleanup"
      BY <1>0, <1>6, <2>2, EnterIs DEF FlushCommit
    <2> QED BY <1>f, <1>6, <2>1, <2>2 DEF FlushCommit, Flushes
  <1>7. CASE Publish(r)
    <2>1. req[r].pc = "publish" /\ req'[r].pc = "tag" /\ UNCHANGED <<file, sess>>
      BY <1>0, <1>7 DEF Publish, Goto, ReqRow
    <2> QED BY <2>1 DEF HandleRead
  <1>8. CASE PublishError(r)
    <2>1. /\ req[r].pc = "publish" /\ req'[r].pc = "failed" /\ UNCHANGED <<file, sess>>
          /\ req'[r].ss = sess[u].status
      BY <1>0, <1>8 DEF PublishError, ReqRow
    <2> QED BY <2>1 DEF HandleRead
  <1>9. CASE MarkQueueError(r)
    <2>1. /\ req[r].pc = "failed" /\ req'[r].pc = "flushF" /\ req'[r].op = "queue_error"
          /\ req'[r].fs = file[u].status /\ req'[r].ss = req[r].ss /\ UNCHANGED <<file, sess>>
      BY <1>0, <1>9 DEF MarkQueueError, ReqRow
    <2> QED BY <2>1 DEF HandleRead
  <1> QED BY <1>1, <1>2, <1>3, <1>4, <1>5, <1>6, <1>7, <1>8, <1>9 DEF Handle

LEMMA StepReqSolo ==
  ASSUME Solo, IInv, LifeInv, SoloInv, [Next]_vars, NEW u \in Uploads, NEW r \in Reqs, req'[r].u = u
  PROVE  ReqSolo(r, u)'
  <1>0. TypeOK /\ ShapeInv /\ ReqTypeOK /\ u # None /\ ReqShape(r)
    BY NoneAssumption DEF IInv, TypeOK, ShapeInv
  <1>1. CASE req'[r] = req[r]
    <2>0. req[r].u = u /\ ReqSolo(r, u)
      BY <1>1 DEF SoloInv
    <2>1. (~AtWorkers(u) \/ fileLock[u] = r) => file'[u] = file[u] /\ sess'[u] = sess[u]
      BY <1>1, <2>0, Untouched
    <2>2. /\ req[r].pc \in {"reading", "stored"} => ~AtWorkers(u)
          /\ req[r].pc \in {"loaded", "flushF", "flushS"} =>
               /\ req[r].op \in {"complete", "retry"} => ~AtWorkers(u)
               /\ req[r].pc = "flushS" /\ req[r].op = "delete" => fileLock[u] = r
          /\ RequestToken(r, u) => ~AtWorkers(u)
      BY <2>0, MatchIs DEF ReqSolo, IInv, LockInv, ReqLocks, SoloInv, OneFinalization
    <2>3. RequestToken(r, u)' <=> RequestToken(r, u)
      BY <1>1 DEF RequestToken
    <2> QED BY <1>1, <2>0, <2>1, <2>2, <2>3 DEF ReqSolo
  <1>2. CASE Request(r)
    BY <1>0, <1>2, RequestReads DEF ReqSolo, rowVars
  <1>3. CASE Handle(r)
    <2>0. req[r].u = u /\ ReqSolo(r, u)
      <3>1. req[r].u \in Uploads
        <4>1. req[r].pc # "idle"
          BY <1>3 DEF Handle, ChunkStore, ChunkReject, ChunkCommit, ExpireCommit, CompleteCheck, RetryCheck,
             FlushFile, FlushCommit, Publish, PublishError, TagTask, MarkQueueError, QueueCleanup, At
        <4> QED BY <1>0, <4>1 DEF ReqTypeOK, ReqRow, ReqShape
      <3> QED BY <1>0, <1>3, <3>1, HandleIs DEF Idle, SoloInv
    <2>1. CASE Flushes(r, u) /\ req[r].pc = "flushS" /\ req[r].op \in {"complete", "retry"}
      <3>1. req'[r].pc = "publish" /\ req'[r].op = "queue"
        BY <1>0, <1>3, <2>0, <2>1, HandleReads DEF HandleRead
      <3>2. file'[u].status = "processing" /\ ~file'[u].deleted
        BY <2>1, SoloFlush
      <3> QED BY <3>1, <3>2 DEF ReqSolo
    <2>2. CASE req'[r].pc \in {"cleanup", "expire", "tag"}
      BY <2>2 DEF ReqSolo, RequestToken
    <2>3. CASE HandleRead(r, u) /\ UNCHANGED <<file, sess>>
      <3>1. CASE req[r].pc = "reading" /\ req'[r].pc = "stored"
        BY <2>0, <2>3, <3>1 DEF ReqSolo, RequestToken
      <3>2. CASE /\ req[r].pc = "loaded" /\ req'[r].pc = "flushF"
                 /\ req[r].op = "complete" /\ req'[r].op = "complete" /\ req'[r].ss = req[r].ss
                 /\ req'[r].fs = file[u].status
        BY <2>0, <2>3, <3>2, MatchIs DEF ReqSolo, RequestToken
      <3>3. CASE /\ req[r].pc = "loaded" /\ req'[r].pc = "flushF"
                 /\ req[r].op = "retry" /\ req'[r].op = "retry" /\ req'[r].fs = req[r].fs
                 /\ sess[u].status = "failed" /\ req'[r].ss = "failed"
        BY <2>0, <2>3, <3>3 DEF ReqSolo, RequestToken
      <3>4. CASE /\ req[r].pc = "flushF" /\ req'[r].pc = "flushS" /\ req'[r].op = req[r].op
                 /\ req'[r].fs = req[r].fs /\ req'[r].ss = req[r].ss
        <4>1. RequestToken(r, u)' => RequestToken(r, u)
          BY <2>0, <3>4 DEF RequestToken
        <4>2. req'[r].op # "delete"
          BY <1>0, <3>4 DEF ReqShape
        <4> QED BY <2>0, <2>3, <3>4, <4>1, <4>2 DEF ReqSolo
      <3>5. CASE req[r].pc = "publish" /\ req'[r].pc = "failed" /\ req'[r].ss = sess[u].status
        <4>1. RequestToken(r, u)
          BY <2>0, <3>5 DEF RequestToken
        <4> QED BY <2>0, <2>3, <3>5, <4>1, MatchIs DEF ReqSolo
      <3>6. CASE /\ req[r].pc = "failed" /\ req'[r].pc = "flushF" /\ req'[r].op = "queue_error"
                 /\ req'[r].fs = file[u].status /\ req'[r].ss = req[r].ss
        <4>1. RequestToken(r, u)
          BY <2>0, <3>6 DEF RequestToken
        <4> QED BY <2>0, <2>3, <3>6, <4>1 DEF ReqSolo
      <3> QED BY <2>2, <2>3, <3>1, <3>2, <3>3, <3>4, <3>5, <3>6 DEF HandleRead
    <2> QED BY <1>0, <1>3, <2>0, <2>1, <2>2, <2>3, HandleReads
  <1> QED BY <1>0, <1>1, <1>2, <1>3, ReqIs DEF Idle

LEMMA StepWorkerSolo ==
  ASSUME Solo, IInv, LifeInv, SoloInv, [Next]_vars, NEW u \in Uploads, NEW w \in Workers,
         wk'[w].u = u
  PROVE  WorkerSolo(w, u)'
  <1>0. TypeOK /\ ShapeInv /\ WorkerTypeOK /\ u # None
    BY NoneAssumption DEF IInv, TypeOK
  <1>1. CASE wk'[w] = wk[w]
    BY <1>1, SettledStays DEF SoloInv, WorkerSolo
  <1>2. CASE wk[w].u = u /\ WorkStep(w, u)
    <2>1. WorkerSolo(w, u) /\ (file[u].status = "deleted" => file[u].deleted)
      BY <1>2 DEF SoloInv, LifeInv
    <2>2. wk[w].pc \in {"markS", "markF"} => file[u].status \in {"processing", "deleted"}
      BY <1>2 DEF SoloInv, OneFinalization, AtWorkers, WorkerToken
    <2>3. Finalizes(w, u) => file'[u].status = "available"
      BY <1>0, FileEffects
    <2> QED BY <1>2, <2>1, <2>2, <2>3, MatchIs DEF WorkStep, WorkerSolo
  <1>3. ASSUME NEW v \in Uploads, TakeFinalize(w, v) PROVE WorkerSolo(w, u)'
    BY <1>0, <1>3, TakenIs DEF WorkerSolo
  <1>4. CASE wk[w].u # u
    <2>1. ~Assemble(w) /\ wk'[w] # wk[w] /\ wk'[w] # Asleep /\ ~WorksOn(w)
      BY <1>0, <1>4, AssembledIs DEF Asleep, WorksOn
    <2> QED BY <1>0, <1>3, <2>1, WorkerMoves
  <1> QED BY <1>0, <1>1, <1>2, <1>4, WorkIs DEF Asleep

LEMMA StepChunksKept ==
  ASSUME Solo, IInv, LifeInv, SoloInv, [Next]_vars, NEW u \in Uploads
  PROVE  ChunksKept(u)'
  <1>0. TypeOK /\ ShapeInv /\ ReqTypeOK
    BY DEF IInv, TypeOK
  <1> SUFFICES ASSUME ~file'[u].deleted, file'[u].status # "available",
                      NEW i \in Index, chunk'[u][i] # None
               PROVE  chunkObj'[u][i] # None
    BY DEF ChunksKept
  <1>1. ~file[u].deleted /\ file[u].status # "available" /\ ChunksKept(u)
    BY SettledStays DEF SoloInv
  <1>2. CASE \E r \in Reqs : ChunkCommit(r) /\ req[r].u = u
    <2>1. PICK r \in Reqs : ChunkCommit(r) /\ req[r].u = u
      BY <1>2
    <2>2. /\ req[r].pc = "stored" /\ chunkObj' = chunkObj
          /\ chunk'[u][i] = IF i = req[r].i THEN req[r].c ELSE chunk[u][i]
      BY <1>0, <2>1, CommittedIs
    <2>3. chunkObj[u][req[r].i] = req[r].c /\ req[r].c # None
      BY <2>1, <2>2, NoneAssumption DEF IInv, ChunkInv, ReqChunks
    <2> QED BY <1>1, <2>2, <2>3 DEF ChunksKept
  <1>3. CASE chunk'[u] = chunk[u]
    <2>1. chunkObj[u][i] # None
      BY <1>1, <1>3 DEF ChunksKept
    <2>2. ASSUME NEW r \in Reqs, ChunkStore(r), req[r].u = u PROVE chunkObj'[u][i] # None
      <3>1. req[r].c # None
        BY <1>0, <2>2, StoredIs, NoneAssumption DEF IInv, ChunkInv, ReqChunks
      <3> QED BY <1>0, <2>1, <2>2, <3>1, ObjectEffects
    <2>3. ASSUME NEW w \in Workers, RemoveChunks(w), wk[w].u = u PROVE FALSE
      BY <1>1, <2>3 DEF RemoveChunks, Doing, SoloInv, WorkerSolo
    <2>4. ASSUME NEW w \in Workers, Cleanup(w, u) PROVE FALSE
      BY <1>1, <2>4 DEF Cleanup, IInv, DeleteInv, UploadDeletes
    <2> QED BY <1>0, <2>1, <2>2, <2>3, <2>4, UploadWriters
  <1> QED BY <1>0, <1>2, <1>3, UploadWriters

LEMMA InitSolo == Init => SoloInv
  BY NoneAssumption
     DEF Init, StoreInit, ReqInit, WorkerInit, NoFileRow, NoSessRow, Idle, Asleep, SoloInv,
         StatusesMatch, Matching, OneFinalization, AtWorkers, WorkerToken, RequestToken, ChunksKept

LEMMA SoloHolds ==
  ASSUME Solo
  PROVE  Spec => []SoloInv
  <1>1. IInv /\ LifeInv /\ SoloInv /\ [Next]_vars => SoloInv'
    <2> SUFFICES ASSUME IInv, LifeInv, SoloInv, [Next]_vars PROVE SoloInv'
      OBVIOUS
    <2>1. \A u \in Uploads : (StatusesMatch(u) /\ OneFinalization(u) /\ ChunksKept(u))'
      BY StepStatusesMatch, StepOneFinalization, StepChunksKept
    <2>2. \A r \in Reqs, u \in Uploads : req'[r].u = u => ReqSolo(r, u)'
      BY StepReqSolo
    <2>3. \A w \in Workers, u \in Uploads : wk'[w].u = u => WorkerSolo(w, u)'
      BY StepWorkerSolo
    <2> QED BY <2>1, <2>2, <2>3 DEF SoloInv
  <1> QED BY <1>1, InitSolo, InvariantHolds, LifeHolds, PTL DEF Spec

\* With one request at a time and no message twice, the status of a file and the
\* status of its session tell the same story in every state.
THEOREM StatusColumnsAgree ==
  ASSUME Solo
  PROVE  Spec => []StatusesAgree
  <1>1. SoloInv => StatusesAgree
    BY MatchIs DEF StatusesAgree
  <1> QED BY <1>1, SoloHolds, PTL

\* Under the same conditions, no session of a deleted file is left active.
THEOREM DeletionCancels ==
  ASSUME Solo
  PROVE  Spec => []DeletedSessionsCancelled
  <1>1. SoloInv => DeletedSessionsCancelled
    BY MatchIs DEF DeletedSessionsCancelled
  <1> QED BY <1>1, SoloHolds, PTL

\* Under the same conditions, a retry is only accepted with every chunk object
\* still there.
THEOREM RetriesCanSucceed ==
  ASSUME Solo
  PROVE  Spec => RetriesHaveChunks
  <1>1. IInv /\ LifeInv /\ SoloInv /\ [Next]_vars =>
          \A u \in Uploads : file[u].status = "failed" /\ file'[u].status = "processing" =>
            \A i \in Expected(u) : chunkObj[u][i] # None
    <2> SUFFICES ASSUME IInv, LifeInv, SoloInv, [Next]_vars, NEW u \in Uploads,
                        file[u].status = "failed", file'[u].status = "processing",
                        NEW i \in Expected(u)
                 PROVE  chunkObj[u][i] # None
      OBVIOUS
    <2>0. TypeOK /\ ShapeInv /\ ChunksKept(u) /\ RowsValid(u)
      BY DEF IInv, WholeInv, SoloInv
    <2>1. PICK r \in Reqs : Flushes(r, u)
      BY <2>0, UploadWriters, FileEffects
    <2>2. ~file[u].deleted
      BY <2>1, SoloFlush
    <2> QED BY <2>0, <2>2, WholeRows DEF ChunksKept
  <1> QED BY <1>1, SoloHolds, InvariantHolds, LifeHolds, PTL DEF Spec, RetriesHaveChunks

\* Under the same conditions, an AVAILABLE file stays so until it is deleted.
\* (Concurrent completions and retries do take it back.)
THEOREM AvailableIsFinal ==
  ASSUME Solo
  PROVE  Spec => AvailableStays
  <1>1. IInv /\ LifeInv /\ SoloInv /\ [Next]_vars =>
          \A u \in Uploads :
            file[u].status = "available" => file'[u].status \in {"available", "deleted"}
    BY SettledStays
  <1> QED BY <1>1, SoloHolds, InvariantHolds, LifeHolds, PTL DEF Spec, AvailableStays

-------------------------------------------------------------------------------
(***************************************************************************)
(* DocFlow implements FileLifecycle. A step changes what a client can see  *)
(* of one upload at most. For each action of the abstract life of a file:  *)
(* what it takes for a step to be one.                                     *)
(***************************************************************************)
Seen(u) == IF file[u].deleted THEN "deleted" ELSE file[u].status
Served(u) == IF Offered(u) THEN permObj[u] ELSE None

SameOrder(u) == Order(sess[u])' = Order(sess[u])
SameView(u) ==
  Seen(u)' = Seen(u) /\ SameOrder(u) /\ chunk'[u] = chunk[u] /\ Served(u)' = Served(u)

\* Nothing but the status of u and what is served of it changes.
Turns(u, status) ==
  /\ \A v \in Uploads : v # u => SameView(v)
  /\ SameOrder(u) /\ chunk'[u] = chunk[u]
  /\ Seen(u)' = status

LEMMA SameIsStutter ==
  ASSUME TypeOK, TypeOK', \A u \in Uploads : SameView(u)
  PROVE  UNCHANGED Lifecycle!vars
  <1>1. chunk' = chunk
    BY DEF SameView, TypeOK, StoreTypeOK
  <1> QED BY <1>1 DEF SameView, SameOrder, Seen, Served, Lifecycle!vars

LEMMA TurnIs ==
  ASSUME TypeOK, TypeOK', NEW u \in Uploads, NEW status, Turns(u, status)
  PROVE  /\ [v \in Uploads |-> Seen(v)]' = [[v \in Uploads |-> Seen(v)] EXCEPT ![u] = status]
         /\ [v \in Uploads |-> Order(sess[v])]' = [v \in Uploads |-> Order(sess[v])]
         /\ [v \in Uploads |-> Served(v)]' =
              [[v \in Uploads |-> Served(v)] EXCEPT ![u] = Served(u)']
         /\ chunk' = chunk
  <1>1. chunk' = chunk
    BY DEF Turns, SameView, TypeOK, StoreTypeOK
  <1>2. \A v \in Uploads : Order(sess[v])' = Order(sess[v])
    BY DEF Turns, SameView, SameOrder
  <1>3. \A v \in Uploads : Seen(v)' = IF v = u THEN status ELSE Seen(v)
    BY DEF Turns, SameView
  <1>4. \A v \in Uploads : v # u => Served(v)' = Served(v)
    BY DEF Turns, SameView
  <1> QED BY <1>1, <1>2, <1>3, <1>4

LEMMA StartIs ==
  ASSUME TypeOK, TypeOK', NEW u \in Uploads, Turns(u, "processing"), RowsValid(u),
         Seen(u) \in {"pending", "failed"} \/ (~Solo /\ Seen(u) = "available")
  PROVE  Lifecycle!Start(u)
  <1>1. Served(u)' = None
    BY DEF Turns, Seen, Served, Offered
  <1> QED BY <1>1, TurnIs DEF Lifecycle!Start, Seen, Served, Order, RowsValid

LEMMA FailIs ==
  ASSUME TypeOK, TypeOK', NEW u \in Uploads, Turns(u, "failed"),
         Seen(u) = "processing" \/ (~Solo /\ Seen(u) = "available")
  PROVE  Lifecycle!Fail(u)
  <1>1. Served(u)' = None
    BY DEF Turns, Seen, Served, Offered
  <1> QED BY <1>1, TurnIs DEF Lifecycle!Fail, Seen, Served

LEMMA DeleteIs ==
  ASSUME TypeOK, TypeOK', NEW u \in Uploads, Turns(u, "deleted"), Seen(u) \notin {"none", "deleted"}
  PROVE  Lifecycle!Delete(u)
  <1>1. Served(u)' = None
    BY DEF Turns, Seen, Served, Offered
  <1> QED BY <1>1, TurnIs DEF Lifecycle!Delete, Seen, Served

LEMMA OfferIs ==
  ASSUME TypeOK, TypeOK', NEW u \in Uploads, Turns(u, "available"), Seen(u) = "processing",
         Served(u)' = Assembled(chunk[u], sess[u].count)
  PROVE  Lifecycle!Offer(u)
  BY TurnIs DEF Lifecycle!Offer, Seen, Served, Order

(***************************************************************************)
(* What a step leaves alone.                                               *)
(***************************************************************************)
LEMMA ViewStays ==
  ASSUME IInv, [Next]_vars, NEW u \in Uploads, Seen(u)' = Seen(u), SameOrder(u),
         chunk'[u] = chunk[u]
  PROVE  SameView(u)
  <1>1. (Offered(u) <=> Seen(u) = "available") /\ (Offered(u)' <=> Seen(u)' = "available")
    BY DEF Offered, Seen
  <1>2. Offered(u) => permObj'[u] = permObj[u]
    BY StepPermanent DEF IInv, ObjectInv, Offered
  <1> QED BY <1>1, <1>2 DEF SameView, Served

LEMMA FiguresKept ==
  ASSUME NEW u \in Uploads, KeepsFigures(u)
  PROVE  SameOrder(u)
  BY DEF KeepsFigures, SameOrder, Order

\* The commits that move a file on, and only one.
Commits(u) ==
  \/ \E r \in Reqs : Flushes(r, u)
  \/ \E w \in Workers : Finalizes(w, u) \/ Marks(w, u)

LEMMA OthersKeepView ==
  ASSUME IInv, [Next]_vars, NEW u \in Uploads, NEW v \in Uploads, v # u,
         \/ Initializes(u) \/ Commits(u)
         \/ \E r \in Reqs : ChunkCommit(r) /\ req[r].u = u
  PROVE  SameView(v)
  <1>0. StoreTypeOK
    BY DEF IInv, TypeOK
  <1>1. CASE Initializes(u)
    <2>1. UNCHANGED <<file[v], sess[v], chunk>>
      BY <1>0, <1>1 DEF Initializes, InitializeUpload, StoreTypeOK
    <2> QED BY <2>1, ViewStays DEF Seen, SameOrder
  <1>2. ASSUME NEW r \in Reqs, Flushes(r, u) PROVE SameView(v)
    <2>1. UNCHANGED <<file[v], sess[v], chunk>>
      BY <1>0, <1>2 DEF Flushes, FlushCommit, StoreTypeOK
    <2> QED BY <2>1, ViewStays DEF Seen, SameOrder
  <1>3. ASSUME NEW w \in Workers, Finalizes(w, u) \/ Marks(w, u) PROVE SameView(v)
    <2>1. UNCHANGED <<file[v], sess[v], chunk>>
      BY <1>0, <1>3 DEF Finalizes, Marks, CommitFinal, MarkCommit, StoreTypeOK
    <2> QED BY <2>1, ViewStays DEF Seen, SameOrder
  <1>4. ASSUME NEW r \in Reqs, ChunkCommit(r), req[r].u = u PROVE SameView(v)
    <2>1. UNCHANGED <<file, sess[v], chunk[v]>>
      BY <1>0, <1>4 DEF ChunkCommit, StoreTypeOK
    <2> QED BY <2>1, ViewStays DEF Seen, SameOrder
  <1> QED BY <1>1, <1>2, <1>3, <1>4 DEF Commits

LEMMA CommitTurns ==
  ASSUME IInv, [Next]_vars, NEW u \in Uploads, Commits(u), NEW status, Seen(u)' = status
  PROVE  Turns(u, status)
  <1>0. TypeOK
    BY DEF IInv
  <1>1. chunk' = chunk
    BY DEF Commits, Flushes, FlushCommit, Finalizes, CommitFinal, Marks, MarkCommit
  <1>2. KeepsFigures(u)
    BY <1>0, SessEffects DEF Commits, Flushes, Finalizes, Marks
  <1> QED BY <1>1, <1>2, OthersKeepView, FiguresKept DEF Turns

LEMMA CommitIs ==
  ASSUME TypeOK', IInv, LifeInv, Solo => SoloInv, [Next]_vars, NEW u \in Uploads, Commits(u)
  PROVE  [Lifecycle!Next]_(Lifecycle!vars)
  <1>0. /\ TypeOK /\ ShapeInv /\ StartedInv
        /\ \A status : Seen(u)' = status => Turns(u, status)
    BY CommitTurns DEF IInv
  <1>1. CASE Seen(u)' = Seen(u)
    <2>0. Turns(u, Seen(u))
      BY <1>0, <1>1
    <2>1. SameView(u)
      BY <1>1, <2>0, ViewStays DEF Turns
    <2>2. \A v \in Uploads : SameView(v)
      BY <2>0, <2>1 DEF Turns
    <2> QED BY <1>0, <2>2, SameIsStutter
  <1>2. ASSUME NEW r \in Reqs, Flushes(r, u), Seen(u)' # Seen(u)
        PROVE  [Lifecycle!Next]_(Lifecycle!vars)
    <2>0. /\ req[r].u = u /\ req[r].pc = "flushS" /\ ReqShape(r)
          /\ file[u].status \in FileStatus \ {"none"}
          /\ ~file[u].deleted => file[u].status # "deleted"
      BY <1>0, <1>2, FileEffects, Begun
         DEF Flushes, ShapeInv, TypeOK, StoreTypeOK, FileRow, LifeInv
    <2>1. CASE req[r].op \in {"complete", "retry"}
      <3>1. ~file[u].deleted /\ file'[u].status = "processing" /\ ~file'[u].deleted
        BY <1>0, <1>2, <2>1, FlushIs DEF Seen, FileTarget
      <3>2. RowsValid(u)
        BY <2>0, <2>1 DEF IInv, WholeInv, Finalizing
      <3>3. Solo => file[u].status \in {"pending", "failed"}
        BY <1>2, <2>1, SoloFlush
      <3>4. file[u].status \in {"pending", "failed", "available"}
        BY <1>2, <2>0, <3>1 DEF Seen, FileStatus
      <3>5. Turns(u, "processing")
        BY <1>0, <3>1 DEF Seen
      <3>6. Lifecycle!Start(u)
        BY <1>0, <3>1, <3>2, <3>3, <3>4, <3>5, StartIs DEF Seen
      <3> QED BY <3>6 DEF Lifecycle!Next
    <2>2. CASE req[r].op = "delete"
      <3>1. ~file[u].deleted /\ file'[u].deleted
        BY <1>0, <1>2, <2>0, <2>2, FlushIs DEF IInv, DeleteInv, ReqDeletes
      <3>2. Turns(u, "deleted")
        BY <1>0, <3>1 DEF Seen
      <3>3. Lifecycle!Delete(u)
        BY <1>0, <2>0, <3>1, <3>2, DeleteIs DEF Seen
      <3> QED BY <3>3 DEF Lifecycle!Next
    <2>3. CASE req[r].op = "queue_error"
      <3>1. ~file[u].deleted /\ file'[u].status = "failed" /\ ~file'[u].deleted
        BY <1>0, <1>2, <2>3, FlushIs DEF Seen, FileTarget
      <3>2. file[u].status # "pending"
        BY <2>0, <2>3 DEF LifeInv, ReqLife, Accepted
      <3>3. Solo => file[u].status = "processing"
        BY <1>2, <2>3, SoloFlush
      <3>4. Turns(u, "failed")
        BY <1>0, <3>1 DEF Seen
      <3>5. Lifecycle!Fail(u)
        BY <1>0, <1>2, <2>0, <3>1, <3>2, <3>3, <3>4, FailIs DEF Seen, FileStatus
      <3> QED BY <3>5 DEF Lifecycle!Next
    <2> QED BY <2>0, <2>1, <2>2, <2>3 DEF ReqShape
  <1>3. ASSUME NEW w \in Workers, Finalizes(w, u), Seen(u)' # Seen(u)
        PROVE  [Lifecycle!Next]_(Lifecycle!vars)
    <2>1. wk[w].pc = "commit" /\ wk[w].u = u /\ file'[u].status = "available"
          /\ file'[u].deleted = file[u].deleted
      BY <1>0, <1>3, FileEffects DEF Finalizes
    <2>2. ~file[u].deleted /\ file[u].status = "processing"
      BY <2>1 DEF IInv, DeleteInv, WorkerDeletes, LifeInv, WorkerLife
    <2>3. permObj'[u] = Assembled(chunk[u], sess[u].count)
      <3>1. permObj' = permObj
        BY <1>3 DEF Finalizes, CommitFinal, objVars
      <3> QED BY <2>1, <3>1 DEF IInv, ObjectInv
    <2>4. Turns(u, "available") /\ Served(u)' = Assembled(chunk[u], sess[u].count)
      BY <1>0, <2>1, <2>2, <2>3 DEF Seen, Served, Offered
    <2>5. Lifecycle!Offer(u)
      BY <1>0, <2>2, <2>4, OfferIs DEF Seen
    <2> QED BY <2>5 DEF Lifecycle!Next
  <1>4. ASSUME NEW w \in Workers, Marks(w, u), Seen(u)' # Seen(u)
        PROVE  [Lifecycle!Next]_(Lifecycle!vars)
    <2>1. /\ wk[w].pc = "flushS" /\ wk[w].u = u
          /\ ~file[u].deleted /\ file'[u].status = "failed" /\ ~file'[u].deleted
      BY <1>0, <1>4, FileEffects DEF Seen, Marks
    <2>2. file[u].status \in {"processing", "available"}
      <3>1. file[u].status \in FileStatus
        BY <1>0 DEF TypeOK, StoreTypeOK, FileRow
      <3>2. file[u].status \notin {"none", "pending", "deleted"}
        BY <2>1 DEF LifeInv, WorkerLife, Accepted
      <3> QED BY <1>4, <2>1, <3>1, <3>2 DEF Seen, FileStatus
    <2>3. Solo => file[u].status \in {"processing", "deleted"}
      BY <1>4, SoloTask
    <2>4. Turns(u, "failed")
      BY <1>0, <2>1 DEF Seen
    <2>5. Lifecycle!Fail(u)
      BY <1>0, <2>1, <2>2, <2>3, <2>4, FailIs DEF Seen
    <2> QED BY <2>5 DEF Lifecycle!Next
  <1> QED BY <1>1, <1>2, <1>3, <1>4 DEF Commits

LEMMA InitializeIs ==
  ASSUME TypeOK', IInv, [Next]_vars, NEW u \in Uploads, Initializes(u)
  PROVE  Lifecycle!Announce(u)
  <1>0. TypeOK /\ StoreTypeOK /\ file[u] = NoFileRow
    BY FileEffects DEF IInv, StartedInv, TypeOK
  <1>1. PICK p \in InitRequests : InitializeUpload(u, p)
    BY DEF Initializes
  <1>2. /\ file'[u].status = "pending" /\ ~file'[u].deleted
        /\ sess'[u].count = p.count /\ sess'[u].size = p.size
        /\ chunk' = chunk
    BY <1>0, <1>1 DEF InitializeUpload, StoreTypeOK, NoFileRow, FileRow
  <1>3. \A v \in Uploads : v # u => SameView(v)
    BY OthersKeepView
  <1>4. [v \in Uploads |-> Seen(v)]' = [[v \in Uploads |-> Seen(v)] EXCEPT ![u] = "pending"]
    BY <1>2, <1>3 DEF Seen, SameView
  <1>5. [v \in Uploads |-> Order(sess[v])]' = [[v \in Uploads |-> Order(sess[v])] EXCEPT ![u] = Order(p)]
    BY <1>2, <1>3 DEF Order, SameView, SameOrder
  <1>6. [v \in Uploads |-> Served(v)]' = [v \in Uploads |-> Served(v)]
    BY <1>0, <1>2, <1>3 DEF Served, Offered, SameView, NoFileRow
  <1>7. Seen(u) = "none" /\ Order(p) \in {Order(q) : q \in InitRequests}
    BY <1>0 DEF Seen, NoFileRow
  <1> QED BY <1>2, <1>4, <1>5, <1>6, <1>7 DEF Lifecycle!Announce, Seen, Served

LEMMA ReceiveIs ==
  ASSUME TypeOK', IInv, [Next]_vars, NEW u \in Uploads, NEW r \in Reqs, ChunkCommit(r), req[r].u = u
  PROVE  Lifecycle!Receive(u)
  <1>0. TypeOK /\ StoreTypeOK /\ StartedInv /\ ShapeInv
    BY DEF IInv, TypeOK
  <1>1. /\ req[r].pc = "stored" /\ req[r].i \in Expected(u) /\ req[r].c \in Payloads
        /\ chunk[u][req[r].i] = None
    BY <1>0, CommittedIs DEF IInv, ChunkInv, ReqChunks
  <1>2. req[r].i \in Index
    BY <1>0, <1>1, CountAssumption DEF StoreTypeOK, SessRow, Expected, Index
  <1>3. chunk' = [chunk EXCEPT ![u][req[r].i] = req[r].c] /\ file' = file
    BY DEF ChunkCommit
  <1>4. Seen(u) \in {"pending", "deleted"}
    <2>1. ~RowsValid(u)
      BY <1>0, <1>1, WholeRows
    <2>2. file[u].status \in {"pending", "deleted"}
      BY <1>0, <2>1, Begun DEF IInv, WholeInv, StoreTypeOK, FileRow, FileStatus
    <2> QED BY <2>2 DEF Seen
  <1>5. SameOrder(u) /\ Seen(u)' = Seen(u) /\ Served(u)' = Served(u)
    <2>1. KeepsFigures(u)
      BY <1>0, SessEffects
    <2> QED BY <1>3, <1>4, <2>1, FiguresKept DEF Seen, Served, Offered
  <1>6. \A v \in Uploads : SameOrder(v) /\ Seen(v)' = Seen(v) /\ Served(v)' = Served(v)
    BY <1>5, OthersKeepView DEF SameView
  <1>7. /\ [v \in Uploads |-> Seen(v)]' = [v \in Uploads |-> Seen(v)]
        /\ [v \in Uploads |-> Order(sess[v])]' = [v \in Uploads |-> Order(sess[v])]
        /\ [v \in Uploads |-> Served(v)]' = [v \in Uploads |-> Served(v)]
    BY <1>6 DEF SameOrder
  <1> QED BY <1>1, <1>2, <1>3, <1>4, <1>7 DEF Lifecycle!Receive, Seen, Served

LEMMA StepRefines ==
  ASSUME TypeOK', IInv, LifeInv, Solo => SoloInv, [Next]_vars
  PROVE  [Lifecycle!Next]_(Lifecycle!vars)
  <1>0. TypeOK /\ ShapeInv
    BY DEF IInv
  <1>1. ASSUME NEW u \in Uploads, Initializes(u) PROVE [Lifecycle!Next]_(Lifecycle!vars)
    BY <1>1, InitializeIs DEF Lifecycle!Next
  <1>2. ASSUME NEW u \in Uploads, Commits(u) PROVE [Lifecycle!Next]_(Lifecycle!vars)
    BY <1>2, CommitIs
  <1>3. ASSUME NEW r \in Reqs, ChunkCommit(r) PROVE [Lifecycle!Next]_(Lifecycle!vars)
    <2>1. req[r].u \in Uploads
      BY <1>0, <1>3 DEF TypeOK, ReqTypeOK, ReqRow, ShapeInv, ReqShape, ChunkCommit, At
    <2> QED BY <1>3, <2>1, ReceiveIs DEF Lifecycle!Next
  <1>4. CASE /\ \A u \in Uploads : ~Initializes(u) /\ ~Commits(u)
             /\ \A r \in Reqs : ~ChunkCommit(r)
    <2>1. ASSUME NEW u \in Uploads PROVE SameView(u)
      <3>1. file'[u] = file[u] /\ chunk'[u] = chunk[u]
        BY <1>0, <1>4, UploadWriters DEF Commits
      <3>2. KeepsFigures(u)
        BY <1>0, <1>4, UploadWriters, SessEffects DEF Commits, KeepsFigures
      <3> QED BY <3>1, <3>2, ViewStays, FiguresKept DEF Seen
    <2> QED BY <1>0, <2>1, SameIsStutter
  <1> QED BY <1>1, <1>2, <1>3, <1>4

LEMMA InitRefines == Init => Lifecycle!Init
  BY DEF Lifecycle!Init, Init, StoreInit, Offered, NoFileRow, NoSessRow

\* Every step of every handler, worker and fault is a step of the abstract life of
\* a file, or none: chunks are received once each, only a complete set of them is
\* finalized, what is offered is the chunks in order, and a deleted file is gone
\* for good. Served one request at a time, without duplicated messages, what is
\* AVAILABLE stays so until it is deleted.
THEOREM ImplementsFileLifecycle == Spec => ImplementsLifecycle
  <1>1. IInv => TypeOK
    BY DEF IInv
  <1>2. Spec => [](Solo => SoloInv)
    <2>1. CASE Solo
      BY <2>1, SoloHolds, PTL
    <2>2. CASE ~Solo
      BY <2>2, PTL
    <2> QED BY <2>1, <2>2
  <1>3. IInv /\ IInv' /\ LifeInv /\ (Solo => SoloInv) /\ [Next]_vars =>
          [Lifecycle!Next]_(Lifecycle!vars)
    BY <1>1, StepRefines DEF IInv
  <1> QED BY <1>2, <1>3, InitRefines, InvariantHolds, LifeHolds, PTL
          DEF Spec, ImplementsLifecycle, Lifecycle!Spec

-------------------------------------------------------------------------------
(***************************************************************************)
(* A poll reads the file before the session. What it has read of the file  *)
(* still limits what the session can be when it gets there.                *)
(***************************************************************************)
\* Finalized, and with nothing left that could finalize it again.
Resting(u) ==
  /\ file[u].status \in {"available", "deleted"}
  /\ sess[u].status \in {"completed", "expired"}
  /\ ~AtWorkers(u)

LEMMA StepResting ==
  ASSUME Solo, IInv, LifeInv, SoloInv, [Next]_vars, NEW u \in Uploads, Resting(u)
  PROVE  Resting(u)'
  <1>0. /\ TypeOK /\ ShapeInv /\ StartedInv
        /\ file[u].status = "deleted" => file[u].deleted
    BY DEF IInv, LifeInv
  <1>1. ~AtWorkers(u)'
    BY <1>0, WorkFrom, SendsOnce DEF Resting
  <1>2. ~Initializes(u) /\ \A w \in Workers : ~Finalizes(w, u) /\ ~Marks(w, u)
    BY <1>0, FileEffects, SoloTask DEF Resting, AtWorkers
  <1>3. ASSUME NEW r \in Reqs, Flushes(r, u)
        PROVE  file'[u].status = "deleted" /\ sess'[u].status = sess[u].status
    <2>1. req[r].op = "delete" /\ file'[u].status = "deleted"
      BY <1>0, <1>3, SoloFlush DEF Resting
    <2>2. req[r].pc = "flushS" /\ req[r].ss = sess[u].status
      BY <1>0, <1>3, <2>1, FileEffects DEF SoloInv, ReqSolo, Flushes
    <2>3. ~WritesSess(r)
      BY <2>1, <2>2 DEF WritesSess, ActiveStatus, Resting
    <2> QED BY <1>0, <1>3, <2>1, <2>3, CommitsAre
  <1>4. ASSUME NEW r \in Reqs, ExpireCommit(r) \/ ChunkCommit(r), req[r].u = u
        PROVE  file' = file /\ sess'[u].status \in {"completed", "expired"}
    <2>1. ~ChunkCommit(r)
      BY <1>4 DEF ChunkCommit, At, SoloInv, ReqSolo, Resting
    <2>2. ExpireCommit(r)
      BY <1>4, <2>1
    <2>3. sess'[u].status = "expired"
      BY <1>0, <1>4, <2>2, SessEffects
    <2> QED BY <2>2, <2>3 DEF ExpireCommit
  <1>5. file'[u].status \in {"available", "deleted"}
    BY <1>0, <1>2, <1>3, UploadWriters DEF Resting
  <1>6. sess'[u].status \in {"completed", "expired"}
    BY <1>0, <1>2, <1>3, <1>4, UploadWriters DEF Resting
  <1> QED BY <1>1, <1>5, <1>6 DEF Resting

PollSees ==
  /\ poll.at \in {1, 2, 3} => poll.u \in Uploads
  /\ poll.at = 1 =>
       /\ poll.fs = "available" => Resting(poll.u)
       /\ poll.fs \in {"processing", "failed"} => Accepted(poll.u)
       /\ poll.gone => file[poll.u].deleted
  /\ poll.at \in {2, 3} =>
       /\ poll.fs = "available" => poll.ss \in {"completed", "expired"}
       /\ poll.fs \in {"processing", "failed"} =>
            poll.ss \notin {"initiated", "uploading", "ready_to_complete"}
       /\ poll.gone => poll.ss \notin ActiveStatus

LEMMA StepPollSees ==
  ASSUME Solo, IInv, LifeInv, SoloInv, QueryTypeOK, PollSees, [QueryNext]_<<vars, queryVars>>
  PROVE  PollSees'
  <1>0. TypeOK /\ ShapeInv
    BY DEF IInv
  <1>1. CASE [Next]_vars /\ UNCHANGED poll
    <2>1. ASSUME NEW u \in Uploads, poll.u = u, poll.at = 1 PROVE PollSees'
      <3>1. /\ Resting(u) => Resting(u)'
            /\ Accepted(u) => Accepted(u)'
            /\ file[u].deleted => file'[u].deleted
        BY <1>0, <1>1, StepResting, AcceptedStays, SettledStays
      <3> QED BY <1>1, <2>1, <3>1 DEF PollSees, Resting, AtWorkers, WorkerToken, Accepted
    <2> QED BY <1>1, <2>1 DEF PollSees
  <1>2. CASE UNCHANGED <<vars, poll>>
    <2>1. UNCHANGED <<file, sess, finq, wk, poll>>
      BY <1>2 DEF vars, storeVars, rowVars, queueVars
    <2> QED BY <2>1 DEF PollSees, Resting, AtWorkers, WorkerToken, Accepted
  <1>3. ASSUME NEW u \in Uploads, GetFileStatus(u), UNCHANGED vars PROVE PollSees'
    <2>0. poll \in PollRow /\ UNCHANGED <<file, sess, finq, wk>>
      BY <1>3 DEF QueryTypeOK, vars, storeVars, rowVars, queueVars
    <2>1. CASE poll.at \in {0, 3}
      <3>1. /\ poll'.at = 1 /\ poll'.u = u
            /\ poll'.fs = file[u].status /\ poll'.gone = file[u].deleted
        <4> DEFINE p == [NoPoll EXCEPT !.u = u]
        <4>1. p \in PollRow /\ p.at = 0 /\ p.u = u
          BY FirstIs
        <4>2. poll' = ReadNext(p)
          BY <1>3, <2>1 DEF GetFileStatus
        <4>3. poll' = [p EXCEPT !.at = 1, !.fs = file[u].status, !.gone = file[u].deleted]
          BY <4>1, <4>2, ReadIs
        <4> QED BY <4>1, <4>3 DEF PollRow
      <3>2. /\ file[u].status = "available" => Resting(u)
            /\ file[u].status \in {"processing", "failed"} => Accepted(u)
        BY MatchIs DEF SoloInv, OneFinalization, Resting, Accepted
      <3>3. /\ file[u].status = "available" => Resting(u)'
            /\ file[u].status \in {"processing", "failed"} => Accepted(u)'
        BY <2>0, <3>2 DEF Resting, AtWorkers, WorkerToken, Accepted
      <3> QED BY <2>0, <3>1, <3>3 DEF PollSees, Resting, AtWorkers, WorkerToken, Accepted
    <2>2. CASE poll.at = 1
      <3>1. /\ poll'.at = 2 /\ poll'.u = u /\ poll'.ss = sess[u].status
            /\ poll'.fs = poll.fs /\ poll'.gone = poll.gone /\ poll.u = u
        <4>1. poll.u = u /\ poll' = ReadNext(poll)
          BY <1>3, <2>2 DEF GetFileStatus
        <4> QED BY <2>0, <2>2, <4>1, ReadIs DEF PollRow
      <3>2. /\ Accepted(u) => sess[u].status \notin {"initiated", "uploading", "ready_to_complete"}
            /\ file[u].deleted => sess[u].status \notin ActiveStatus
        BY MatchIs DEF Accepted, ActiveStatus
      <3> QED BY <2>2, <3>1, <3>2 DEF PollSees, Resting
    <2>3. CASE poll.at = 2
      <3>1. /\ poll'.at = 3 /\ poll'.u = u /\ poll'.ss = poll.ss
            /\ poll'.fs = poll.fs /\ poll'.gone = poll.gone
        <4>1. poll.u = u /\ poll' = ReadNext(poll)
          BY <1>3, <2>3 DEF GetFileStatus
        <4> QED BY <2>0, <2>3, <4>1, ReadIs DEF PollRow
      <3> QED BY <2>3, <3>1 DEF PollSees
    <2> QED BY <2>0, <2>1, <2>2, <2>3 DEF PollRow
  <1>4. ASSUME Query, UNCHANGED vars
        PROVE  poll' = poll \/ \E u \in Uploads : GetFileStatus(u)
    BY <1>4 DEF Query, ListFiles, GetFileMetadata, CreateDownloadLink
  <1> QED BY <1>1, <1>2, <1>3, <1>4 DEF QueryNext, queryVars

\* Served one request at a time, an answer to a poll is put together from three
\* moments and still tells one story: its session is never behind its file.
THEOREM PollsTellOneStory ==
  ASSUME Solo
  PROVE  QuerySpec => []PollsAgree
  <1>1. QueryInit => PollSees
    BY DEF QueryInit, NoPoll, PollSees
  <1>2. PollSees => PollsAgree
    BY DEF PollSees, PollsAgree
  <1> QED BY <1>1, <1>2, StepPollSees, QueriesOnlyRead, InvariantHolds, LifeHolds, SoloHolds,
             QueriesTyped, PTL DEF QuerySpec
===============================================================================
