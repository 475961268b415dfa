---------------------------- MODULE DocFlowContent -----------------------------
(***************************************************************************)
(* Chunks, rows and objects: what is recorded is what was sent, only whole *)
(* uploads are finalized, and what is offered is the chunks in order.      *)
(***************************************************************************)
EXTENDS DocFlowLocks, FiniteSetTheorems

(***************************************************************************)
(* Which actions write which variable. The parts of the invariant that say *)
(* something of a variable are then shown for its writers only.            *)
(***************************************************************************)
Initializes(u) == \E p \in InitRequests : InitializeUpload(u, p) /\ UNCHANGED wk

LEMMA Writers ==
  ASSUME [Next]_vars
  PROVE  /\ \/ file' = file
            \/ \E u \in Uploads : Initializes(u)
            \/ \E r \in Reqs : FlushCommit(r) /\ UNCHANGED wk
            \/ \E w \in Workers : (CommitFinal(w) \/ MarkCommit(w)) /\ UNCHANGED req
         /\ \/ sess' = sess
            \/ \E u \in Uploads : Initializes(u)
            \/ \E r \in Reqs : /\ ExpireCommit(r) \/ ChunkCommit(r) \/ FlushCommit(r)
                               /\ UNCHANGED wk
            \/ \E w \in Workers : (CommitFinal(w) \/ MarkCommit(w)) /\ UNCHANGED req
         /\ \/ chunk' = chunk
            \/ \E r \in Reqs : ChunkCommit(r) /\ UNCHANGED wk
         /\ \/ chunkObj' = chunkObj
            \/ \E r \in Reqs : ChunkStore(r) /\ UNCHANGED wk
            \/ \E w \in Workers : RemoveChunks(w) /\ UNCHANGED req
            \/ \E w \in Workers, u \in Uploads : Cleanup(w, u) /\ UNCHANGED req
         /\ \/ permObj' = permObj
            \/ \E w \in Workers : Assemble(w) /\ UNCHANGED req
            \/ \E w \in Workers, u \in Uploads : Cleanup(w, u) /\ UNCHANGED req
         /\ \/ finq' = finq
            \/ \E r \in Reqs : (Publish(r) \/ PublishError(r)) /\ UNCHANGED wk
            \/ \E w \in Workers, u \in Uploads : TakeFinalize(w, u) /\ UNCHANGED req
         /\ \/ cleanq' = cleanq
            \/ \E r \in Reqs : QueueCleanup(r) /\ UNCHANGED wk
            \/ \E w \in Workers, u \in Uploads : Cleanup(w, u) /\ UNCHANGED req
  <1> USE DEF storeVars, rowVars, objVars, queueVars
  <1>1. ASSUME NEW u \in Uploads, NEW p \in InitRequests, InitializeUpload(u, p), UNCHANGED wk
        PROVE  /\ Initializes(u)
               /\ UNCHANGED <<chunk, objVars, queueVars>>
    BY <1>1 DEF InitializeUpload, Initializes
  <1>2. ASSUME NEW u \in Uploads, Expire(u) PROVE UNCHANGED <<rowVars, objVars, queueVars>>
    BY <1>2 DEF Expire, SessionTimeout
  <1>3. ASSUME NEW r \in Reqs, Request(r) PROVE UNCHANGED <<rowVars, objVars, queueVars>>
    BY <1>3 DEF Request, ChunkBegin, FindExpired, CompleteBegin, RetryBegin, SoftDelete
  <1>4. ASSUME NEW r \in Reqs, Handle(r) \/ Abort(r)
        PROVE  /\ file' = file \/ FlushCommit(r)
               /\ sess' = sess \/ ExpireCommit(r) \/ ChunkCommit(r) \/ FlushCommit(r)
               /\ chunk' = chunk \/ ChunkCommit(r)
               /\ chunkObj' = chunkObj \/ ChunkStore(r)
               /\ permObj' = permObj
               /\ finq' = finq \/ Publish(r) \/ PublishError(r)
               /\ cleanq' = cleanq \/ QueueCleanup(r)
    <2>1. CASE ChunkStore(r) \/ ChunkReject(r) \/ ChunkCommit(r) \/ ExpireCommit(r)
      BY <2>1 DEF ChunkStore, ChunkReject, ChunkCommit, ExpireCommit
    <2>2. CASE CompleteCheck(r) \/ RetryCheck(r) \/ FlushFile(r) \/ FlushCommit(r)
      BY <2>2 DEF CompleteCheck, RetryCheck, FlushFile, FlushCommit
    <2>3. CASE Publish(r) \/ PublishError(r) \/ TagTask(r) \/ MarkQueueError(r) \/ QueueCleanup(r)
      BY <2>3 DEF Publish, PublishError, TagTask, MarkQueueError, QueueCleanup
    <2>4. CASE Abort(r)
      BY <2>4 DEF Abort
    <2> QED BY <1>4, <2>1, <2>2, <2>3, <2>4 DEF Handle
  <1>5. ASSUME NEW w \in Workers, Work(w) \/ TaskError(w) \/ WorkerCrash(w)
        PROVE  /\ file' = file \/ CommitFinal(w) \/ MarkCommit(w)
               /\ sess' = sess \/ CommitFinal(w) \/ MarkCommit(w)
               /\ chunk' = chunk
               /\ chunkObj' = chunkObj \/ RemoveChunks(w) \/ \E u \in Uploads : Cleanup(w, u)
               /\ permObj' = permObj \/ Assemble(w) \/ \E u \in Uploads : Cleanup(w, u)
               /\ finq' = finq \/ \E u \in Uploads : TakeFinalize(w, u)
               /\ cleanq' = cleanq \/ \E u \in Uploads : Cleanup(w, u)
    <2>1. ASSUME NEW u \in Uploads, TakeFinalize(w, u) \/ Cleanup(w, u)
          PROVE  /\ UNCHANGED rowVars
                 /\ UNCHANGED <<objVars, cleanq>> \/ Cleanup(w, u)
                 /\ finq' = finq \/ TakeFinalize(w, u)
      BY <2>1 DEF TakeFinalize, Cleanup
    <2>2. CASE LockSession(w) \/ LockFile(w) \/ Assemble(w) \/ AssembleFail(w)
      BY <2>2 DEF LockSession, LockFile, Assemble, AssembleFail
    <2>3. CASE CommitFinal(w) \/ RemoveChunks(w)
      BY <2>3 DEF CommitFinal, RemoveChunks
    <2>4. CASE MarkLoadSession(w) \/ MarkLoadFile(w) \/ MarkFlushFile(w) \/ MarkCommit(w)
      BY <2>4 DEF MarkLoadSession, MarkLoadFile, MarkFlushFile, MarkCommit
    <2>5. CASE TaskError(w) \/ WorkerCrash(w)
      BY <2>5 DEF TaskError, WorkerCrash
    <2> QED BY <1>5, <2>1, <2>2, <2>3, <2>4, <2>5 DEF Work
  <1>6. ASSUME NEW w \in Workers, ResolveDeadlock(w) PROVE UNCHANGED <<rowVars, objVars, queueVars>>
    BY <1>6 DEF ResolveDeadlock, TaskIsVictim, HandlerIsVictim, MarkerIsVictim
  <1>7. CASE UNCHANGED vars
    BY <1>7 DEF vars
  <1>8. CASE \E r \in Reqs : (Request(r) \/ Handle(r) \/ Abort(r)) /\ UNCHANGED wk
    <2>1. PICK r \in Reqs : (Request(r) \/ Handle(r) \/ Abort(r)) /\ UNCHANGED wk
      BY <1>8
    <2>2. CASE Request(r)
      BY <1>3, <2>2
    <2>3. CASE Handle(r) \/ Abort(r)
      BY <1>4, <2>1, <2>3
    <2> QED BY <2>1, <2>2, <2>3
  <1>9. CASE \E w \in Workers : (Work(w) \/ TaskError(w) \/ WorkerCrash(w)) /\ UNCHANGED req
    <2>1. PICK w \in Workers : (Work(w) \/ TaskError(w) \/ WorkerCrash(w)) /\ UNCHANGED req
      BY <1>9
    <2> QED BY <1>5, <2>1
  <1> QED BY <1>1, <1>2, <1>6, <1>7, <1>8, <1>9 DEF Next

(***************************************************************************)
(* How a process moves on.                                                 *)
(***************************************************************************)
\* r goes on with the upload it has, receives no chunk, and finalizes only what
\* it has found whole.
GoesOn(r) ==
  /\ req[r].pc # "idle" /\ req'[r].u = req[r].u
  /\ req'[r].pc \notin {"idle", "reading", "stored"}
  /\ Finalizing(r)' => Finalizing(r) \/ RowsValid(req[r].u)

WorksOn(w) ==
  /\ wk[w].pc # "idle" /\ wk'[w].u = wk[w].u
  /\ wk'[w].pc \notin {"idle", "commit"}

LEMMA HandleMoves ==
  ASSUME TypeOK, ShapeInv, NEW r \in Reqs, Handle(r)
  PROVE  req'[r] = Idle \/ ChunkStore(r) \/ GoesOn(r)
  <1>0. ReqTypeOK /\ req \in [Reqs -> ReqRow]
    BY DEF TypeOK, ReqTypeOK
  <1>f. Finish(r) => req'[r] = Idle
    BY <1>0, FinishIs
  <1>1. CASE ChunkReject(r) \/ ChunkCommit(r) \/ ExpireCommit(r) \/ TagTask(r) \/ QueueCleanup(r)
    BY <1>f, <1>1 DEF ChunkReject, ChunkCommit, ExpireCommit, TagTask, QueueCleanup
  <1>2. CASE CompleteCheck(r)
    <2>1. ASSUME Enter(r, "expire", "complete") PROVE GoesOn(r)
      BY <1>0, <1>2, <2>1, EnterIs DEF CompleteCheck, At, GoesOn, Finalizing
    <2>2. ASSUME RowsValid(req[r].u),
                 req' = [req EXCEPT ![r].pc = "flushF", ![r].fs = file[req[r].u].status]
          PROVE  GoesOn(r)
      BY <1>0, <1>2, <2>2 DEF CompleteCheck, At, GoesOn
    <2> QED BY <1>f, <1>2, <2>1, <2>2 DEF CompleteCheck
  <1>3. CASE RetryCheck(r)
    <2>1. ASSUME RowsValid(req[r].u),
                 req' = [req EXCEPT ![r].pc = "flushF", ![r].ss = sess[req[r].u].status]
          PROVE  GoesOn(r)
      BY <1>0, <1>3, <2>1 DEF RetryCheck, At, GoesOn
    <2> QED BY <1>f, <1>3, <2>1 DEF RetryCheck
  <1>4. CASE FlushFile(r)
    <2>1. req'[r] = [req[r] EXCEPT !.pc = "flushS"] /\ req[r].pc = "flushF"
      BY <1>0, <1>4 DEF FlushFile, Goto, At
    <2>2. req'[r].pc = "flushS" /\ req'[r].op = req[r].op /\ req'[r].u = req[r].u
      BY <1>0, <2>1
    <2> QED BY <2>1, <2>2 DEF GoesOn, Finalizing
  <1>5. CASE FlushCommit(r)
    <2>1. req[r].pc = "flushS"
      BY <1>5 DEF FlushCommit, At
    <2>2. ASSUME req[r].op \in {"complete", "retry"} PROVE GoesOn(r)
      BY <1>0, <1>5, <2>1, <2>2, EnterIs DEF FlushCommit, GoesOn, Finalizing
    <2>3. ASSUME req[r].op = "delete" PROVE GoesOn(r)
      <3>1. req'[r].pc = "cleanup" /\ req'[r].u = req[r].u
        BY <1>0, <1>5, <2>3, EnterIs DEF FlushCommit
      <3> QED BY <2>1, <3>1 DEF GoesOn, Finalizing
    <2> QED BY <1>f, <1>5, <2>2, <2>3 DEF FlushCommit
  <1>6. CASE Publish(r) \/ PublishError(r) \/ MarkQueueError(r)
    <2>1. req'[r].u = req[r].u /\ req'[r].pc \in {"tag", "failed", "flushF"}
      BY <1>0, <1>6 DEF Publish, PublishError, MarkQueueError, Goto, ReqRow
    <2>2. req[r].pc \in {"publish", "failed"}
      BY <1>6 DEF Publish, PublishError, MarkQueueError, At
    <2> QED BY <2>1, <2>2 DEF GoesOn, Finalizing
  <1> QED BY <1>1, <1>2, <1>3, <1>4, <1>5, <1>6 DEF Handle

LEMMA ReqMoves ==
  ASSUME TypeOK, ShapeInv, [Next]_vars, NEW r \in Reqs
  PROVE  \/ req'[r] = req[r]
         \/ req'[r] = Idle
         \/ Request(r) /\ UNCHANGED wk
         \/ ChunkStore(r) /\ UNCHANGED wk
         \/ GoesOn(r)
  <1>0. ReqTypeOK /\ req \in [Reqs -> ReqRow]
    BY DEF TypeOK, ReqTypeOK
  <1>1. ASSUME NEW q \in Reqs, Request(q) \/ Handle(q) \/ Abort(q), UNCHANGED wk, q # r
        PROVE  req'[r] = req[r]
    BY <1>0, <1>1, RequestLocal
  <1>2. ASSUME Abort(r) PROVE req'[r] = Idle
    BY <1>0, <1>2, FinishIs DEF Abort
  <1>3. ASSUME NEW w \in Workers, ResolveDeadlock(w) PROVE req'[r] = req[r] \/ req'[r] = Idle
    BY <1>0, <1>3 DEF ResolveDeadlock, TaskIsVictim, HandlerIsVictim, MarkerIsVictim, Finish
  <1>4. ASSUME NEW u \in Uploads, Expire(u) \/ Initializes(u) PROVE req' = req
    BY <1>4 DEF Expire, Initializes, InitializeUpload
  <1>5. CASE UNCHANGED vars
    BY <1>5 DEF vars
  <1> QED BY <1>1, <1>2, <1>3, <1>4, <1>5, HandleMoves DEF Next, Initializes

LEMMA WorkerMoves ==
  ASSUME TypeOK, ShapeInv, [Next]_vars, NEW w \in Workers
  PROVE  \/ wk'[w] = wk[w]
         \/ wk'[w] = Asleep
         \/ \E u \in Uploads : TakeFinalize(w, u) /\ UNCHANGED req
         \/ Assemble(w) /\ UNCHANGED req
         \/ WorksOn(w)
  <1>0. WorkerTypeOK /\ wk \in [Workers -> WorkerRow]
    BY DEF TypeOK, WorkerTypeOK
  <1>s. Sleep(w) => wk'[w] = Asleep
    BY <1>0, SleepIs
  <1>r. wk[w].pc # "idle" /\ RollbackAndMark(w) => WorksOn(w)
    BY <1>0, RollbackIs DEF WorksOn
  <1>1. ASSUME NEW v \in Workers, Work(v) \/ TaskError(v) \/ WorkerCrash(v), v # w
        PROVE  wk'[w] = wk[w]
    BY <1>0, <1>1, WorkerLocal
  <1>2. CASE LockSession(w) \/ MarkFlushFile(w)
    <2>1. wk'[w].u = wk[w].u /\ wk'[w].pc \in {"lockF", "flushS"}
      BY <1>0, <1>2 DEF LockSession, MarkFlushFile, Step, WorkerRow
    <2> QED BY <1>2, <2>1 DEF LockSession, MarkFlushFile, Doing, WorksOn
  <1>3. CASE LockFile(w)
    <2>1. Step(w, "assemble") => WorksOn(w)
      BY <1>0, <1>3 DEF LockFile, Step, Doing, WorksOn
    <2> QED BY <1>s, <1>r, <1>3, <2>1 DEF LockFile, Doing
  <1>4. CASE CommitFinal(w) \/ MarkLoadSession(w)
    <2>1. wk'[w].u = wk[w].u /\ wk'[w].pc \in {"remove", "markF"}
      BY <1>0, <1>4 DEF CommitFinal, MarkLoadSession, WorkerRow
    <2> QED BY <1>4, <2>1 DEF CommitFinal, MarkLoadSession, Doing, WorksOn
  <1>5. CASE AssembleFail(w) \/ RemoveChunks(w) \/ MarkCommit(w)
    BY <1>s, <1>r, <1>5 DEF AssembleFail, RemoveChunks, MarkCommit, Doing
  <1>6. CASE MarkLoadFile(w)
    <2>1. wk' = [wk EXCEPT ![w].pc = "flushF", ![w].fs = file[wk[w].u].status] => WorksOn(w)
      BY <1>0, <1>6 DEF MarkLoadFile, Doing, WorksOn
    <2> QED BY <1>s, <1>6, <2>1 DEF MarkLoadFile
  <1>7. CASE TaskError(w) \/ WorkerCrash(w)
    BY <1>s, <1>r, <1>7 DEF TaskError, WorkerCrash, InTry
  <1>8. ASSUME NEW u \in Uploads, Cleanup(w, u) PROVE wk' = wk
    BY <1>8 DEF Cleanup
  <1>9. ASSUME Work(w) \/ TaskError(w) \/ WorkerCrash(w), UNCHANGED req
        PROVE  \/ wk'[w] = wk[w]
               \/ wk'[w] = Asleep
               \/ \E u \in Uploads : TakeFinalize(w, u) /\ UNCHANGED req
               \/ Assemble(w) /\ UNCHANGED req
               \/ WorksOn(w)
    BY <1>2, <1>3, <1>4, <1>5, <1>6, <1>7, <1>8, <1>9 DEF Work
  <1>10. ASSUME NEW v \in Workers, ResolveDeadlock(v)
         PROVE  wk'[w] = wk[w] \/ wk'[w] = Asleep \/ WorksOn(w)
    <2>1. CASE TaskIsVictim(v)
      <3>1. wk[v].pc # "idle" /\ RollbackAndMark(v)
        BY <2>1 DEF TaskIsVictim, Deadlocked, Doing
      <3> QED BY <1>0, <1>r, <3>1 DEF RollbackAndMark
    <2>2. CASE HandlerIsVictim(v)
      BY <2>2 DEF HandlerIsVictim
    <2>3. CASE MarkerIsVictim(v)
      BY <1>0, <2>3 DEF MarkerIsVictim, Sleep
    <2> QED BY <1>10, <2>1, <2>2, <2>3 DEF ResolveDeadlock
  <1>11. ASSUME NEW u \in Uploads, Expire(u) \/ Initializes(u) PROVE wk' = wk
    BY <1>11 DEF Expire, Initializes
  <1>12. CASE UNCHANGED vars
    BY <1>12 DEF vars
  <1> QED BY <1>1, <1>9, <1>10, <1>11, <1>12 DEF Next, Initializes

(***************************************************************************)
(* The same for the rows and objects of one upload: who writes them works  *)
(* on that upload.                                                         *)
(***************************************************************************)
Flushes(r, u) == FlushCommit(r) /\ req[r].u = u
Finalizes(w, u) == CommitFinal(w) /\ wk[w].u = u
Marks(w, u) == MarkCommit(w) /\ wk[w].u = u

LEMMA UploadWriters ==
  ASSUME TypeOK, ShapeInv, [Next]_vars, NEW u \in Uploads
  PROVE  /\ \/ file'[u] = file[u]
            \/ Initializes(u)
            \/ \E r \in Reqs : Flushes(r, u)
            \/ \E w \in Workers : Finalizes(w, u) \/ Marks(w, u)
         /\ \/ sess'[u] = sess[u]
            \/ Initializes(u)
            \/ \E r \in Reqs : (ExpireCommit(r) \/ ChunkCommit(r)) /\ req[r].u = u
            \/ \E r \in Reqs : Flushes(r, u)
            \/ \E w \in Workers : Finalizes(w, u) \/ Marks(w, u)
         /\ \/ chunk'[u] = chunk[u]
            \/ \E r \in Reqs : ChunkCommit(r) /\ req[r].u = u
         /\ \/ chunkObj'[u] = chunkObj[u]
            \/ \E r \in Reqs : ChunkStore(r) /\ req[r].u = u
            \/ \E w \in Workers : RemoveChunks(w) /\ wk[w].u = u
            \/ \E w \in Workers : Cleanup(w, u)
         /\ \/ permObj'[u] = permObj[u]
            \/ \E w \in Workers : Assemble(w) /\ wk[w].u = u
            \/ \E w \in Workers : Cleanup(w, u)
         /\ \/ finq'[u] = finq[u]
            \/ \E r \in Reqs : (Publish(r) \/ PublishError(r)) /\ req[r].u = u
            \/ \E w \in Workers : TakeFinalize(w, u)
         /\ \/ cleanq'[u] = cleanq[u]
            \/ \E r \in Reqs : QueueCleanup(r) /\ req[r].u = u
            \/ \E w \in Workers : Cleanup(w, u)
  <1>0. StoreTypeOK
    BY DEF TypeOK
  <1>1. ASSUME NEW v \in Uploads, Initializes(v), v # u
        PROVE  file'[u] = file[u] /\ sess'[u] = sess[u]
    BY <1>0, <1>1 DEF Initializes, InitializeUpload, StoreTypeOK
  <1>2. ASSUME NEW r \in Reqs, req[r].u # u
        PROVE  /\ FlushCommit(r) => file'[u] = file[u] /\ sess'[u] = sess[u]
               /\ ExpireCommit(r) \/ ChunkCommit(r) => sess'[u] = sess[u]
               /\ ChunkCommit(r) => chunk'[u] = chunk[u]
               /\ ChunkStore(r) => chunkObj'[u] = chunkObj[u]
               /\ Publish(r) \/ PublishError(r) => finq'[u] = finq[u]
               /\ QueueCleanup(r) => cleanq'[u] = cleanq[u]
    <2>1. FlushCommit(r) => file'[u] = file[u] /\ sess'[u] = sess[u]
      BY <1>0, <1>2 DEF FlushCommit, StoreTypeOK
    <2>2. /\ ExpireCommit(r) \/ ChunkCommit(r) => sess'[u] = sess[u]
          /\ ChunkCommit(r) => chunk'[u] = chunk[u]
          /\ ChunkStore(r) => chunkObj'[u] = chunkObj[u]
      BY <1>0, <1>2 DEF ExpireCommit, ChunkCommit, ChunkStore, StoreTypeOK
    <2>3. /\ Publish(r) \/ PublishError(r) => finq'[u] = finq[u]
          /\ QueueCleanup(r) => cleanq'[u] = cleanq[u]
      BY <1>0, <1>2 DEF Publish, PublishError, QueueCleanup, StoreTypeOK
    <2> QED BY <2>1, <2>2, <2>3
  <1>3. ASSUME NEW w \in Workers, wk[w].u # u
        PROVE  /\ CommitFinal(w) \/ MarkCommit(w) => file'[u] = file[u] /\ sess'[u] = sess[u]
               /\ RemoveChunks(w) => chunkObj'[u] = chunkObj[u]
               /\ Assemble(w) => permObj'[u] = permObj[u]
    BY <1>0, <1>3 DEF CommitFinal, MarkCommit, RemoveChunks, RemoveObjects, Assemble, StoreWhole,
                      StoreTypeOK
  <1>4. ASSUME NEW w \in Workers, NEW v \in Uploads, v # u
        PROVE  /\ TakeFinalize(w, v) => finq'[u] = finq[u]
               /\ Cleanup(w, v) => /\ chunkObj'[u] = chunkObj[u] /\ permObj'[u] = permObj[u]
                                   /\ cleanq'[u] = cleanq[u]
    BY <1>0, <1>4 DEF TakeFinalize, Cleanup, RemoveObjects, StoreTypeOK
  <1>5. \/ file'[u] = file[u]
        \/ Initializes(u)
        \/ \E r \in Reqs : Flushes(r, u)
        \/ \E w \in Workers : Finalizes(w, u) \/ Marks(w, u)
    BY Writers, <1>1, <1>2, <1>3 DEF Flushes, Finalizes, Marks
  <1>6. \/ sess'[u] = sess[u]
        \/ Initializes(u)
        \/ \E r \in Reqs : (ExpireCommit(r) \/ ChunkCommit(r)) /\ req[r].u = u
        \/ \E r \in Reqs : Flushes(r, u)
        \/ \E w \in Workers : Finalizes(w, u) \/ Marks(w, u)
    BY Writers, <1>1, <1>2, <1>3 DEF Flushes, Finalizes, Marks
  <1>7. \/ chunk'[u] = chunk[u]
        \/ \E r \in Reqs : ChunkCommit(r) /\ req[r].u = u
    BY Writers, <1>2
  <1>8. \/ chunkObj'[u] = chunkObj[u]
        \/ \E r \in Reqs : ChunkStore(r) /\ req[r].u = u
        \/ \E w \in Workers : RemoveChunks(w) /\ wk[w].u = u
        \/ \E w \in Workers : Cleanup(w, u)
    BY Writers, <1>2, <1>3, <1>4
  <1>9. \/ permObj'[u] = permObj[u]
        \/ \E w \in Workers : Assemble(w) /\ wk[w].u = u
        \/ \E w \in Workers : Cleanup(w, u)
    BY Writers, <1>3, <1>4
  <1>10. \/ finq'[u] = finq[u]
         \/ \E r \in Reqs : (Publish(r) \/ PublishError(r)) /\ req[r].u = u
         \/ \E w \in Workers : TakeFinalize(w, u)
    BY Writers, <1>2, <1>4
  <1>11. \/ cleanq'[u] = cleanq[u]
         \/ \E r \in Reqs : QueueCleanup(r) /\ req[r].u = u
         \/ \E w \in Workers : Cleanup(w, u)
    BY Writers, <1>2, <1>4
  <1> QED BY <1>5, <1>6, <1>7, <1>8, <1>9, <1>10, <1>11

\* What the four writers of a File row do to it.
LEMMA FileEffects ==
  ASSUME TypeOK, NEW u \in Uploads
  PROVE  /\ Initializes(u) => /\ file[u].status = "none" /\ file'[u].status = "pending"
                              /\ file'[u].deleted = file[u].deleted
                              /\ file'[u].sum = file[u].sum
         /\ \A r \in Reqs : Flushes(r, u) =>
              /\ req[r].pc = "flushS"
              /\ file'[u].status \in {file[u].status, FileTarget(req[r].op)}
              /\ file[u].deleted => file'[u].deleted
              /\ file'[u].sum = file[u].sum
         /\ \A w \in Workers : Finalizes(w, u) =>
              /\ wk[w].pc = "commit"
              /\ file'[u].status = "available" /\ file'[u].deleted = file[u].deleted
              /\ file'[u].sum = wk[w].asm
         /\ \A w \in Workers : Marks(w, u) =>
              /\ wk[w].pc = "flushS"
              /\ file'[u].status \in {file[u].status, "failed"}
              /\ file'[u].deleted = file[u].deleted /\ file'[u].sum = file[u].sum
  <1>0. file \in [Uploads -> FileRow]
    BY DEF TypeOK, StoreTypeOK
  <1>1. Initializes(u) => /\ file[u].status = "none" /\ file'[u].status = "pending"
                          /\ file'[u].deleted = file[u].deleted
                          /\ file'[u].sum = file[u].sum
    BY <1>0 DEF Initializes, InitializeUpload, FileRow
  <1>2. ASSUME NEW r \in Reqs, Flushes(r, u)
        PROVE  /\ req[r].pc = "flushS"
               /\ file'[u].status \in {file[u].status, FileTarget(req[r].op)}
               /\ file[u].deleted => file'[u].deleted
               /\ file'[u].sum = file[u].sum
    BY <1>0, <1>2 DEF Flushes, FlushCommit, At, FileRow
  <1>3. ASSUME NEW w \in Workers, Finalizes(w, u)
        PROVE  /\ wk[w].pc = "commit"
               /\ file'[u].status = "available" /\ file'[u].deleted = file[u].deleted
               /\ file'[u].sum = wk[w].asm
    BY <1>0, <1>3 DEF Finalizes, CommitFinal, Doing, FileRow
  <1>4. ASSUME NEW w \in Workers, Marks(w, u)
        PROVE  /\ wk[w].pc = "flushS"
               /\ file'[u].status \in {file[u].status, "failed"}
               /\ file'[u].deleted = file[u].deleted /\ file'[u].sum = file[u].sum
    BY <1>0, <1>4 DEF Marks, MarkCommit, Doing, FileRow
  <1> QED BY <1>1, <1>2, <1>3, <1>4

\* What the writers of an UploadSession row do to it. The figures given at
\* initialization are never written again.
KeepsFigures(u) == sess'[u].count = sess[u].count /\ sess'[u].size = sess[u].size

LEMMA SessEffects ==
  ASSUME TypeOK, NEW u \in Uploads
  PROVE  /\ Initializes(u) => sess'[u].status = "initiated"
         /\ \A r \in Reqs : req[r].u = u =>
              /\ ExpireCommit(r) => sess'[u].status = "expired" /\ KeepsFigures(u)
              /\ ChunkCommit(r) =>
                   sess'[u].status \in {sess[u].status, req[r].ns} /\ KeepsFigures(u)
              /\ FlushCommit(r) =>
                   /\ sess'[u].status \in {sess[u].status, SessTarget(req[r].op)}
                   /\ KeepsFigures(u)
         /\ \A w \in Workers : wk[w].u = u =>
              /\ CommitFinal(w) => sess'[u].status = "completed" /\ KeepsFigures(u)
              /\ MarkCommit(w) =>
                   sess'[u].status \in {sess[u].status, "failed"} /\ KeepsFigures(u)
  <1>0. sess \in [Uploads -> SessRow]
    BY DEF TypeOK, StoreTypeOK
  <1>1. Initializes(u) => sess'[u].status = "initiated"
    BY <1>0 DEF Initializes, InitializeUpload
  <1>2. ASSUME NEW r \in Reqs, req[r].u = u
        PROVE  /\ ExpireCommit(r) => sess'[u].status = "expired" /\ KeepsFigures(u)
               /\ ChunkCommit(r) =>
                    sess'[u].status \in {sess[u].status, req[r].ns} /\ KeepsFigures(u)
               /\ FlushCommit(r) =>
                    /\ sess'[u].status \in {sess[u].status, SessTarget(req[r].op)}
                    /\ KeepsFigures(u)
    BY <1>0, <1>2 DEF ExpireCommit, ChunkCommit, FlushCommit, SessRow, KeepsFigures
  <1>3. ASSUME NEW w \in Workers, wk[w].u = u
        PROVE  /\ CommitFinal(w) => sess'[u].status = "completed" /\ KeepsFigures(u)
               /\ MarkCommit(w) =>
                    sess'[u].status \in {sess[u].status, "failed"} /\ KeepsFigures(u)
    BY <1>0, <1>3 DEF CommitFinal, MarkCommit, SessRow, KeepsFigures
  <1> QED BY <1>1, <1>2, <1>3

-------------------------------------------------------------------------------
(***************************************************************************)
(* Nothing happens on an upload before it is initialized.                  *)
(***************************************************************************)
LEMMA RequestBegins ==
  ASSUME ReqTypeOK, NEW r \in Reqs, Request(r)
  PROVE  /\ req'[r].u \in Uploads
         /\ sess[req'[r].u].status # "none" \/ file[req'[r].u].status # "none"
         /\ req'[r].pc # "stored" /\ ~Finalizing(r)'
         /\ req'[r].pc = "reading" =>
              /\ req'[r].i \in Expected(req'[r].u) /\ req'[r].c \in Payloads
              /\ req'[r].ss \in {"initiated", "uploading"}
  <1>0. req \in [Reqs -> ReqRow]
    BY DEF ReqTypeOK
  <1>1. ASSUME NEW u \in Uploads, NEW i \in Index, NEW c \in Payloads, ChunkBegin(r, u, i, c)
        PROVE  /\ req'[r].u = u /\ req'[r].pc = "reading" /\ req'[r].i \in Expected(u)
               /\ req'[r].c = c /\ sess[u].status # "none"
               /\ req'[r].ss \in {"initiated", "uploading"}
    BY <1>0, <1>1 DEF ChunkBegin, Idle, SessionForAccess
  <1>2. ASSUME NEW u \in Uploads, NEW op \in {"chunk", "complete"}, FindExpired(r, u, op)
        PROVE  req'[r].u = u /\ req'[r].pc = "expire" /\ sess[u].status # "none"
    BY <1>0, <1>2 DEF FindExpired, Idle, SessionForAccess
  <1>3. ASSUME NEW u \in Uploads, CompleteBegin(r, u)
        PROVE  req'[r].u = u /\ req'[r].pc = "loaded" /\ sess[u].status # "none"
    BY <1>0, <1>3 DEF CompleteBegin, Idle
  <1>4. ASSUME NEW u \in Uploads, RetryBegin(r, u)
        PROVE  req'[r].u = u /\ req'[r].pc = "loaded" /\ file[u].status # "none"
    BY <1>0, <1>4 DEF RetryBegin, Idle
  <1>5. ASSUME NEW u \in Uploads, SoftDelete(r, u)
        PROVE  /\ req'[r].u = u /\ req'[r].pc = "flushS" /\ req'[r].op = "delete"
               /\ file[u].status # "none"
    BY <1>0, <1>5 DEF SoftDelete, Idle
  <1> QED BY <1>1, <1>2, <1>3, <1>4, <1>5 DEF Request, Finalizing

LEMMA TakenIs ==
  ASSUME WorkerTypeOK, NEW w \in Workers, NEW u \in Uploads, TakeFinalize(w, u)
  PROVE  finq[u] > 0 /\ wk'[w].u = u /\ wk'[w].pc = "lockS"
  BY DEF WorkerTypeOK, TakeFinalize, Asleep

LEMMA AssembledIs ==
  ASSUME WorkerTypeOK, NEW w \in Workers, Assemble(w)
  PROVE  /\ wk[w].pc = "assemble" /\ wk'[w].u = wk[w].u /\ wk'[w].pc = "commit"
         /\ Assemblable(wk[w].u) /\ wk'[w].asm = ReadChunks(wk[w].u)
  <1>1. wk' = [wk EXCEPT ![w].pc = "commit", ![w].asm = ReadChunks(wk[w].u)]
    BY DEF Assemble, StoreWhole
  <1>2. wk \in [Workers -> WorkerRow]
    BY DEF WorkerTypeOK
  <1>3. wk'[w].u = wk[w].u /\ wk'[w].pc = "commit" /\ wk'[w].asm = ReadChunks(wk[w].u)
    BY <1>1, <1>2 DEF WorkerRow
  <1> QED BY <1>3 DEF Assemble, StoreWhole, Doing

LEMMA StoredIs ==
  ASSUME ReqTypeOK, NEW r \in Reqs, ChunkStore(r)
  PROVE  /\ req[r].pc = "reading" /\ req'[r].pc = "stored"
         /\ req'[r].u = req[r].u /\ req'[r].i = req[r].i /\ req'[r].c = req[r].c
         /\ req'[r].ns = StatusAfterChunk(req[r].u) /\ req'[r].ss = req[r].ss
         /\ ChunkLockFree(req[r].u, req[r].i) /\ ChunkMissing(req[r].u, req[r].i)
         /\ \A q \in Reqs : q # r => req'[q] = req[q]
  <1>1. req \in [Reqs -> ReqRow]
    BY DEF ReqTypeOK
  <1>2. req' = [req EXCEPT ![r].pc = "stored", ![r].ns = StatusAfterChunk(req[r].u)]
    BY DEF ChunkStore
  <1>3. /\ req'[r].pc = "stored"
        /\ req'[r].u = req[r].u /\ req'[r].i = req[r].i /\ req'[r].c = req[r].c
        /\ req'[r].ns = StatusAfterChunk(req[r].u) /\ req'[r].ss = req[r].ss
        /\ \A q \in Reqs : q # r => req'[q] = req[q]
    BY <1>1, <1>2 DEF ReqRow
  <1> QED BY <1>3 DEF ChunkStore, At

\* Once initialized, always so; and who works on an upload found it initialized.
LEMMA Begun ==
  ASSUME TypeOK, ShapeInv, StartedInv, [Next]_vars, NEW u \in Uploads
  PROVE  /\ file[u].status # "none" => file'[u].status # "none"
         /\ \A r \in Reqs : req[r].u = u => file[u].status # "none"
         /\ \A w \in Workers : wk[w].u = u => file[u].status # "none"
         /\ sess[u].status # "none" \/ finq[u] > 0 \/ cleanq[u] > 0 \/ permObj[u] # None
              \/ file[u].sum # None => file[u].status # "none"
  <1>0. file \in [Uploads -> FileRow]
    BY DEF TypeOK, StoreTypeOK
  <1>1. ASSUME file[u].status # "none" PROVE file'[u].status # "none"
    <2>1. \A r \in Reqs : FileTarget(req[r].op) # "none"
      BY DEF FileTarget
    <2> QED BY <1>0, <1>1, <2>1, UploadWriters, FileEffects
  <1>2. finq[u] \in Nat /\ cleanq[u] \in Nat
    BY DEF TypeOK, StoreTypeOK
  <1> QED BY <1>1, <1>2 DEF StartedInv, NoFileRow, NoSessRow

LEMMA StepStarted ==
  ASSUME TypeOK, ShapeInv, StartedInv, [Next]_vars
  PROVE  StartedInv'
  <1> SUFFICES ASSUME NEW u \in Uploads, file'[u].status = "none"
               PROVE  /\ file'[u] = NoFileRow /\ sess'[u] = NoSessRow
                      /\ finq'[u] = 0 /\ cleanq'[u] = 0 /\ permObj'[u] = None
                      /\ \A i \in Index : chunk'[u][i] = None
                      /\ \A r \in Reqs : req'[r].u # u
                      /\ \A w \in Workers : wk'[w].u # u
    BY DEF StartedInv
  <1>t. /\ ReqTypeOK /\ WorkerTypeOK /\ u # None
    BY NoneAssumption DEF TypeOK
  <1>1. file[u].status = "none"
    BY Begun
  <1>2. /\ file[u] = NoFileRow /\ sess[u] = NoSessRow
        /\ finq[u] = 0 /\ cleanq[u] = 0 /\ permObj[u] = None
        /\ \A i \in Index : chunk[u][i] = None
        /\ \A r \in Reqs : req[r].u # u
        /\ \A w \in Workers : wk[w].u # u
    BY <1>1 DEF StartedInv
  <1>3. ~Initializes(u)
    BY FileEffects
  <1>4. \A w \in Workers : ~TakeFinalize(w, u) /\ ~Cleanup(w, u)
    BY <1>2 DEF TakeFinalize, Cleanup
  <1>5. /\ file'[u] = file[u] /\ sess'[u] = sess[u] /\ chunk'[u] = chunk[u]
        /\ permObj'[u] = permObj[u] /\ finq'[u] = finq[u] /\ cleanq'[u] = cleanq[u]
    BY <1>2, <1>3, <1>4, UploadWriters DEF Flushes, Finalizes, Marks
  <1>6. ASSUME NEW r \in Reqs PROVE req'[r].u # u
    <2>1. Request(r) => req'[r].u # u
      BY <1>t, <1>1, <1>2, RequestBegins DEF NoSessRow
    <2>2. ChunkStore(r) => req'[r].u = req[r].u
      BY <1>t, StoredIs
    <2> QED BY <1>t, <1>2, <2>1, <2>2, ReqMoves DEF Idle, GoesOn
  <1>7. ASSUME NEW w \in Workers PROVE wk'[w].u # u
    <2>1. ASSUME NEW v \in Uploads, TakeFinalize(w, v) PROVE wk'[w].u # u
      BY <1>t, <1>4, <2>1, TakenIs
    <2>2. Assemble(w) => wk'[w].u = wk[w].u
      BY <1>t, AssembledIs
    <2> QED BY <1>t, <1>2, <2>1, <2>2, WorkerMoves DEF Asleep, WorksOn
  <1> QED BY <1>2, <1>5, <1>6, <1>7

-------------------------------------------------------------------------------
(***************************************************************************)
(* Chunk rows are only added, and the figures of an initialized upload     *)
(* stay; so the rows of a whole upload stay as they are.                   *)
(***************************************************************************)
LEMMA FiguresStay ==
  ASSUME TypeOK, ShapeInv, StartedInv, [Next]_vars, NEW u \in Uploads, file[u].status # "none"
  PROVE  /\ sess'[u].count = sess[u].count /\ sess'[u].size = sess[u].size
         /\ Expected(u)' = Expected(u)
  <1>1. ~Initializes(u)
    BY FileEffects
  <1>2. KeepsFigures(u)
    BY <1>1, UploadWriters, SessEffects DEF KeepsFigures, Flushes, Finalizes, Marks
  <1> QED BY <1>2 DEF KeepsFigures, Expected

LEMMA CommittedIs ==
  ASSUME TypeOK, NEW r \in Reqs, ChunkCommit(r), NEW u \in Uploads, req[r].u = u
  PROVE  /\ req[r].pc = "stored" /\ req'[r] = Idle
         /\ \A i \in Index : chunk'[u][i] = IF i = req[r].i THEN req[r].c ELSE chunk[u][i]
         /\ UNCHANGED <<file, chunkObj, permObj>>
  BY FinishIs DEF TypeOK, StoreTypeOK, ReqTypeOK, ChunkCommit, At, objVars

LEMMA RowsGrow ==
  ASSUME TypeOK, ShapeInv, ChunkInv, [Next]_vars, NEW u \in Uploads
  PROVE  /\ \A i \in Index : chunk[u][i] # None => chunk'[u][i] = chunk[u][i]
         /\ Present(u) \subseteq Present(u)'
  <1>1. ASSUME NEW r \in Reqs, ChunkCommit(r), req[r].u = u, NEW i \in Index, chunk[u][i] # None
        PROVE  chunk'[u][i] = chunk[u][i]
    BY <1>1, CommittedIs DEF ChunkInv, ReqChunks
  <1>2. \A i \in Index : chunk[u][i] # None => chunk'[u][i] = chunk[u][i]
    BY <1>1, UploadWriters
  <1> QED BY <1>2 DEF Present

LEMMA RowsStay ==
  ASSUME TypeOK, ShapeInv, StartedInv, ChunkInv, [Next]_vars, NEW u \in Uploads,
         file[u].status # "none", RowsValid(u)
  PROVE  /\ chunk'[u] = chunk[u] /\ RowsValid(u)'
         /\ Assembled(chunk[u], sess[u].count)' = Assembled(chunk[u], sess[u].count)
  <1>1. sess'[u].count = sess[u].count /\ sess'[u].size = sess[u].size
    BY FiguresStay
  <1>2. chunk'[u] = chunk[u]
    <2>1. SUFFICES ASSUME NEW r \in Reqs, ChunkCommit(r), req[r].u = u PROVE FALSE
      BY UploadWriters
    <2>2. req[r].pc = "stored" /\ ReqChunks(r)
      BY <2>1, CommittedIs DEF ChunkInv
    <2>3. req[r].i \in 0 .. (sess[u].count - 1) /\ chunk[u][req[r].i] = None
      BY <2>1, <2>2 DEF ReqChunks, Expected
    <2>4. req[r].i \in Index
      BY <2>3, CountAssumption DEF TypeOK, StoreTypeOK, SessRow, Index
    <2> QED BY <2>3, <2>4 DEF RowsValid, Valid
  <1> QED BY <1>1, <1>2 DEF RowsValid

\* All the rows of a whole upload are there.
LEMMA WholeRows ==
  ASSUME TypeOK, NEW u \in Uploads, RowsValid(u)
  PROVE  /\ Present(u) = Expected(u) /\ Expected(u) \subseteq Index
         /\ \A i \in Expected(u) : chunk[u][i] # None
  <1>1. Expected(u) \subseteq Index
    BY CountAssumption DEF TypeOK, StoreTypeOK, SessRow, Expected, Index
  <1> QED BY <1>1 DEF RowsValid, Valid, Present, Expected

(***************************************************************************)
(* The count that upload_chunk takes.                                      *)
(***************************************************************************)
LEMMA LastMissing ==
  ASSUME NEW n \in Nat, NEW S \in SUBSET (0 .. (n - 1)), NEW i \in 0 .. (n - 1), i \notin S
  PROVE  Cardinality(S) + 1 = n <=> 0 .. (n - 1) \subseteq S \cup {i}
  <1>1. IsFiniteSet(0 .. (n - 1)) /\ Cardinality(0 .. (n - 1)) = n
    BY FS_Interval
  <1>2. IsFiniteSet(S) /\ Cardinality(S) \in Nat
    BY <1>1, FS_Subset, FS_CardinalityType
  <1>3. IsFiniteSet(S \cup {i}) /\ Cardinality(S \cup {i}) = Cardinality(S) + 1
    BY <1>2, FS_AddElement
  <1>4. S \cup {i} \subseteq 0 .. (n - 1)
    OBVIOUS
  <1>5. Cardinality(S) + 1 = n => S \cup {i} = 0 .. (n - 1)
    BY <1>1, <1>3, <1>4, FS_Subset
  <1>6. 0 .. (n - 1) \subseteq S \cup {i} => S \cup {i} = 0 .. (n - 1)
    BY <1>4
  <1> QED BY <1>1, <1>3, <1>5, <1>6

LEMMA CountIsExact ==
  ASSUME TypeOK, ChunkInv, NEW u \in Uploads, NEW i \in Expected(u), ChunkMissing(u, i)
  PROVE  /\ StatusAfterChunk(u) \in {"uploading", "ready_to_complete"}
         /\ StatusAfterChunk(u) = "ready_to_complete" <=> Expected(u) \subseteq Present(u) \cup {i}
  <1>1. sess[u].count \in Nat
    BY CountAssumption DEF TypeOK, StoreTypeOK, SessRow
  <1>2. Present(u) \subseteq Expected(u) /\ i \notin Present(u)
    BY DEF ChunkInv, UploadChunks, Present, ChunkMissing
  <1>3. Cardinality(Present(u)) + 1 = sess[u].count <=> Expected(u) \subseteq Present(u) \cup {i}
    BY <1>1, <1>2, LastMissing DEF Expected
  <1> QED BY <1>3 DEF StatusAfterChunk

-------------------------------------------------------------------------------
(***************************************************************************)
(* Chunks.                                                                 *)
(***************************************************************************)
\* What becomes of the chunk objects of an upload.
LEMMA ObjectEffects ==
  ASSUME TypeOK, NEW u \in Uploads
  PROVE  /\ \A r \in Reqs : ChunkStore(r) /\ req[r].u = u =>
              \A i \in Index : chunkObj'[u][i] = IF i = req[r].i THEN req[r].c ELSE chunkObj[u][i]
         /\ \A w \in Workers : RemoveChunks(w) /\ wk[w].u = u =>
              \A i \in Index : chunkObj'[u][i] \in {chunkObj[u][i], None}
         /\ \A w \in Workers : Cleanup(w, u) =>
              /\ \A i \in Index : chunkObj'[u][i] \in {chunkObj[u][i], None}
              /\ \A i \in Index \ Present(u) : chunkObj'[u][i] = chunkObj[u][i]
              /\ permObj'[u] \in {permObj[u], None}
  <1>0. StoreTypeOK
    BY DEF TypeOK
  <1>1. ASSUME NEW r \in Reqs, ChunkStore(r), req[r].u = u, NEW i \in Index
        PROVE  chunkObj'[u][i] = IF i = req[r].i THEN req[r].c ELSE chunkObj[u][i]
    BY <1>0, <1>1 DEF ChunkStore, StoreTypeOK
  <1>2. ASSUME NEW w \in Workers, RemoveChunks(w), wk[w].u = u, NEW i \in Index
        PROVE  chunkObj'[u][i] \in {chunkObj[u][i], None}
    BY <1>0, <1>2 DEF RemoveChunks, RemoveObjects, StoreTypeOK
  <1>3. ASSUME NEW w \in Workers, Cleanup(w, u)
        PROVE  /\ \A i \in Index : chunkObj'[u][i] \in {chunkObj[u][i], None}
               /\ \A i \in Index \ Present(u) : chunkObj'[u][i] = chunkObj[u][i]
               /\ permObj'[u] \in {permObj[u], None}
    BY <1>0, <1>3 DEF Cleanup, RemoveObjects, StoreTypeOK
  <1> QED BY <1>1, <1>2, <1>3

LEMMA StepUploadChunks ==
  ASSUME TypeOK, ShapeInv, StartedInv, ChunkInv, [Next]_vars, NEW u \in Uploads
  PROVE  UploadChunks(u)'
  <1>0. UploadChunks(u) /\ ReqTypeOK
    BY DEF ChunkInv, TypeOK
  <1>1. ASSUME NEW i \in Index, chunk'[u][i] # None
        PROVE  i \in Expected(u)' /\ chunkObj'[u][i] \in {chunk'[u][i], None}
    <2>1. CASE \E r \in Reqs : ChunkCommit(r) /\ req[r].u = u
      <3>1. PICK r \in Reqs : ChunkCommit(r) /\ req[r].u = u
        BY <2>1
      <3>2. /\ req[r].pc = "stored" /\ chunkObj' = chunkObj /\ ReqChunks(r)
            /\ chunk'[u][i] = IF i = req[r].i THEN req[r].c ELSE chunk[u][i]
        BY <3>1, CommittedIs DEF ChunkInv
      <3>3. Expected(u)' = Expected(u)
        BY <3>1, Begun, FiguresStay
      <3> QED BY <1>0, <1>1, <3>1, <3>2, <3>3 DEF ReqChunks, UploadChunks
    <2>2. CASE chunk'[u] = chunk[u]
      <3>1. chunk[u][i] # None /\ i \in Expected(u) /\ chunkObj[u][i] \in {chunk[u][i], None}
        BY <1>0, <1>1, <2>2 DEF UploadChunks
      <3>2. Expected(u)' = Expected(u)
        BY <3>1, FiguresStay DEF StartedInv
      <3>3. ASSUME NEW r \in Reqs, ChunkStore(r), req[r].u = u
            PROVE  chunkObj'[u][i] = chunkObj[u][i]
        BY <1>0, <3>1, <3>3, StoredIs, ObjectEffects DEF ChunkMissing
      <3>4. chunkObj'[u][i] \in {chunkObj[u][i], None}
        BY <3>3, UploadWriters, ObjectEffects
      <3> QED BY <2>2, <3>1, <3>2, <3>4
    <2> QED BY <2>1, <2>2, UploadWriters
  <1>2. ASSUME sess'[u].status = "ready_to_complete" PROVE Expected(u)' \subseteq Present(u)'
    <2>1. CASE sess[u].status = "ready_to_complete"
      <3>1. Expected(u)' = Expected(u)
        BY <2>1, Begun, FiguresStay
      <3> QED BY <1>0, <2>1, <3>1, RowsGrow DEF UploadChunks
    <2>2. CASE sess[u].status # "ready_to_complete"
      <3>1. \A op : SessTarget(op) # "ready_to_complete"
        BY DEF SessTarget
      <3>2. PICK r \in Reqs : ChunkCommit(r) /\ req[r].u = u /\ req[r].ns = "ready_to_complete"
        BY <1>2, <2>2, <3>1, UploadWriters, SessEffects DEF Flushes, Finalizes, Marks
      <3>3. /\ req[r].pc = "stored" /\ ReqChunks(r)
            /\ \A i \in Index : chunk'[u][i] = IF i = req[r].i THEN req[r].c ELSE chunk[u][i]
        BY <3>2, CommittedIs DEF ChunkInv
      <3>4. Expected(u)' = Expected(u)
        BY <3>2, Begun, FiguresStay
      <3>5. Expected(u) \subseteq Present(u) \cup {req[r].i} /\ req[r].c # None
        BY <3>2, <3>3, NoneAssumption DEF ReqChunks
      <3>6. Present(u) \cup (Expected(u) \cap {req[r].i}) \subseteq Present(u)'
        <4>1. Expected(u) \subseteq Index
          BY CountAssumption DEF TypeOK, StoreTypeOK, SessRow, Expected, Index
        <4> QED BY <3>3, <3>5, <4>1 DEF Present
      <3> QED BY <3>4, <3>5, <3>6
    <2> QED BY <2>1, <2>2
  <1> QED BY <1>1, <1>2 DEF UploadChunks

\* A request that stays where it is keeps its chunk to itself.
LEMMA StoredStays ==
  ASSUME TypeOK, ShapeInv, ChunkInv, WholeInv, [Next]_vars, NEW r \in Reqs,
         req'[r] = req[r], req[r].pc = "stored"
  PROVE  LET u == req[r].u  i == req[r].i
         IN  chunk'[u][i] = None /\ chunkObj'[u][i] = req[r].c
  <1> DEFINE u == req[r].u  i == req[r].i
  <1>1. /\ ReqTypeOK /\ ReqChunks(r) /\ req[r] \in ReqRow /\ Idle.pc = "idle"
        /\ sess \in [Uploads -> SessRow]
    BY DEF ChunkInv, TypeOK, ReqTypeOK, StoreTypeOK, Idle
  <1>2. u \in Uploads /\ i \in Expected(u) /\ chunk[u][i] = None /\ chunkObj[u][i] = req[r].c
    BY <1>1 DEF ShapeInv, ReqShape, ReqRow, ReqChunks
  <1>3. i \in Index
    BY <1>1, <1>2, CountAssumption DEF SessRow, Expected, Index
  <1>4. ASSUME NEW q \in Reqs, ChunkCommit(q), req[q].u = u PROVE chunk'[u][i] = None
    <2>1. /\ req[q].pc = "stored" /\ req'[q].pc = "idle"
          /\ chunk'[u][i] = IF i = req[q].i THEN req[q].c ELSE chunk[u][i]
      BY <1>1, <1>2, <1>3, <1>4, CommittedIs
    <2>2. q # r /\ ~SameChunk(r, q)
      BY <2>1 DEF ChunkInv
    <2> QED BY <1>2, <1>4, <2>1, <2>2 DEF SameChunk
  <1>5. ASSUME NEW q \in Reqs, ChunkStore(q), req[q].u = u PROVE chunkObj'[u][i] = chunkObj[u][i]
    <2>1. req[q].i # i
      BY <1>1, <1>5, StoredIs DEF ChunkLockFree, At
    <2> QED BY <1>2, <1>3, <1>5, <2>1, ObjectEffects
  <1>6. ASSUME NEW w \in Workers, wk[w].u = u PROVE ~RemoveChunks(w)
    <2>1. RemoveChunks(w) => RowsValid(u)
      BY <1>6 DEF RemoveChunks, Doing, WholeInv
    <2> QED BY <1>2, <2>1, WholeRows
  <1>7. ASSUME NEW w \in Workers, Cleanup(w, u) PROVE chunkObj'[u][i] = chunkObj[u][i]
    BY <1>2, <1>3, <1>7, ObjectEffects DEF Present
  <1> QED BY <1>2, <1>4, <1>5, <1>6, <1>7, UploadWriters

LEMMA StepReqChunks ==
  ASSUME TypeOK, ShapeInv, StartedInv, ChunkInv, WholeInv, [Next]_vars, NEW r \in Reqs
  PROVE  ReqChunks(r)'
  <1>0. ReqTypeOK /\ ReqChunks(r) /\ req[r] \in ReqRow
    BY DEF ChunkInv, TypeOK, ReqTypeOK
  <1>u. req[r].pc # "idle" => req[r].u \in Uploads
    BY <1>0 DEF ShapeInv, ReqShape, ReqRow
  <1>v. ASSUME NEW u \in Uploads, req[r].u = u
        PROVE  Expected(u)' = Expected(u) /\ Present(u) \subseteq Present(u)'
    BY <1>v, Begun, FiguresStay, RowsGrow
  <1>1. CASE req'[r] = req[r]
    BY <1>0, <1>u, <1>v, <1>1, StoredStays DEF ReqChunks
  <1>2. CASE req'[r] = Idle \/ GoesOn(r)
    <2>1. req'[r].pc \notin {"reading", "stored"}
      BY <1>2 DEF Idle, GoesOn
    <2> QED BY <2>1 DEF ReqChunks
  <1>3. CASE Request(r)
    <2>1. UNCHANGED sess
      BY <1>3 DEF Request, ChunkBegin, FindExpired, CompleteBegin, RetryBegin, SoftDelete,
                  storeVars, rowVars
    <2>2. req'[r].pc # "stored" /\ (req'[r].pc = "reading" =>
            req'[r].i \in Expected(req'[r].u) /\ req'[r].c \in Payloads)
      BY <1>0, <1>3, RequestBegins
    <2> QED BY <2>1, <2>2 DEF ReqChunks, Expected
  <1>4. CASE ChunkStore(r)
    <2>1. /\ req[r].pc = "reading" /\ req'[r].pc = "stored"
          /\ req'[r].u = req[r].u /\ req'[r].i = req[r].i /\ req'[r].c = req[r].c
          /\ req'[r].ns = StatusAfterChunk(req[r].u)
          /\ ChunkMissing(req[r].u, req[r].i)
      BY <1>0, <1>4, StoredIs
    <2>2. req[r].u \in Uploads /\ req[r].i \in Expected(req[r].u) /\ req[r].c \in Payloads
      BY <1>0, <1>u, <2>1 DEF ReqChunks
    <2>3. req[r].i \in Index
      BY <2>2, CountAssumption DEF TypeOK, StoreTypeOK, SessRow, Expected, Index
    <2>4. chunkObj'[req[r].u][req[r].i] = req[r].c /\ chunk' = chunk
      BY <1>4, <2>2, <2>3 DEF ChunkStore, rowVars, TypeOK, StoreTypeOK
    <2>5. chunk'[req[r].u][req[r].i] = None
      BY <2>1, <2>4 DEF ChunkMissing
    <2>6. /\ StatusAfterChunk(req[r].u) \in {"uploading", "ready_to_complete"}
          /\ StatusAfterChunk(req[r].u) = "ready_to_complete" =>
               Expected(req[r].u) \subseteq Present(req[r].u) \cup {req[r].i}
      BY <2>1, <2>2, CountIsExact
    <2> QED BY <1>v, <2>1, <2>2, <2>4, <2>5, <2>6 DEF ReqChunks
  <1> QED BY <1>1, <1>2, <1>3, <1>4, ReqMoves

LEMMA StepChunks ==
  ASSUME TypeOK, ShapeInv, StartedInv, ChunkInv, WholeInv, [Next]_vars
  PROVE  ChunkInv'
  <1>0. ReqTypeOK
    BY DEF TypeOK
  <1>1. ASSUME NEW r \in Reqs, req'[r].pc = "stored" PROVE req'[r] = req[r] \/ ChunkStore(r)
    BY <1>0, <1>1, ReqMoves, RequestBegins DEF Idle, GoesOn
  <1>2. ASSUME NEW r \in Reqs, NEW q \in Reqs, SameChunk(r, q)', ChunkStore(r) PROVE q = r
    <2>1. SUFFICES ASSUME q # r PROVE FALSE
      OBVIOUS
    <2>2. /\ req'[q] = req[q] /\ ChunkLockFree(req[r].u, req[r].i)
          /\ req'[r].u = req[r].u /\ req'[r].i = req[r].i
      BY <1>0, <1>2, <2>1, StoredIs
    <2> QED BY <1>2, <2>2 DEF SameChunk, ChunkLockFree, At
  <1>3. ASSUME NEW r \in Reqs, NEW q \in Reqs, SameChunk(r, q)' PROVE q = r
    <2>1. req'[r].pc = "stored" /\ req'[q].pc = "stored" /\ SameChunk(q, r)'
      BY <1>3 DEF SameChunk
    <2>2. CASE req'[r] = req[r] /\ req'[q] = req[q]
      BY <1>3, <2>2 DEF SameChunk, ChunkInv
    <2> QED BY <1>1, <1>2, <1>3, <2>1, <2>2
  <1> QED BY <1>3, StepUploadChunks, StepReqChunks DEF ChunkInv

-------------------------------------------------------------------------------
(***************************************************************************)
(* Only whole uploads are finalized.                                       *)
(***************************************************************************)
Whole(u) ==
  \/ file[u].status \in {"processing", "available", "failed"}
  \/ sess[u].status \in {"assembling", "completed", "failed"}
  \/ finq[u] > 0
  \/ permObj[u] # None \/ file[u].sum # None

LEMMA StepUploadWhole ==
  ASSUME TypeOK, ShapeInv, StartedInv, ChunkInv, WholeInv, [Next]_vars,
         NEW u \in Uploads, Whole(u)'
  PROVE  RowsValid(u)'
  <1>0. WorkerTypeOK /\ finq \in [Uploads -> Nat]
    BY DEF TypeOK, StoreTypeOK
  <1>1. SUFFICES RowsValid(u) /\ file[u].status # "none"
    BY RowsStay
  <1>2. Whole(u) => RowsValid(u) /\ file[u].status # "none"
    BY Begun DEF Whole, WholeInv
  <1>3. ASSUME NEW r \in Reqs, req[r].u = u, Finalizing(r)
        PROVE  RowsValid(u) /\ file[u].status # "none"
    BY <1>3, Begun DEF WholeInv
  <1>4. ASSUME NEW w \in Workers, wk[w].u = u, wk[w].pc # "idle"
        PROVE  RowsValid(u) /\ file[u].status # "none"
    BY <1>4, Begun DEF WholeInv
  <1>5. ASSUME NEW r \in Reqs, Flushes(r, u), req[r].op = "delete"
        PROVE  /\ file'[u].status \in {file[u].status, "deleted"} /\ file'[u].sum = file[u].sum
               /\ sess'[u].status \in {sess[u].status, "cancelled"}
    BY <1>5, FileEffects, SessEffects DEF Flushes, FileTarget, SessTarget
  <1>6. ASSUME NEW r \in Reqs, Flushes(r, u), req[r].op # "delete"
        PROVE  RowsValid(u) /\ file[u].status # "none"
    BY <1>3, <1>6, FileEffects DEF Flushes, Finalizing
  <1>7. ASSUME NEW w \in Workers, Finalizes(w, u) \/ Marks(w, u)
        PROVE  RowsValid(u) /\ file[u].status # "none"
    BY <1>4, <1>7, FileEffects DEF Finalizes, Marks
  <1>8. CASE file'[u].status \in {"processing", "available", "failed"} \/ file'[u].sum # None
    BY <1>2, <1>5, <1>6, <1>7, <1>8, UploadWriters, FileEffects DEF Whole
  <1>9. CASE sess'[u].status \in {"assembling", "completed", "failed"}
    <2>1. ASSUME NEW r \in Reqs, ChunkCommit(r), req[r].u = u
          PROVE  sess'[u].status \in {sess[u].status, "uploading", "ready_to_complete"}
      <3>1. req[r].ns \in {"uploading", "ready_to_complete"}
        BY <2>1, CommittedIs DEF ChunkInv, ReqChunks
      <3> QED BY <2>1, <3>1, SessEffects
    <2> QED BY <1>2, <1>5, <1>6, <1>7, <1>9, <2>1, UploadWriters, SessEffects DEF Whole
  <1>10. CASE finq'[u] > 0
    <2>1. ASSUME NEW r \in Reqs, Publish(r) \/ PublishError(r), req[r].u = u
          PROVE  RowsValid(u) /\ file[u].status # "none"
      BY <1>3, <2>1 DEF Publish, PublishError, At, Finalizing
    <2>2. ASSUME NEW w \in Workers, TakeFinalize(w, u) PROVE finq[u] > 0
      BY <2>2 DEF TakeFinalize
    <2> QED BY <1>2, <1>10, <2>1, <2>2, UploadWriters DEF Whole
  <1>11. CASE permObj'[u] # None
    <2>1. ASSUME NEW w \in Workers, Assemble(w), wk[w].u = u
          PROVE  RowsValid(u) /\ file[u].status # "none"
      BY <1>0, <1>4, <2>1, AssembledIs
    <2> QED BY <1>2, <1>11, <2>1, UploadWriters, ObjectEffects DEF Whole
  <1> QED BY <1>8, <1>9, <1>10, <1>11 DEF Whole

LEMMA StepWhole ==
  ASSUME TypeOK, ShapeInv, StartedInv, ChunkInv, WholeInv, [Next]_vars
  PROVE  WholeInv'
  <1>0. ReqTypeOK /\ WorkerTypeOK /\ req \in [Reqs -> ReqRow] /\ wk \in [Workers -> WorkerRow]
    BY DEF TypeOK, ReqTypeOK, WorkerTypeOK
  <1>1. ASSUME NEW u \in Uploads, Whole(u)' PROVE RowsValid(u)'
    BY <1>1, StepUploadWhole
  <1>2. ASSUME NEW w \in Workers, wk'[w].pc # "idle" PROVE RowsValid(wk[w].u)'
    <2>1. ASSUME wk[w].pc # "idle", wk'[w].u = wk[w].u PROVE RowsValid(wk[w].u)'
      <3>1. PICK u \in Uploads : wk[w].u = u
        BY <1>0, <2>1 DEF ShapeInv, WorkerShape, WorkerRow
      <3>2. RowsValid(u)'
        BY <2>1, <3>1, Begun, RowsStay DEF WholeInv
      <3> QED BY <2>1, <3>1, <3>2 DEF RowsValid
    <2>2. ASSUME NEW u \in Uploads, TakeFinalize(w, u) PROVE RowsValid(wk[w].u)'
      <3>1. finq[u] > 0 /\ wk'[w].u = u
        BY <1>0, <2>2, TakenIs
      <3>2. RowsValid(u)'
        BY <3>1, Begun, RowsStay DEF WholeInv
      <3> QED BY <3>1, <3>2 DEF RowsValid
    <2>3. Assemble(w) => wk[w].pc # "idle" /\ wk'[w].u = wk[w].u
      BY <1>0, AssembledIs
    <2> QED BY <1>2, <2>1, <2>2, <2>3, WorkerMoves DEF Asleep, WorksOn
  <1>3. ASSUME NEW r \in Reqs, Finalizing(r)' PROVE RowsValid(req[r].u)'
    <2>1. ASSUME req[r].pc # "idle", req'[r].u = req[r].u, RowsValid(req[r].u)
          PROVE  RowsValid(req[r].u)'
      <3>1. PICK u \in Uploads : req[r].u = u
        BY <1>0, <2>1 DEF ShapeInv, ReqShape, ReqRow
      <3>2. RowsValid(u)'
        BY <2>1, <3>1, Begun, RowsStay
      <3> QED BY <2>1, <3>1, <3>2 DEF RowsValid
    <2>2. CASE req'[r] = req[r]
      <3>1. Finalizing(r) /\ req[r].pc # "idle"
        BY <1>3, <2>2 DEF Finalizing
      <3> QED BY <2>1, <2>2, <3>1 DEF WholeInv
    <2>3. CASE GoesOn(r)
      BY <1>3, <2>1, <2>3 DEF GoesOn, WholeInv
    <2>4. CASE ChunkStore(r)
      BY <1>0, <1>3, <2>4, StoredIs DEF Finalizing
    <2> QED BY <1>0, <1>3, <2>2, <2>3, <2>4, ReqMoves, RequestBegins DEF Idle, Finalizing
  <1> QED BY <1>1, <1>2, <1>3 DEF WholeInv, Whole

-------------------------------------------------------------------------------
(***************************************************************************)
(* What is stored for good is the chunks in order.                         *)
(***************************************************************************)
LEMMA ReadsTheRows ==
  ASSUME TypeOK, ChunkInv, NEW u \in Uploads, RowsValid(u), Assemblable(u)
  PROVE  ReadChunks(u) = Assembled(chunk[u], sess[u].count)
  <1>1. \A i \in Expected(u) : chunkObj[u][i] = chunk[u][i]
    BY WholeRows DEF ChunkInv, UploadChunks, Assemblable
  <1> QED BY <1>1 DEF ReadChunks, Assembled, Expected

LEMMA ContentIs ==
  ASSUME TypeOK, NEW u \in Uploads, RowsValid(u)
  PROVE  Assembled(chunk[u], sess[u].count) # None
  <1>1. sess[u].count \in 0 .. MaxCount /\ chunk[u] \in [Index -> Payloads \cup {None}]
    BY DEF TypeOK, StoreTypeOK, SessRow
  <1>2. \A i \in 0 .. (sess[u].count - 1) : chunk[u][i] \in Payloads
    BY <1>1, WholeRows DEF Expected
  <1>3. Assembled(chunk[u], sess[u].count) \in [0 .. (sess[u].count - 1) -> Payloads]
    BY <1>2 DEF Assembled
  <1> QED BY <1>1, <1>3, NoneAssumption DEF Content

\* The object and the checksum of an upload in the next state.
LEMMA StepContent ==
  ASSUME TypeOK, ShapeInv, StartedInv, ChunkInv, WholeInv, ObjectInv, [Next]_vars,
         NEW u \in Uploads
  PROVE  LET whole == Assembled(chunk[u], sess[u].count)
         IN  /\ permObj'[u] # None => permObj'[u] = whole'
             /\ file'[u].sum # None => file'[u].sum = whole'
  <1> DEFINE whole == Assembled(chunk[u], sess[u].count)
  <1>0. WorkerTypeOK
    BY DEF TypeOK
  <1>1. RowsValid(u) /\ file[u].status # "none" => whole' = whole
    BY RowsStay
  <1>2. permObj[u] # None \/ file[u].sum # None => whole' = whole
    BY <1>1, Begun DEF WholeInv
  <1>3. ASSUME NEW w \in Workers, wk[w].u = u, wk[w].pc # "idle"
        PROVE  RowsValid(u) /\ whole' = whole
    BY <1>1, <1>3, Begun DEF WholeInv
  <1>4. ASSUME NEW w \in Workers, Assemble(w), wk[w].u = u PROVE permObj'[u] = whole'
    <2>1. wk[w].pc # "idle" /\ Assemblable(u)
      BY <1>0, <1>4, AssembledIs
    <2>2. permObj'[u] = ReadChunks(u)
      BY <1>4 DEF Assemble, StoreWhole, TypeOK, StoreTypeOK
    <2> QED BY <1>3, <1>4, <2>1, <2>2, ReadsTheRows
  <1>5. permObj'[u] # None => permObj'[u] = whole'
    BY <1>2, <1>4, UploadWriters, ObjectEffects DEF ObjectInv
  <1>6. ASSUME NEW w \in Workers, Finalizes(w, u) PROVE file'[u].sum = whole'
    <2>1. wk[w].pc = "commit" /\ wk[w].u = u /\ file'[u].sum = wk[w].asm
      BY <1>6, FileEffects DEF Finalizes
    <2>2. wk[w].asm = whole
      BY <2>1 DEF ObjectInv
    <2> QED BY <1>3, <2>1, <2>2
  <1>7. file'[u].sum # None => file'[u].sum = whole'
    BY <1>2, <1>6, UploadWriters, FileEffects DEF ObjectInv
  <1> QED BY <1>5, <1>7

\* Who writes the permanent object while a worker is about to commit: nobody.
LEMMA CommitIsSafe ==
  ASSUME TypeOK, ShapeInv, LockInv, StartedInv, WholeInv, DeleteInv, ObjectInv, [Next]_vars,
         NEW w \in Workers, wk'[w] = wk[w], wk[w].pc = "commit"
  PROVE  permObj'[wk[w].u] = permObj[wk[w].u]
  <1>1. PICK u \in Uploads : wk[w].u = u
    BY DEF TypeOK, WorkerTypeOK, WorkerRow, ShapeInv, WorkerShape
  <1>2. fileLock[u] = w /\ ~file[u].deleted
    BY <1>1 DEF LockInv, WorkerLocks, DeleteInv, WorkerDeletes
  <1>3. ASSUME NEW v \in Workers, Assemble(v), wk[v].u = u PROVE FALSE
    <2>1. wk[v].pc = "assemble" /\ wk'[v].pc = "commit"
      BY <1>3, AssembledIs DEF TypeOK
    <2>2. fileLock[u] = v
      BY <1>3, <2>1 DEF LockInv, WorkerLocks
    <2> QED BY <1>2, <2>1, <2>2
  <1>4. ASSUME NEW v \in Workers, Cleanup(v, u) PROVE FALSE
    BY <1>2, <1>4 DEF Cleanup, DeleteInv, UploadDeletes
  <1> QED BY <1>1, <1>3, <1>4, UploadWriters

LEMMA StepObjects ==
  ASSUME TypeOK, ShapeInv, LockInv, StartedInv, ChunkInv, WholeInv, DeleteInv, ObjectInv,
         [Next]_vars
  PROVE  ObjectInv'
  <1>0. WorkerTypeOK /\ wk \in [Workers -> WorkerRow]
    BY DEF TypeOK, WorkerTypeOK
  <1>1. ASSUME NEW u \in Uploads
        PROVE  /\ file'[u].status = "available" => file'[u].sum # None
               /\ file'[u].sum # None => permObj'[u] # None \/ file'[u].deleted
    <2>1. ASSUME NEW w \in Workers, Finalizes(w, u)
          PROVE  file'[u].sum # None /\ permObj'[u] # None
      <3>1. wk[w].pc = "commit" /\ wk[w].u = u /\ file'[u].sum = wk[w].asm
        BY <2>1, FileEffects DEF Finalizes
      <3>2. permObj' = permObj
        BY <2>1 DEF Finalizes, CommitFinal, objVars
      <3> QED BY <3>1, <3>2 DEF ObjectInv
    <2>2. \/ \E w \in Workers : Finalizes(w, u)
          \/ /\ file'[u].sum = file[u].sum /\ (file[u].deleted => file'[u].deleted)
             /\ file'[u].status = "available" => file[u].status = "available"
      <3>1. \A op : FileTarget(op) # "available"
        BY DEF FileTarget
      <3> QED BY <3>1, UploadWriters, FileEffects
    <2>3. ASSUME NEW w \in Workers, Cleanup(w, u) PROVE file[u].deleted
      BY <2>3 DEF Cleanup, DeleteInv, UploadDeletes
    <2>4. ASSUME NEW w \in Workers, Assemble(w), wk[w].u = u PROVE permObj'[u] # None
      <3>1. permObj'[u] = ReadChunks(u) /\ Assemblable(u) /\ wk[w].pc # "idle"
        BY <1>0, <2>4, AssembledIs DEF Assemble, StoreWhole, TypeOK, StoreTypeOK
      <3> QED BY <2>4, <3>1, ReadsTheRows, ContentIs DEF WholeInv
    <2> QED BY <2>1, <2>2, <2>3, <2>4, UploadWriters DEF ObjectInv
  <1>2. ASSUME NEW w \in Workers, wk'[w].pc = "commit"
        PROVE  permObj'[wk'[w].u] # None /\ wk'[w].asm = permObj'[wk'[w].u]
    <2>1. CASE wk'[w] = wk[w]
      BY <1>2, <2>1, CommitIsSafe DEF ObjectInv
    <2>2. CASE Assemble(w)
      <3>1. PICK u \in Uploads : wk[w].u = u
        BY <1>0, <2>2, AssembledIs DEF WorkerRow, ShapeInv, WorkerShape
      <3>2. /\ wk'[w].u = u /\ wk'[w].asm = ReadChunks(u) /\ Assemblable(u) /\ wk[w].pc # "idle"
        BY <1>0, <2>2, <3>1, AssembledIs
      <3>3. permObj'[u] = ReadChunks(u)
        BY <2>2, <3>1 DEF Assemble, StoreWhole, TypeOK, StoreTypeOK
      <3> QED BY <3>1, <3>2, <3>3, ReadsTheRows, ContentIs DEF WholeInv
    <2> QED BY <1>0, <1>2, <2>1, <2>2, WorkerMoves, TakenIs DEF Asleep, WorksOn
  <1> QED BY <1>1, <1>2, StepContent DEF ObjectInv

-------------------------------------------------------------------------------
(***************************************************************************)
(* The invariant and what follows from it.                                 *)
(***************************************************************************)
LEMMA InitInv == Init => IInv
  <1> SUFFICES ASSUME Init PROVE IInv
    OBVIOUS
  <1>1. TypeOK /\ ShapeInv /\ LockInv /\ DeleteInv
    BY InitType, InitShape, InitLocks, InitDeletes
  <1>2. StartedInv
    BY NoneAssumption DEF Init, StoreInit, ReqInit, WorkerInit, Idle, Asleep, NoFileRow,
                          NoSessRow, StartedInv
  <1>3. ChunkInv
    BY DEF Init, StoreInit, ReqInit, Idle, NoSessRow, ChunkInv, UploadChunks, ReqChunks, SameChunk
  <1>4. WholeInv
    BY DEF Init, StoreInit, ReqInit, WorkerInit, Idle, Asleep, NoFileRow, NoSessRow, WholeInv,
           Finalizing
  <1>5. ObjectInv
    BY DEF Init, StoreInit, WorkerInit, Asleep, NoFileRow, ObjectInv
  <1> QED BY <1>1, <1>2, <1>3, <1>4, <1>5 DEF IInv

LEMMA StepInv == IInv /\ [Next]_vars => IInv'
  BY StepType, StepLocks, StepDeletes, StepStarted, StepChunks, StepWhole, StepObjects DEF IInv

\* IInv is an invariant: every part of it, for every value of the constants.
THEOREM InvariantHolds == Spec => []IInv
  BY InitInv, StepInv, PTL DEF Spec

\* A chunk object in MinIO is the payload that its committed row stands for,
\* whatever the requests for one index overtake (upload_chunk under its lock).
THEOREM RowsMatchObjects == Spec => []RowMatchesObject
  <1>1. IInv => RowMatchesObject
    BY DEF IInv, ChunkInv, UploadChunks, RowMatchesObject
  <1> QED BY <1>1, InvariantHolds, PTL

\* The unique constraint on (session, index) never fires.
THEOREM RowsAreNotDuplicated == Spec => []NoDuplicateRow
  <1>1. IInv => NoDuplicateRow
    BY DEF IInv, ChunkInv, ReqChunks, SameChunk, NoDuplicateRow, At
  <1> QED BY <1>1, InvariantHolds, PTL

\* READY_TO_COMPLETE means that every chunk is there: the count that
\* upload_chunk takes is never ahead of the rows.
THEOREM ReadyMeansAll == Spec => []ReadyHasAllChunks
  <1>1. IInv => ReadyHasAllChunks
    <2>1. SUFFICES ASSUME IInv, NEW u \in Uploads, sess[u].status = "ready_to_complete"
                   PROVE  Present(u) = Expected(u)
      BY DEF ReadyHasAllChunks
    <2>2. UploadChunks(u)
      BY <2>1 DEF IInv, ChunkInv
    <2> QED BY <2>1, <2>2 DEF UploadChunks, Present
  <1> QED BY <1>1, InvariantHolds, PTL

\* Only an upload with all its chunks and the announced size is ever finalized,
\* and none of its chunks is still being written meanwhile.
THEOREM OnlyWholeIsFinalized == Spec => []FinalizedUploadsAreValid
  <1>1. IInv => FinalizedUploadsAreValid
    <2>1. SUFFICES ASSUME IInv, NEW u \in Uploads, InFinalization(u)
                   PROVE  /\ Present(u) = Expected(u)
                          /\ TotalSize(Assembled(chunk[u], sess[u].count)) = sess[u].size
                          /\ ~ \E r \in Reqs : At(r, "stored") /\ req[r].u = u
      BY DEF FinalizedUploadsAreValid
    <2>2. RowsValid(u)
      <3>1. ASSUME NEW w \in Workers, wk[w].u = u PROVE RowsValid(u)
        BY <2>1, <3>1, NoneAssumption DEF IInv, WholeInv, ShapeInv, WorkerShape
      <3> QED BY <2>1, <3>1 DEF IInv, WholeInv, InFinalization
    <2>3. ~ \E r \in Reqs : At(r, "stored") /\ req[r].u = u
      BY <2>1, <2>2, WholeRows DEF IInv, ChunkInv, ReqChunks, At
    <2> QED BY <2>1, <2>2, <2>3, WholeRows DEF IInv, RowsValid, Valid
  <1> QED BY <1>1, InvariantHolds, PTL

\* What the API offers for download is the accepted chunks in order, and the
\* checksum stored with it is that of the object in MinIO.
THEOREM OfferedIsWhole == Spec => []AvailableIsWhole
  <1>1. IInv => AvailableIsWhole
    BY DEF IInv, ObjectInv, AvailableIsWhole
  <1> QED BY <1>1, InvariantHolds, PTL

LEMMA StepPermanent ==
  ASSUME IInv, [Next]_vars, NEW u \in Uploads, permObj[u] # None, permObj'[u] # permObj[u]
  PROVE  permObj'[u] = None /\ file[u].deleted
  <1>1. Assembled(chunk[u], sess[u].count)' = Assembled(chunk[u], sess[u].count)
    BY Begun, RowsStay DEF IInv, WholeInv
  <1>2. permObj'[u] = None
    BY <1>1, StepContent DEF IInv, ObjectInv
  <1>3. ASSUME NEW w \in Workers, Assemble(w), wk[w].u = u PROVE FALSE
    <2>1. permObj'[u] = ReadChunks(u) /\ Assemblable(u)
      BY <1>3, AssembledIs DEF Assemble, StoreWhole, IInv, TypeOK, StoreTypeOK
    <2> QED BY <1>2, <2>1, ReadsTheRows, ContentIs DEF IInv, WholeInv
  <1>4. ASSUME NEW w \in Workers, Cleanup(w, u) PROVE file[u].deleted
    BY <1>4 DEF Cleanup, IInv, DeleteInv, UploadDeletes
  <1> QED BY <1>2, <1>3, <1>4, UploadWriters DEF IInv

\* A permanent object is never replaced by other bytes, and it goes only with its
\* file: a retried or redelivered finalization writes what was there before.
THEOREM ObjectsAreStable == Spec => PermanentObjectStable
  <1>1. IInv /\ [Next]_vars =>
          \A u \in Uploads : permObj[u] # None /\ permObj'[u] # permObj[u] =>
            permObj'[u] = None /\ file[u].deleted
    BY StepPermanent
  <1> QED BY <1>1, InvariantHolds, PTL DEF Spec, PermanentObjectStable

LEMMA StepDeletedEmpty ==
  ASSUME IInv, [Next]_vars, NEW u \in Uploads, file[u].deleted, permObj'[u] # permObj[u]
  PROVE  permObj'[u] = None
  <1>1. ASSUME NEW w \in Workers, Assemble(w), wk[w].u = u PROVE FALSE
    BY <1>1 DEF Assemble, StoreWhole, Doing, IInv, DeleteInv, WorkerDeletes
  <1>2. PICK w \in Workers : Cleanup(w, u)
    BY <1>1, UploadWriters DEF IInv
  <1> QED BY <1>2, ObjectEffects DEF IInv

\* A worker puts the object of a file only while it has the row locks under which it
\* found the file not deleted; the cleanup only removes (finalize_upload_task,
\* soft_delete_file, cleanup_file_storage_task).
THEOREM DeletedStaysEmpty == Spec => DeletedGetsNoObject
  <1>1. IInv /\ [Next]_vars =>
          \A u \in Uploads : file[u].deleted /\ permObj'[u] # permObj[u] => permObj'[u] = None
    BY StepDeletedEmpty
  <1> QED BY <1>1, InvariantHolds, PTL DEF Spec, DeletedGetsNoObject

-------------------------------------------------------------------------------
(***************************************************************************)
(* With one event loop no two chunk requests overlap between the count and *)
(* the commit, so the count is still exact when it is acted upon.          *)
(***************************************************************************)
SharedLoop == \A r, q \in Reqs : LoopOf[r] = LoopOf[q]

CountStillExact(r) ==
  /\ req[r].pc \in {"reading", "stored"} => req[r].ss \in {"initiated", "uploading"}
  /\ \A u \in Uploads :
       req[r].pc = "stored" /\ req[r].u = u => req[r].ns = StatusAfterChunk(u)

LoopInv ==
  /\ \A r, q \in Reqs : req[r].pc = "stored" /\ req[q].pc = "stored" => q = r
  /\ \A r \in Reqs : CountStillExact(r)
  /\ \A u \in Uploads :
       sess[u].status \in {"initiated", "uploading"} => Present(u) # Expected(u)

LEMMA StepAlone ==
  ASSUME SharedLoop, TypeOK, ShapeInv, LoopInv, [Next]_vars,
         NEW r \in Reqs, NEW q \in Reqs, req'[r].pc = "stored", req'[q].pc = "stored"
  PROVE  q = r
  <1>0. ReqTypeOK
    BY DEF TypeOK
  <1>1. ASSUME NEW p \in Reqs, req'[p].pc = "stored" PROVE req'[p] = req[p] \/ ChunkStore(p)
    BY <1>0, <1>1, ReqMoves, RequestBegins DEF Idle, GoesOn
  <1>2. ASSUME NEW p \in Reqs, NEW o \in Reqs, ChunkStore(p), req'[o].pc = "stored" PROVE o = p
    <2>1. SUFFICES ASSUME o # p PROVE FALSE
      OBVIOUS
    <2>2. req[o].pc = "stored"
      BY <1>0, <1>2, <2>1, StoredIs
    <2> QED BY <1>2, <2>2 DEF SharedLoop, ChunkStore, LoopFree, OnLoop, At
  <1>3. CASE req'[r] = req[r] /\ req'[q] = req[q]
    BY <1>3 DEF LoopInv
  <1> QED BY <1>1, <1>2, <1>3

LEMMA StepCount ==
  ASSUME SharedLoop, IInv, LoopInv, [Next]_vars, NEW r \in Reqs
  PROVE  CountStillExact(r)'
  <1>0. TypeOK /\ ReqTypeOK /\ ShapeInv /\ StartedInv /\ ChunkInv
    BY DEF IInv, TypeOK
  <1>1. CASE req'[r].pc \notin {"reading", "stored"}
    BY <1>1 DEF CountStillExact
  <1>2. CASE req'[r] = req[r] /\ req[r].pc \in {"reading", "stored"}
    <2>1. ASSUME NEW u \in Uploads, req[r].pc = "stored", req[r].u = u
          PROVE  StatusAfterChunk(u)' = StatusAfterChunk(u)
      <3>1. ASSUME NEW q \in Reqs, ChunkCommit(q), req[q].u = u PROVE FALSE
        BY <1>0, <1>2, <2>1, <3>1, CommittedIs DEF LoopInv, Idle
      <3>2. chunk'[u] = chunk[u] /\ sess'[u].count = sess[u].count
        BY <1>0, <2>1, <3>1, UploadWriters, Begun, FiguresStay
      <3> QED BY <3>2 DEF StatusAfterChunk, Present
    <2> QED BY <1>2, <2>1 DEF LoopInv, CountStillExact
  <1>3. CASE Request(r)
    BY <1>0, <1>3, RequestBegins DEF CountStillExact
  <1>4. CASE ChunkStore(r)
    <2>1. /\ req'[r].u = req[r].u /\ req'[r].ns = StatusAfterChunk(req[r].u)
          /\ req'[r].ss = req[r].ss /\ req[r].pc = "reading"
      BY <1>0, <1>4, StoredIs
    <2>2. \A u \in Uploads : StatusAfterChunk(u)' = StatusAfterChunk(u)
      BY <1>4 DEF ChunkStore, rowVars, StatusAfterChunk, Present
    <2> QED BY <2>1, <2>2 DEF LoopInv, CountStillExact
  <1> QED BY <1>0, <1>1, <1>2, <1>3, <1>4, ReqMoves DEF Idle, GoesOn

LEMMA StepLast ==
  ASSUME SharedLoop, IInv, LoopInv, [Next]_vars, NEW u \in Uploads,
         sess'[u].status \in {"initiated", "uploading"}
  PROVE  Present(u)' # Expected(u)'
  <1>0. TypeOK /\ ShapeInv /\ StartedInv /\ ChunkInv
    BY DEF IInv
  <1>1. CASE Initializes(u)
    <2>1. PICK p \in InitRequests : InitializeUpload(u, p)
      BY <1>1 DEF Initializes
    <2>2. sess'[u].count = p.count /\ chunk' = chunk /\ file[u].status = "none"
      BY <1>0, <2>1 DEF InitializeUpload, TypeOK, StoreTypeOK
    <2>3. 0 \in Expected(u)' /\ 0 \notin Present(u)'
      BY <1>0, <2>2, InitAssumption DEF Expected, Present, StartedInv
    <2> QED BY <2>3
  <1>2. CASE \E r \in Reqs : ChunkCommit(r) /\ req[r].u = u
    <2>1. PICK r \in Reqs : ChunkCommit(r) /\ req[r].u = u
      BY <1>2
    <2>2. /\ req[r].pc = "stored"
          /\ \A i \in Index : chunk'[u][i] = IF i = req[r].i THEN req[r].c ELSE chunk[u][i]
      BY <1>0, <2>1, CommittedIs
    <2>3. req[r].i \in Expected(u) /\ ChunkMissing(u, req[r].i)
      BY <1>0, <2>1, <2>2 DEF ChunkInv, ReqChunks, ChunkMissing
    <2>4. req[r].ns = StatusAfterChunk(u) /\ req[r].ss \in {"initiated", "uploading"}
      BY <2>1, <2>2 DEF LoopInv, CountStillExact
    <2>5. Expected(u)' = Expected(u)
      BY <1>0, <2>1, Begun, FiguresStay
    <2>6. Present(u)' \subseteq Present(u) \cup {req[r].i}
      BY <2>2 DEF Present
    <2>7. SUFFICES ASSUME Expected(u) \subseteq Present(u) \cup {req[r].i} PROVE FALSE
      BY <2>5, <2>6
    <2>8. req[r].ns = "ready_to_complete"
      BY <1>0, <2>3, <2>4, <2>7, CountIsExact
    <2>9. sess'[u].status = "ready_to_complete"
      BY <1>0, <2>1, <2>4, <2>8 DEF ChunkCommit, TypeOK, StoreTypeOK, SessRow
    <2> QED BY <2>9
  <1>3. CASE ~Initializes(u) /\ ~ \E r \in Reqs : ChunkCommit(r) /\ req[r].u = u
    <2>1. chunk'[u] = chunk[u]
      BY <1>0, <1>3, UploadWriters
    <2>2. \A op : SessTarget(op) \notin {"initiated", "uploading"}
      BY DEF SessTarget
    <2>3. sess'[u].status = sess[u].status
      BY <1>0, <1>3, <2>2, UploadWriters, SessEffects DEF Flushes, Finalizes, Marks
    <2>4. Expected(u)' = Expected(u)
      BY <1>0, <2>3, Begun, FiguresStay
    <2> QED BY <2>1, <2>3, <2>4 DEF LoopInv, Present
  <1> QED BY <1>1, <1>2, <1>3

\* Where one process serves the API, the request that commits the last chunk
\* makes the session READY_TO_COMPLETE, so that complete_upload accepts it.
THEOREM LastChunkSeesAll ==
  ASSUME SharedLoop
  PROVE  Spec => []LastChunkMakesReady
  <1>1. Init => LoopInv
    BY DEF Init, StoreInit, ReqInit, Idle, NoSessRow, LoopInv, CountStillExact
  <1>2. IInv /\ LoopInv /\ [Next]_vars => LoopInv'
    <2> SUFFICES ASSUME IInv, LoopInv, [Next]_vars PROVE LoopInv'
      OBVIOUS
    <2>1. TypeOK /\ ShapeInv
      BY DEF IInv
    <2> QED BY <2>1, StepAlone, StepCount, StepLast DEF LoopInv
  <1>3. LoopInv => LastChunkMakesReady
    BY DEF LoopInv, LastChunkMakesReady
  <1> QED BY <1>1, <1>2, <1>3, InvariantHolds, PTL DEF Spec
===============================================================================
