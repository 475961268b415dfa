-------------------------- MODULE DocFlowFaultProofs --------------------------
(***************************************************************************)
(* What survives when PostgreSQL and its client disagree about a           *)
(* transaction: the faults of DocFlowFaults keep the types, the row locks  *)
(* and the deletion invariant whatever the deployment, and all of the      *)
(* inductive invariant where the API is one process.                       *)
(***************************************************************************)
EXTENDS DocFlowLifecycle, DocFlowFaults

\* Who can be putting what without its transaction.
LateShape ==
  /\ late \in [Reqs \cup Workers -> Payloads \cup Content \cup {None}]
  /\ \A r \in Reqs : Late(r) => At(r, "reading") /\ late[r] \in Payloads
  /\ \A w \in Workers : Late(w) => Doing(w, "markS") /\ late[w] \in Content

\* With one event loop nothing has happened since to the rows it was put for.
LateContent ==
  /\ \A r \in Reqs : Late(r) =>
       /\ chunk[req[r].u][req[r].i] = None
       /\ \A q \in Reqs : ~At(q, "stored")
  /\ \A w \in Workers : Late(w) => late[w] = Assembled(chunk[wk[w].u], sess[wk[w].u].count)

\* What holds in every deployment.
SafeInv == TypeOK /\ ShapeInv /\ LockInv /\ DeleteInv /\ LateShape

LostChunkLock == \E r \in Reqs : LoseChunkLock(r)
LateChunk == \E r \in Reqs : LateChunkPut(r)
LostRowLocks == \E w \in Workers : LoseRowLocks(w)
LateFinal == \E w \in Workers : LateFinalPut(w)
Ambiguous == \E w \in Workers : AmbiguousCommit(w)

\* The figures of the chosen process, where they are of use below.
LEMMA WorkerIs ==
  ASSUME TypeOK, ShapeInv, NEW w \in Workers, wk[w].pc # "idle"
  PROVE  /\ wk[w].u \in Uploads
         /\ sess[wk[w].u].count \in 0 .. MaxCount /\ Expected(wk[w].u) \subseteq Index
  BY CountAssumption DEF TypeOK, WorkerTypeOK, WorkerRow, ShapeInv, WorkerShape,
                         StoreTypeOK, SessRow, Expected, Index

LEMMA HandlerIs ==
  ASSUME TypeOK, ShapeInv, NEW r \in Reqs, req[r].pc # "idle"
  PROVE  req[r].u \in Uploads /\ req[r].c \in Payloads \cup {None}
  BY DEF TypeOK, ReqTypeOK, ReqRow, ShapeInv, ReqShape

-------------------------------------------------------------------------------
(***************************************************************************)
(* The fault steps, one at a time: types, row locks and deletion.          *)
(***************************************************************************)
LEMMA LostChunkLockSafe ==
  ASSUME SafeInv, NEW r \in Reqs, LoseChunkLock(r)
  PROVE  SafeInv'
  <1>0. /\ UNCHANGED <<rowVars, expired, lockVars, objVars, queueVars, req, wk>>
        /\ faults' \in Nat /\ req[r].pc = "reading"
    BY FaultType DEF LoseChunkLock, SafeInv, TypeOK, At
  <1>1. UNCHANGED <<file, sess, chunk, expired, fileLock, sessLock, chunkObj, permObj,
                    finq, cleanq, req, wk>>
    BY <1>0 DEF rowVars, lockVars, objVars, queueVars
  <1>2. TypeOK' /\ ShapeInv'
    BY <1>0, <1>1 DEF SafeInv, TypeOK, StoreTypeOK, ReqTypeOK, WorkerTypeOK, ShapeInv,
                      ReqShape, WorkerShape
  <1>3. LockInv'
    BY <1>0, SameKeepsLocks DEF SafeInv
  <1>4. DeleteInv'
    BY <1>1 DEF SafeInv, DeleteInv, UploadDeletes, ReqDeletes, WorkerDeletes
  <1>5. LateShape'
    <2>1. req[r].c \in Payloads \cup {None} /\ r \notin Workers
      BY <1>0, HandlerIs, ProcsNotNone DEF SafeInv
    <2>2. late' = [late EXCEPT ![r] = req[r].c]
      BY DEF LoseChunkLock
    <2> QED BY <1>0, <1>1, <2>1, <2>2 DEF SafeInv, LateShape, Late, At, Doing
  <1> QED BY <1>2, <1>3, <1>4, <1>5 DEF SafeInv

LEMMA LateChunkSafe ==
  ASSUME SafeInv, NEW r \in Reqs, LateChunkPut(r)
  PROVE  SafeInv'
  <1>0. /\ TypeOK /\ StoreTypeOK /\ ReqTypeOK /\ ShapeInv /\ LockInv /\ LateShape
        /\ req[r].pc = "reading" /\ late[r] \in Payloads
        /\ UNCHANGED <<file, sess, chunk, expired, fileLock, sessLock, permObj, finq, cleanq,
                       faults, wk>>
    BY DEF SafeInv, TypeOK, LateChunkPut, LateShape, At, rowVars, lockVars, queueVars
  <1>1. req'[r] = Idle /\ req' = [req EXCEPT ![r] = req'[r]]
    BY <1>0, FinishIs DEF LateChunkPut, Finish
  <1>2. chunkObj' \in [Uploads -> [Index -> Payloads \cup {None}]]
    BY <1>0 DEF StoreTypeOK, LateChunkPut
  <1>3. TypeOK'
    BY <1>0, <1>2, FinishType DEF TypeOK, StoreTypeOK, WorkerTypeOK, LateChunkPut
  <1>4. ShapeInv'
    BY <1>0, <1>1, FinishShape DEF ShapeInv, ReqShape, WorkerShape, LateChunkPut, ReqTypeOK
  <1>5. LockInv'
    BY <1>0, <1>1, HandlerWithoutLock, OthersRest DEF LockInv, Idle, lockVars
  <1>6. DeleteInv'
    <2>1. ReqDeletes(r)' /\ \A u \in Uploads : UploadDeletes(u)'
      BY <1>0, <1>1, PlainHandler DEF SafeInv, Idle
    <2>2. OnlyFilesOf(r)
      BY <1>0 DEF OnlyFilesOf
    <2> QED BY <1>0, <1>1, <2>1, <2>2, OthersKeepDeletes DEF SafeInv
  <1>7. LateShape'
    <2>1. late' = [late EXCEPT ![r] = None] /\ r \notin Workers
      BY ProcsNotNone DEF LateChunkPut
    <2> QED BY <1>0, <1>1, <2>1 DEF LateShape, Late, At, Doing, ReqTypeOK
  <1> QED BY <1>3, <1>4, <1>5, <1>6, <1>7 DEF SafeInv

\* A worker whose transaction is rolled back holds no lock, and is done with its file.
LEMMA RolledBack ==
  ASSUME TypeOK, ShapeInv, LockInv, NEW w \in Workers, wk[w].pc # "idle",
         RollbackAndMark(w), UNCHANGED req
  PROVE  /\ ShapeInv' /\ LockInv' /\ WorkerTypeOK'
         /\ wk' = [wk EXCEPT ![w] = wk'[w]]
         /\ wk'[w].pc = "markS" /\ wk'[w].u = wk[w].u
  <1>0. StoreTypeOK /\ ReqTypeOK /\ WorkerTypeOK
    BY DEF TypeOK
  <1>1. /\ wk'[w].pc = "markS" /\ wk'[w].u = wk[w].u
        /\ wk' = [wk EXCEPT ![w] = wk'[w]]
    BY <1>0, RollbackIs DEF RollbackAndMark, WorkerTypeOK
  <1>2. ShapeInv'
    BY <1>0, <1>1, RollbackShape DEF ShapeInv, ReqShape, WorkerShape, Doing, WorkerTypeOK
  <1>3. LockInv'
    BY <1>1, WorkerReleases, OthersRest DEF RollbackAndMark
  <1> QED BY <1>0, <1>1, <1>2, <1>3, RollbackType

LEMMA LostRowLocksSafe ==
  ASSUME SafeInv, NEW w \in Workers, LoseRowLocks(w)
  PROVE  SafeInv'
  <1>0. /\ TypeOK /\ StoreTypeOK /\ WorkerTypeOK /\ ShapeInv /\ LockInv /\ LateShape
        /\ wk[w].pc = "assemble" /\ Assemblable(wk[w].u) /\ RollbackAndMark(w)
        /\ UNCHANGED <<file, sess, chunk, expired, chunkObj, permObj, finq, cleanq, req>>
        /\ faults' \in Nat
    BY FaultType DEF SafeInv, TypeOK, LoseRowLocks, Doing, rowVars, objVars, queueVars
  <1>1. /\ ShapeInv' /\ LockInv' /\ wk' = [wk EXCEPT ![w] = wk'[w]]
        /\ wk'[w].pc = "markS" /\ wk'[w].u = wk[w].u
    BY <1>0, RolledBack
  <1>2. TypeOK'
    BY <1>0, RollbackType DEF TypeOK, StoreTypeOK, ReqTypeOK
  <1>3. DeleteInv'
    <2>1. WorkerDeletes(w)' /\ \A u \in Uploads : UploadDeletes(u)'
      BY <1>0, <1>1, PlainWorker DEF SafeInv
    <2>2. OnlyFilesOf(w)
      BY <1>0 DEF OnlyFilesOf
    <2> QED BY <1>0, <1>1, <2>1, <2>2, OthersKeepDeletes DEF SafeInv
  <1>4. ReadChunks(wk[w].u) \in Content
    <2>1. \A i \in 0 .. (sess[wk[w].u].count - 1) : chunkObj[wk[w].u][i] \in Payloads
      <3>1. \A i \in Expected(wk[w].u) : chunkObj[wk[w].u][i] # None
        BY <1>0 DEF Assemblable
      <3>2. wk[w].u \in Uploads /\ Expected(wk[w].u) \subseteq Index
        BY <1>0, WorkerIs
      <3>3. chunkObj \in [Uploads -> [Index -> Payloads \cup {None}]]
        BY <1>0 DEF StoreTypeOK
      <3>4. \A i \in Expected(wk[w].u) : chunkObj[wk[w].u][i] \in Payloads
        BY <3>1, <3>2, <3>3
      <3> QED BY <3>4 DEF Expected
    <2> QED BY <1>0, <2>1, WorkerIs, AssembledType DEF ReadChunks
  <1>5. LateShape'
    <2>1. late' = [late EXCEPT ![w] = ReadChunks(wk[w].u)] /\ w \notin Reqs
      BY ProcsNotNone DEF LoseRowLocks
    <2> QED BY <1>0, <1>1, <1>4, <2>1 DEF LateShape, Late, At, Doing, WorkerTypeOK
  <1> QED BY <1>1, <1>2, <1>3, <1>5 DEF SafeInv

LEMMA LateFinalSafe ==
  ASSUME SafeInv, NEW w \in Workers, LateFinalPut(w)
  PROVE  SafeInv'
  <1>0. /\ late[w] \in Content /\ w \notin Reqs
        /\ permObj' = [permObj EXCEPT ![wk[w].u] = late[w]]
        /\ late' = [late EXCEPT ![w] = None]
        /\ UNCHANGED <<file, sess, chunk, expired, fileLock, sessLock, chunkObj, finq, cleanq,
                       faults, req, wk>>
    BY ProcsNotNone DEF SafeInv, LateFinalPut, LateShape, rowVars, lockVars, queueVars
  <1>1. TypeOK' /\ ShapeInv'
    BY <1>0 DEF SafeInv, TypeOK, StoreTypeOK, ReqTypeOK, WorkerTypeOK, ShapeInv, ReqShape,
                WorkerShape
  <1>2. LockInv'
    BY <1>0, SameKeepsLocks DEF SafeInv, lockVars
  <1>3. DeleteInv'
    BY <1>0 DEF SafeInv, DeleteInv, UploadDeletes, ReqDeletes, WorkerDeletes
  <1>4. LateShape'
    BY <1>0 DEF SafeInv, LateShape, Late, At, Doing
  <1> QED BY <1>1, <1>2, <1>3, <1>4 DEF SafeInv

\* What an ambiguous commit writes is what CommitFinal writes.
LEMMA AmbiguousIs ==
  ASSUME SafeInv, NEW w \in Workers, AmbiguousCommit(w)
  PROVE  LET u == wk[w].u IN
         /\ u \in Uploads /\ wk[w].pc = "commit" /\ fileLock[u] = w /\ ~file[u].deleted
         /\ file'[u].status = "available" /\ ~file'[u].deleted /\ file'[u].sum = wk[w].asm
         /\ sess'[u].status = "completed" /\ KeepsFigures(u)
         /\ \A v \in Uploads : v # u => file'[v] = file[v] /\ sess'[v] = sess[v]
         /\ UNCHANGED <<chunk, expired, chunkObj, permObj, finq, cleanq, req, late>>
  <1>0. TypeOK /\ StoreTypeOK /\ ShapeInv /\ wk[w].pc = "commit"
    BY DEF SafeInv, TypeOK, AmbiguousCommit, Doing
  <1>1. wk[w].u \in Uploads /\ fileLock[wk[w].u] = w /\ ~file[wk[w].u].deleted
    BY <1>0, WorkerIs DEF SafeInv, LockInv, WorkerLocks, DeleteInv, WorkerDeletes
  <1> QED BY <1>0, <1>1 DEF AmbiguousCommit, StoreTypeOK, FileRow, SessRow, KeepsFigures,
                            objVars, queueVars

LEMMA AmbiguousSafe ==
  ASSUME SafeInv, NEW w \in Workers, AmbiguousCommit(w)
  PROVE  SafeInv'
  <1>0. /\ TypeOK /\ StoreTypeOK /\ WorkerTypeOK /\ ShapeInv /\ LockInv /\ LateShape
        /\ RollbackAndMark(w) /\ faults' \in Nat
    BY FaultType DEF SafeInv, TypeOK, AmbiguousCommit
  <1>1. /\ wk[w].u \in Uploads /\ wk[w].pc = "commit" /\ fileLock[wk[w].u] = w
        /\ ~file[wk[w].u].deleted
        /\ file'[wk[w].u].status = "available" /\ ~file'[wk[w].u].deleted
        /\ \A v \in Uploads : v # wk[w].u => file'[v] = file[v]
        /\ UNCHANGED <<chunk, expired, chunkObj, permObj, finq, cleanq, req, late>>
    BY AmbiguousIs
  <1>2. /\ ShapeInv' /\ LockInv' /\ wk' = [wk EXCEPT ![w] = wk'[w]]
        /\ wk'[w].pc = "markS" /\ wk'[w].u = wk[w].u
    BY <1>0, <1>1, RolledBack
  <1>3. TypeOK'
    <2>1. wk[w].asm \in Content \cup {None}
      BY <1>0, WorkerRowType
    <2>2. "available" \in FileStatus /\ "completed" \in SessStatus
      BY DEF FileStatus, SessStatus
    <2>3. file' \in [Uploads -> FileRow] /\ sess' \in [Uploads -> SessRow]
      <3>1. /\ file \in [Uploads -> FileRow] /\ sess \in [Uploads -> SessRow]
            /\ file' = [file EXCEPT ![wk[w].u].status = "available", ![wk[w].u].error = FALSE,
                                    ![wk[w].u].sum = wk[w].asm]
            /\ sess' = [sess EXCEPT ![wk[w].u].status = "completed"]
        BY <1>0 DEF AmbiguousCommit, StoreTypeOK
      <3>2. file' \in [Uploads -> FileRow]
        BY <2>1, <2>2, <3>1 DEF FileRow
      <3>3. sess' \in [Uploads -> SessRow]
        BY <2>2, <3>1 DEF SessRow
      <3> QED BY <3>2, <3>3
    <2> QED BY <1>0, <1>1, <2>3, RollbackType DEF TypeOK, StoreTypeOK, ReqTypeOK
  <1>4. DeleteInv'
    <2>1. \A v \in Uploads : UploadDeletes(v)'
      BY <1>1 DEF SafeInv, DeleteInv, UploadDeletes
    <2>2. OnlyFilesOf(w)
      BY <1>1 DEF OnlyFilesOf
    <2>3. WorkerDeletes(w)'
      BY <1>2 DEF WorkerDeletes
    <2> QED BY <1>0, <1>1, <1>2, <2>1, <2>2, <2>3, OthersKeepDeletes DEF SafeInv
  <1>5. LateShape'
    BY <1>0, <1>1, <1>2 DEF LateShape, Late, At, Doing, WorkerTypeOK
  <1> QED BY <1>2, <1>3, <1>4, <1>5 DEF SafeInv

-------------------------------------------------------------------------------
(***************************************************************************)
(* Every step, and what holds in every deployment.                         *)
(***************************************************************************)
\* A step of DocFlow that leaves alone what a put still under way needs.
PlainStep == [Next]_vars /\ WaitForPuts /\ late' = late

LEMMA FaultSteps ==
  ASSUME [FaultNext]_<<vars, late>>
  PROVE  \/ PlainStep
         \/ LostChunkLock \/ LateChunk
         \/ LostRowLocks \/ LateFinal \/ Ambiguous
  <1>1. CASE UNCHANGED <<vars, late>>
    <2>1. req' = req /\ wk' = wk /\ late' = late
      BY <1>1 DEF vars
    <2> QED BY <1>1, <2>1 DEF PlainStep, WaitForPuts
  <1>2. CASE FaultNext
    BY <1>2 DEF FaultNext, PlainStep, LostChunkLock, LateChunk, LostRowLocks, LateFinal,
                Ambiguous
  <1> QED BY <1>1, <1>2

LEMMA PlainSafe ==
  ASSUME SafeInv, PlainStep
  PROVE  SafeInv'
  <1>1. TypeOK' /\ ShapeInv' /\ LockInv' /\ DeleteInv'
    BY StepType, StepLocks, StepDeletes DEF SafeInv, PlainStep
  <1>2. LateShape'
    BY DEF SafeInv, PlainStep, WaitForPuts, LateShape, Late, At, Doing
  <1> QED BY <1>1, <1>2 DEF SafeInv

LEMMA StepSafe == SafeInv /\ [FaultNext]_<<vars, late>> => SafeInv'
  BY FaultSteps, PlainSafe, LostChunkLockSafe, LateChunkSafe, LostRowLocksSafe, LateFinalSafe,
     AmbiguousSafe
     DEF LostChunkLock, LateChunk, LostRowLocks, LateFinal, Ambiguous

LEMMA InitSafe == Init /\ FaultInit => SafeInv
  <1>1. FaultInit => LateShape
    BY DEF FaultInit, LateShape, Late
  <1> QED BY <1>1, InitType, InitShape, InitLocks, InitDeletes DEF SafeInv

LEMMA SafeHolds == FaultSpec => []SafeInv
  BY InitSafe, StepSafe, PTL DEF FaultSpec

\* Whatever the client and the database believe of a transaction, a row lock is
\* held only by one that is running,
THEOREM FaultsKeepLocks == FaultSpec => []LocksHaveOwners
  <1>1. SafeInv => LocksHaveOwners
    BY DEF SafeInv, LockInv, ReqLocks, WorkerLocks, LocksHaveOwners, At
  <1> QED BY <1>1, SafeHolds, PTL

\* and no deleted file becomes downloadable, by a commit that was taken for a
\* failure either.
THEOREM FaultsDoNotResurrect == FaultSpec => []DeletedNeverAvailable
  <1>1. SafeInv => DeletedNeverAvailable
    BY DEF SafeInv, DeleteInv, UploadDeletes, DeletedNeverAvailable
  <1> QED BY <1>1, SafeHolds, PTL

-------------------------------------------------------------------------------
(***************************************************************************)
(* With one event loop, what is put late is put over nothing, and equals   *)
(* what would have been put in time.                                       *)
(***************************************************************************)
FaultInv == IInv /\ LateShape /\ LateContent

ContentParts == StartedInv /\ ChunkInv /\ WholeInv /\ ObjectInv

LEMMA FaultInvIs == FaultInv <=> SafeInv /\ ContentParts /\ LateContent
  BY DEF FaultInv, IInv, SafeInv, ContentParts

\* The rows and the objects as they were, and no process further than it was.
LEMMA SameContent ==
  ASSUME ContentParts, UNCHANGED <<file, sess, chunk, chunkObj, permObj, finq, cleanq, req, wk>>
  PROVE  ContentParts'
  <1>1. StartedInv' /\ WholeInv' /\ ObjectInv'
    BY DEF ContentParts, StartedInv, WholeInv, ObjectInv, RowsValid, Finalizing
  <1>2. ChunkInv'
    BY DEF ContentParts, ChunkInv, UploadChunks, ReqChunks, SameChunk, Expected, Present
  <1> QED BY <1>1, <1>2 DEF ContentParts

LEMMA LostChunkLockContent ==
  ASSUME SharedLoop, FaultInv, NEW r \in Reqs, LoseChunkLock(r)
  PROVE  ContentParts' /\ LateContent'
  <1>1. /\ UNCHANGED <<file, sess, chunk, chunkObj, permObj, finq, cleanq, req, wk>>
        /\ late' = [late EXCEPT ![r] = req[r].c] /\ r \notin Workers
    BY ProcsNotNone DEF LoseChunkLock, rowVars, objVars, queueVars
  <1>2. ContentParts'
    BY <1>1, SameContent, FaultInvIs
  <1>3. chunk[req[r].u][req[r].i] = None /\ \A q \in Reqs : ~At(q, "stored")
    BY DEF LoseChunkLock, ChunkMissing, LoopFree, OnLoop, SharedLoop
  <1>4. LateContent'
    BY <1>1, <1>3 DEF FaultInv, LateShape, LateContent, Late, At
  <1> QED BY <1>2, <1>4

LEMMA LateChunkContent ==
  ASSUME SharedLoop, FaultInv, NEW r \in Reqs, LateChunkPut(r)
  PROVE  ContentParts' /\ LateContent'
  <1>0. /\ TypeOK /\ StoreTypeOK /\ ReqTypeOK /\ ContentParts /\ req[r].pc = "reading"
        /\ chunk[req[r].u][req[r].i] = None /\ \A q \in Reqs : req[q].pc # "stored"
        /\ UNCHANGED <<file, sess, chunk, permObj, finq, cleanq, wk>>
        /\ chunkObj' = [chunkObj EXCEPT ![req[r].u][req[r].i] = late[r]]
        /\ late' = [late EXCEPT ![r] = None] /\ r \notin Workers
    BY FaultInvIs, ProcsNotNone
       DEF LateChunkPut, FaultInv, IInv, TypeOK, LateShape, LateContent, At, rowVars, queueVars
  <1>1. req'[r] = Idle /\ \A q \in Reqs : q # r => req'[q] = req[q]
    <2>1. Finish(r) /\ ReqTypeOK
      BY <1>0 DEF LateChunkPut
    <2>2. req'[r] = Idle
      BY <2>1, FinishIs
    <2>3. \A q \in Reqs : q # r => req'[q] = req[q]
      BY <2>1 DEF Finish, ReqTypeOK
    <2> QED BY <2>2, <2>3
  <1>2. StartedInv' /\ WholeInv' /\ ObjectInv'
    <2>1. \A q \in Reqs : req'[q].u # None => req'[q] = req[q]
      BY <1>1 DEF Idle
    <2>2. \A q \in Reqs : Finalizing(q)' => req'[q] = req[q]
      BY <1>1 DEF Idle, Finalizing
    <2>3. StartedInv'
      BY <1>0, <2>1, NoneAssumption DEF ContentParts, StartedInv
    <2>4. WholeInv'
      BY <1>0, <2>2 DEF ContentParts, WholeInv, RowsValid, Finalizing
    <2>5. ObjectInv'
      BY <1>0 DEF ContentParts, ObjectInv
    <2> QED BY <2>3, <2>4, <2>5
  <1>3. ChunkInv'
    <2>1. ASSUME NEW u \in Uploads PROVE UploadChunks(u)'
      <3>1. \A i \in Index : chunk[u][i] # None => chunkObj'[u][i] = chunkObj[u][i]
        BY <1>0 DEF StoreTypeOK
      <3> QED BY <1>0, <3>1 DEF ContentParts, ChunkInv, UploadChunks, Expected, Present
    <2>2. ASSUME NEW q \in Reqs PROVE ReqChunks(q)' /\ req'[q].pc # "stored"
      BY <1>0, <1>1 DEF ContentParts, ChunkInv, ReqChunks, Expected, Idle
    <2> QED BY <2>1, <2>2 DEF ChunkInv, SameChunk
  <1>4. LateContent'
    BY <1>0, <1>1 DEF FaultInv, LateShape, LateContent, Late, At, Idle
  <1> QED BY <1>2, <1>3, <1>4 DEF ContentParts

LEMMA LostRowLocksContent ==
  ASSUME FaultInv, NEW w \in Workers, LoseRowLocks(w)
  PROVE  ContentParts' /\ LateContent'
  <1>0. /\ TypeOK /\ ShapeInv /\ LockInv /\ ContentParts /\ WorkerTypeOK
        /\ wk[w].pc = "assemble" /\ Assemblable(wk[w].u) /\ RollbackAndMark(w)
        /\ UNCHANGED <<file, sess, chunk, chunkObj, permObj, finq, cleanq, req>>
        /\ late' = [late EXCEPT ![w] = ReadChunks(wk[w].u)] /\ w \notin Reqs
    BY FaultInvIs, ProcsNotNone DEF FaultInv, IInv, TypeOK, LoseRowLocks, Doing, rowVars,
                                    objVars, queueVars
  <1>1. /\ wk' = [wk EXCEPT ![w] = wk'[w]]
        /\ wk'[w].pc = "markS" /\ wk'[w].u = wk[w].u
    BY <1>0, RolledBack
  <1>2. \A v \in Workers : /\ wk'[v].u = wk[v].u
                           /\ wk'[v].pc # "idle" => wk[v].pc # "idle"
                           /\ v # w => wk'[v] = wk[v]
    BY <1>0, <1>1 DEF WorkerTypeOK
  <1>3. StartedInv' /\ WholeInv' /\ ObjectInv'
    BY <1>0, <1>1, <1>2 DEF ContentParts, StartedInv, WholeInv, ObjectInv, RowsValid, Finalizing
  <1>4. ChunkInv'
    BY <1>0 DEF ContentParts, ChunkInv, UploadChunks, ReqChunks, SameChunk, Expected, Present
  <1>5. ReadChunks(wk[w].u) = Assembled(chunk[wk[w].u], sess[wk[w].u].count)
    <2>1. wk[w].u \in Uploads /\ RowsValid(wk[w].u)
      BY <1>0, WorkerIs DEF ContentParts, WholeInv
    <2> QED BY <1>0, <2>1, ReadsTheRows DEF ContentParts
  <1>6. LateContent'
    BY <1>0, <1>1, <1>2, <1>5 DEF FaultInv, LateShape, LateContent, Late, At
  <1> QED BY <1>3, <1>4, <1>6 DEF ContentParts

LEMMA LateFinalContent ==
  ASSUME FaultInv, NEW w \in Workers, LateFinalPut(w)
  PROVE  /\ ContentParts' /\ LateContent'
         /\ \A u \in Uploads : permObj[u] # None => permObj'[u] = permObj[u]
  <1>0. /\ TypeOK /\ StoreTypeOK /\ ShapeInv /\ ContentParts /\ LateShape
        /\ wk[w].pc = "markS" /\ late[w] = Assembled(chunk[wk[w].u], sess[wk[w].u].count)
        /\ UNCHANGED <<file, sess, chunk, chunkObj, finq, cleanq, req, wk>>
        /\ permObj' = [permObj EXCEPT ![wk[w].u] = late[w]]
        /\ late' = [late EXCEPT ![w] = None] /\ w \notin Reqs
    BY FaultInvIs, ProcsNotNone DEF FaultInv, IInv, TypeOK, LateFinalPut, LateShape,
                                    LateContent, Doing, rowVars, queueVars
  <1>1. wk[w].u \in Uploads /\ RowsValid(wk[w].u)
    BY <1>0, WorkerIs DEF ContentParts, WholeInv
  <1>2. late[w] # None
    BY <1>0, <1>1, ContentIs
  <1>3. \A u \in Uploads : /\ permObj[u] # None => permObj'[u] = permObj[u]
                           /\ permObj'[u] # permObj[u] => u = wk[w].u
                           /\ permObj'[u] # None =>
                                permObj[u] # None \/ (u = wk[w].u /\ permObj'[u] = late[w])
    BY <1>0, <1>1 DEF StoreTypeOK, ContentParts, ObjectInv
  <1>4. StartedInv'
    BY <1>0, <1>1, <1>3 DEF ContentParts, StartedInv
  <1>5. WholeInv'
    BY <1>0, <1>1, <1>3 DEF ContentParts, WholeInv, RowsValid, Finalizing
  <1>6. ObjectInv'
    <2>1. \A u \in Uploads :
            permObj'[u] # None => permObj'[u] = Assembled(chunk[u], sess[u].count)
      BY <1>0, <1>3 DEF ContentParts, ObjectInv
    <2>2. \A v \in Workers : wk[v].pc = "commit" => wk[v].u \in Uploads
      BY <1>0, WorkerIs
    <2> QED BY <1>0, <1>3, <2>1, <2>2 DEF ContentParts, ObjectInv
  <1>7. ChunkInv'
    BY <1>0 DEF ContentParts, ChunkInv, UploadChunks, ReqChunks, SameChunk, Expected, Present
  <1>8. LateContent'
    BY <1>0 DEF FaultInv, LateShape, LateContent, Late, At
  <1> QED BY <1>3, <1>4, <1>5, <1>6, <1>7, <1>8 DEF ContentParts

LEMMA AmbiguousContent ==
  ASSUME FaultInv, NEW w \in Workers, AmbiguousCommit(w)
  PROVE  ContentParts' /\ LateContent'
  <1>0. /\ TypeOK /\ ShapeInv /\ LockInv /\ ContentParts /\ LateShape /\ SafeInv
        /\ WorkerTypeOK /\ RollbackAndMark(w)
    BY FaultInvIs DEF FaultInv, IInv, TypeOK, AmbiguousCommit
  <1>1. /\ wk[w].u \in Uploads /\ wk[w].pc = "commit"
        /\ file'[wk[w].u].status = "available" /\ ~file'[wk[w].u].deleted
        /\ file'[wk[w].u].sum = wk[w].asm
        /\ sess'[wk[w].u].status = "completed" /\ KeepsFigures(wk[w].u)
        /\ \A v \in Uploads : v # wk[w].u => file'[v] = file[v] /\ sess'[v] = sess[v]
        /\ UNCHANGED <<chunk, expired, chunkObj, permObj, finq, cleanq, req, late>>
    BY <1>0, AmbiguousIs
  <1>2. /\ wk' = [wk EXCEPT ![w] = wk'[w]]
        /\ wk'[w].pc = "markS" /\ wk'[w].u = wk[w].u
    BY <1>0, <1>1, RolledBack
  <1>3. \A v \in Workers : /\ wk'[v].u = wk[v].u
                           /\ wk'[v].pc # "idle" => wk[v].pc # "idle"
                           /\ v # w => wk'[v] = wk[v]
    BY <1>0, <1>1, <1>2 DEF WorkerTypeOK
  <1>4. \A u \in Uploads : sess'[u].count = sess[u].count /\ sess'[u].size = sess[u].size
    BY <1>1 DEF KeepsFigures
  <1>5. /\ RowsValid(wk[w].u) /\ permObj[wk[w].u] # None /\ wk[w].asm = permObj[wk[w].u]
        /\ file[wk[w].u].status # "none"
    BY <1>0, <1>1 DEF ContentParts, WholeInv, ObjectInv, StartedInv
  <1>6. StartedInv'
    BY <1>0, <1>1, <1>3 DEF ContentParts, StartedInv
  <1>7. WholeInv'
    <2>1. \A u \in Uploads : RowsValid(u) => RowsValid(u)'
      BY <1>1, <1>4 DEF RowsValid
    <2>2. ASSUME NEW u \in Uploads, Whole(u)' PROVE RowsValid(u)'
      BY <1>0, <1>1, <1>5, <2>1, <2>2 DEF ContentParts, WholeInv, Whole
    <2>3. ASSUME NEW v \in Workers, wk'[v].pc # "idle" PROVE RowsValid(wk[v].u)'
      BY <1>0, <1>3, <2>1, <2>3, WorkerIs DEF ContentParts, WholeInv
    <2>4. ASSUME NEW r \in Reqs, Finalizing(r)' PROVE RowsValid(req[r].u)'
      BY <1>0, <1>1, <2>1, <2>4, HandlerIs DEF ContentParts, WholeInv, Finalizing
    <2> QED BY <1>1, <1>3, <2>2, <2>3, <2>4 DEF WholeInv, Whole
  <1>8. ObjectInv'
    <2>1. \A u \in Uploads : Assembled(chunk[u], sess[u].count)' = Assembled(chunk[u], sess[u].count)
      BY <1>1, <1>4
    <2> QED BY <1>0, <1>1, <1>2, <1>3, <1>5, <2>1 DEF ContentParts, ObjectInv
  <1>9. ChunkInv'
    <2>1. \A u \in Uploads : Expected(u)' = Expected(u) /\ Present(u)' = Present(u)
      BY <1>1, <1>4 DEF Expected, Present
    <2>2. ASSUME NEW u \in Uploads PROVE UploadChunks(u)'
      BY <1>0, <1>1, <2>1 DEF ContentParts, ChunkInv, UploadChunks
    <2>3. ASSUME NEW r \in Reqs PROVE ReqChunks(r)'
      BY <1>0, <1>1, <2>1, HandlerIs DEF ContentParts, ChunkInv, ReqChunks
    <2> QED BY <1>0, <1>1, <2>2, <2>3 DEF ContentParts, ChunkInv, SameChunk
  <1>10. LateContent'
    <2>1. ASSUME NEW v \in Workers, Late(v), v # w
          PROVE  late[v] = Assembled(chunk[wk[v].u], sess[wk[v].u].count)'
      <3>1. wk[v].u \in Uploads
        BY <1>0, <2>1, WorkerIs DEF LateShape, Doing
      <3> QED BY <1>1, <1>3, <1>4, <2>1, <3>1 DEF FaultInv, LateContent
    <2>2. ~Late(w)
      BY <1>0, <1>1 DEF LateShape, Doing
    <2> QED BY <1>1, <1>3, <2>1, <2>2 DEF FaultInv, LateContent, Late, At
  <1> QED BY <1>6, <1>7, <1>8, <1>9, <1>10 DEF ContentParts

\* While a put is under way in the only event loop no chunk is received, and what
\* a finalization has read has not changed.
LEMMA PlainContent ==
  ASSUME SharedLoop, FaultInv, PlainStep
  PROVE  LateContent'
  <1>0. /\ TypeOK /\ ShapeInv /\ ReqTypeOK /\ StartedInv /\ ChunkInv /\ WholeInv /\ LateShape
        /\ LateContent /\ [Next]_vars /\ WaitForPuts /\ late' = late
    BY DEF FaultInv, IInv, TypeOK, PlainStep
  <1>1. ASSUME NEW r \in Reqs, Late(r)
        PROVE  /\ chunk'[req'[r].u][req'[r].i] = None
               /\ \A q \in Reqs : req'[q].pc # "stored"
    <2>1. \A q \in Reqs : req'[q] # req[q] => req[q].pc # "reading"
      BY <1>0, <1>1 DEF WaitForPuts, SharedLoop
    <2>2. /\ req'[r] = req[r] /\ req[r].pc = "reading" /\ chunk[req[r].u][req[r].i] = None
          /\ \A q \in Reqs : req[q].pc # "stored"
      BY <1>0, <1>1, <2>1 DEF LateShape, LateContent, At
    <2>3. chunk' = chunk
      BY <1>0, <2>2, Writers DEF ChunkCommit, At
    <2>4. ASSUME NEW q \in Reqs PROVE req'[q].pc # "stored"
      <3>1. ~ChunkStore(q)
        BY <1>0, <2>1, StoredIs
      <3> QED BY <1>0, <2>2, <3>1, ReqMoves, RequestBegins DEF Idle, GoesOn
    <2> QED BY <2>2, <2>3, <2>4
  <1>2. ASSUME NEW w \in Workers, Late(w)
        PROVE  late[w] = Assembled(chunk[wk[w].u], sess[wk[w].u].count)' /\ wk'[w] = wk[w]
    <2>1. wk'[w] = wk[w] /\ wk[w].pc = "markS"
      BY <1>0, <1>2 DEF WaitForPuts, LateShape, Doing
    <2>2. wk[w].u \in Uploads /\ RowsValid(wk[w].u) /\ file[wk[w].u].status # "none"
      BY <1>0, <2>1, WorkerIs DEF WholeInv, StartedInv
    <2>3. Assembled(chunk[wk[w].u], sess[wk[w].u].count)' =
            Assembled(chunk[wk[w].u], sess[wk[w].u].count)
      <3> DEFINE u == wk[w].u
      <3>1. Assembled(chunk[u], sess[u].count)' = Assembled(chunk'[u], sess'[u].count)
        BY <2>1
      <3>2. ASSUME NEW v \in Uploads, RowsValid(v), file[v].status # "none"
            PROVE  Assembled(chunk'[v], sess'[v].count) = Assembled(chunk[v], sess[v].count)
        BY <1>0, <3>2, RowsStay
      <3> QED BY <2>2, <3>1, <3>2
    <2> QED BY <1>0, <1>2, <2>1, <2>3 DEF LateContent
  <1> QED BY <1>0, <1>1, <1>2 DEF LateContent, Late, At

LEMMA StepFault ==
  ASSUME SharedLoop, FaultInv, [FaultNext]_<<vars, late>>
  PROVE  FaultInv'
  <1>1. SafeInv'
    BY StepSafe, FaultInvIs
  <1>2. ContentParts' /\ LateContent'
    <2>1. CASE PlainStep
      <3>1. IInv'
        BY <2>1, StepInv DEF FaultInv, PlainStep
      <3> QED BY <2>1, <3>1, PlainContent DEF IInv, ContentParts
    <2> QED BY <2>1, FaultSteps, LostChunkLockContent, LateChunkContent, LostRowLocksContent,
               LateFinalContent, AmbiguousContent
               DEF LostChunkLock, LateChunk, LostRowLocks, LateFinal, Ambiguous
  <1> QED BY <1>1, <1>2 DEF FaultInv, IInv, SafeInv, ContentParts

LEMMA InitFault == Init /\ FaultInit => FaultInv
  <1>1. FaultInit => LateContent
    BY DEF FaultInit, LateContent, Late
  <1> QED BY <1>1, InitInv, InitSafe DEF FaultInv, SafeInv

LEMMA FaultInvHolds == ASSUME SharedLoop PROVE FaultSpec => []FaultInv
  <1>1. FaultInv /\ [FaultNext]_<<vars, late>> => FaultInv'
    BY StepFault
  <1> QED BY <1>1, InitFault, PTL DEF FaultSpec

\* With one event loop a chunk written after its lock was lost is written over
\* nothing: no committed row stands over another request's bytes.
THEOREM LatePutsSpareRows ==
  ASSUME SharedLoop
  PROVE  FaultSpec => []RowMatchesObject
  <1>1. FaultInv => RowMatchesObject
    BY DEF FaultInv, IInv, ChunkInv, UploadChunks, RowMatchesObject
  <1> QED BY <1>1, FaultInvHolds, PTL

\* A file that is offered is whole, and its checksum that of its object, although
\* a finalization that had lost its locks may have written the object as well.
THEOREM LatePutsKeepWhole ==
  ASSUME SharedLoop
  PROVE  FaultSpec => []AvailableIsWhole
  <1>1. FaultInv => AvailableIsWhole
    BY DEF FaultInv, IInv, ObjectInv, AvailableIsWhole
  <1> QED BY <1>1, FaultInvHolds, PTL

LEMMA FaultPermanent ==
  ASSUME SharedLoop, FaultInv, [FaultNext]_<<vars, late>>, NEW u \in Uploads,
         permObj[u] # None, permObj'[u] # permObj[u]
  PROVE  permObj'[u] = None /\ file[u].deleted
  <1>1. CASE PlainStep
    BY <1>1, StepPermanent DEF PlainStep, FaultInv
  <1>2. CASE LateFinal
    BY <1>2, LateFinalContent DEF LateFinal
  <1>3. CASE LostChunkLock \/ LateChunk \/ LostRowLocks \/ Ambiguous
    <2>1. permObj' = permObj
      BY <1>3 DEF LostChunkLock, LateChunk, LostRowLocks, Ambiguous, LoseChunkLock,
                  LateChunkPut, LoseRowLocks, AmbiguousCommit, objVars
    <2> QED BY <2>1
  <1> QED BY <1>1, <1>2, <1>3, FaultSteps

\* A put that lands after the lock that protected it was lost writes what is
\* there already, or what the next finalization will write.
THEOREM LatePutsRepeat ==
  ASSUME SharedLoop
  PROVE  FaultSpec => PermanentObjectStable
  <1>1. FaultInv /\ [FaultNext]_<<vars, late>> =>
          [\A u \in Uploads : permObj[u] # None /\ permObj'[u] # permObj[u] =>
             permObj'[u] = None /\ file[u].deleted]_vars
    BY FaultPermanent
  <1> QED BY <1>1, FaultInvHolds, PTL DEF FaultSpec, PermanentObjectStable

-------------------------------------------------------------------------------
(***************************************************************************)
(* The faults and the life of a file.                                      *)
(***************************************************************************)
\* Nothing that is put late changes what anybody has learnt about a file.
LEMMA QuietLife ==
  ASSUME LifeInv, UNCHANGED <<file, finq, wk>>,
         \A r \in Reqs : req'[r] = req[r] \/ req'[r] = Idle
  PROVE  LifeInv'
  BY DEF LifeInv, ReqLife, WorkerLife, Accepted, Idle

LEMMA FaultLife ==
  ASSUME FaultInv, LifeInv, [FaultNext]_<<vars, late>>
  PROVE  LifeInv'
  <1>0. /\ IInv /\ TypeOK /\ ShapeInv /\ LockInv /\ SafeInv
        /\ ReqTypeOK /\ WorkerTypeOK
    BY FaultInvIs DEF FaultInv, IInv, TypeOK
  <1>1. CASE PlainStep
    BY <1>0, <1>1, StepLife DEF PlainStep
  <1>2. ASSUME NEW r \in Reqs, LoseChunkLock(r) PROVE LifeInv'
    BY <1>2, QuietLife DEF LoseChunkLock, rowVars, queueVars
  <1>3. ASSUME NEW r \in Reqs, LateChunkPut(r) PROVE LifeInv'
    <2>1. UNCHANGED <<file, finq, wk>> /\ Finish(r)
      BY <1>3 DEF LateChunkPut, rowVars, queueVars
    <2>2. \A q \in Reqs : req'[q] = req[q] \/ req'[q] = Idle
      BY <1>0, <2>1 DEF Finish, ReqTypeOK
    <2> QED BY <2>1, <2>2, QuietLife
  <1>4. ASSUME NEW w \in Workers, LoseRowLocks(w) PROVE LifeInv'
    <2>1. /\ wk[w].pc = "assemble" /\ RollbackAndMark(w) /\ UNCHANGED <<file, finq, req>>
      BY <1>4 DEF LoseRowLocks, Doing, rowVars, queueVars
    <2>2. /\ wk' = [wk EXCEPT ![w] = wk'[w]] /\ wk'[w].pc = "markS" /\ wk'[w].u = wk[w].u
      BY <1>0, <2>1, RolledBack
    <2> QED BY <1>0, <2>1, <2>2 DEF LifeInv, ReqLife, WorkerLife, Accepted, WorkerTypeOK
  <1>5. ASSUME NEW w \in Workers, LateFinalPut(w) PROVE LifeInv'
    BY <1>5, QuietLife DEF LateFinalPut, rowVars, queueVars
  <1>6. ASSUME NEW w \in Workers, AmbiguousCommit(w) PROVE LifeInv'
    <2>1. /\ wk[w].u \in Uploads /\ wk[w].pc = "commit" /\ fileLock[wk[w].u] = w
          /\ file'[wk[w].u].status = "available"
          /\ \A v \in Uploads : v # wk[w].u => file'[v] = file[v]
          /\ UNCHANGED <<finq, req>>
      BY <1>0, <1>6, AmbiguousIs
    <2>2. /\ wk' = [wk EXCEPT ![w] = wk'[w]] /\ wk'[w].pc = "markS" /\ wk'[w].u = wk[w].u
      BY <1>0, <1>6, <2>1, RolledBack DEF AmbiguousCommit
    <2>3. \A u \in Uploads : Accepted(u) => Accepted(u)'
      BY <2>1 DEF Accepted
    <2>4. \A v \in Workers : v # w => wk'[v] = wk[v]
      BY <1>0, <2>2 DEF WorkerTypeOK
    <2>5. ASSUME NEW v \in Workers PROVE WorkerLife(v)'
      <3>1. CASE v = w
        BY <2>1, <2>2, <3>1 DEF WorkerLife, Accepted
      <3>2. CASE v # w
        <4>1. wk[v].pc # "idle" => wk[v].u \in Uploads
          BY <1>0, WorkerIs
        <4>2. wk[v].pc \in {"assemble", "commit"} => wk[v].u # wk[w].u
          BY <1>0, <2>1, <3>2 DEF LockInv, WorkerLocks
        <4> QED BY <2>1, <2>3, <2>4, <3>2, <4>1, <4>2 DEF LifeInv, WorkerLife, Accepted
      <3> QED BY <3>1, <3>2
    <2>6. ASSUME NEW r \in Reqs PROVE ReqLife(r)'
      BY <1>0, <2>1, <2>3, HandlerIs DEF LifeInv, ReqLife
    <2> QED BY <2>1, <2>3, <2>5, <2>6 DEF LifeInv
  <1> QED BY <1>1, <1>2, <1>3, <1>4, <1>5, <1>6, FaultSteps
             DEF LostChunkLock, LateChunk, LostRowLocks, LateFinal, Ambiguous

\* A step that writes no row, and no object that is offered.
LEMMA QuietRefines ==
  ASSUME TypeOK, TypeOK', UNCHANGED rowVars,
         \A u \in Uploads : Offered(u) => permObj'[u] = permObj[u]
  PROVE  UNCHANGED Lifecycle!vars
  <1>1. UNCHANGED <<file, sess, chunk>>
    BY DEF rowVars
  <1>2. \A u \in Uploads : SameView(u)
    BY <1>1 DEF SameView, SameOrder, Seen, Served, Offered
  <1> QED BY <1>2, SameIsStutter

\* A finalization whose commit raises has been made all the same.
LEMMA AmbiguousOffers ==
  ASSUME FaultInv, LifeInv, TypeOK', NEW w \in Workers, AmbiguousCommit(w),
         NEW u \in Uploads, u = wk[w].u
  PROVE  Lifecycle!Offer(u)
  <1>0. SafeInv /\ IInv /\ TypeOK
    BY FaultInvIs DEF FaultInv, IInv
  <1>1. /\ wk[w].pc = "commit" /\ ~file[u].deleted
        /\ file'[u].status = "available" /\ ~file'[u].deleted
        /\ KeepsFigures(u)
        /\ \A v \in Uploads : v # u => file'[v] = file[v] /\ sess'[v] = sess[v]
        /\ UNCHANGED <<chunk, permObj>>
    BY <1>0, AmbiguousIs
  <1>2. file[u].status = "processing"
    BY <1>1 DEF LifeInv, WorkerLife
  <1>3. permObj[u] = Assembled(chunk[u], sess[u].count)
    BY <1>0, <1>1 DEF IInv, ObjectInv
  <1>4. Turns(u, "available")
    <2>1. SameOrder(u)
      BY <1>1, FiguresKept
    <2>2. ASSUME NEW v \in Uploads, v # u PROVE SameView(v)
      BY <1>1, <2>2 DEF SameView, SameOrder, Seen, Served, Offered
    <2> QED BY <1>1, <2>1, <2>2 DEF Turns, Seen
  <1>5. Seen(u) = "processing" /\ Served(u)' = Assembled(chunk[u], sess[u].count)
    BY <1>1, <1>2, <1>3 DEF Seen, Served, Offered
  <1> QED BY <1>0, <1>4, <1>5, OfferIs

LEMMA FaultRefines ==
  ASSUME SharedLoop, ~Solo, FaultInv, FaultInv', LifeInv, [FaultNext]_<<vars, late>>
  PROVE  [Lifecycle!Next]_(Lifecycle!vars)
  <1>0. IInv /\ TypeOK /\ TypeOK'
    BY DEF FaultInv, IInv
  <1>1. CASE PlainStep
    BY <1>0, <1>1, StepRefines DEF PlainStep
  <1>2. CASE LostChunkLock \/ LateChunk \/ LostRowLocks
    <2>1. UNCHANGED rowVars /\ permObj' = permObj
      BY <1>2 DEF LostChunkLock, LateChunk, LostRowLocks, LoseChunkLock, LateChunkPut,
                  LoseRowLocks, objVars
    <2> QED BY <1>0, <2>1, QuietRefines
  <1>3. ASSUME NEW w \in Workers, LateFinalPut(w) PROVE [Lifecycle!Next]_(Lifecycle!vars)
    <2>1. \A u \in Uploads : Offered(u) => permObj[u] # None
      BY <1>0 DEF IInv, ObjectInv, Offered
    <2>2. UNCHANGED rowVars
      BY <1>3 DEF LateFinalPut
    <2> QED BY <1>0, <1>3, <2>1, <2>2, LateFinalContent, QuietRefines
  <1>4. ASSUME NEW w \in Workers, AmbiguousCommit(w) PROVE [Lifecycle!Next]_(Lifecycle!vars)
    <2>1. PICK u \in Uploads : u = wk[w].u
      BY <1>4, AmbiguousIs, FaultInvIs
    <2>2. Lifecycle!Offer(u)
      BY <1>0, <1>4, <2>1, AmbiguousOffers
    <2> QED BY <2>2 DEF Lifecycle!Next
  <1> QED BY <1>1, <1>2, <1>3, <1>4, FaultSteps DEF LateFinal, Ambiguous

\* With one event loop the life of a file is still the one that is promised where
\* requests may meet: neither a put that lands late nor a commit that was taken
\* for a failure shows a client anything FileLifecycle does not allow. (Where
\* requests never meet more is promised, and an ambiguous commit breaks it: the
\* error handler marks FAILED what has just become AVAILABLE.)
THEOREM FaultsKeepTheLifecycle ==
  ASSUME SharedLoop, ~Solo
  PROVE  FaultSpec => ImplementsLifecycle
  <1>1. FaultSpec => []LifeInv
    <2>1. Init => LifeInv
      BY DEF Init, StoreInit, ReqInit, WorkerInit, LifeInv, ReqLife, WorkerLife, NoFileRow,
             Idle, Asleep
    <2>2. FaultInv /\ LifeInv /\ [FaultNext]_<<vars, late>> => LifeInv'
      BY FaultLife
    <2> QED BY <2>1, <2>2, FaultInvHolds, PTL DEF FaultSpec
  <1>2. FaultInv /\ FaultInv' /\ LifeInv /\ [FaultNext]_<<vars, late>> =>
          [Lifecycle!Next]_(Lifecycle!vars)
    BY FaultRefines
  <1> QED BY <1>1, <1>2, InitRefines, FaultInvHolds, PTL
          DEF FaultSpec, ImplementsLifecycle, Lifecycle!Spec
===============================================================================
