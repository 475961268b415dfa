--------------------------- MODULE RequestPoolProofs ---------------------------
(***************************************************************************)
(* For any number of requests, connections and threads: the pool is never  *)
(* overdrawn, and what a request occupies it gives back.                   *)
(***************************************************************************)
EXTENDS RequestPool, FiniteSetTheorems, TLAPS

\* Connections are counted, and a request whose code reads or writes rows has one.
\* At "publish", "reload" and in the answer after a time-out it may have none.
ConnInv ==
  /\ IsFiniteSet(conn)
  /\ \A r \in Reqs : pc[r] \in {"ready", "run", "body", "onloop", "flush", "tag"} => r \in conn

\* Whoever has written the File row, or assembles the file, has that row locked until
\* its commit, or until PostgreSQL aborts it; so has the error handler of the worker.
HoldInv ==
  /\ \A r \in Reqs : pc[r] = "flush" => fileLock = r
  /\ task \in {"assemble", "flushS"} => fileLock = Worker

IInv == TypeOK /\ ConnInv /\ HoldInv /\ NothingLeaks

\* The strengthened invariant holds initially.
LEMMA IInvInit == Init => IInv
  BY FS_EmptySet, PoolAssumption, WhoAssumption
     DEF Init, IInv, TypeOK, PC, AllOps, ConnInv, HoldInv, NothingLeaks

\* A checkout that found a free connection does not overdraw the pool, and a session
\* that is closed keeps it finite.
LEMMA CheckOut ==
  ASSUME IInv, NEW r \in Reqs, ConnFree
  PROVE  IsFiniteSet(conn \cup {r}) /\ Cardinality(conn \cup {r}) <= PoolSize
  <1>1. IsFiniteSet(conn)
    BY DEF IInv, ConnInv
  <1>2. Cardinality(conn) \in Nat
    BY <1>1, FS_CardinalityType
  <1> QED BY <1>1, <1>2, FS_AddElement, PoolAssumption DEF ConnFree

LEMMA CheckIn ==
  ASSUME IInv, NEW r \in Reqs
  PROVE  IsFiniteSet(conn \ {r}) /\ Cardinality(conn \ {r}) <= PoolSize
  <1>1. IsFiniteSet(conn) /\ Cardinality(conn) <= PoolSize
    BY DEF IInv, ConnInv, TypeOK
  <1>2. Cardinality(conn) \in Nat
    BY <1>1, FS_CardinalityType
  <1>3. conn \ {r} \in SUBSET conn
    OBVIOUS
  <1>4. /\ IsFiniteSet(conn \ {r}) /\ Cardinality(conn \ {r}) \in Nat
        /\ Cardinality(conn \ {r}) <= Cardinality(conn)
    BY <1>1, <1>3, FS_Subset, FS_CardinalityType
  <1> QED BY <1>1, <1>2, <1>4, PoolAssumption

\* Steps of a request that move it, and leave connections and locks alone.
LEMMA MovesKeep ==
  ASSUME IInv, NEW r \in Reqs,
         \/ \E o \in Ops : Arrive(r, o)
         \/ CallEndpoint(r) \/ BodyRead(r) \/ Query(r) \/ PoolTimeout(r)
  PROVE  IInv'
  <1>1. /\ conn' = conn /\ fileLock' = fileLock /\ sessLock' = sessLock /\ task' = task
        /\ op' \in [Reqs -> AllOps \cup {"recover"}]
        /\ stage' \in [Reqs -> {"none", "committed", "queued", "failed"}]
    BY OpsAssumption
       DEF IInv, TypeOK, Arrive, CallEndpoint, BodyRead, Query, PoolTimeout, rowLocks
  <1>2. PICK next \in PC : pc' = [pc EXCEPT ![r] = next]
                        /\ \/ pc[r] = "idle" /\ next = "auth"
                           \/ pc[r] = "ready" /\ next \in {"onloop", "body", "run"}
                           \/ pc[r] = "body" /\ next = "onloop"
                           \/ pc[r] = "run" /\ next = "done"
                           \/ pc[r] \in {"auth", "publish", "reload"}
                              /\ next \in {"done", pc[r]}
    <2>1. CASE \E o \in Ops : Arrive(r, o)
      BY <2>1 DEF Arrive, Goto, PC
    <2>2. CASE CallEndpoint(r)
      BY <2>2 DEF CallEndpoint, Goto, PC
    <2>3. CASE BodyRead(r) \/ Query(r)
      BY <2>3 DEF BodyRead, Query, Goto, PC
    <2>4. CASE PoolTimeout(r)
      <3>1. pc = [pc EXCEPT ![r] = pc[r]]
        BY DEF IInv, TypeOK
      <3> QED BY <2>4, <3>1 DEF PoolTimeout, WaitsForPool, Goto, PC
    <2> QED BY <2>1, <2>2, <2>3, <2>4
  <1>3. TypeOK'
    BY <1>1, <1>2 DEF IInv, TypeOK
  <1>4. pc'[r] = next /\ \A q \in Reqs \ {r} : pc'[q] = pc[q]
    BY <1>2 DEF IInv, TypeOK
  <1>5. ConnInv' /\ HoldInv' /\ NothingLeaks'
    BY <1>1, <1>2, <1>4 DEF IInv, TypeOK, ConnInv, HoldInv, NothingLeaks
  <1> QED BY <1>3, <1>5 DEF IInv

\* Checkouts.
LEMMA CheckOutsKeep ==
  ASSUME IInv, NEW r \in Reqs, Authenticate(r) \/ Publish(r) \/ Reload(r)
  PROVE  IInv'
  <1>1. /\ conn' = conn \cup {r} /\ ConnFree
        /\ fileLock' = fileLock /\ sessLock' = sessLock /\ task' = task
        /\ op' = op
        /\ stage' \in [Reqs -> {"none", "committed", "queued", "failed"}]
    BY DEF IInv, TypeOK, Authenticate, Publish, Reload, rowLocks
  <1>2. PICK next \in {"ready", "run", "tag", "done"} :
          pc' = [pc EXCEPT ![r] = next] /\ pc[r] \in {"auth", "publish", "reload"}
    BY DEF Authenticate, Publish, Reload, Goto
  <1>3. IsFiniteSet(conn') /\ Cardinality(conn') <= PoolSize
    BY <1>1, CheckOut
  <1>4. TypeOK'
    BY <1>1, <1>2, <1>3 DEF IInv, TypeOK, PC
  <1>5. pc'[r] = next /\ \A q \in Reqs \ {r} : pc'[q] = pc[q]
    BY <1>2 DEF IInv, TypeOK, PC
  <1>6. ConnInv' /\ HoldInv' /\ NothingLeaks'
    BY <1>1, <1>2, <1>3, <1>5 DEF IInv, TypeOK, ConnInv, HoldInv, NothingLeaks
  <1> QED BY <1>4, <1>6 DEF IInv

\* Commits and the end of a request: connection and locks go together.
LEMMA LetGoKeeps ==
  ASSUME IInv, NEW r \in Reqs,
         \/ CommitOnLoop(r) \/ InitCommit(r) \/ FlushCommit(r) \/ TagTask(r)
         \/ CloseSession(r)
  PROVE  IInv'
  <1>1. /\ LetGo(r) /\ task' = task
        /\ op' \in [Reqs -> AllOps \cup {"recover"}]
        /\ stage' \in [Reqs -> {"none", "committed", "queued", "failed"}]
    BY DEF IInv, TypeOK, CommitOnLoop, InitCommit, FlushCommit, TagTask, CloseSession, Leave,
           AllOps
  <1>2. PICK next \in {"done", "reload", "publish", "idle"} : pc' = [pc EXCEPT ![r] = next]
    BY DEF CommitOnLoop, InitCommit, FlushCommit, TagTask, CloseSession, Leave, Goto
  <1>3. IsFiniteSet(conn') /\ Cardinality(conn') <= PoolSize
    BY <1>1, CheckIn DEF LetGo
  <1>4. TypeOK'
    BY <1>1, <1>2, <1>3 DEF IInv, TypeOK, PC, LetGo
  <1>5. pc'[r] = next /\ \A q \in Reqs \ {r} : pc'[q] = pc[q]
    BY <1>2 DEF IInv, TypeOK, PC
  <1>6. ConnInv' /\ HoldInv'
    BY <1>1, <1>2, <1>3, <1>5, WhoAssumption DEF IInv, TypeOK, ConnInv, HoldInv, LetGo
  <1>7. NothingLeaks'
    BY <1>1, <1>2, <1>5, WhoAssumption DEF IInv, TypeOK, NothingLeaks, LetGo
  <1> QED BY <1>4, <1>6, <1>7 DEF IInv

\* Whoever locks the File row runs with a connection, and nobody has the lock before.
LEMMA LocksKeep ==
  ASSUME IInv, NEW r \in Reqs, Refuse(r) \/ FlushFile(r)
  PROVE  IInv'
  <1>1. /\ conn' = conn /\ sessLock' = sessLock /\ task' = task /\ op' = op /\ stage' = stage
        /\ pc[r] = "run" /\ fileLock = None /\ fileLock' = r
    BY DEF Refuse, FlushFile
  <1>2. PICK next \in {"flush", "done"} : pc' = [pc EXCEPT ![r] = next]
    BY DEF Refuse, FlushFile, Goto
  <1>3. TypeOK'
    BY <1>1, <1>2 DEF IInv, TypeOK, PC
  <1>4. pc'[r] = next /\ \A q \in Reqs \ {r} : pc'[q] = pc[q]
    BY <1>2 DEF IInv, TypeOK, PC
  <1>5. ConnInv' /\ HoldInv' /\ NothingLeaks'
    BY <1>1, <1>2, <1>4, WhoAssumption DEF IInv, TypeOK, ConnInv, HoldInv, NothingLeaks
  <1> QED BY <1>3, <1>5 DEF IInv

\* The worker takes its row locks from nobody; what it has taken, a deadlock gives
\* back with those of the victim only.
LEMMA WorkerKeeps ==
  ASSUME IInv, TakeTask \/ Finalize
  PROVE  IInv'
  <1>1. pc' = pc /\ op' = op /\ stage' = stage /\ conn' = conn
    BY DEF TakeTask, Finalize, LockSession, LockFile, EndTask, MarkFlushFile, MarkCommit
  <1>2. \/ fileLock' = fileLock /\ task' \notin {"assemble", "flushS"}
        \/ fileLock = None /\ fileLock' = Worker
        \/ /\ task \in {"assemble", "flushS"} /\ fileLock' = None
           /\ task' \in {"idle", "flushF"}
    BY DEF TakeTask, Finalize, LockSession, LockFile, EndTask, MarkFlushFile, MarkCommit,
           rowLocks
  <1>3. /\ sessLock' \in {sessLock, Worker, None}
        /\ task' \in {"idle", "lockS", "lockF", "assemble", "flushF", "flushS"}
    BY DEF TakeTask, Finalize, LockSession, LockFile, EndTask, MarkFlushFile, MarkCommit,
           rowLocks
  <1>4. TypeOK'
    BY <1>1, <1>2, <1>3 DEF IInv, TypeOK
  <1>5. ConnInv' /\ HoldInv' /\ NothingLeaks'
    BY <1>1, <1>2, WhoAssumption DEF IInv, ConnInv, HoldInv, NothingLeaks
  <1> QED BY <1>4, <1>5 DEF IInv

LEMMA VictimKeeps ==
  ASSUME IInv, DeadlockVictim
  PROVE  IInv'
  <1>1. PICK r \in Reqs :
          /\ pc[r] = "flush" /\ fileLock = r /\ task = "lockF"
          /\ \/ /\ task' \in {"idle", "flushF"} /\ sessLock' = None
                /\ UNCHANGED <<pc, fileLock>>
             \/ Goto(r, "done") /\ fileLock' = None /\ UNCHANGED <<task, sessLock>>
          /\ UNCHANGED <<op, stage, conn>>
    BY DEF DeadlockVictim
  <1>2. CASE task' \in {"idle", "flushF"} /\ sessLock' = None /\ UNCHANGED <<pc, fileLock>>
    BY <1>1, <1>2 DEF IInv, TypeOK, ConnInv, HoldInv, NothingLeaks
  <1>3. CASE Goto(r, "done") /\ fileLock' = None /\ UNCHANGED <<task, sessLock>>
    <2>1. TypeOK'
      BY <1>1, <1>3 DEF IInv, TypeOK, Goto, PC
    <2>2. pc'[r] = "done" /\ \A q \in Reqs \ {r} : pc'[q] = pc[q]
      BY <1>3 DEF IInv, TypeOK, Goto
    <2>3. \A q \in Reqs : pc'[q] # "flush"
      BY <1>1, <2>2 DEF IInv, HoldInv
    <2>4. ConnInv' /\ HoldInv' /\ NothingLeaks'
      BY <1>1, <1>3, <2>2, <2>3, WhoAssumption
         DEF IInv, TypeOK, ConnInv, HoldInv, NothingLeaks
    <2> QED BY <2>1, <2>4 DEF IInv
  <1> QED BY <1>1, <1>2, <1>3

\* The strengthened invariant is preserved by every step.
LEMMA IInvStep == IInv /\ [Next]_vars => IInv'
  <1> SUFFICES ASSUME IInv, [Next]_vars PROVE IInv'
    OBVIOUS
  <1>1. CASE UNCHANGED vars
    BY <1>1 DEF vars, rowLocks, IInv, TypeOK, ConnInv, HoldInv, NothingLeaks
  <1>2. ASSUME NEW r \in Reqs, Serve(r) \/ \E o \in Ops : Arrive(r, o) PROVE IInv'
    BY <1>2, MovesKeep, CheckOutsKeep, LetGoKeeps, LocksKeep DEF Serve
  <1>3. CASE TakeTask \/ Finalize \/ DeadlockVictim
    BY <1>3, WorkerKeeps, VictimKeeps
  <1> QED BY <1>1, <1>2, <1>3 DEF Next

LEMMA IInvAlways == Spec => []IInv
  BY IInvInit, IInvStep, PTL DEF Spec

\* Every variable keeps its type, and the requests in progress never have more
\* connections than the pool.
THEOREM PoolTyped == Spec => []TypeOK
  <1>1. IInv => TypeOK
    BY DEF IInv
  <1> QED BY <1>1, IInvAlways, PTL

\* Between requests, before authentication and after a commit a session has neither a
\* connection nor a row lock, whatever errors, time-outs, refusals and deadlocks came
\* before (get_db, get_current_user, soft_delete_file, _enqueue_finalization).
THEOREM NothingIsLeaked == Spec => []NothingLeaks
  <1>1. IInv => NothingLeaks
    BY DEF IInv
  <1> QED BY <1>1, IInvAlways, PTL
===============================================================================
