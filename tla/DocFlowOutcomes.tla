---------------------------- MODULE DocFlowOutcomes ----------------------------
(***************************************************************************)
(* What clients can count on: what a file was listed with it keeps, a poll *)
(* counts all chunks of a file past its upload, and a file in PROCESSING   *)
(* is somebody's.                                                          *)
(***************************************************************************)
EXTENDS DocFlowQueries, DocFlowContent

(***************************************************************************)
(* The calls that only read.                                               *)
(***************************************************************************)
LEMMA QueriesOnlyRead == QuerySpec => Spec
  <1>1. [QueryNext]_<<vars, queryVars>> => [Next]_vars
    BY DEF QueryNext
  <1> QED BY <1>1, PTL DEF QuerySpec, Spec

\* A checksum once stored stays.
LEMMA SumStays ==
  ASSUME IInv, [Next]_vars, NEW u \in Uploads, file[u].sum # None
  PROVE  file'[u].sum = file[u].sum
  <1>0. /\ TypeOK /\ ShapeInv /\ StartedInv /\ ChunkInv /\ WholeInv /\ ObjectInv
        /\ RowsValid(u) /\ file[u].status # "none"
    BY Begun DEF IInv, WholeInv
  <1>1. Assembled(chunk[u], sess[u].count)' = Assembled(chunk[u], sess[u].count)
    BY <1>0, RowsStay
  <1>2. file'[u].sum # None
    <2>1. ASSUME NEW w \in Workers, Finalizes(w, u) PROVE file'[u].sum # None
      BY <1>0, <2>1, FileEffects DEF ObjectInv, Finalizes
    <2> QED BY <1>0, <2>1, UploadWriters, FileEffects
  <1> QED BY <1>0, <1>1, <1>2, StepContent DEF ObjectInv

\* What a client was told was read from a row that has its checksum.
AnswersInv ==
  /\ \A u \in shown \cup links : u \in Uploads /\ file[u].sum # None
  /\ \A u \in Uploads : told[u] # None => told[u] = file[u].sum

\* The three reads of a poll.
LEMMA ReadIs ==
  ASSUME NEW p \in PollRow
  PROVE  /\ p.at = 0 => ReadNext(p) = [p EXCEPT !.at = 1, !.fs = file[p.u].status,
                                                !.gone = file[p.u].deleted]
         /\ p.at = 1 => ReadNext(p) = [p EXCEPT !.at = 2, !.ss = sess[p.u].status]
         /\ p.at = 2 => ReadNext(p) = [p EXCEPT !.at = 3, !.n = Cardinality(Present(p.u))]
  <1>1. ReadOrder[1] = "file" /\ ReadOrder[2] = "session" /\ ReadOrder[3] = "count"
    BY DEF ReadOrder
  <1>2. ASSUME p.at = 0
        PROVE  ReadNext(p) = [p EXCEPT !.at = 1, !.fs = file[p.u].status,
                                       !.gone = file[p.u].deleted]
    <2>1. p.at + 1 = 1
      BY <1>2
    <2> QED BY <1>1, <2>1 DEF ReadNext
  <1>3. ASSUME p.at = 1 PROVE ReadNext(p) = [p EXCEPT !.at = 2, !.ss = sess[p.u].status]
    <2>1. p.at + 1 = 2
      BY <1>3
    <2> QED BY <1>1, <2>1 DEF ReadNext
  <1>4. ASSUME p.at = 2
        PROVE  ReadNext(p) = [p EXCEPT !.at = 3, !.n = Cardinality(Present(p.u))]
    <2>1. p.at + 1 = 3
      BY <1>4
    <2> QED BY <1>1, <2>1 DEF ReadNext
  <1> QED BY <1>2, <1>3, <1>4

LEMMA FirstIs ==
  ASSUME NEW u \in Uploads
  PROVE  LET p == [NoPoll EXCEPT !.u = u] IN p \in PollRow /\ p.at = 0 /\ p.u = u
  <1>1. NoPoll \in PollRow /\ NoPoll.at = 0
    BY CountAssumption DEF NoPoll, PollRow, FileStatus, SessStatus
  <1> QED BY <1>1 DEF PollRow

LEMMA PollRows ==
  ASSUME NEW p \in PollRow, NEW k \in 0 .. 3
  PROVE  /\ \A q : \A fs \in FileStatus, gone \in BOOLEAN :
              q = [p EXCEPT !.at = k, !.fs = fs, !.gone = gone] => q \in PollRow
         /\ \A q : \A ss \in SessStatus : q = [p EXCEPT !.at = k, !.ss = ss] => q \in PollRow
         /\ \A q : \A n \in 0 .. MaxCount : q = [p EXCEPT !.at = k, !.n = n] => q \in PollRow
  BY DEF PollRow

\* What the reading calls remember has its type.
QueryTypeOK ==
  /\ poll \in PollRow
  /\ shown \cup links \subseteq Uploads
  /\ told \in [Uploads -> Content \cup {None}]

LEMMA StepQueryType == TypeOK /\ QueryTypeOK /\ [QueryNext]_<<vars, queryVars>> => QueryTypeOK'
  <1> SUFFICES ASSUME TypeOK, QueryTypeOK, [QueryNext]_<<vars, queryVars>> PROVE QueryTypeOK'
    OBVIOUS
  <1>0. file \in [Uploads -> FileRow] /\ sess \in [Uploads -> SessRow]
    BY DEF TypeOK, StoreTypeOK
  <1>1. CASE UNCHANGED queryVars
    BY <1>1 DEF queryVars, QueryTypeOK
  <1>2. CASE ListFiles
    BY <1>2 DEF ListFiles, QueryTypeOK
  <1>3. ASSUME NEW u \in Uploads, GetFileMetadata(u) PROVE QueryTypeOK'
    BY <1>0, <1>3 DEF GetFileMetadata, QueryTypeOK, FileRow
  <1>4. ASSUME NEW u \in Uploads, CreateDownloadLink(u) PROVE QueryTypeOK'
    BY <1>4 DEF CreateDownloadLink, QueryTypeOK
  <1>5. ASSUME NEW p \in PollRow, p.at \in {0, 1, 2}, p.u \in Uploads PROVE ReadNext(p) \in PollRow
    <2>1. Cardinality(Present(p.u)) \in 0 .. MaxCount
      <3>1. IsFiniteSet(Index) /\ Cardinality(Index) = MaxCount
        BY CountAssumption, FS_Interval DEF Index
      <3>2. IsFiniteSet(Present(p.u)) /\ Cardinality(Present(p.u)) <= MaxCount
        BY <3>1, FS_Subset DEF Present
      <3> QED BY <3>2, CountAssumption, FS_CardinalityType
    <2>2. file[p.u].status \in FileStatus /\ file[p.u].deleted \in BOOLEAN /\ sess[p.u].status \in SessStatus
      BY <1>0, <1>5 DEF FileRow, SessRow
    <2>3. ASSUME NEW k \in 0 .. 3, p.at + 1 = k PROVE ReadNext(p) \in PollRow
      <3>1. CASE p.at = 0
        <4>1. ReadNext(p) = [p EXCEPT !.at = k, !.fs = file[p.u].status, !.gone = file[p.u].deleted]
          <5>1. k = 1
            BY <2>3, <3>1
          <5> QED BY <1>5, <3>1, <5>1, ReadIs
        <4>2. \A fs \in FileStatus, gone \in BOOLEAN :
                ReadNext(p) = [p EXCEPT !.at = k, !.fs = fs, !.gone = gone] => ReadNext(p) \in PollRow
          BY <1>5, PollRows
        <4> QED BY <2>2, <4>1, <4>2
      <3>2. CASE p.at = 1
        <4>1. ReadNext(p) = [p EXCEPT !.at = k, !.ss = sess[p.u].status]
          <5>1. k = 2
            BY <2>3, <3>2
          <5> QED BY <1>5, <3>2, <5>1, ReadIs
        <4> QED BY <1>5, <2>2, <4>1, PollRows
      <3>3. CASE p.at = 2
        <4>1. ReadNext(p) = [p EXCEPT !.at = k, !.n = Cardinality(Present(p.u))]
          <5>1. k = 3
            BY <2>3, <3>3
          <5> QED BY <1>5, <3>3, <5>1, ReadIs
        <4> QED BY <1>5, <2>1, <4>1, PollRows
      <3> QED BY <1>5, <3>1, <3>2, <3>3
    <2> QED BY <1>5, <2>3
  <1>6. ASSUME NEW u \in Uploads, GetFileStatus(u) PROVE QueryTypeOK'
    <2>1. poll' \in PollRow
      BY <1>5, <1>6, FirstIs DEF GetFileStatus, QueryTypeOK
    <2> QED BY <1>6, <2>1 DEF GetFileStatus, QueryTypeOK
  <1> QED BY <1>1, <1>2, <1>3, <1>4, <1>6 DEF QueryNext, Query

LEMMA QueriesTyped == QuerySpec => []QueryTypeOK
  <1>1. QueryInit => QueryTypeOK
    BY CountAssumption DEF QueryInit, QueryTypeOK, NoPoll, PollRow, FileStatus, SessStatus
  <1>2. IInv => TypeOK
    BY DEF IInv
  <1> QED BY <1>1, <1>2, StepQueryType, QueriesOnlyRead, InvariantHolds, PTL DEF QuerySpec

LEMMA StepAnswers ==
  ASSUME IInv, QueryTypeOK, AnswersInv, [QueryNext]_<<vars, queryVars>>
  PROVE  AnswersInv'
  <1>1. CASE [Next]_vars /\ UNCHANGED queryVars
    BY <1>1, SumStays DEF AnswersInv, QueryTypeOK, queryVars
  <1>2. CASE Query /\ UNCHANGED file
    <2>1. \A u \in Uploads : Offered(u) => file[u].sum # None
      BY DEF IInv, ObjectInv, Offered
    <2>2. CASE ListFiles
      BY <1>2, <2>1, <2>2 DEF ListFiles, AnswersInv
    <2>3. ASSUME NEW u \in Uploads, GetFileStatus(u) PROVE AnswersInv'
      BY <1>2, <2>3 DEF GetFileStatus, AnswersInv
    <2>4. ASSUME NEW u \in Uploads, GetFileMetadata(u) PROVE AnswersInv'
      BY <1>2, <2>4 DEF GetFileMetadata, AnswersInv, QueryTypeOK
    <2>5. ASSUME NEW u \in Uploads, CreateDownloadLink(u) PROVE AnswersInv'
      BY <1>2, <2>1, <2>5 DEF CreateDownloadLink, AnswersInv
    <2> QED BY <1>2, <2>2, <2>3, <2>4, <2>5 DEF Query
  <1> QED BY <1>1, <1>2 DEF QueryNext, vars, storeVars, rowVars

LEMMA AnswersHold == QuerySpec => []AnswersInv
  <1>1. Init /\ QueryInit => AnswersInv
    BY DEF QueryInit, AnswersInv
  <1> QED BY <1>1, StepAnswers, QueriesOnlyRead, InvariantHolds, QueriesTyped, PTL DEF QuerySpec

\* A listing or a signed link is good for the uploaded bytes or, once the file is
\* deleted, for nothing, however long the client keeps it.
THEOREM DownloadsGetTheFile == QuerySpec => []DownloadsAreWhole
  <1>1. IInv /\ AnswersInv => DownloadsAreWhole
    BY DEF IInv, ObjectInv, AnswersInv, DownloadsAreWhole
  <1> QED BY <1>1, AnswersHold, QueriesOnlyRead, InvariantHolds, PTL

\* The checksum a client was given is that of everything it can download later.
THEOREM ChecksumsAreFinal == QuerySpec => []ChecksumsHold
  <1>1. IInv /\ AnswersInv => ChecksumsHold
    BY DEF IInv, ObjectInv, AnswersInv, ChecksumsHold
  <1> QED BY <1>1, AnswersHold, QueriesOnlyRead, InvariantHolds, PTL

\* The figures of a poll that has read a session with all its chunks: they were
\* there, and no statement of the poll came before them.
PollInv ==
  /\ poll.at \in {1, 2, 3} => poll.u \in Uploads /\ file[poll.u].status # "none"
  /\ poll.at = 2 /\ poll.ss \in {"ready_to_complete", "assembling", "completed"} =>
       Expected(poll.u) \subseteq Present(poll.u)

LEMMA FullCount ==
  ASSUME TypeOK, ChunkInv, NEW u \in Uploads, Expected(u) \subseteq Present(u)
  PROVE  Cardinality(Present(u)) = sess[u].count
  <1>1. Present(u) = Expected(u)
    BY DEF ChunkInv, UploadChunks, Present
  <1>2. sess[u].count \in Nat
    BY CountAssumption DEF TypeOK, StoreTypeOK, SessRow
  <1> QED BY <1>1, <1>2, FS_Interval DEF Expected

LEMMA StepPoll ==
  ASSUME IInv, QueryTypeOK, PollInv, PollsCountAll, [QueryNext]_<<vars, queryVars>>
  PROVE  PollInv' /\ PollsCountAll'
  <1>0. TypeOK /\ ShapeInv /\ StartedInv /\ ChunkInv /\ WholeInv
    BY DEF IInv
  <1>1. CASE [Next]_vars /\ UNCHANGED poll
    <2>1. SUFFICES ASSUME NEW u \in Uploads, poll.u = u, file[u].status # "none"
                   PROVE  PollInv' /\ PollsCountAll'
      BY <1>1 DEF PollInv, PollsCountAll
    <2>2. /\ file'[u].status # "none" /\ sess'[u].count = sess[u].count
          /\ Expected(u)' = Expected(u) /\ Present(u) \subseteq Present(u)'
      BY <1>0, <1>1, <2>1, Begun, FiguresStay, RowsGrow
    <2> QED BY <1>1, <2>1, <2>2 DEF PollInv, PollsCountAll, Present, Expected
  <1>2. CASE UNCHANGED <<vars, poll>>
    BY <1>2 DEF PollInv, PollsCountAll, Expected, Present, vars, storeVars, rowVars
  <1>3. ASSUME NEW u \in Uploads, GetFileStatus(u), UNCHANGED vars
        PROVE  PollInv' /\ PollsCountAll'
    <2>0. poll \in PollRow /\ file[u].status # "none" /\ UNCHANGED <<file, sess, chunk>>
      BY <1>3 DEF QueryTypeOK, GetFileStatus, vars, storeVars, rowVars
    <2>1. CASE poll.at \in {0, 3}
      <3>1. poll'.at = 1 /\ poll'.u = u
        <4> DEFINE p == [NoPoll EXCEPT !.u = u]
        <4>1. p \in PollRow /\ p.at = 0 /\ p.u = u
          BY FirstIs
        <4>2. poll' = ReadNext(p)
          BY <1>3, <2>1 DEF GetFileStatus
        <4>3. poll' = [p EXCEPT !.at = 1, !.fs = file[u].status, !.gone = file[u].deleted]
          BY <4>1, <4>2, ReadIs
        <4> QED BY <4>1, <4>3 DEF PollRow
      <3> QED BY <2>0, <3>1 DEF PollInv, PollsCountAll
    <2>2. CASE poll.at = 1
      <3>1. poll'.at = 2 /\ poll'.u = u /\ poll'.ss = sess[u].status
        <4>1. poll.u = u /\ poll' = ReadNext(poll)
          BY <1>3, <2>2 DEF GetFileStatus
        <4> QED BY <2>0, <2>2, <4>1, ReadIs DEF PollRow
      <3>2. sess[u].status \in {"ready_to_complete", "assembling", "completed"} =>
              Expected(u) \subseteq Present(u)
        BY <1>0, WholeRows DEF WholeInv, ChunkInv, UploadChunks
      <3> QED BY <2>0, <3>1, <3>2 DEF PollInv, PollsCountAll, Expected, Present
    <2>3. CASE poll.at = 2
      <3>1. /\ poll'.at = 3 /\ poll'.u = u /\ poll'.ss = poll.ss
            /\ poll'.n = Cardinality(Present(u)) /\ poll.u = u
        <4>1. poll.u = u /\ poll' = ReadNext(poll)
          BY <1>3, <2>3 DEF GetFileStatus
        <4> QED BY <2>0, <2>3, <4>1, ReadIs DEF PollRow
      <3> QED BY <1>0, <2>0, <2>3, <3>1, FullCount DEF PollInv, PollsCountAll
    <2> QED BY <2>0, <2>1, <2>2, <2>3 DEF PollRow
  <1>4. ASSUME Query, UNCHANGED vars
        PROVE  poll' = poll \/ \E u \in Uploads : GetFileStatus(u)
    BY <1>4 DEF Query, ListFiles, GetFileMetadata, CreateDownloadLink
  <1> QED BY <1>1, <1>2, <1>3, <1>4 DEF QueryNext, queryVars

\* A poll that shows an upload READY_TO_COMPLETE or beyond shows all its chunks,
\* though the session and the count are read by two statements.
THEOREM PollsShowAll == QuerySpec => []PollsCountAll
  <1>1. QueryInit => PollInv /\ PollsCountAll
    BY DEF QueryInit, NoPoll, PollInv, PollsCountAll
  <1> QED BY <1>1, StepPoll, QueriesOnlyRead, InvariantHolds, QueriesTyped, PTL DEF QuerySpec

-------------------------------------------------------------------------------
(***************************************************************************)
(* What the processes know about the file they work on.                    *)
(***************************************************************************)
LEMMA FlushIs ==
  ASSUME TypeOK, NEW r \in Reqs, NEW u \in Uploads, Flushes(r, u)
  PROVE  LET op == req[r].op IN
         /\ req[r].pc = "flushS"
         /\ req[r].fs # FileTarget(op) => file'[u].status = FileTarget(op)
         /\ req[r].fs = FileTarget(op) => file'[u].status = file[u].status
         /\ file'[u].deleted <=> file[u].deleted \/ op = "delete"
  <1>1. file \in [Uploads -> FileRow]
    BY DEF TypeOK, StoreTypeOK
  <1> QED BY <1>1 DEF Flushes, FlushCommit, At, FileRow

LEMMA AcceptedStays ==
  ASSUME TypeOK, ShapeInv, [Next]_vars, NEW u \in Uploads, Accepted(u)
  PROVE  Accepted(u)'
  <1>1. \A op : FileTarget(op) \notin {"none", "pending"}
    BY DEF FileTarget
  <1> QED BY <1>1, UploadWriters, FileEffects DEF Accepted

\* A file is only ever marked DELETED together with its flag.
LEMMA StepMark ==
  ASSUME TypeOK, ShapeInv, [Next]_vars, NEW u \in Uploads,
         file[u].status = "deleted" => file[u].deleted
  PROVE  file'[u].status = "deleted" => file'[u].deleted
  <1>1. \A op : FileTarget(op) = "deleted" => op = "delete"
    BY DEF FileTarget
  <1> QED BY <1>1, UploadWriters, FileEffects, FlushIs

\* How a request begins.
LEMMA RequestIs ==
  ASSUME ReqTypeOK, NEW r \in Reqs, Request(r)
  PROVE  \E u \in Uploads :
           /\ req[r].pc = "idle" /\ req'[r].u = u /\ file' = file
           /\ \/ req'[r].pc \in {"reading", "expire", "loaded"} /\ req'[r].fs = "none"
              \/ req'[r].pc = "loaded" /\ req'[r].fs = "failed" /\ file[u].status = "failed"
              \/ /\ req'[r].pc = "flushS" /\ req'[r].op = "delete"
                 /\ req'[r].fs = file[u].status
  <1> USE DEF storeVars, rowVars, At
  <1>0. req \in [Reqs -> ReqRow]
    BY DEF ReqTypeOK
  <1>1. ASSUME NEW u \in Uploads, NEW i \in Index, NEW c \in Payloads, ChunkBegin(r, u, i, c)
        PROVE  /\ req[r].pc = "idle" /\ req'[r].u = u /\ file' = file
               /\ req'[r].pc = "reading" /\ req'[r].fs = "none"
    BY <1>0, <1>1 DEF ChunkBegin, Idle
  <1>2. ASSUME NEW u \in Uploads, NEW op \in {"chunk", "complete"}, FindExpired(r, u, op)
        PROVE  /\ req[r].pc = "idle" /\ req'[r].u = u /\ file' = file
               /\ req'[r].pc = "expire" /\ req'[r].fs = "none"
    BY <1>0, <1>2 DEF FindExpired, Idle
  <1>3. ASSUME NEW u \in Uploads, CompleteBegin(r, u)
        PROVE  /\ req[r].pc = "idle" /\ req'[r].u = u /\ file' = file
               /\ req'[r].pc = "loaded" /\ req'[r].fs = "none"
    BY <1>0, <1>3 DEF CompleteBegin, Idle
  <1>4. ASSUME NEW u \in Uploads, RetryBegin(r, u)
        PROVE  /\ req[r].pc = "idle" /\ req'[r].u = u /\ file' = file
               /\ req'[r].pc = "loaded" /\ req'[r].fs = "failed" /\ file[u].status = "failed"
    BY <1>0, <1>4 DEF RetryBegin, Idle
  <1>5. ASSUME NEW u \in Uploads, SoftDelete(r, u)
        PROVE  /\ req[r].pc = "idle" /\ req'[r].u = u /\ file' = file
               /\ req'[r].pc = "flushS" /\ req'[r].op = "delete" /\ req'[r].fs = file[u].status
    BY <1>0, <1>5 DEF SoftDelete, Idle
  <1> QED BY <1>1, <1>2, <1>3, <1>4, <1>5 DEF Request

\* How a handler goes on: where to, and what it has loaded by then.
HandleStep(r, u) ==
  \/ /\ req[r].pc \in {"reading", "stored", "expire", "loaded", "tag", "cleanup"}
     /\ req'[r] = Idle
  \/ /\ Flushes(r, u) /\ req[r].op \notin {"complete", "retry", "delete"}
     /\ req'[r] = Idle
  \/ req[r].pc = "reading" /\ req'[r].pc = "stored" /\ req'[r].fs = req[r].fs
  \/ req[r].pc = "loaded" /\ req'[r].pc = "expire" /\ req'[r].fs = "none"
  \/ /\ req[r].pc = "loaded" /\ req'[r].pc = "flushF" /\ req'[r].op \in {"complete", "retry"}
     /\ req'[r].fs \in {req[r].fs, file[u].status}
  \/ /\ req[r].pc = "flushF" /\ req'[r].pc = "flushS" /\ req'[r].op = req[r].op
     /\ req'[r].fs = req[r].fs
  \/ /\ Flushes(r, u) /\ req[r].op \in {"complete", "retry"}
     /\ req'[r].pc = "publish" /\ req'[r].fs = "none"
  \/ /\ Flushes(r, u) /\ req[r].op = "delete"
     /\ req'[r].pc = "cleanup" /\ req'[r].fs = "none"
  \/ req[r].pc = "publish" /\ req'[r].pc = "tag" /\ req'[r].fs = req[r].fs /\ finq'[u] > 0
  \/ req[r].pc = "publish" /\ req'[r].pc = "failed" /\ req'[r].fs = req[r].fs
  \/ /\ req[r].pc = "failed" /\ req'[r].pc = "flushF" /\ req'[r].op = "queue_error"
     /\ req'[r].fs = file[u].status

LEMMA HandleIs ==
  ASSUME TypeOK, ShapeInv, NEW r \in Reqs, Handle(r), NEW u \in Uploads, req[r].u = u
  PROVE  HandleStep(r, u) /\ (req'[r] = Idle \/ req'[r].u = u)
  <1>0. ReqTypeOK /\ req \in [Reqs -> ReqRow]
    BY DEF TypeOK, ReqTypeOK
  <1>f. Finish(r) => req'[r] = Idle
    BY <1>0, FinishIs
  <1>1. CASE ChunkReject(r) \/ ChunkCommit(r) \/ ExpireCommit(r) \/ TagTask(r) \/ QueueCleanup(r)
    BY <1>f, <1>1 DEF ChunkReject, ChunkCommit, ExpireCommit, TagTask, QueueCleanup, HandleStep, At
  <1>2. CASE ChunkStore(r)
    <2>1. req'[r].fs = req[r].fs
      BY <1>0, <1>2 DEF ChunkStore, ReqRow
    <2> QED BY <1>0, <1>2, <2>1, StoredIs DEF HandleStep
  <1>3. CASE CompleteCheck(r)
    <2>0. req[r].pc = "loaded" /\ req[r].op = "complete"
      BY <1>3 DEF CompleteCheck, At
    <2>1. ASSUME Enter(r, "expire", "complete") PROVE HandleStep(r, u) /\ req'[r].u = u
      BY <1>0, <2>0, <2>1, EnterIs DEF HandleStep
    <2>2. ASSUME req' = [req EXCEPT ![r].pc = "flushF", ![r].fs = file[u].status]
          PROVE  HandleStep(r, u) /\ req'[r].u = u
      <3>1. /\ req'[r].pc = "flushF" /\ req'[r].fs = file[u].status
            /\ req'[r].op = "complete" /\ req'[r].u = u
        BY <1>0, <2>0, <2>2 DEF ReqRow
      <3> QED BY <2>0, <3>1 DEF HandleStep
    <2> QED BY <1>f, <1>3, <2>1, <2>2 DEF CompleteCheck, HandleStep, At
  <1>4. CASE RetryCheck(r)
    <2>0. req[r].pc = "loaded" /\ req[r].op = "retry"
      BY <1>4 DEF RetryCheck, At
    <2>1. ASSUME req' = [req EXCEPT ![r].pc = "flushF", ![r].ss = sess[u].status]
          PROVE  HandleStep(r, u) /\ req'[r].u = u
      <3>1. /\ req'[r].pc = "flushF" /\ req'[r].fs = req[r].fs
            /\ req'[r].op = "retry" /\ req'[r].u = u
        BY <1>0, <2>0, <2>1 DEF ReqRow
      <3> QED BY <2>0, <3>1 DEF HandleStep
    <2> QED BY <1>f, <1>4, <2>1 DEF RetryCheck, HandleStep, At
  <1>5. CASE FlushFile(r)
    <2>1. /\ req[r].pc = "flushF" /\ req'[r].pc = "flushS" /\ req'[r].op = req[r].op
          /\ req'[r].fs = req[r].fs /\ req'[r].u = u
      BY <1>0, <1>5 DEF FlushFile, Goto, At, ReqRow
    <2> QED BY <2>1 DEF HandleStep
  <1>6. CASE FlushCommit(r)
    <2>1. Flushes(r, u)
      BY <1>6 DEF Flushes
    <2>2. ASSUME req[r].op \in {"complete", "retry"} PROVE HandleStep(r, u) /\ req'[r].u = u
      BY <1>0, <1>6, <2>1, <2>2, EnterIs DEF FlushCommit, HandleStep
    <2>3. ASSUME req[r].op = "delete" PROVE HandleStep(r, u) /\ req'[r].u = u
      BY <1>0, <1>6, <2>1, <2>3, EnterIs DEF FlushCommit, HandleStep
    <2> QED BY <1>f, <1>6, <2>1, <2>2, <2>3 DEF FlushCommit, HandleStep
  <1>7. CASE Publish(r) \/ PublishError(r)
    <2>1. /\ req[r].pc = "publish" /\ req'[r].pc = IF Publish(r) THEN "tag" ELSE "failed"
          /\ req'[r].fs = req[r].fs /\ req'[r].u = u
      BY <1>0, <1>7 DEF Publish, PublishError, Goto, At, ReqRow
    <2>2. Publish(r) => finq'[u] > 0
      BY DEF Publish, TypeOK, StoreTypeOK
    <2> QED BY <2>1, <2>2 DEF HandleStep
  <1>8. CASE MarkQueueError(r)
    <2>1. /\ req[r].pc = "failed" /\ req'[r].pc = "flushF" /\ req'[r].op = "queue_error"
          /\ req'[r].fs = file[u].status /\ req'[r].u = u
      BY <1>0, <1>8 DEF MarkQueueError, At, ReqRow
    <2> QED BY <2>1 DEF HandleStep
  <1> QED BY <1>1, <1>2, <1>3, <1>4, <1>5, <1>6, <1>7, <1>8 DEF Handle

\* The two ways a process of upload u can end in a deadlock: some task that waits
\* for the File goes on.
TaskGoesOn(u) == \E v \in Workers : wk[v].pc = "lockF" /\ wk[v].u = u /\ wk'[v] = wk[v]

LEMMA ReqIs ==
  ASSUME TypeOK, ShapeInv, [Next]_vars, NEW r \in Reqs
  PROVE  \/ req'[r] = req[r]
         \/ Request(r) /\ UNCHANGED wk
         \/ Handle(r) /\ UNCHANGED wk
         \/ req'[r] = Idle /\ ("crash" \in FaultKinds \/ TaskGoesOn(req[r].u))
  <1>0. ReqTypeOK /\ req \in [Reqs -> ReqRow]
    BY DEF TypeOK, ReqTypeOK
  <1>1. ASSUME NEW q \in Reqs, Request(q) \/ Handle(q) \/ Abort(q), q # r PROVE req'[r] = req[r]
    BY <1>0, <1>1, RequestLocal
  <1>2. ASSUME Abort(r) PROVE req'[r] = Idle /\ "crash" \in FaultKinds
    BY <1>0, <1>2, FinishIs DEF Abort, Fault
  <1>3. ASSUME NEW w \in Workers, ResolveDeadlock(w)
        PROVE  req'[r] = req[r] \/ (req'[r] = Idle /\ TaskGoesOn(req[r].u))
    <2>1. ASSUME HandlerIsVictim(w)
          PROVE  req'[r] = req[r] \/ (req'[r] = Idle /\ TaskGoesOn(req[r].u))
      <3>1. PICK q \in Reqs : HandlerWaits(q, w, wk[w].u) /\ Finish(q) /\ wk' = wk
        BY <2>1 DEF HandlerIsVictim
      <3>2. wk[w].pc = "lockF" /\ wk[w].u = req[q].u
        BY <2>1, <3>1 DEF HandlerIsVictim, Doing, HandlerWaits
      <3> QED BY <1>0, <3>1, <3>2 DEF Finish, TaskGoesOn
    <2> QED BY <1>3, <2>1 DEF ResolveDeadlock, TaskIsVictim, MarkerIsVictim
  <1>4. ASSUME NEW u \in Uploads, Expire(u) \/ Initializes(u) PROVE req' = req
    BY <1>4 DEF Expire, Initializes, InitializeUpload
  <1>5. CASE UNCHANGED vars
    BY <1>5 DEF vars
  <1> QED BY <1>1, <1>2, <1>3, <1>4, <1>5 DEF Next, Initializes

\* How a worker goes on.
WorkStep(w, u) ==
  \/ wk[w].pc = "lockS" /\ wk'[w].pc = "lockF"
  \/ /\ wk[w].pc = "lockF" /\ wk'[w].pc = "assemble" /\ Finalizable(u) /\ ~file[u].deleted
     /\ file' = file
  \/ wk[w].pc \in InTry /\ wk'[w].pc = "markS"
  \/ wk[w].pc = "assemble" /\ wk'[w].pc = "commit" /\ file' = file
  \/ Finalizes(w, u) /\ wk'[w].pc = "remove"
  \/ /\ wk[w].pc = "markS" /\ wk'[w].pc = "markF" /\ wk'[w].ss = sess[u].status
     /\ UNCHANGED <<file, sess>>
  \/ /\ wk[w].pc = "markF" /\ wk'[w].pc = "flushF" /\ wk'[w].ss = wk[w].ss
     /\ wk'[w].fs = file[u].status /\ ~file[u].deleted /\ UNCHANGED <<file, sess>>
  \/ /\ wk[w].pc = "flushF" /\ wk'[w].pc = "flushS" /\ wk'[w].ss = wk[w].ss
     /\ wk'[w].fs = wk[w].fs

\* How it ends.
WorkEnd(w, u) ==
  \/ wk[w].pc \in {"lockF", "markF"} /\ file[u].deleted
  \/ wk[w].pc = "remove"
  \/ Marks(w, u)
  \/ wk[w].pc = "flushS" /\ TaskGoesOn(u) /\ file' = file
  \/ "crash" \in FaultKinds

LEMMA TaskIs ==
  ASSUME TypeOK, ShapeInv, NEW w \in Workers, Work(w) \/ TaskError(w) \/ WorkerCrash(w),
         wk[w].pc # "idle", NEW u \in Uploads, wk[w].u = u
  PROVE  \/ wk'[w] = Asleep /\ WorkEnd(w, u)
         \/ wk'[w].u = u /\ WorkStep(w, u)
  <1> USE DEF Doing
  <1>0. WorkerTypeOK /\ wk \in [Workers -> WorkerRow]
    BY DEF TypeOK, WorkerTypeOK
  <1>s. Sleep(w) => wk'[w] = Asleep
    BY <1>0, SleepIs
  <1>r. RollbackAndMark(w) => wk'[w].pc = "markS" /\ wk'[w].u = u
    BY <1>0, RollbackIs
  <1>1. CASE LockSession(w)
    BY <1>0, <1>1 DEF LockSession, Step, WorkStep, WorkerRow
  <1>2. CASE LockFile(w)
    <2>1. wk[w].pc = "lockF" /\ file' = file
      BY <1>2 DEF LockFile, rowVars
    <2>2. ASSUME Step(w, "assemble"), Finalizable(u), ~file[u].deleted
          PROVE  wk'[w].u = u /\ WorkStep(w, u)
      BY <1>0, <2>1, <2>2 DEF Step, WorkStep, WorkerRow
    <2>3. RollbackAndMark(w) => wk'[w].u = u /\ WorkStep(w, u)
      BY <1>r, <2>1 DEF WorkStep, InTry
    <2>4. Sleep(w) /\ file[u].deleted => wk'[w] = Asleep /\ WorkEnd(w, u)
      BY <1>s, <2>1 DEF WorkEnd
    <2> QED BY <1>2, <2>2, <2>3, <2>4 DEF LockFile, DeletedFirst
  <1>3. CASE Assemble(w)
    <2>1. file' = file
      BY <1>3 DEF Assemble, rowVars
    <2> QED BY <1>0, <1>3, <2>1, AssembledIs DEF WorkStep
  <1>4. CASE AssembleFail(w) \/ TaskError(w)
    <2>1. wk[w].pc \in InTry /\ RollbackAndMark(w)
      BY <1>4 DEF AssembleFail, TaskError, InTry
    <2> QED BY <1>r, <2>1 DEF WorkStep
  <1>5. CASE CommitFinal(w)
    <2>1. wk'[w].u = u /\ wk'[w].pc = "remove"
      BY <1>0, <1>5 DEF CommitFinal, WorkerRow
    <2> QED BY <1>5, <2>1 DEF WorkStep, Finalizes
  <1>6. CASE RemoveChunks(w) \/ MarkCommit(w) \/ WorkerCrash(w)
    BY <1>s, <1>6 DEF RemoveChunks, MarkCommit, WorkerCrash, Fault, WorkEnd, Marks
  <1>7. CASE MarkLoadSession(w)
    <2>1. /\ wk[w].pc = "markS" /\ wk'[w].pc = "markF" /\ wk'[w].ss = sess[u].status
          /\ wk'[w].u = u /\ UNCHANGED <<file, sess>>
      BY <1>0, <1>7 DEF MarkLoadSession, WorkerRow, storeVars, rowVars
    <2> QED BY <2>1 DEF WorkStep
  <1>8. CASE MarkLoadFile(w)
    <2>1. wk[w].pc = "markF" /\ UNCHANGED <<file, sess>>
      BY <1>8 DEF MarkLoadFile, storeVars, rowVars
    <2>2. ASSUME ~file[u].deleted,
                 wk' = [wk EXCEPT ![w].pc = "flushF", ![w].fs = file[u].status]
          PROVE  wk'[w].u = u /\ WorkStep(w, u)
      <3>1. /\ wk'[w].u = u /\ wk'[w].pc = "flushF" /\ wk'[w].fs = file[u].status
            /\ wk'[w].ss = wk[w].ss
        BY <1>0, <2>2 DEF WorkerRow
      <3> QED BY <2>1, <2>2, <3>1 DEF WorkStep
    <2>3. Sleep(w) /\ file[u].deleted => wk'[w] = Asleep /\ WorkEnd(w, u)
      BY <1>s, <2>1 DEF WorkEnd
    <2> QED BY <1>8, <2>2, <2>3 DEF MarkLoadFile
  <1>9. CASE MarkFlushFile(w)
    <2>1. /\ wk[w].pc = "flushF" /\ wk'[w].pc = "flushS" /\ wk'[w].ss = wk[w].ss
          /\ wk'[w].fs = wk[w].fs /\ wk'[w].u = u
      BY <1>0, <1>9 DEF MarkFlushFile, Step, WorkerRow
    <2> QED BY <2>1 DEF WorkStep
  <1>10. ~ \E v \in Uploads : TakeFinalize(w, v) \/ Cleanup(w, v)
    BY DEF TakeFinalize, Cleanup
  <1> QED BY <1>1, <1>2, <1>3, <1>4, <1>5, <1>6, <1>7, <1>8, <1>9, <1>10 DEF Work

LEMMA WorkIs ==
  ASSUME TypeOK, ShapeInv, [Next]_vars, NEW w \in Workers, NEW u \in Uploads, wk[w].u = u
  PROVE  \/ wk'[w] = wk[w]
         \/ wk'[w] = Asleep /\ WorkEnd(w, u)
         \/ wk'[w].u = u /\ WorkStep(w, u)
  <1>0. WorkerTypeOK /\ wk \in [Workers -> WorkerRow] /\ wk[w].pc # "idle"
    BY NoneAssumption DEF TypeOK, WorkerTypeOK, ShapeInv, WorkerShape
  <1>1. ASSUME NEW v \in Workers, Work(v) \/ TaskError(v) \/ WorkerCrash(v), v # w
        PROVE  wk'[w] = wk[w]
    BY <1>0, <1>1, WorkerLocal
  <1>2. CASE Work(w) \/ TaskError(w) \/ WorkerCrash(w)
    BY <1>0, <1>2, TaskIs
  <1>3. ASSUME NEW v \in Workers, ResolveDeadlock(v)
        PROVE  \/ wk'[w] = wk[w]
               \/ wk'[w] = Asleep /\ WorkEnd(w, u)
               \/ wk'[w].u = u /\ WorkStep(w, u)
    <2>1. CASE TaskIsVictim(v)
      <3>1. wk[v].pc \in InTry /\ RollbackAndMark(v)
        BY <2>1 DEF TaskIsVictim, Deadlocked, Doing, InTry
      <3>2. v # w => wk'[w] = wk[w]
        BY <1>0, <3>1 DEF RollbackAndMark
      <3> QED BY <1>0, <3>1, <3>2, RollbackIs DEF WorkStep
    <2>2. CASE HandlerIsVictim(v)
      BY <2>2 DEF HandlerIsVictim
    <2>3. CASE MarkerIsVictim(v)
      <3>1. PICK x \in Workers : MarkerWaits(x, v, wk[v].u) /\ Sleep(x)
        BY <2>3 DEF MarkerIsVictim
      <3>2. /\ wk[v].pc = "lockF" /\ wk[x].pc = "flushS" /\ wk[v].u = wk[x].u /\ file' = file
        BY <2>3, <3>1 DEF MarkerIsVictim, MarkerWaits, Doing, rowVars
      <3>3. wk'[v] = wk[v] /\ (x # w => wk'[w] = wk[w])
        BY <1>0, <3>1, <3>2 DEF Sleep
      <3> QED BY <1>0, <3>1, <3>2, <3>3, SleepIs DEF WorkEnd, TaskGoesOn
    <2> QED BY <1>3, <2>1, <2>2, <2>3 DEF ResolveDeadlock
  <1>4. ASSUME NEW v \in Uploads, Expire(v) \/ Initializes(v) PROVE wk' = wk
    BY <1>4 DEF Expire, Initializes
  <1>5. CASE UNCHANGED vars
    BY <1>5 DEF vars
  <1> QED BY <1>1, <1>2, <1>3, <1>4, <1>5 DEF Next, Initializes

LEMMA StepReqLife ==
  ASSUME TypeOK, ShapeInv, LifeInv, [Next]_vars, NEW r \in Reqs
  PROVE  ReqLife(r)'
  <1>0. ReqTypeOK
    BY DEF TypeOK
  <1>1. CASE req'[r].pc = "idle"
    BY <1>1 DEF ReqLife
  <1>2. CASE Request(r)
    BY <1>0, <1>2, RequestIs DEF ReqLife, Accepted
  <1>3. ASSUME NEW u \in Uploads, req[r].u = u, req'[r].u = u, req'[r] = req[r]
        PROVE  ReqLife(r)'
    <2>1. Accepted(u) => Accepted(u)'
      BY AcceptedStays
    <2> QED BY <1>3, <2>1 DEF LifeInv, ReqLife, Accepted
  <1>4. ASSUME NEW u \in Uploads, req[r].u = u, Handle(r) PROVE ReqLife(r)'
    <2>1. Accepted(u) => Accepted(u)'
      BY AcceptedStays
    <2>2. HandleStep(r, u) /\ (req'[r] = Idle \/ req'[r].u = u)
      BY <1>4, HandleIs
    <2>3. ReqLife(r) /\ ReqShape(r)
      BY DEF LifeInv, ShapeInv
    <2>4. ASSUME Flushes(r, u), req[r].op \in {"complete", "retry"} PROVE Accepted(u)'
      <3>1. FileTarget(req[r].op) = "processing"
        BY <2>4 DEF FileTarget
      <3> QED BY <1>4, <2>1, <2>3, <2>4, <3>1, FlushIs DEF ReqLife, Accepted
    <2>5. CASE req'[r].u = u
      BY <1>4, <2>1, <2>2, <2>3, <2>4, <2>5 DEF HandleStep, ReqLife, Accepted, Idle
    <2> QED BY <1>1, <2>2, <2>5 DEF Idle
  <1>5. req[r].pc = "idle" \/ \E u \in Uploads : req[r].u = u
    BY <1>0 DEF ReqTypeOK, ReqRow, ShapeInv, ReqShape
  <1>6. CASE req'[r] = req[r]
    BY <1>1, <1>3, <1>5, <1>6
  <1>7. Handle(r) => req[r].pc # "idle"
    BY DEF Handle, ChunkStore, ChunkReject, ChunkCommit, ExpireCommit, CompleteCheck, RetryCheck,
           FlushFile, FlushCommit, Publish, PublishError, TagTask, MarkQueueError, QueueCleanup, At
  <1> QED BY <1>1, <1>2, <1>4, <1>5, <1>6, <1>7, ReqIs DEF Idle

LEMMA StepWorkerLife ==
  ASSUME IInv, LifeInv, [Next]_vars, NEW w \in Workers
  PROVE  WorkerLife(w)'
  <1>0. TypeOK /\ WorkerTypeOK /\ ShapeInv /\ LockInv
    BY DEF IInv, TypeOK
  <1>1. CASE wk'[w].pc = "idle"
    BY <1>1 DEF WorkerLife
  <1>2. ASSUME NEW u \in Uploads, TakeFinalize(w, u) PROVE WorkerLife(w)'
    <2>1. wk'[w].u = u /\ wk'[w].pc = "lockS" /\ Accepted(u)
      BY <1>0, <1>2, TakenIs DEF LifeInv
    <2>2. Accepted(u)'
      BY <1>0, <2>1, AcceptedStays
    <2> QED BY <2>1, <2>2 DEF WorkerLife, Accepted
  <1>3. ASSUME NEW u \in Uploads, wk[w].u = u, wk'[w].pc # "idle" PROVE WorkerLife(w)'
    <2>1. WorkerLife(w) /\ wk[w].pc # "idle"
      BY <1>0, <1>3, NoneAssumption DEF LifeInv, ShapeInv, WorkerShape
    <2>2. Accepted(u)'
      BY <1>0, <1>3, <2>1, AcceptedStays DEF WorkerLife
    <2>3. CASE wk'[w] = wk[w]
      <3>1. wk[w].pc \in {"assemble", "commit"} => file'[u] = file[u]
        <4>1. SUFFICES ASSUME wk[w].pc \in {"assemble", "commit"}, file'[u] # file[u] PROVE FALSE
          OBVIOUS
        <4>2. fileLock[u] = w /\ file[u].status = "processing"
          BY <1>0, <1>3, <2>1, <4>1 DEF LockInv, WorkerLocks, WorkerLife
        <4>3. ASSUME NEW r \in Reqs, Flushes(r, u) PROVE FALSE
          <5>1. fileLock[u] = r
            BY <1>0, <4>1, <4>3, FlushWrites DEF OnlyFilesOf, Flushes
          <5> QED BY <4>2, <5>1, ProcessAssumption
        <4>4. ASSUME NEW v \in Workers, Finalizes(v, u) \/ Marks(v, u) PROVE FALSE
          <5>1. fileLock[u] = v
            BY <1>0, <4>4, FileEffects DEF LockInv, WorkerLocks, Finalizes, Marks
          <5>2. wk'[v].pc \in {"remove", "idle"}
            BY <1>0, <4>4, SleepIs DEF Finalizes, Marks, CommitFinal, MarkCommit, WorkerTypeOK,
                                       WorkerRow, Asleep
          <5> QED BY <2>3, <4>1, <4>2, <5>1, <5>2
        <4> QED BY <1>0, <4>1, <4>2, <4>3, <4>4, UploadWriters, FileEffects
      <3> QED BY <1>3, <2>1, <2>2, <2>3, <3>1 DEF WorkerLife, Accepted
    <2>4. CASE wk'[w].u = u /\ WorkStep(w, u)
      <3>1. wk'[w].pc \in {"assemble", "commit"} => file'[u].status = "processing"
        BY <1>3, <2>1, <2>4 DEF WorkStep, WorkerLife, Finalizable
      <3> QED BY <1>3, <2>2, <2>4, <3>1 DEF WorkerLife, Accepted
    <2> QED BY <1>0, <1>1, <1>3, <2>3, <2>4, WorkIs DEF Asleep
  <1>4. ASSUME wk[w].pc = "idle"
        PROVE  wk'[w].pc = "idle" \/ \E u \in Uploads : TakeFinalize(w, u)
    BY <1>0, <1>4, WorkerMoves, AssembledIs DEF Asleep, WorksOn
  <1>5. wk[w].pc = "idle" \/ \E u \in Uploads : wk[w].u = u
    BY <1>0 DEF WorkerTypeOK, WorkerRow, ShapeInv, WorkerShape
  <1> QED BY <1>1, <1>2, <1>3, <1>4, <1>5

LEMMA StepLife == IInv /\ LifeInv /\ [Next]_vars => LifeInv'
  <1> SUFFICES ASSUME IInv, LifeInv, [Next]_vars PROVE LifeInv'
    OBVIOUS
  <1>0. TypeOK /\ ShapeInv
    BY DEF IInv
  <1>1. ASSUME NEW u \in Uploads, finq'[u] > 0 PROVE Accepted(u)'
    <2>1. SUFFICES Accepted(u)
      BY <1>0, AcceptedStays
    <2>2. ASSUME NEW r \in Reqs, Publish(r) \/ PublishError(r), req[r].u = u PROVE Accepted(u)
      BY <2>2 DEF Publish, PublishError, At, LifeInv, ReqLife
    <2>3. ASSUME NEW w \in Workers, TakeFinalize(w, u) PROVE finq[u] > 0
      BY <2>3 DEF TakeFinalize
    <2> QED BY <1>0, <1>1, <2>2, <2>3, UploadWriters DEF LifeInv
  <1>2. \A u \in Uploads : file'[u].status = "deleted" => file'[u].deleted
    BY <1>0, StepMark DEF LifeInv
  <1> QED BY <1>0, <1>1, <1>2, StepReqLife, StepWorkerLife DEF LifeInv

LEMMA LifeHolds == Spec => []LifeInv
  <1>1. Init => LifeInv
    BY DEF Init, StoreInit, ReqInit, WorkerInit, Idle, Asleep, NoFileRow, LifeInv, ReqLife, WorkerLife
  <1> QED BY <1>1, StepLife, InvariantHolds, PTL DEF Spec

-------------------------------------------------------------------------------
(***************************************************************************)
(* A file in PROCESSING is somebody's. Every owner either stays one, or    *)
(* hands over before it ends, or takes the file out of PROCESSING.         *)
(***************************************************************************)
LEMMA MarkIs ==
  ASSUME TypeOK, NEW w \in Workers, NEW u \in Uploads, Marks(w, u), wk[w].fs # "failed"
  PROVE  file'[u].status = "failed"
  <1>1. file \in [Uploads -> FileRow]
    BY DEF TypeOK, StoreTypeOK
  <1> QED BY <1>1 DEF Marks, MarkCommit, FileRow

Unsettled(u) == file[u].status = "processing" /\ ~file[u].deleted

LEMMA BecomesOwned ==
  ASSUME TypeOK, ShapeInv, [Next]_vars, NEW u \in Uploads, ~Unsettled(u), Unsettled(u)'
  PROVE  Owned(u)'
  <1>1. PICK r \in Reqs : Flushes(r, u) /\ FileTarget(req[r].op) = "processing"
    <2>1. file'[u] # file[u]
      BY DEF Unsettled
    <2> QED BY <2>1, UploadWriters, FileEffects DEF Unsettled
  <1>2. req[r].op \in {"complete", "retry"} /\ Handle(r) /\ req[r].u = u /\ req[r].pc = "flushS"
    BY <1>1 DEF FileTarget, Flushes, Handle, FlushCommit, At
  <1>3. req'[r].u = u /\ req'[r].pc = "publish"
    BY <1>2, HandleIs, NoneAssumption DEF HandleStep, Idle
  <1> QED BY <1>3 DEF Owned, RequestOwns

LEMMA QueueHandsOver ==
  ASSUME TypeOK, ShapeInv, [Next]_vars, NEW u \in Uploads, finq[u] > 0
  PROVE  Owned(u)'
  <1>1. ASSUME NEW r \in Reqs, Publish(r) \/ PublishError(r), req[r].u = u PROVE finq'[u] > 0
    BY <1>1 DEF Publish, PublishError, TypeOK, StoreTypeOK
  <1>2. ASSUME NEW w \in Workers, TakeFinalize(w, u) PROVE WorkerOwns(w, u)'
    BY <1>2, TakenIs DEF TypeOK, WorkerOwns
  <1> QED BY <1>1, <1>2, UploadWriters DEF Owned

LEMMA TaskOwns ==
  ASSUME NEW u \in Uploads, TaskGoesOn(u)
  PROVE  Owned(u)'
  BY DEF TaskGoesOn, Owned, WorkerOwns

LEMMA RequestHandsOver ==
  ASSUME TypeOK, ShapeInv, [Next]_vars, "crash" \notin FaultKinds, NEW u \in Uploads,
         NEW r \in Reqs, RequestOwns(r, u), Unsettled(u), Unsettled(u)'
  PROVE  Owned(u)'
  <1>1. /\ req[r].u = u /\ req[r].pc \in {"publish", "failed", "flushF", "flushS"} /\ ReqShape(r)
    BY DEF RequestOwns, ShapeInv
  <1>2. CASE req'[r] = req[r]
    BY <1>2 DEF Owned, RequestOwns
  <1>3. ~Request(r)
    BY <1>1, RequestIs DEF TypeOK
  <1>4. CASE Handle(r)
    <2>1. HandleStep(r, u) /\ (req'[r] = Idle \/ req'[r].u = u)
      BY <1>1, <1>4, HandleIs
    <2>2. ASSUME Flushes(r, u), req[r].op \notin {"complete", "retry"} PROVE FALSE
      <3>1. /\ req[r].op = "delete" => file'[u].deleted
            /\ req[r].op = "queue_error" => file'[u].status = "failed"
        BY <1>1, <2>2, FlushIs DEF FileTarget, RequestOwns
      <3> QED BY <1>1, <2>2, <3>1, FlushIs DEF ReqShape, Unsettled
    <2>3. CASE req'[r].u = u /\ req'[r].pc \in {"publish", "failed"}
      BY <2>3 DEF Owned, RequestOwns
    <2>4. CASE req'[r].u = u /\ req'[r].pc = "flushF"
      <3>1. req[r].pc = "failed" /\ req'[r].fs = file[u].status
        BY <1>1, <2>1, <2>2, <2>4 DEF HandleStep, Idle
      <3> QED BY <2>4, <3>1 DEF Unsettled, Owned, RequestOwns
    <2>5. CASE req'[r].u = u /\ req'[r].pc = "flushS"
      <3>1. req[r].pc = "flushF" /\ req'[r].op = req[r].op /\ req'[r].fs = req[r].fs
        BY <1>1, <2>1, <2>2, <2>5 DEF HandleStep, Idle
      <3> QED BY <2>5, <3>1 DEF Owned, RequestOwns
    <2>6. finq'[u] > 0 \/ /\ req'[r].u = u
                          /\ req'[r].pc \in {"publish", "failed", "flushF", "flushS"}
      BY <1>1, <2>1, <2>2 DEF HandleStep, Idle
    <2> QED BY <2>3, <2>4, <2>5, <2>6 DEF Owned
  <1>5. CASE TaskGoesOn(u)
    BY <1>5, TaskOwns
  <1> QED BY <1>1, <1>2, <1>3, <1>4, <1>5, ReqIs

LEMMA WorkerHandsOver ==
  ASSUME TypeOK, ShapeInv, [Next]_vars, "crash" \notin FaultKinds, NEW u \in Uploads,
         NEW w \in Workers, WorkerOwns(w, u), Unsettled(u), Unsettled(u)'
  PROVE  Owned(u)'
  <1>1. /\ wk[w].u = u /\ wk[w].pc \notin {"idle", "remove"}
        /\ wk[w].pc \in {"flushF", "flushS"} => wk[w].fs # "failed"
    BY DEF WorkerOwns
  <1>2. CASE wk'[w] = wk[w]
    BY <1>2 DEF Owned, WorkerOwns
  <1>3. CASE WorkEnd(w, u)
    <2>1. ~Marks(w, u)
      BY <1>1, MarkIs, FileEffects DEF Unsettled
    <2> QED BY <1>1, <1>3, <2>1, TaskOwns DEF WorkEnd, Unsettled
  <1>4. CASE wk'[w].u = u /\ WorkStep(w, u)
    <2>1. ~Finalizes(w, u)
      BY FileEffects DEF Unsettled
    <2>2. WorkerOwns(w, u)'
      BY <1>1, <1>4, <2>1 DEF WorkStep, WorkerOwns, Unsettled
    <2> QED BY <2>2 DEF Owned
  <1> QED BY <1>1, <1>2, <1>3, <1>4, WorkIs

\* Where processes do not die, a file in PROCESSING has a message, a worker or a
\* request that will take it out: nothing forgets it, whichever calls to the broker
\* fail, tasks raise or deadlocks are resolved.
THEOREM ProcessingHasOwner ==
  ASSUME "crash" \notin FaultKinds
  PROVE  Spec => []ProcessingIsOwned
  <1>1. Init => OwnedInv
    BY DEF Init, StoreInit, NoFileRow, OwnedInv
  <1>2. IInv /\ OwnedInv /\ [Next]_vars => OwnedInv'
    <2>1. SUFFICES ASSUME IInv, OwnedInv, [Next]_vars, NEW u \in Uploads, Unsettled(u)'
                   PROVE  Owned(u)'
      BY DEF OwnedInv, Unsettled
    <2>2. TypeOK /\ ShapeInv
      BY <2>1 DEF IInv
    <2>3. Unsettled(u) => Owned(u)
      BY <2>1 DEF OwnedInv, Unsettled
    <2> QED BY <2>1, <2>2, <2>3, BecomesOwned, QueueHandsOver, RequestHandsOver, WorkerHandsOver
            DEF Owned
  <1>3. OwnedInv => ProcessingIsOwned
    BY DEF OwnedInv, Owned, RequestOwns, WorkerOwns, ProcessingIsOwned, Settles
  <1> QED BY <1>1, <1>2, <1>3, InvariantHolds, PTL DEF Spec
===============================================================================
