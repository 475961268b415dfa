---------------------------- MODULE DocFlowQueries ----------------------------
(***************************************************************************)
(* The calls that only read: GET /files, /files/{id}/status and /metadata, *)
(* and POST /files/{id}/download-link. They take no locks, and what they   *)
(* answer outlives the moment they looked: a client keeps a listing, a     *)
(* checksum or a signed link and acts on it later.                         *)
(*                                                                         *)
(* A call that is turned down (404, 403, 409, 410) leaves no trace.        *)
(***************************************************************************)
EXTENDS DocFlowPromises

CONSTANT Asked     \* which of the calls a run considers

AllQueries == {"status", "list", "metadata", "link"}

ASSUME AskedAssumption == Asked \subseteq AllQueries

VARIABLES
  poll,      \* the status call in progress, or its answer
  shown,     \* the files of the last listing with status=available
  links,     \* the files a download link has been signed for
  told       \* the checksum that the last metadata of each file contained

queryVars == <<poll, shown, links, told>>

\* at: how many statements have run; then what they returned.
NoPoll == [at |-> 0, u |-> None, fs |-> "none", gone |-> FALSE, ss |-> "none", n |-> 0]

PollRow == [at: 0..3, u: Uploads \cup {None}, fs: FileStatus, gone: BOOLEAN,
            ss: SessStatus, n: 0..MaxCount]

QueryInit ==
  /\ poll = NoPoll
  /\ shown = {} /\ links = {}
  /\ told = [u \in Uploads |-> None]

(***************************************************************************)
(* get_file_status: three statements, each of which sees what is committed *)
(* when it runs. The rows read first stay as they were read.               *)
(***************************************************************************)
\* Broken variants, and the order of the code.
CountFirst   == <<"file", "count", "session">>
SessionFirst == <<"session", "file", "count">>
ReadOrder    == <<"file", "session", "count">>

ReadNext(p) ==
  CASE ReadOrder[p.at + 1] = "file" ->
         [p EXCEPT !.at = @ + 1, !.fs = file[p.u].status, !.gone = file[p.u].deleted]
    [] ReadOrder[p.at + 1] = "session" -> [p EXCEPT !.at = @ + 1, !.ss = sess[p.u].status]
    [] ReadOrder[p.at + 1] = "count" -> [p EXCEPT !.at = @ + 1, !.n = Cardinality(Present(p.u))]

GetFileStatus(u) ==
  /\ "status" \in Asked
  /\ file[u].status # "none"
  /\ \/ poll.at \in {0, 3} /\ poll' = ReadNext([NoPoll EXCEPT !.u = u])
     \/ poll.at \in {1, 2} /\ poll.u = u /\ poll' = ReadNext(poll)
  /\ UNCHANGED <<shown, links, told>>

\* One statement, a join of the files with the caller's memberships.
ListFiles ==
  /\ "list" \in Asked
  /\ shown' = {u \in Uploads : Offered(u)}
  /\ UNCHANGED <<poll, links, told>>

\* The row as it was read, whatever its status.
GetFileMetadata(u) ==
  /\ "metadata" \in Asked
  /\ SessionForAccess(u)
  /\ told' = [told EXCEPT ![u] = file[u].sum]
  /\ UNCHANGED <<poll, shown, links>>

\* The signature is computed from the row; MinIO is not asked for the object.
CreateDownloadLink(u) ==
  /\ "link" \in Asked
  /\ Offered(u)
  /\ links' = links \cup {u}
  /\ UNCHANGED <<poll, shown, told>>

Query ==
  \/ ListFiles
  \/ \E u \in Uploads : GetFileStatus(u) \/ GetFileMetadata(u) \/ CreateDownloadLink(u)

QueryNext == (Next /\ UNCHANGED queryVars) \/ (Query /\ UNCHANGED vars)

QuerySpec == Init /\ QueryInit /\ [][QueryNext]_<<vars, queryVars>>
-------------------------------------------------------------------------------
\* The answer to a poll is put together from three moments. Its session is never
\* behind its file: AVAILABLE comes with COMPLETED (or, by a late call, EXPIRED),
\* PROCESSING and FAILED with a session that has been completed by the client, and
\* a deleted file with an inactive one (get_file_status, one request at a time).
PollsAgree ==
  poll.at = 3 =>
    /\ poll.fs = "available" => poll.ss \in {"completed", "expired"}
    /\ poll.fs \in {"processing", "failed"} =>
         poll.ss \notin {"initiated", "uploading", "ready_to_complete"}
    /\ poll.gone => poll.ss \notin ActiveStatus

\* A poll that shows an upload READY_TO_COMPLETE or beyond shows all its chunks,
\* although they were counted separately (get_file_status, upload_chunk).
PollsCountAll ==
  poll.at = 3 /\ poll.ss \in {"ready_to_complete", "assembling", "completed"} =>
    poll.n = sess[poll.u].count

\* Once a file has been listed as AVAILABLE or a link to it signed, a download gets
\* the chunks the client uploaded, in order, whatever becomes of the file's status;
\* after the deletion of the file it may get nothing, but never other bytes.
DownloadsAreWhole ==
  \A u \in shown \cup links :
    \/ permObj[u] = Assembled(chunk[u], sess[u].count)
    \/ file[u].deleted /\ permObj[u] = None

\* The checksum that metadata gave once is the checksum of every later download.
ChecksumsHold ==
  \A u \in Uploads : told[u] # None /\ permObj[u] # None => permObj[u] = told[u]
===============================================================================
