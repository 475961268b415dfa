------------------------------- MODULE UploadInit -------------------------------
(***************************************************************************)
(* initialize_upload in detail: what the DTO and the handler let through,  *)
(* what the columns of PostgreSQL can hold, and the one transaction that   *)
(* stores a File and its UploadSession. (FileService takes a request that  *)
(* went through as one step.)                                              *)
(*                                                                         *)
(* Filenames are sequences of a few representative characters: "x" stands  *)
(* for any that is neither a slash, a dot, white space nor NUL, "space"    *)
(* for white space. Widths and limits are constants, scaled down in the    *)
(* runs.                                                                   *)
(***************************************************************************)
EXTENDS Integers, Sequences

CONSTANTS
  Payloads,       \* the bodies a client may send
  NameMax,        \* max_length of original_filename, and String(n) of both columns
  PrefixLen,      \* length of "<file_id.hex>_"
  IntMax, BigMax, \* largest Integer and BigInteger
  MaxChunkSize,   \* APP_MAX_CHUNK_SIZE
  Schemas         \* what the labels of the enum types in the database may be

Chars == {"x", ".", "/", "space"}

ASSUME NameAssumption == \A p \in Payloads : p.name \in Seq(Chars)
ASSUME WidthAssumption ==
  /\ NameMax \in Nat /\ PrefixLen \in Nat
  /\ IntMax \in Nat /\ BigMax \in Nat
  /\ MaxChunkSize \in 0..IntMax

VARIABLES
  payload,   \* the body of the request
  labels,    \* the labels of the enum types
  pc,        \* where it is, or how it was answered
  pending,   \* rows written by its open transaction
  stored     \* rows committed

given == <<payload, labels>>
vars == <<payload, labels, pc, pending, stored>>

Least(S) == CHOOSE m \in S : \A n \in S : m <= n
Greatest(S) == CHOOSE m \in S : \A n \in S : m >= n

\* PurePath(...).name is the last component, empty components and "." left out: the
\* path ends with it once its trailing slashes, and dots alone between slashes, are
\* dropped.
Dropped(f, k) ==
  \/ f[k] = "/"
  \/ /\ f[k] = "."
     /\ k = 1 \/ f[k - 1] = "/"
     /\ k = Len(f) \/ f[k + 1] = "/"
PathName(f) ==
  LET kept == {k \in DOMAIN f : ~Dropped(f, k)}
      end == Greatest(kept)
      slashes == {k \in 1 .. end : f[k] = "/"}
  IN  IF kept = {} THEN <<>> ELSE SubSeq(f, Greatest(slashes \cup {0}) + 1, end)

\* str.strip()
Strip(f) ==
  LET solid == {k \in DOMAIN f : f[k] # "space"}
  IN  IF solid = {} THEN <<>> ELSE SubSeq(f, Least(solid), Greatest(solid))

SafeFilename(f) == Strip(PathName(f))

\* Broken variant: tested before the spaces are gone.
RefusedUnstripped(f) == PathName(f) \in {<<>>, <<".">>, <<".", ".">>}
NameRefused(f) == SafeFilename(f) \in {<<>>, <<".">>, <<".", ".">>}

\* UploadInitializeRequest, and the two tests of the handler.
InDto(p) ==
  /\ Len(p.name) \in 1..NameMax
  /\ p.size > 0 /\ p.count > 0 /\ p.chunk > 0
Allowed(p) == p.chunk <= MaxChunkSize /\ ~NameRefused(p.name)

Accepted(p) == InDto(p) /\ Allowed(p)

\* What the columns of files and upload_sessions can hold.
FileFits(p) == PrefixLen + Len(SafeFilename(p.name)) <= NameMax /\ p.size <= BigMax
SessionFits(p) == p.size <= BigMax /\ p.count <= IntMax

\* The labels the migration gives the enum types, the values of the Python enums (those
\* of the members a request meets), and the label SQLAlchemy's Enum binds and expects
\* for each of these members, its name.
MigratedLabels == {"pending", "initiated", "member"}
NameOf(member) ==
  CASE member = "pending" -> "PENDING"
    [] member = "initiated" -> "INITIATED"
    [] member = "member" -> "MEMBER"

Known(member) == NameOf(member) \in labels

Init ==
  /\ payload \in Payloads /\ labels \in Schemas
  /\ pc = "start" /\ pending = {} /\ stored = {}

\* Every variable holds a value of its type, and a transaction that has ended has
\* no rows.
TypeOK ==
  /\ payload \in Payloads /\ labels \in Schemas
  /\ pc \in {"start", "tests", "files", "sessions", "commit", "reload",
             "201", "422", "500", "lost"}
  /\ pending \cup stored \subseteq {"file", "session"}
  /\ pc \notin {"sessions", "commit"} => pending = {}

\* The end of a request closes its session, and rolls back what it did not commit;
\* broken variant: it does not.
AnswerOnly(status) == pc' = status /\ UNCHANGED <<given, pending, stored>>
Answer(status) == pc' = status /\ pending' = {} /\ UNCHANGED <<given, stored>>

\* The handler is not called.
RefuseBody == pc = "start" /\ ~InDto(payload) /\ Answer("422")

\* _membership_for loads the caller's row, with its role.
ReadMembership ==
  /\ pc = "start" /\ InDto(payload)
  /\ \/ Known("member") /\ pc' = "tests" /\ UNCHANGED <<given, pending, stored>>
     \/ ~Known("member") /\ Answer("500")

TestPayload ==
  /\ pc = "tests"
  /\ \/ Allowed(payload) /\ pc' = "files" /\ UNCHANGED <<given, pending, stored>>
     \/ ~Allowed(payload) /\ Answer("422")

\* Broken variant: a commit after each row.
InsertAndCommitFile ==
  /\ pc = "files" /\ FileFits(payload)
  /\ pc' = "sessions" /\ stored' = {"file"} /\ UNCHANGED <<given, pending>>

\* The unit of work inserts the File before the UploadSession that refers to it.
InsertFile ==
  /\ pc = "files"
  /\ \/ /\ FileFits(payload) /\ Known("pending")
        /\ pc' = "sessions" /\ pending' = {"file"}
        /\ UNCHANGED <<given, stored>>
     \/ ~(FileFits(payload) /\ Known("pending")) /\ Answer("500")

InsertSession ==
  /\ pc = "sessions"
  /\ \/ /\ SessionFits(payload) /\ Known("initiated")
        /\ pc' = "commit" /\ pending' = pending \cup {"session"}
        /\ UNCHANGED <<given, stored>>
     \/ ~(SessionFits(payload) /\ Known("initiated")) /\ Answer("500")

Commit ==
  /\ pc = "commit"
  /\ stored' = stored \cup pending
  /\ pc' = "reload" /\ pending' = {} /\ UNCHANGED given

\* The commit expires upload_session, so building the response is a query, which may
\* find no connection or fail.
Reload == pc = "reload" /\ (Answer("201") \/ Answer("500"))

\* The process or its connection is lost.
Crash == pc \in {"tests", "files", "sessions", "commit", "reload"} /\ Answer("lost")

Next ==
  \/ RefuseBody \/ ReadMembership \/ TestPayload
  \/ InsertFile \/ InsertSession \/ Commit \/ Reload \/ Crash

Spec == Init /\ [][Next]_vars
-------------------------------------------------------------------------------
\* Whatever fails, and wherever the process dies, a File is never stored without its
\* UploadSession nor the other way round; a client told 201 has both, one told 422
\* has neither. A 500, or no answer, leaves open which of the two it is.
NoHalfUpload ==
  /\ stored \in {{}, {"file", "session"}}
  /\ pc = "201" => stored # {}
  /\ pc = "422" => stored = {}

\* The name that becomes part of the storage key is one component of the client's
\* path: no slash in it, no space around it, and neither "." nor "..".
NamesAreClean ==
  stored # {} =>
    LET name == SafeFilename(payload.name) IN
    /\ \E i, j \in DOMAIN payload.name :
         /\ SubSeq(payload.name, i, j) = name
         /\ \A k \in j+1 .. Len(payload.name) : payload.name[k] \in {"/", ".", "space"}
    /\ \A k \in DOMAIN name : name[k] # "/"
    /\ name[1] # "space" /\ name[Len(name)] # "space"
    /\ name \notin {<<".">>, <<".", ".">>}

\* A request that is accepted and fits the columns is not turned down.
FittingIsStored ==
  /\ Accepted(payload) /\ FileFits(payload) /\ SessionFits(payload)
  /\ pc \in {"422", "500"}
  => stored # {}

\* A request within the limits that the DTO and the handler state is not turned down.
AcceptedIsStored == Accepted(payload) /\ pc \in {"422", "500"} => stored # {}
===============================================================================
