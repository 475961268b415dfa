---------------------------- MODULE DocFlowPromises ----------------------------
(***************************************************************************)
(* DocFlow implements FileLifecycle: what a client can learn about a file  *)
(* through the API, computed from the rows and the object store.           *)
(***************************************************************************)
EXTENDS DocFlow

Order(row) == [count |-> row.count, size |-> row.size]

\* create_download_link hands out links to these.
Offered(u) == file[u].status = "available" /\ ~file[u].deleted

Lifecycle == INSTANCE FileLifecycle WITH
  Files <- Uploads,
  Orders <- {Order(p) : p \in InitRequests},
  NoOrder <- Order(NoSessRow),
  Complete <- LAMBDA chunks, o : Valid(chunks, o.count, o.size),
  InOrder <- LAMBDA chunks, o : Assembled(chunks, o.count),
  Exclusive <- Solo,
  status <- [u \in Uploads |-> IF file[u].deleted THEN "deleted" ELSE file[u].status],
  order <- [u \in Uploads |-> Order(sess[u])],
  received <- chunk,
  content <- [u \in Uploads |-> IF Offered(u) THEN permObj[u] ELSE None]

\* Every step of every handler, worker and fault is a step of the abstract life
\* of a file, or none at all. Served one request at a time, without duplicated
\* messages, a file that is AVAILABLE stays so until it is deleted.
ImplementsLifecycle == Lifecycle!Spec
===============================================================================
