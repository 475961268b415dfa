------------------------------- MODULE MCDocFlow -------------------------------
(***************************************************************************)
(* Constants and symmetry for checking DocFlow with TLC.                   *)
(***************************************************************************)
EXTENDS DocFlowPromises, TLC

CONSTANTS r1, r2, w1, w2, u1, a, b

\* The deployment of supervisord.conf: one uvicorn process.
OneLoop == [r \in Reqs |-> 1]

\* A second uvicorn process, which the code allows for (upload_chunk takes its
\* lock in PostgreSQL): every request has an event loop of its own.
OwnLoops == [r \in Reqs |-> r]

\* A byte each, or payloads of different lengths.
UnitSizes == [c \in Payloads |-> 1]
MixedSizes == [c \in Payloads |-> IF c = a THEN 1 ELSE 2]

OneChunk == {[count |-> 1, size |-> 1, limit |-> 1]}
TwoChunks == {[count |-> 2, size |-> 3, limit |-> 2]}
TwoUnits == {[count |-> 2, size |-> 2, limit |-> 1]}

\* Requests, and workers, are interchangeable: the specification compares them
\* only with each other, and LoopOf puts them all on one loop or each on its own.
WorkerSymmetry == Permutations(Workers)
Symmetry == Permutations(Reqs) \cup WorkerSymmetry
===============================================================================
