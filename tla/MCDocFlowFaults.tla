---------------------------- MODULE MCDocFlowFaults ----------------------------
(***************************************************************************)
(* Constants for checking DocFlowFaults with TLC. All payloads are of one  *)
(* length, so that no test on sizes notices an object that was replaced.   *)
(***************************************************************************)
EXTENDS DocFlowFaults, TLC

CONSTANTS r1, r2, w1, w2, u1, a, b

OneLoop == [r \in Reqs |-> 1]
OwnLoops == [r \in Reqs |-> r]
UnitSizes == [c \in Payloads |-> 1]
OneChunk == {[count |-> 1, size |-> 1, limit |-> 1]}
Symmetry == Permutations(Reqs) \cup Permutations(Workers)
===============================================================================
