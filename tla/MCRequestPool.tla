----------------------------- MODULE MCRequestPool -----------------------------
(***************************************************************************)
(* Constants for checking RequestPool with TLC.                            *)
(***************************************************************************)
EXTENDS RequestPool

CONSTANTS r1, r2, r3

\* A poll, a deletion that is refused, and a late chunk.
WedgingOps == {"plain", "refused", "late"}
===============================================================================
