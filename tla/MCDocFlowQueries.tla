---------------------------- MODULE MCDocFlowQueries ----------------------------
(***************************************************************************)
(* Which of the calls of DocFlowQueries a run considers.                   *)
(***************************************************************************)
EXTENDS MCDocFlow, DocFlowQueries

Downloads == {"metadata", "link"}
===============================================================================
