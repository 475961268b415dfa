------------------------------ MODULE MCUploadInit ------------------------------
(***************************************************************************)
(* Constants for checking UploadInit with TLC: names of up to four         *)
(* characters where three are allowed, figures around every limit.         *)
(***************************************************************************)
EXTENDS UploadInit

AllPayloads ==
  [name: UNION {[1..n -> Chars] : n \in 0..4}, size: 0..3, count: 0..2, chunk: 0..2]

\* What the database has, and what it would have were it labelled as the ORM binds the
\* members, which nothing in the repository does.
RepairedLabels == {NameOf(m) : m \in MigratedLabels}
Migrated == {MigratedLabels}
Repaired == {RepairedLabels}
MigratedOrRepaired == {MigratedLabels, RepairedLabels}
===============================================================================
