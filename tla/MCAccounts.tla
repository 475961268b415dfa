------------------------------- MODULE MCAccounts -------------------------------
(***************************************************************************)
(* Constants for checking Accounts with TLC.                               *)
(***************************************************************************)
EXTENDS Accounts

CONSTANTS r1, r2, r3, p1, p2

TypedEmails == {"ann", "Ann", "bob"}
LowerCase == [s \in TypedEmails |-> IF s = "Ann" THEN "ann" ELSE s]
===============================================================================
