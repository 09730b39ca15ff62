------------------------------ MODULE MCInserts ------------------------------
(* Two sessions, one table that has room for three rows, four installations. *)
EXTENDS Inserts

CONSTANTS s1, s2, t1

On(django, server, canReturnId) ==
  [django |-> django, server |-> server, canReturnId |-> canReturnId]

MCInstallations ==
  {On(20, "sqlserver", TRUE), On(20, "sqlserver", FALSE), On(31, "sqlserver", TRUE),
   On(20, "db2", FALSE)}
=============================================================================
