---------------------------- MODULE MCConnection ----------------------------
(* Settings of the wrappers the runs of Connection use.                    *)
EXTENDS Connection, TLC

CONSTANTS legacy, modern, bare, db2

Base == [backend |-> "mssql", major |-> 10, driver |-> "SQLNCLI",
         recentTds |-> FALSE, hasOptions |-> TRUE, autocommit |-> FALSE,
         mars |-> FALSE, utf8 |-> "None"]

\* legacy: SQL Server 2000 through FreeTDS; modern: SQL Server 2008 through
\* the native client with MARS and the autocommit option; bare: a DATABASES
\* entry without OPTIONS; db2: IBM DB2, driver_supports_utf8 given.
AllSettings ==
  (legacy :> [Base EXCEPT !.major = 8, !.driver = "LIBTDSODBC",
                          !.recentTds = TRUE])
  @@ (modern :> [Base EXCEPT !.mars = TRUE, !.autocommit = TRUE])
  @@ (bare :> [Base EXCEPT !.hasOptions = FALSE])
  @@ (db2 :> [Base EXCEPT !.backend = "db2", !.driver = "OTHER",
                          !.utf8 = "no"])

MCSettings == [w \in Wrappers |-> AllSettings[w]]
=============================================================================
