--------------------------- MODULE MCTestDatabase ---------------------------
(* Entries of DATABASES in many forms, and two foreign keys. *)
EXTENDS TestDatabase

MCTexts == Databases \cup {"host", "1433", "user", "other", "dsn"}

\* Every form of an entry on the way to a server, on both operating systems.
AllEntries ==
  [name: {Production}, testName: {Test, None}, host: {None, "host"}, port: {None, "1433"},
   user: {None, "user"}, shellUser: {None, "other"}, driver: Drivers \cup {None},
   dsn: {None, "dsn"}, hostIsServer: BOOLEAN, openedge: {FALSE}, nt: BOOLEAN]
=============================================================================
