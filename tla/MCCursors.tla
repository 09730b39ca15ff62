------------------------------ MODULE MCCursors ------------------------------
(* Drivers, servers and settings for Cursors.                              *)
EXTENDS Cursors

CONSTANTS c1, c2

Native == [driver |-> "SQLNCLI", mars |-> TRUE, year |-> 2008,
           opener |-> "cursor", utf8 |-> TRUE]

\* MARS as it should be; the option without the driver, without the server, with a
\* session that _cursor has not opened; and no option.
MCInstallations ==
  {Native,
   [Native EXCEPT !.driver = "LIBTDSODBC", !.utf8 = FALSE],
   [Native EXCEPT !.year = 2000],
   [Native EXCEPT !.opener = "connect"],
   [Native EXCEPT !.driver = "SQLSRV32", !.mars = FALSE]}
=============================================================================
