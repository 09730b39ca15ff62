------------------------------ MODULE Settings ------------------------------
(***************************************************************************)
(* Where settings lead: the three readings of one entry of DATABASES.      *)
(*                                                                         *)
(* _cursor composes a connection string, Django's connect() passes         *)
(* keywords, and dbshell arguments of osql or isql.  A reading is the      *)
(* target it names: keywords that it leaves out are None.  A user has a    *)
(* password; left out are extra_params, which only the string has, and the *)
(* options that replace NAME and HOST for osql, as `shellUser' does USER.  *)
(***************************************************************************)

CONSTANTS
  None,
  Texts   \* names, addresses and users

\* Drivers are those of Microsoft (they match ms_drivers), FreeTDS, and others.
Drivers == {"ms", "freetds", "other"}

\* An entry.  `nt' is the operating system, `shellUser' OPTIONS['user'].
Entry ==
  [name: Texts \cup {None}, testName: Texts \cup {None}, host: Texts \cup {None},
   port: Texts \cup {None}, user: Texts \cup {None}, shellUser: Texts \cup {None},
   driver: Drivers \cup {None}, dsn: Texts \cup {None}, hostIsServer: BOOLEAN,
   openedge: BOOLEAN, nt: BOOLEAN]

ASSUME NoneAssumption == None \notin Texts \cup Drivers

\* README.rst gives `driver' this default.
DefaultDriver(s) == IF s.nt THEN "ms" ELSE "freetds"

Driver(s) == IF s.driver = None THEN DefaultDriver(s) ELSE s.driver

\* The database, where NAME is missing that of the tests.
StringDatabase(s) == IF s.name # None THEN s.name ELSE s.testName

Improper(s) == StringDatabase(s) = None

\* HOST and PORT as SERVER (the address of a server), SERVERNAME (an entry of
\* freetds.conf) or HostName.
HostKey(s) ==
  IF Driver(s) = "ms" \/ (Driver(s) = "freetds" /\ s.hostIsServer) THEN "SERVER"
  ELSE IF s.openedge THEN "HostName" ELSE "SERVERNAME"

\* Faulty: a named data source does not replace HOST.
ConnectionStringWithHost(s) ==
  [dsn        |-> s.dsn,
   driver     |-> IF s.dsn = None THEN Driver(s) ELSE None,
   hostKey    |-> HostKey(s),
   host       |-> IF s.host = None THEN "localhost" ELSE s.host,
   port       |-> s.port,
   user       |-> s.user,
   integrated |-> s.user = None,
   database   |-> StringDatabase(s)]

\* _get_connection_string.
ConnectionString(s) ==
  LET direct == s.dsn = None
      host   == IF s.host = None THEN "localhost" ELSE s.host
  IN  [dsn        |-> s.dsn,
       driver     |-> IF direct THEN Driver(s) ELSE None,
       hostKey    |-> IF direct THEN HostKey(s) ELSE None,
       host       |-> IF direct THEN host ELSE None,
       port       |-> IF direct /\ HostKey(s) # "SERVERNAME" THEN s.port ELSE None,
       user       |-> s.user,
       integrated |-> s.user = None,
       database   |-> StringDatabase(s)]

\* get_connection_params; pyodbc makes SERVER, UID and PWD of host, user, password.
\* OPTIONS come in between NAME and the others: USER counts for more than theirs.
ConnectParams(s) ==
  [dsn        |-> s.dsn,
   driver     |-> s.driver,
   hostKey    |-> IF s.host = None THEN None ELSE "SERVER",
   host       |-> s.host,
   port       |-> s.port,
   user       |-> IF s.user = None THEN s.shellUser ELSE s.user,
   integrated |-> FALSE,
   database   |-> s.name]

\* Faulty: -E unless OPTIONS name a user.
ShellArgsTrusting(s) ==
  [dsn        |-> IF s.nt THEN None ELSE s.dsn,
   host       |-> IF s.nt THEN s.host ELSE None,
   port       |-> None,
   user       |-> IF s.shellUser = None THEN s.user ELSE s.shellUser,
   integrated |-> s.nt /\ s.shellUser = None,
   database   |-> IF s.nt THEN s.name ELSE None]

\* The arguments of DatabaseClient.runshell.  PORT is read and forgotten; isql takes
\* the data source alone, osql the server.
ShellArgs(s) ==
  LET user == IF s.shellUser = None THEN s.user ELSE s.shellUser
  IN  [dsn        |-> IF s.nt THEN None ELSE s.dsn,
       host       |-> IF s.nt THEN s.host ELSE None,
       port       |-> None,
       user       |-> user,
       integrated |-> s.nt /\ user = None,
       database   |-> IF s.nt THEN s.name ELSE None]

-----------------------------------------------------------------------------
(* Which settings all readings agree on.                                   *)

\* A driver or data source is named, and so are the user and, but for a data
\* source, the address of the server.
Explicit(s) ==
  /\ s.user # None
  /\ s.dsn = None => s.driver # None /\ s.host # None /\ HostKey(s) = "SERVER"
  /\ s.dsn # None => s.driver = None /\ s.host = None /\ s.port = None

\* Explicit settings lead _cursor and connect() to the same server, port and database, as
\* the same user.
WaysToOpenAgree(s) ==
  Explicit(s) /\ s.name # None => ConnectionString(s) = ConnectParams(s)

\* Explicit settings that dbshell can follow: with a data source where isql is used, with
\* HOST where osql is, and without OPTIONS that are for dbshell alone.
ForShell(s) ==
  Explicit(s) /\ s.name # None /\ s.shellUser = None /\ (s.nt <=> s.dsn = None)

\* If PORT is not set, dbshell goes to the server that _cursor goes to, as the same user;
\* osql to the same database, too, which isql leaves to the data source.
ShellAgrees(s) ==
  LET shell  == ShellArgs(s)
      string == ConnectionString(s)
  IN  ForShell(s) /\ s.port = None =>
        /\ shell.dsn = string.dsn
        /\ shell.host = string.host
        /\ shell.port = string.port
        /\ shell.user = string.user
        /\ shell.integrated = string.integrated
        /\ s.nt => shell.database = string.database

\* dbshell goes where _cursor goes, whatever PORT and NAME are.
ShellNamesAll(s) ==
  ForShell(s) => /\ ShellArgs(s).port = ConnectionString(s).port
                 /\ ShellArgs(s).database = ConnectionString(s).database
=============================================================================
