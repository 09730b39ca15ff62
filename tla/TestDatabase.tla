---------------------------- MODULE TestDatabase ----------------------------
(***************************************************************************)
(* Creating and destroying the database of a test run.                     *)
(*                                                                         *)
(* DatabaseCreation changes settings_dict['NAME'] under a wrapper that may *)
(* have a session, and alters and drops what that session is connected to. *)
(* Django's create_test_db and destroy_test_db stand around it.  Any call  *)
(* of the driver may fail; the exception ends the process, whose session   *)
(* is rolled back, and another run begins with what the server was left.   *)
(***************************************************************************)
EXTENDS Settings, FiniteSets

CONSTANTS
  Entries,     \* the entries of DATABASES, as the settings file has them
  Keys,        \* the foreign keys of a database that has tables
  Production,  \* the NAME of the entries,
  Test,        \* their TEST NAME, or test_ and NAME,
  Master       \* and the database that every server has

Databases == {Production, Test, Master}

\* What the entry and the server decide: TEST_CREATE, OPTIONS['autocommit'] and
\* on_azure_sql_db.
Plans == [testCreate: BOOLEAN, autocommit: BOOLEAN, azure: BOOLEAN]

ASSUME TestDatabaseAssumption ==
  /\ Production # Test /\ Production # Master /\ Test # Master
  /\ Databases \subseteq Texts
  /\ Entries \subseteq Entry
  /\ \A s \in Entries : s.name = Production /\ s.testName \in {Test, None}

VARIABLES
  plan,
  file,      \* the entry in the settings file
  settings,  \* settings_dict of the wrapper
  phase,     \* where the process is
  target,    \* the name that destroy_test_db passes on
  session,   \* the database that the wrapper's session is in, or None
  direct,    \* the session is in the driver's autocommit mode
  pending,   \* foreign keys dropped in its open transaction
  exists,    \* the databases there are
  single,    \* those in single-user mode
  keys,      \* the foreign keys of each, committed
  tables,    \* the databases that have tables
  visitor    \* the database that somebody else is connected to, or None

inputs      == <<plan, file>>
sessionVars == <<session, direct, pending>>
serverVars  == <<exists, single, keys, tables>>
vars == <<inputs, settings, phase, target, sessionVars, serverVars, visitor>>

Moves(from, to) == phase = from /\ phase' = to

-----------------------------------------------------------------------------
(* Sessions.                                                               *)

\* A database in single-user mode has one session at most.
Enterable(db) == db \in exists /\ (db \in single => visitor # db)

Close == session' = None /\ direct' = FALSE /\ pending' = {}

Open(db, mode) ==
  /\ Enterable(db)
  /\ session' = db /\ direct' = mode /\ pending' = {}

\* cursor() uses the session there is, or opens one.
Cursor ==
  \/ session # None /\ UNCHANGED sessionVars
  \/ session = None /\ Open(StringDatabase(settings), plan.autocommit)

\* Django's connect().
Connect == session = None /\ Open(ConnectParams(settings).database, FALSE)

\* The program uses the database that settings name, for its checks or in its tests.
Use ==
  /\ phase \in {"idle", "testing", "destroyed"}
  /\ Cursor \/ Connect
  /\ UNCHANGED <<inputs, settings, phase, target, serverVars, visitor>>

-----------------------------------------------------------------------------
(* create_test_db.                                                         *)

\* Faulty: a session to the other database stays open.
UseExistingWithoutClose ==
  /\ settings' = [settings EXCEPT !.testName = Test, !.name = Test]
  /\ UNCHANGED sessionVars

\* _create_test_db with TEST_CREATE = False closes the session, to open one to the
\* database of the tests, ...
UseExisting ==
  /\ settings' = [settings EXCEPT !.testName = Test, !.name = Test]
  /\ Close

BeginExisting ==
  /\ ~ plan.testCreate
  /\ Moves("idle", "existing")
  /\ UseExisting
  /\ UNCHANGED <<inputs, target, serverVars, visitor>>

OpenExisting ==
  /\ Moves("existing", "dropping keys")
  /\ Cursor
  /\ UNCHANGED <<inputs, settings, target, serverVars, visitor>>

\* ... drops its foreign keys, one statement after the other, ...
DropKey ==
  /\ phase = "dropping keys"
  /\ \E k \in keys[session] \ pending :
       IF direct
       THEN keys' = [keys EXCEPT ![session] = @ \ {k}] /\ UNCHANGED pending
       ELSE pending' = pending \cup {k} /\ UNCHANGED keys
  /\ UNCHANGED <<inputs, settings, phase, target, session, direct, exists, single, tables,
                 visitor>>

CommitKeys ==
  /\ keys' = [keys EXCEPT ![session] = @ \ pending]
  /\ pending' = {}

\* Faulty: the dropped keys are committed before the tables are dropped.
DropTablesAfterCommit ==
  /\ phase' = IF session \in tables THEN "failed" ELSE "created"
  /\ CommitKeys

\* ... and would drop its tables: get_table_list gives TableInfo tuples, which neither
\* '%s' nor quote_name takes, so that it ends well only if there are none.
DropTables ==
  IF session \in tables
  THEN phase' = "failed" /\ UNCHANGED <<keys, pending>>
  ELSE phase' = "created" /\ CommitKeys

EndExisting ==
  /\ phase = "dropping keys"
  /\ keys[session] \subseteq pending
  /\ DropTables
  /\ UNCHANGED <<inputs, settings, target, session, direct, exists, single, tables, visitor>>

\* _create_test_db otherwise: on_azure_sql_db asks the server, in any database.
AskEdition ==
  /\ plan.testCreate
  /\ Moves("idle", IF plan.azure THEN "on azure" ELSE "creating")
  /\ settings' = [settings EXCEPT !.testName = Test]
  /\ Cursor
  /\ UNCHANGED <<inputs, target, serverVars, visitor>>

\* Faulty: the session stays open.
LeaveForMasterWithoutClose ==
  /\ settings' = [settings EXCEPT !.name = Master]
  /\ UNCHANGED sessionVars

\* Faulty: NAME is cleared, as in Django's _nodb_connection.
LeaveForMasterUnnamed ==
  /\ settings' = [settings EXCEPT !.name = None]
  /\ Close

LeaveForMaster ==
  /\ settings' = [settings EXCEPT !.name = Master]
  /\ Close

GoToMaster ==
  /\ Moves("on azure", "creating")
  /\ LeaveForMaster
  /\ UNCHANGED <<inputs, target, serverVars, visitor>>

\* Django's _create_test_db uses a second wrapper, whose settings are these without
\* NAME.  Its connection string falls back on TEST NAME, and so it is in the database
\* of the tests, if there is one.  There CREATE DATABASE fails, and then, unless
\* keepdb is asked for, so does DROP DATABASE or the user says no: both are Fail.
KeepDatabase ==
  /\ Moves("creating", "created")
  /\ Enterable(StringDatabase([settings EXCEPT !.name = None]))
  /\ UNCHANGED <<inputs, settings, target, sessionVars, serverVars, visitor>>

\* create_test_db goes on: another session, to the database of the tests, ...
Switch ==
  /\ Moves("created", "migrating")
  /\ settings' = [settings EXCEPT !.name = Test]
  /\ Close
  /\ UNCHANGED <<inputs, target, serverVars, visitor>>

\* ... where migrate creates what is missing.
Migrate ==
  /\ Moves("migrating", "testing")
  /\ Cursor \/ Connect
  /\ tables' = tables \cup {session'}
  /\ keys' = IF session' \in tables THEN keys ELSE [keys EXCEPT ![session'] = Keys]
  /\ UNCHANGED <<inputs, settings, target, exists, single, visitor>>

-----------------------------------------------------------------------------
(* destroy_test_db.                                                        *)

Restored == settings' = [settings EXCEPT !.name = file.name]

\* The database is kept, by keepdb or by TEST_CREATE = False.
LeaveUndestroyed ==
  /\ Moves("testing", "idle")
  /\ Close /\ Restored
  /\ UNCHANGED <<inputs, target, serverVars, visitor>>

\* The beginning of _destroy_test_db, whose argument is the NAME of the tests.
BeginDestroy ==
  /\ plan.testCreate
  /\ Moves("testing", "destroying")
  /\ target' = settings.name
  /\ Close
  /\ settings' = IF plan.azure THEN [settings EXCEPT !.name = Master] ELSE settings
  /\ UNCHANGED <<inputs, serverVars, visitor>>

\* A session, put in autocommit mode; outside Azure it is made the only one.
SetSingleUser ==
  /\ Moves("destroying", "dropping")
  /\ Open(StringDatabase(settings), TRUE)
  /\ single' = IF plan.azure THEN single ELSE single \cup {target}
  /\ visitor' = IF ~ plan.azure /\ visitor = target THEN None ELSE visitor
  /\ UNCHANGED <<inputs, settings, target, exists, keys, tables>>

\* Faulty: the DROP is in the branch of the ALTER.
DropsOutsideAzure == IF plan.azure THEN {} ELSE {target}

Drops == {target}

\* Faulty: the session is used again.
EndDestroyWithoutClose == UNCHANGED sessionVars

EndDestroy == Close

\* DROP DATABASE, which the server refuses from a session inside it: without Azure,
\* always.  Then close(), and Django restores NAME.
DropDatabase ==
  /\ Moves("dropping", "destroyed")
  /\ session \notin Drops
  /\ exists' = exists \ Drops
  /\ tables' = tables \ Drops
  /\ keys' = [db \in Databases |-> IF db \in Drops THEN {} ELSE keys[db]]
  /\ visitor' = IF visitor \in Drops THEN None ELSE visitor
  /\ EndDestroy /\ Restored
  /\ UNCHANGED <<inputs, target, single>>

-----------------------------------------------------------------------------
(* Failures and others.                                                    *)

\* An exception leaves create_test_db, destroy_test_db, or a test.
Fail ==
  /\ phase \notin {"idle", "destroyed", "failed"}
  /\ phase' = "failed"
  /\ UNCHANGED <<inputs, settings, target, sessionVars, serverVars, visitor>>

\* The process ends, or is killed; the next one reads the settings file.
Restart ==
  /\ phase' = "idle"
  /\ settings' = file
  /\ target' = None
  /\ Close
  /\ UNCHANGED <<inputs, serverVars, visitor>>

\* Somebody else, with a tool of the server or a second process.
Visit ==
  /\ visitor = None
  /\ \E db \in exists : (db \in single => session # db) /\ visitor' = db
  /\ UNCHANGED <<inputs, settings, phase, target, sessionVars, serverVars>>

Leave ==
  /\ visitor # None
  /\ visitor' = None
  /\ UNCHANGED <<inputs, settings, phase, target, sessionVars, serverVars>>

Init ==
  /\ plan \in Plans
  /\ file \in Entries
  /\ settings = file
  /\ phase = "idle"
  /\ target = None
  /\ session = None /\ direct = FALSE /\ pending = {}
  /\ exists \in {{Production, Master}, Databases}
  /\ single = {}
  /\ tables \in {{Production}, {Production, Test} \cap exists}
  /\ keys = [db \in Databases |-> IF db \in tables THEN Keys ELSE {}]
  /\ visitor = None

Next ==
  \/ Use
  \/ BeginExisting \/ OpenExisting \/ DropKey \/ EndExisting
  \/ AskEdition \/ GoToMaster \/ KeepDatabase
  \/ Switch \/ Migrate
  \/ LeaveUndestroyed \/ BeginDestroy \/ SetSingleUser \/ DropDatabase
  \/ Fail \/ Restart
  \/ Visit \/ Leave

Spec == Init /\ [][Next]_vars

-----------------------------------------------------------------------------
(* Properties                                                              *)

Phases ==
  {"idle", "existing", "dropping keys", "on azure", "creating", "created", "migrating",
   "testing", "destroying", "dropping", "destroyed", "failed"}

\* s is the entry e with names that a run gives it.
IsRenamed(s, e) ==
  \E n \in Databases, t \in {e.testName, Test} : s = [e EXCEPT !.name = n, !.testName = t]

\* The type of the settings, whose NAME and TEST alone change (creation.py:109-185), and of
\* the server.
TypeOK ==
  /\ plan \in Plans
  /\ file \in Entries
  /\ IsRenamed(settings, file)
  /\ phase \in Phases
  /\ target \in Databases \cup {None}
  /\ session \in exists \cup {None}
  /\ direct \in BOOLEAN
  /\ pending \subseteq Keys
  /\ exists \subseteq Databases
  /\ single \subseteq Databases
  /\ keys \in [Databases -> SUBSET Keys]
  /\ tables \subseteq exists
  /\ visitor \in exists \cup {None}

\* Whatever fails, and wherever the program was connected before, no run of the tests
\* alters the production database: its foreign keys are neither dropped nor about to
\* be, and it is not in single-user mode.
ProductionIsKept ==
  /\ Production \in exists /\ Production \in tables
  /\ keys[Production] = Keys
  /\ session = Production => pending = {}
  /\ Production \notin single

\* NAME changes four times in a run, each time under a wrapper that may have a session:
\* a session is always in the database that NAME has at the moment, and in the mode that
\* OPTIONS say except for dropping a database.  Before and after a run NAME is the one of
\* the settings file, after it the database of the tests is gone.
SessionFollowsSettings ==
  /\ session # None => session = settings.name
  /\ ~ plan.autocommit /\ direct => phase \in {"dropping", "failed"}
  /\ phase \in {"idle", "destroyed"} => settings.name = file.name
  /\ phase = "destroyed" => Test \notin exists

\* Dropping the foreign keys and the tables of an existing database is one transaction,
\* but for the option autocommit: a run that fails in between leaves the keys.
KeysGoWithTables ==
  ~ plan.autocommit => \A db \in tables : keys[db] = Keys

\* All through a run, while NAME changes, explicit settings lead _cursor and connect() to
\* the same server, port and database, as the same user.  dbshell they lead to the same
\* server, as the same user, if PORT is not set, and osql to the same database as well:
\* ShellGoesThere has what runshell leaves out (get_connection_params, runshell).
ReadersAgree == WaysToOpenAgree(settings) /\ ShellAgrees(settings)

-----------------------------------------------------------------------------
(* What Django's documentation says, and the code does not do              *)

\* destroy_test_db "destroys the test database": it comes to its end if nothing fails.
\* Outside Azure the server refuses.
NobodyDropsItsOwn == phase = "dropping" => session # target

\* dbshell "runs the command-line client for the database engine specified in your ENGINE
\* setting, with the connection parameters specified in your USER, PASSWORD, etc.,
\* settings".  PORT is read and forgotten, and isql is not told the database.
ShellGoesThere == ShellNamesAll(settings)
=============================================================================
