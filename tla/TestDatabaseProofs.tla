------------------------- MODULE TestDatabaseProofs -------------------------
(***************************************************************************)
(* Proofs about TestDatabase: types, production, the session's place, the  *)
(* foreign keys, and the readings of the settings.                         *)
(*                                                                         *)
(* ProductionIsKept is not inductive: whether the session may drop keys,   *)
(* and which database is altered and dropped, hangs on what NAME was when  *)
(* the session was opened.  Place says what it is in each phase.           *)
(***************************************************************************)
EXTENDS TestDatabase, TLAPS

Place ==
  /\ phase \in {"existing", "dropping keys", "migrating", "testing"} => settings.name = Test
  /\ phase = "dropping keys" => session = Test
  /\ phase \in {"destroying", "dropping"} => target = Test
  /\ pending # {} => session = Test
  /\ single \subseteq {Test}

IInv == TypeOK /\ Place /\ ProductionIsKept /\ SessionFollowsSettings /\ KeysGoWithTables

-----------------------------------------------------------------------------
(* Settings.                                                               *)

LEMMA NameOf ==
  ASSUME NEW e \in Entry, NEW n, NEW t
  PROVE  [e EXCEPT !.name = n, !.testName = t].name = n
BY DEF Entry

LEMMA NamesInEntries ==
  ASSUME NEW e \in Entry, NEW n \in Texts, NEW t \in Texts \cup {None}
  PROVE  [e EXCEPT !.name = n, !.testName = t] \in Entry
BY DEF Entry

\* A run may give an entry any other name, and the tests' name.
LEMMA Renaming ==
  ASSUME NEW e \in Entry, NEW s, IsRenamed(s, e), NEW n \in Databases
  PROVE  /\ IsRenamed([s EXCEPT !.name = n], e)
         /\ [s EXCEPT !.name = n].name = n
         /\ IsRenamed([s EXCEPT !.testName = Test], e)
         /\ [s EXCEPT !.testName = Test].name = s.name
         /\ IsRenamed([s EXCEPT !.testName = Test, !.name = n], e)
         /\ [s EXCEPT !.testName = Test, !.name = n].name = n
<1>1. PICK m \in Databases, t \in {e.testName, Test} :
        s = [e EXCEPT !.name = m, !.testName = t]
  BY Zenon DEF IsRenamed
<1>2. \A k \in Databases, u \in {e.testName, Test} :
        IsRenamed([e EXCEPT !.name = k, !.testName = u], e)
  BY Zenon DEF IsRenamed
<1>3. /\ [s EXCEPT !.name = n] = [e EXCEPT !.name = n, !.testName = t]
      /\ [s EXCEPT !.testName = Test] = [e EXCEPT !.name = m, !.testName = Test]
      /\ [s EXCEPT !.testName = Test, !.name = n] = [e EXCEPT !.name = n, !.testName = Test]
  <2>1. [s EXCEPT !.name = n] = [e EXCEPT !.name = n, !.testName = t]
    BY <1>1 DEF Entry
  <2>2. [s EXCEPT !.testName = Test] = [e EXCEPT !.name = m, !.testName = Test]
    BY <1>1 DEF Entry
  <2>3. [s EXCEPT !.testName = Test, !.name = n] = [e EXCEPT !.name = n, !.testName = Test]
    BY <1>1 DEF Entry
  <2> QED
    BY <2>1, <2>2, <2>3
<1>4. /\ [e EXCEPT !.name = n, !.testName = t].name = n
      /\ [e EXCEPT !.name = m, !.testName = Test].name = m
      /\ [e EXCEPT !.name = n, !.testName = Test].name = n
      /\ s.name = m
  BY <1>1, NameOf, Zenon
<1>5. t \in {e.testName, Test} /\ Test \in {e.testName, Test}
  BY <1>1
<1>6. /\ IsRenamed([s EXCEPT !.name = n], e)
      /\ IsRenamed([s EXCEPT !.testName = Test], e)
      /\ IsRenamed([s EXCEPT !.testName = Test, !.name = n], e)
  BY <1>1, <1>2, <1>3, <1>5, Zenon
<1> QED
  BY <1>3, <1>4, <1>6, Zenon

\* What is written in the settings file, before a run has changed it.
LEMMA AsWritten ==
  ASSUME NEW e \in Entries
  PROVE  IsRenamed(e, e) /\ e.name = Production
<1>1. e \in Entry /\ e.name = Production /\ Production \in Databases
  BY TestDatabaseAssumption DEF Databases
<1>2. e = [e EXCEPT !.name = e.name, !.testName = e.testName]
  BY <1>1 DEF Entry
<1>3. e = [e EXCEPT !.name = Production, !.testName = e.testName]
  BY <1>1, <1>2, Zenon
<1> QED
  BY <1>1, <1>3, Zenon DEF IsRenamed

LEMMA Names ==
  ASSUME TypeOK
  PROVE  /\ file \in Entry /\ file.name = Production
         /\ settings \in Entry
         /\ settings.name \in Databases
         /\ StringDatabase(settings) = settings.name
         /\ ConnectParams(settings).database = settings.name
<1>1. file \in Entry /\ file.name = Production
  BY TestDatabaseAssumption DEF TypeOK
<1>2. PICK n \in Databases, t \in {file.testName, Test} :
        settings = [file EXCEPT !.name = n, !.testName = t]
  BY Zenon DEF TypeOK, IsRenamed
<1>3. Databases \subseteq Texts /\ Test \in Texts /\ None \notin Databases
  BY TestDatabaseAssumption, NoneAssumption DEF Databases
<1>4. file.testName \in Texts \cup {None}
  BY <1>1 DEF Entry
<1>5. t \in Texts \cup {None} /\ n \in Texts
  BY <1>3, <1>4, Zenon
<1>6. settings \in Entry
  BY <1>1, <1>2, <1>5, NamesInEntries, Zenon
<1>7. settings.name = n
  BY <1>1, <1>2, NameOf, Zenon
<1>8. StringDatabase(settings) = settings.name
  BY <1>3, <1>7 DEF StringDatabase
<1>9. ConnectParams(settings).database = settings.name
  BY DEF ConnectParams
<1> QED
  BY <1>1, <1>6, <1>7, <1>8, <1>9

-----------------------------------------------------------------------------
(* Sessions.                                                               *)

\* Either way of getting a session leads to the database that NAME has.
LEMMA Lands ==
  ASSUME IInv, Cursor \/ Connect
  PROVE  /\ session' = settings.name
         /\ session' \in exists
         /\ direct' \in BOOLEAN
         /\ ~ plan.autocommit /\ direct' => phase \in {"dropping", "failed"}
         /\ pending' \subseteq Keys
         /\ pending' # {} => session' = Test
         /\ session' = Production => pending' = {}
<1>1. StringDatabase(settings) = settings.name /\ ConnectParams(settings).database = settings.name
  BY Names DEF IInv
<1>2. plan.autocommit \in BOOLEAN
  BY DEF IInv, TypeOK, Plans
<1>3. CASE session # None /\ UNCHANGED sessionVars
  BY <1>3 DEF IInv, TypeOK, Place, ProductionIsKept, SessionFollowsSettings, sessionVars
<1>4. CASE session = None /\ Open(settings.name, plan.autocommit)
  BY <1>2, <1>4 DEF Open, Enterable
<1>5. CASE Open(settings.name, FALSE)
  BY <1>5 DEF Open, Enterable
<1> QED
  BY <1>1, <1>3, <1>4, <1>5 DEF Cursor, Connect

LEMMA Distinct ==
  /\ Production # Test /\ Production # Master /\ Test # Master
  /\ Production # None /\ Test # None /\ Master # None
BY TestDatabaseAssumption, NoneAssumption DEF Databases

-----------------------------------------------------------------------------
(* The steps.                                                              *)

LEMMA UseStep == IInv /\ Use => IInv'
<1> SUFFICES ASSUME IInv, Use PROVE IInv'
  OBVIOUS
<1>1. /\ session' = settings.name /\ session' \in exists
      /\ direct' \in BOOLEAN /\ pending' \subseteq Keys
      /\ ~ plan.autocommit /\ direct' => phase \in {"dropping", "failed"}
      /\ pending' # {} => session' = Test
      /\ session' = Production => pending' = {}
  BY Lands DEF Use
<1>2. UNCHANGED <<inputs, settings, phase, target, serverVars, visitor>>
  BY DEF Use
<1> QED
  BY <1>1, <1>2 DEF Use, IInv, TypeOK, Place, ProductionIsKept, SessionFollowsSettings,
    KeysGoWithTables, inputs, serverVars

LEMMA BeginExistingStep == IInv /\ BeginExisting => IInv'
<1> SUFFICES ASSUME IInv, BeginExisting PROVE IInv'
  OBVIOUS
<1>1. settings.name \in Databases /\ file \in Entry /\ file.name = Production
  BY Names DEF IInv
<1>2. /\ IsRenamed([settings EXCEPT !.testName = Test, !.name = Test], file)
      /\ [settings EXCEPT !.testName = Test, !.name = Test].name = Test
  BY <1>1, Renaming DEF IInv, TypeOK, Databases
<1> QED
  BY <1>1, <1>2, Distinct DEF BeginExisting, UseExisting, Close, Moves, sessionVars,
    serverVars, IInv, TypeOK, Place, ProductionIsKept, SessionFollowsSettings,
    KeysGoWithTables, Phases, Databases, inputs

LEMMA OpenExistingStep == IInv /\ OpenExisting => IInv'
<1> SUFFICES ASSUME IInv, OpenExisting PROVE IInv'
  OBVIOUS
<1>1. /\ session' = settings.name /\ session' \in exists
      /\ direct' \in BOOLEAN /\ pending' \subseteq Keys
      /\ ~ plan.autocommit /\ direct' => phase \in {"dropping", "failed"}
      /\ pending' # {} => session' = Test
      /\ session' = Production => pending' = {}
  BY Lands DEF OpenExisting
<1> QED
  BY <1>1, Distinct DEF OpenExisting, Moves, serverVars, IInv, TypeOK, Place,
    ProductionIsKept, SessionFollowsSettings, KeysGoWithTables, Phases, Databases,
    inputs

LEMMA DropKeyStep == IInv /\ DropKey => IInv'
<1> SUFFICES ASSUME IInv, DropKey PROVE IInv'
  OBVIOUS
<1>1. session = Test /\ Test \in Databases /\ Production \in Databases
  BY DEF DropKey, IInv, Place, Databases
<1>2. PICK k \in keys[Test] \ pending :
        IF direct
        THEN keys' = [keys EXCEPT ![Test] = @ \ {k}] /\ UNCHANGED pending
        ELSE pending' = pending \cup {k} /\ UNCHANGED keys
  BY <1>1 DEF DropKey
<1>3. keys \in [Databases -> SUBSET Keys] /\ pending \subseteq Keys /\ keys[Production] = Keys
  BY DEF IInv, TypeOK, ProductionIsKept
<1>4. CASE direct
  <2>1. keys' \in [Databases -> SUBSET Keys] /\ keys'[Production] = Keys
    BY <1>1, <1>2, <1>3, <1>4, Distinct
  <2>2. plan.autocommit
    BY <1>4 DEF DropKey, IInv, SessionFollowsSettings
  <2> QED
    BY <1>1, <1>2, <1>4, <2>1, <2>2 DEF DropKey, IInv, TypeOK, Place, ProductionIsKept,
      SessionFollowsSettings, KeysGoWithTables, Phases, Databases, inputs
<1>5. CASE ~ direct
  <2>1. pending' \subseteq Keys /\ keys' = keys
    BY <1>1, <1>2, <1>3, <1>5
  <2> QED
    BY <1>1, <2>1, Distinct DEF DropKey, IInv, TypeOK, Place, ProductionIsKept,
      SessionFollowsSettings, KeysGoWithTables, Phases, Databases, inputs
<1> QED
  BY <1>4, <1>5

LEMMA EndExistingStep == IInv /\ EndExisting => IInv'
<1> SUFFICES ASSUME IInv, EndExisting PROVE IInv'
  OBVIOUS
<1>1. session = Test /\ Test \in Databases /\ Production \in Databases
  BY DEF EndExisting, IInv, Place, Databases
<1>2. /\ keys' \in [Databases -> SUBSET Keys]
      /\ keys'[Production] = Keys
      /\ pending' \subseteq Keys
      /\ pending' # {} => session = Test
      /\ phase' \in {"created", "failed"}
  BY <1>1, Distinct DEF EndExisting, DropTables, CommitKeys, IInv, TypeOK, ProductionIsKept
<1>3. \A db \in tables : keys'[db] = keys[db]
  BY <1>1 DEF EndExisting, DropTables, CommitKeys, IInv, TypeOK
<1> QED
  BY <1>1, <1>2, <1>3, Distinct DEF EndExisting, IInv, TypeOK, Place, ProductionIsKept,
    SessionFollowsSettings, KeysGoWithTables, Phases, Databases, inputs

LEMMA AskEditionStep == IInv /\ AskEdition => IInv'
<1> SUFFICES ASSUME IInv, AskEdition PROVE IInv'
  OBVIOUS
<1>1. settings.name \in Databases /\ file \in Entry /\ file.name = Production
  BY Names DEF IInv
<1>2. /\ IsRenamed([settings EXCEPT !.testName = Test], file)
      /\ [settings EXCEPT !.testName = Test].name = settings.name
  BY <1>1, Renaming DEF IInv, TypeOK, Databases
<1>3. /\ session' = settings.name /\ session' \in exists
      /\ direct' \in BOOLEAN /\ pending' \subseteq Keys
      /\ ~ plan.autocommit /\ direct' => phase \in {"dropping", "failed"}
      /\ pending' # {} => session' = Test
      /\ session' = Production => pending' = {}
  BY Lands DEF AskEdition
<1> QED
  BY <1>1, <1>2, <1>3, Distinct DEF AskEdition, Moves, serverVars, IInv, TypeOK, Place,
    ProductionIsKept, SessionFollowsSettings, KeysGoWithTables, Phases, Databases,
    inputs

LEMMA GoToMasterStep == IInv /\ GoToMaster => IInv'
<1> SUFFICES ASSUME IInv, GoToMaster PROVE IInv'
  OBVIOUS
<1>1. settings.name \in Databases /\ file \in Entry /\ file.name = Production
  BY Names DEF IInv
<1>2. /\ IsRenamed([settings EXCEPT !.name = Master], file)
      /\ [settings EXCEPT !.name = Master].name = Master
  BY <1>1, Renaming DEF IInv, TypeOK, Databases
<1> QED
  BY <1>1, <1>2, Distinct DEF GoToMaster, LeaveForMaster, Close, Moves, serverVars,
    IInv, TypeOK, Place, ProductionIsKept, SessionFollowsSettings, KeysGoWithTables,
    Phases, Databases, inputs

LEMMA KeepDatabaseStep == IInv /\ KeepDatabase => IInv'
<1> SUFFICES ASSUME IInv, KeepDatabase PROVE IInv'
  OBVIOUS
<1> QED
  BY Distinct DEF KeepDatabase, Moves, sessionVars, serverVars, IInv, TypeOK, Place,
    ProductionIsKept, SessionFollowsSettings, KeysGoWithTables, Phases, Databases,
    inputs

LEMMA SwitchStep == IInv /\ Switch => IInv'
<1> SUFFICES ASSUME IInv, Switch PROVE IInv'
  OBVIOUS
<1>1. settings.name \in Databases /\ file \in Entry /\ file.name = Production
  BY Names DEF IInv
<1>2. /\ IsRenamed([settings EXCEPT !.name = Test], file)
      /\ [settings EXCEPT !.name = Test].name = Test
  BY <1>1, Renaming DEF IInv, TypeOK, Databases
<1> QED
  BY <1>1, <1>2, Distinct DEF Switch, Close, Moves, serverVars, IInv, TypeOK, Place,
    ProductionIsKept, SessionFollowsSettings, KeysGoWithTables, Phases, Databases,
    inputs

LEMMA MigrateStep == IInv /\ Migrate => IInv'
<1> SUFFICES ASSUME IInv, Migrate PROVE IInv'
  OBVIOUS
<1>1. /\ session' = settings.name /\ session' \in exists
      /\ direct' \in BOOLEAN /\ pending' \subseteq Keys
      /\ ~ plan.autocommit /\ direct' => phase \in {"dropping", "failed"}
      /\ pending' # {} => session' = Test
      /\ session' = Production => pending' = {}
  BY Lands DEF Migrate
<1> QED
  BY <1>1, Distinct DEF Migrate, Moves, IInv, TypeOK, Place, ProductionIsKept,
    SessionFollowsSettings, KeysGoWithTables, Phases, Databases, inputs

LEMMA LeaveUndestroyedStep == IInv /\ LeaveUndestroyed => IInv'
<1> SUFFICES ASSUME IInv, LeaveUndestroyed PROVE IInv'
  OBVIOUS
<1>1. settings.name \in Databases /\ file \in Entry /\ file.name = Production
  BY Names DEF IInv
<1>2. /\ IsRenamed([settings EXCEPT !.name = Production], file)
      /\ [settings EXCEPT !.name = Production].name = Production
  BY <1>1, Renaming DEF IInv, TypeOK, Databases
<1> QED
  BY <1>1, <1>2, Distinct DEF LeaveUndestroyed, Close, Restored, Moves, serverVars,
    IInv, TypeOK, Place, ProductionIsKept, SessionFollowsSettings, KeysGoWithTables,
    Phases, Databases, inputs

LEMMA BeginDestroyStep == IInv /\ BeginDestroy => IInv'
<1> SUFFICES ASSUME IInv, BeginDestroy PROVE IInv'
  OBVIOUS
<1>1. settings.name \in Databases /\ file \in Entry /\ file.name = Production
  BY Names DEF IInv
<1>2. /\ IsRenamed([settings EXCEPT !.name = Master], file)
      /\ [settings EXCEPT !.name = Master].name = Master
  BY <1>1, Renaming DEF IInv, TypeOK, Databases
<1> QED
  BY <1>1, <1>2, Distinct DEF BeginDestroy, Close, Moves, serverVars, IInv, TypeOK,
    Place, ProductionIsKept, SessionFollowsSettings, KeysGoWithTables, Phases,
    Databases, inputs

LEMMA SetSingleUserStep == IInv /\ SetSingleUser => IInv'
<1> SUFFICES ASSUME IInv, SetSingleUser PROVE IInv'
  OBVIOUS
<1>1. settings.name \in Databases /\ StringDatabase(settings) = settings.name
  BY Names DEF IInv
<1> QED
  BY <1>1, Distinct DEF SetSingleUser, Open, Enterable, Moves, IInv, TypeOK, Place,
    ProductionIsKept, SessionFollowsSettings, KeysGoWithTables, Phases, Databases,
    inputs

LEMMA DropDatabaseStep == IInv /\ DropDatabase => IInv'
<1> SUFFICES ASSUME IInv, DropDatabase PROVE IInv'
  OBVIOUS
<1>1. settings.name \in Databases /\ file \in Entry /\ file.name = Production
  BY Names DEF IInv
<1>2. /\ IsRenamed([settings EXCEPT !.name = Production], file)
      /\ [settings EXCEPT !.name = Production].name = Production
  BY <1>1, Renaming DEF IInv, TypeOK, Databases
<1> QED
  BY <1>1, <1>2, Distinct DEF DropDatabase, Drops, EndDestroy, Close, Restored, Moves,
    IInv, TypeOK, Place, ProductionIsKept, SessionFollowsSettings, KeysGoWithTables,
    Phases, Databases, inputs

LEMMA FailStep == IInv /\ Fail => IInv'
<1> SUFFICES ASSUME IInv, Fail PROVE IInv'
  OBVIOUS
<1> QED
  BY Distinct DEF Fail, sessionVars, serverVars, IInv, TypeOK, Place, ProductionIsKept,
    SessionFollowsSettings, KeysGoWithTables, Phases, Databases, inputs

LEMMA RestartStep == IInv /\ Restart => IInv'
<1> SUFFICES ASSUME IInv, Restart PROVE IInv'
  OBVIOUS
<1>1. file \in Entries
  BY DEF IInv, TypeOK
<1>2. IsRenamed(file, file) /\ file.name = Production
  BY <1>1, AsWritten
<1> QED
  BY <1>1, <1>2, Distinct DEF Restart, Close, serverVars, IInv, TypeOK, Place,
    ProductionIsKept, SessionFollowsSettings, KeysGoWithTables, Phases, Databases,
    inputs

LEMMA VisitStep == IInv /\ Visit => IInv'
<1> SUFFICES ASSUME IInv, Visit PROVE IInv'
  OBVIOUS
<1> QED
  BY Distinct DEF Visit, sessionVars, serverVars, IInv, TypeOK, Place, ProductionIsKept,
    SessionFollowsSettings, KeysGoWithTables, Phases, Databases, inputs

LEMMA LeaveStep == IInv /\ Leave => IInv'
<1> SUFFICES ASSUME IInv, Leave PROVE IInv'
  OBVIOUS
<1> QED
  BY Distinct DEF Leave, sessionVars, serverVars, IInv, TypeOK, Place, ProductionIsKept,
    SessionFollowsSettings, KeysGoWithTables, Phases, Databases, inputs

-----------------------------------------------------------------------------
(* The theorems.                                                           *)

LEMMA InitStep == Init => IInv
<1> SUFFICES ASSUME Init PROVE IInv
  OBVIOUS
<1>1. IsRenamed(file, file) /\ file.name = Production
  BY AsWritten DEF Init
<1>2. /\ exists \subseteq Databases /\ tables \subseteq exists
      /\ Production \in exists /\ Production \in tables
  BY DEF Init, Databases
<1>3. /\ keys \in [Databases -> SUBSET Keys] /\ keys[Production] = Keys
      /\ \A db \in tables : keys[db] = Keys
  BY <1>2 DEF Init
<1> QED
  BY <1>1, <1>2, <1>3, Distinct DEF Init, IInv, TypeOK, Place, ProductionIsKept,
    SessionFollowsSettings, KeysGoWithTables, Phases, Databases

LEMMA NextStep == IInv /\ [Next]_vars => IInv'
<1> SUFFICES ASSUME IInv, [Next]_vars PROVE IInv'
  OBVIOUS
<1>1. CASE Next
  BY <1>1, UseStep, BeginExistingStep, OpenExistingStep, DropKeyStep, EndExistingStep,
    AskEditionStep, GoToMasterStep, KeepDatabaseStep, SwitchStep, MigrateStep,
    LeaveUndestroyedStep, BeginDestroyStep, SetSingleUserStep, DropDatabaseStep, FailStep,
    RestartStep, VisitStep, LeaveStep DEF Next
<1>2. CASE UNCHANGED vars
  BY <1>2 DEF vars, inputs, sessionVars, serverVars, IInv, TypeOK, Place, ProductionIsKept,
    SessionFollowsSettings, KeysGoWithTables
<1> QED
  BY <1>1, <1>2

\* The invariant holds in every reachable state.
THEOREM Invariance == Spec => []IInv
BY InitStep, NextStep, PTL DEF Spec

\* Type correctness: what a test run leaves in settings_dict and on the server.
THEOREM TypeCorrect == Spec => []TypeOK
<1>1. IInv => TypeOK
  BY DEF IInv
<1> QED
  BY Invariance, <1>1, PTL

\* No test run alters production, whatever fails and wherever the wrapper's session was
\* (_create_test_db and _destroy_test_db, creation.py:109-185).
THEOREM ProductionKept == Spec => []ProductionIsKept
<1>1. IInv => ProductionIsKept
  BY DEF IInv
<1> QED
  BY Invariance, <1>1, PTL

\* A session is where NAME says, in the mode that OPTIONS say, through all changes of
\* both.
THEOREM SessionsFollow == Spec => []SessionFollowsSettings
<1>1. IInv => SessionFollowsSettings
  BY DEF IInv
<1> QED
  BY Invariance, <1>1, PTL

\* A run that fails between the foreign keys and the tables of an existing database leaves
\* the keys (creation.py:143-150).
THEOREM KeysStay == Spec => []KeysGoWithTables
<1>1. IInv => KeysGoWithTables
  BY DEF IInv
<1> QED
  BY Invariance, <1>1, PTL

\* Explicit settings mean the same to the connection string and to connect().
LEMMA OpenersAgree ==
  ASSUME NEW s \in Entry
  PROVE  WaysToOpenAgree(s)
<1> SUFFICES ASSUME Explicit(s), s.name # None
             PROVE  ConnectionString(s) = ConnectParams(s)
  BY DEF WaysToOpenAgree
<1>1. CASE s.dsn = None
  BY <1>1 DEF Explicit, ConnectionString, ConnectParams, StringDatabase, Driver, HostKey
<1>2. CASE s.dsn # None
  BY <1>2 DEF Explicit, ConnectionString, ConnectParams, StringDatabase
<1> QED
  BY <1>1, <1>2

\* And to dbshell, as far as ShellAgrees goes.
LEMMA ShellFollows ==
  ASSUME NEW s \in Entry
  PROVE  ShellAgrees(s)
<1> SUFFICES ASSUME ForShell(s), s.port = None
             PROVE  LET shell  == ShellArgs(s)
                        string == ConnectionString(s)
                    IN  /\ shell.dsn = string.dsn
                        /\ shell.host = string.host
                        /\ shell.port = string.port
                        /\ shell.user = string.user
                        /\ shell.integrated = string.integrated
                        /\ s.nt => shell.database = string.database
  BY DEF ShellAgrees
<1> QED
  BY DEF Entry, ForShell, Explicit, ShellArgs, ConnectionString, StringDatabase

\* For every entry of DATABASES, and throughout a run: _cursor and connect() read explicit
\* settings alike, server, port, user and database; dbshell, if there is no PORT, has the
\* server and the user of both, and with osql the database (property ReadersAgree).
THEOREM Readings == Spec => []ReadersAgree
<1>1. IInv => ReadersAgree
  <2> SUFFICES ASSUME IInv PROVE ReadersAgree
    OBVIOUS
  <2>1. settings \in Entry
    BY Names DEF IInv
  <2> QED
    BY <2>1, OpenersAgree, ShellFollows DEF ReadersAgree
<1> QED
  BY Invariance, <1>1, PTL
=============================================================================
