----------------------------- MODULE Connection -----------------------------
(***************************************************************************)
(* The connection life cycle of django_pyodbc: DatabaseWrapper._cursor     *)
(* (base.py) and the server-version property of DatabaseOperations         *)
(* (operations.py) that it calls and that calls it back.                   *)
(*                                                                         *)
(* A wrapper is one entry of DATABASES in one thread.  The code of one     *)
(* wrapper runs in its thread; threads interleave, and the only thing they *)
(* share is the class-level dictionary DatabaseCreation.data_types.        *)
(*                                                                         *)
(* `_cursor' opens the session when there is none and then initialises it; *)
(* initialising runs signal receivers and reads the server version, both   *)
(* of which call `cursor()' again.  The pending calls of a wrapper are a   *)
(* stack of labels, newest first; a label says where its call stands:      *)
(*                                                                         *)
(*   "start"     _cursor, before the test `self.connection is None'        *)
(*   "signal"    _cursor, session opened, connection_created not sent yet  *)
(*   "setdate"   _cursor, about to execute SET DATEFORMAT; SET DATEFIRST   *)
(*   "version"   _cursor, about to read ops.sql_server_ver                 *)
(*   "features"  _cursor, about to adapt to the version it has read        *)
(*   "driver"    _cursor, about to look at the driver                      *)
(*   "query"     _get_sql_server_ver, about to use the cursor it asked for *)
(*   "created"   Django's connect(), connection_created not sent yet       *)
(*   "done"      Django's connect(), a receiver is running                 *)
(***************************************************************************)
EXTENDS Naturals, Sequences

CONSTANTS
  Wrappers,   \* the DatabaseWrapper objects of the process
  Settings,   \* their settings_dict, and the server and driver behind it
  Openers,    \* who opens sessions here: _cursor and/or Django's connect()
  Failures    \* whether the server, the driver or a receiver may fail

Backends  == {"mssql", "db2", "openedge"}
Drivers   == {"LIBTDSODBC", "SQLNCLI", "SQLSRV32", "OTHER"}
Decisions == {"None", "yes", "no"}      \* driver_supports_utf8
Years     == {2000, 2005, 2008, 2012}

\* major: major number of ProductVersion; recentTds: FreeTDS is 0.91 or newer;
\* hasOptions: OPTIONS is not empty; the other fields are the OPTIONS entries.
SettingsType ==
  [backend: Backends, major: Nat, driver: Drivers, recentTds: BOOLEAN,
   hasOptions: BOOLEAN, autocommit: BOOLEAN, mars: BOOLEAN, utf8: Decisions]

Defaults == [backend |-> "mssql", autocommit |-> FALSE, mars |-> FALSE,
             utf8 |-> "None"]

ASSUME SettingsAssumption ==
  /\ Settings \in [Wrappers -> SettingsType]
  /\ \A w \in Wrappers : \A option \in DOMAIN Defaults :
        Settings[w].hasOptions \/ Settings[w][option] = Defaults[option]
  /\ Openers \subseteq {"cursor", "connect"}
  /\ Failures \in BOOLEAN

VARIABLES
  connection,  \* self.connection: "none", or who opened the session
  dated,       \* the session has executed SET DATEFORMAT and SET DATEFIRST
  ssVer,       \* ops._ss_ver, 0 for None
  utf8,        \* self.driver_supports_utf8
  canReturnId, \* features.can_return_id_from_insert
  chunked,     \* features.can_use_chunked_reads
  textField,   \* data_types['TextField'], shared by all wrappers
  stack,       \* pending calls, newest first
  cursors,     \* CursorWrappers the application holds on the open session,
               \* each one as the driver_supports_utf8 it was built with
  raised       \* the last exception a call ended with

vars == <<connection, dated, ssVer, utf8, canReturnId, chunked, textField,
          stack, cursors, raised>>

session  == <<connection, dated>>
features == <<canReturnId, chunked, textField>>
client   == <<cursors, raised>>

Opening == {"signal", "setdate", "version", "features", "driver"}
Labels  == Opening \cup {"start", "query", "created", "done"}
Errors  == {"none", "DatabaseError", "AttributeError"}

-----------------------------------------------------------------------------
(* Helpers                                                                 *)

IsMicrosoft(w) == Settings[w].backend = "mssql"

\* Faulty: the major number itself, not the release it stands for.
YearOfVerbatim(major) == major

\* The release a ProductVersion stands for.
YearOf(major) ==
  CASE major >= 11 -> 2012
    [] major = 10  -> 2008
    [] major = 9   -> 2005
    [] OTHER       -> 2000

\* The release the version property reports: other backends count as 2000.
ServerYear(w) == YearOf(IF IsMicrosoft(w) THEN Settings[w].major ELSE 0)

\* What _cursor decides about the driver when OPTIONS did not say.
DetectedUtf8(w) ==
  CASE Settings[w].driver = "LIBTDSODBC" ->
         IF Settings[w].recentTds THEN "yes" ELSE "no"
    [] Settings[w].driver \in {"SQLSRV32", "SQLNCLI"} -> "yes"
    [] OTHER -> "None"    \* `False or None'

At(w, label) == stack[w] # <<>> /\ Head(stack[w]) = label

\* The newest call of w moves on to `label'.
GoTo(w, label) ==
  stack' = [stack EXCEPT ![w] = <<label>> \o Tail(stack[w])]

\* The newest call of w moves on to `label' and waits there for a new call.
CallFrom(w, label, callee) ==
  stack' = [stack EXCEPT ![w] = <<callee, label>> \o Tail(stack[w])]

\* The newest call of w ends; nothing on the way up catches exceptions.
Return(w) == stack' = [stack EXCEPT ![w] = Tail(stack[w])]

Raise(w, error) ==
  /\ stack' = [stack EXCEPT ![w] = <<>>]
  /\ raised' = [raised EXCEPT ![w] = error]
  /\ UNCHANGED cursors

\* _cursor returns CursorWrapper(cursor, driver_supports_utf8, encoding, ...):
\* the attribute `encoding' exists only if OPTIONS is not empty.
ReturnCursor(w, decision) ==
  IF Settings[w].hasOptions
  THEN /\ Return(w)
       /\ cursors' = IF Tail(stack[w]) = <<>>
                     THEN [cursors EXCEPT ![w] = @ \cup {decision}]
                     ELSE cursors
       /\ UNCHANGED raised
  ELSE Raise(w, "AttributeError")

-----------------------------------------------------------------------------
(* Faulty variants of steps below: what the properties would catch         *)

\* The new session is kept in a local variable until the call returns.
CursorConnectLate(w) ==
  /\ At(w, "start")
  /\ connection[w] = "none"
  /\ GoTo(w, "signal")
  /\ UNCHANGED <<session, ssVer, utf8, features, client>>

\* The receivers are sent the signal again after one of them took a cursor.
ReceiverQueryAgain(w) ==
  /\ \/ At(w, "signal")  /\ CallFrom(w, "signal", "start")
     \/ At(w, "created") /\ CallFrom(w, "done", "start")
  /\ UNCHANGED <<session, ssVer, utf8, features, client>>

\* The date settings are made once for the wrapper, not for each session.
SetDateOnce(w) ==
  /\ At(w, "setdate")
  /\ dated' = [dated EXCEPT ![w] = IsMicrosoft(w) /\ ssVer[w] = 0]
  /\ GoTo(w, "version")
  /\ UNCHANGED <<connection, ssVer, utf8, features, client>>

\* A newer server puts the shared column type back.
AdaptBothWays(w) ==
  /\ At(w, "features")
  /\ textField' = IF ssVer[w] < 2005 THEN "ntext" ELSE "nvarchar(max)"
  /\ canReturnId' = [canReturnId EXCEPT ![w] = ssVer[w] >= 2005]
  /\ GoTo(w, "driver")
  /\ UNCHANGED <<session, ssVer, utf8, chunked, client>>

\* SQL Server 2000 is not taken for a server older than 2005.
AdaptOffByOne(w) ==
  /\ At(w, "features")
  /\ IF ssVer[w] < 2000
     THEN /\ textField' = "ntext"
          /\ canReturnId' = [canReturnId EXCEPT ![w] = FALSE]
     ELSE UNCHANGED <<textField, canReturnId>>
  /\ GoTo(w, "driver")
  /\ UNCHANGED <<session, ssVer, utf8, chunked, client>>

-----------------------------------------------------------------------------
(* What the application and Django start                                   *)

\* connection.cursor(), which Django forwards to _cursor.
CallCursor(w) ==
  /\ stack[w] = <<>>
  /\ "cursor" \in Openers \/ connection[w] # "none"
  /\ stack' = [stack EXCEPT ![w] = <<"start">>]
  /\ UNCHANGED <<session, ssVer, utf8, features, client>>

\* ops.sql_server_ver read by other code, e.g. field_cast_sql.
ReadVersion(w) ==
  /\ stack[w] = <<>>
  /\ ssVer[w] = 0
  /\ "cursor" \in Openers \/ connection[w] # "none"
  /\ stack' = [stack EXCEPT ![w] = <<"start", "query">>]
  /\ UNCHANGED <<session, ssVer, utf8, features, client>>

\* Django's ensure_connection() -> connect() -> get_new_connection(), the way
\* Atomic.__enter__ opens a session; init_connection_state does nothing.
EnsureConnection(w) ==
  /\ stack[w] = <<>>
  /\ "connect" \in Openers
  /\ connection[w] = "none"
  /\ connection' = [connection EXCEPT ![w] = "connect"]
  /\ dated' = [dated EXCEPT ![w] = FALSE]
  /\ stack' = [stack EXCEPT ![w] = <<"created">>]
  /\ UNCHANGED <<ssVer, utf8, features, client>>

\* Django's close(): the next cursor() opens a new session.
Close(w) ==
  /\ stack[w] = <<>>
  /\ connection[w] # "none"
  /\ connection' = [connection EXCEPT ![w] = "none"]
  /\ dated' = [dated EXCEPT ![w] = FALSE]
  /\ cursors' = [cursors EXCEPT ![w] = {}]
  /\ UNCHANGED <<ssVer, utf8, features, stack, raised>>

-----------------------------------------------------------------------------
(* The steps of _cursor                                                    *)

\* There is a connection: no initialisation, just one more cursor.
CursorReuse(w) ==
  /\ At(w, "start")
  /\ connection[w] # "none"
  /\ ReturnCursor(w, utf8[w])
  /\ UNCHANGED <<session, ssVer, utf8, features>>

\* self.connection = Database.connect(...), before anything else is done.
CursorConnect(w) ==
  /\ At(w, "start")
  /\ connection[w] = "none"
  /\ connection' = [connection EXCEPT ![w] = "cursor"]
  /\ dated' = [dated EXCEPT ![w] = FALSE]
  /\ GoTo(w, "signal")
  /\ UNCHANGED <<ssVer, utf8, features, client>>

\* connection_created.send: no receiver, or none that uses the connection.
SendSignal(w) ==
  /\ At(w, "signal") \/ At(w, "created")
  /\ IF At(w, "signal") THEN GoTo(w, "setdate") ELSE Return(w)
  /\ UNCHANGED <<session, ssVer, utf8, features, client>>

\* connection_created.send: a receiver takes a cursor of the new session.
ReceiverQuery(w) ==
  /\ \/ At(w, "signal")  /\ CallFrom(w, "setdate", "start")
     \/ At(w, "created") /\ CallFrom(w, "done", "start")
  /\ UNCHANGED <<session, ssVer, utf8, features, client>>

\* Django's connect() ends after the receiver did.
ConnectDone(w) ==
  /\ At(w, "done")
  /\ Return(w)
  /\ UNCHANGED <<session, ssVer, utf8, features, client>>

\* cursor.execute("SET DATEFORMAT ymd; SET DATEFIRST %s"), SQL Server only.
SetDate(w) ==
  /\ At(w, "setdate")
  /\ dated' = [dated EXCEPT ![w] = IsMicrosoft(w)]
  /\ GoTo(w, "version")
  /\ UNCHANGED <<connection, ssVer, utf8, features, client>>

\* self.ops.sql_server_ver: cached, or read through a cursor of its own.
VersionCached(w) ==
  /\ At(w, "version")
  /\ ssVer[w] # 0
  /\ GoTo(w, "features")
  /\ UNCHANGED <<session, ssVer, utf8, features, client>>

VersionRead(w) ==
  /\ At(w, "version")
  /\ ssVer[w] = 0
  /\ stack' = [stack EXCEPT
                 ![w] = <<"start", "query", "features">> \o Tail(stack[w])]
  /\ UNCHANGED <<session, ssVer, utf8, features, client>>

\* The adaptation to a server older than 2005.
Adapt(w) ==
  /\ At(w, "features")
  /\ IF ssVer[w] < 2005
     THEN /\ textField' = "ntext"
          /\ canReturnId' = [canReturnId EXCEPT ![w] = FALSE]
     ELSE UNCHANGED <<textField, canReturnId>>
  /\ GoTo(w, "driver")
  /\ UNCHANGED <<session, ssVer, utf8, chunked, client>>

\* The driver name decides on chunked reads and on decoding; then _cursor
\* returns.
InspectDriver(w) ==
  LET decision == IF utf8[w] = "None" THEN DetectedUtf8(w) ELSE utf8[w]
  IN  /\ At(w, "driver")
      /\ utf8' = [utf8 EXCEPT ![w] = decision]
      /\ chunked' = [chunked EXCEPT ![w] =
                       \/ @
                       \/ /\ ssVer[w] >= 2005
                          /\ Settings[w].driver = "SQLNCLI"
                          /\ Settings[w].mars]
      /\ ReturnCursor(w, decision)
      /\ UNCHANGED <<session, ssVer, canReturnId, textField>>

\* _get_sql_server_ver executes its query and caches the answer.
VersionAnswer(w) ==
  /\ At(w, "query")
  /\ ssVer' = [ssVer EXCEPT ![w] = ServerYear(w)]
  /\ Return(w)
  /\ UNCHANGED <<session, utf8, features, client>>

\* Any call to the driver, and any receiver, may raise: the exception leaves
\* every pending call, and self.connection stays what it is.
\* The version property asks only SQL Server, the adaptation asks nobody.
Fail(w) ==
  /\ Failures
  /\ \/ \E label \in Labels \ {"version", "features", "query"} : At(w, label)
     \/ At(w, "query") /\ IsMicrosoft(w)
  /\ Raise(w, "DatabaseError")
  /\ UNCHANGED <<session, ssVer, utf8, features>>

-----------------------------------------------------------------------------

Init ==
  /\ connection = [w \in Wrappers |-> "none"]
  /\ dated = [w \in Wrappers |-> FALSE]
  /\ ssVer = [w \in Wrappers |-> 0]
  /\ utf8 = [w \in Wrappers |-> Settings[w].utf8]
  /\ canReturnId = [w \in Wrappers |-> TRUE]
  /\ chunked = [w \in Wrappers |-> FALSE]
  /\ textField = "nvarchar(max)"
  /\ stack = [w \in Wrappers |-> <<>>]
  /\ cursors = [w \in Wrappers |-> {}]
  /\ raised = [w \in Wrappers |-> "none"]

\* The steps the thread of w takes while a call is pending.
Step(w) ==
  \/ CursorReuse(w)
  \/ CursorConnect(w)
  \/ SendSignal(w)
  \/ ReceiverQuery(w)
  \/ ConnectDone(w)
  \/ SetDate(w)
  \/ VersionCached(w)
  \/ VersionRead(w)
  \/ Adapt(w)
  \/ InspectDriver(w)
  \/ VersionAnswer(w)
  \/ Fail(w)

Next ==
  \E w \in Wrappers :
    \/ CallCursor(w)
    \/ ReadVersion(w)
    \/ EnsureConnection(w)
    \/ Close(w)
    \/ Step(w)

Spec == Init /\ [][Next]_vars

\* A thread that is inside a call keeps running: every driver call returns or
\* raises.
FairSpec == Spec /\ \A w \in Wrappers : WF_vars(Step(w))

-----------------------------------------------------------------------------
(* Properties                                                              *)

\* The type of each attribute of a wrapper, and the releases that _get_sql_server_ver
\* knows (operations.py:124-147).
TypeOK ==
  /\ connection \in [Wrappers -> {"none", "cursor", "connect"}]
  /\ dated \in [Wrappers -> BOOLEAN]
  /\ ssVer \in [Wrappers -> Years \cup {0}]
  /\ utf8 \in [Wrappers -> Decisions]
  /\ canReturnId \in [Wrappers -> BOOLEAN]
  /\ chunked \in [Wrappers -> BOOLEAN]
  /\ textField \in {"nvarchar(max)", "ntext"}
  /\ stack \in [Wrappers -> Seq(Labels)]
  /\ cursors \in [Wrappers -> SUBSET Decisions]
  /\ raised \in [Wrappers -> Errors]

\* _cursor and sql_server_ver call each other and receivers call both; since
\* self.connection is assigned before any of those calls (base.py:347, 351),
\* no nested call opens a second session and the recursion stops at depth 4.
SafeReentrancy ==
  \A w \in Wrappers :
    /\ Len(stack[w]) <= 4
    /\ \A i, j \in 1..Len(stack[w]) :
         stack[w][i] \in Opening /\ stack[w][j] \in Opening => i = j
    /\ \A i \in 1..Len(stack[w]) :
         stack[w][i] \in Opening => connection[w] # "none"

\* The parts of _cursor's initialisation other code relies on: the date
\* settings of the session (base.py:362-365) and, for a server older than
\* 2005, the two adaptations (base.py:366-369).
AdaptedToServer(w) ==
  /\ ssVer[w] = ServerYear(w)
  /\ ssVer[w] < 2005 => ~canReturnId[w] /\ textField = "ntext"

SessionReady(w) ==
  /\ IsMicrosoft(w) => dated[w]
  /\ AdaptedToServer(w)

\* The _cursor call that opened a session returns only when the session is
\* ready, whatever nested calls, receivers and other threads did meanwhile.
OpenerReturnsReady ==
  [][\A w \in Wrappers :
       At(w, "driver") /\ stack'[w] = Tail(stack[w]) => SessionReady(w)']_vars

\* Adaptation and driver inspection outlive the session: a wrapper that has
\* detected how its driver decodes (base.py:388-402) has adapted to its server
\* before (base.py:366-369), even if calls failed and sessions were reopened.
AdaptedBeforeDecoded ==
  \A w \in Wrappers : utf8[w] # Settings[w].utf8 => AdaptedToServer(w)

\* Nothing another wrapper does to the shared data_types, and no later call
\* on the same session, takes back what initialisation has established.
ReadyIsStable ==
  [][\A w \in Wrappers :
       /\ SessionReady(w)
       /\ connection[w] # "none" /\ connection'[w] = connection[w]
       => SessionReady(w)']_vars

\* A pending cursor(), connect() or version call returns or raises, in spite
\* of the mutual recursion.
CallsEnd == \A w \in Wrappers : stack[w] # <<>> ~> stack[w] = <<>>

-----------------------------------------------------------------------------
(* What comments and README say and the code does not do                   *)

\* base.py:357-360: "Set date format for the connection. Also, make sure
\* Sunday is considered the first day of the week": the application's cursors
\* belong to a session where that has been done.
CursorsOnDatedSession ==
  \A w \in Wrappers : IsMicrosoft(w) /\ cursors[w] # {} => dated[w]

\* Which sessions are in the driver's autocommit mode.
OdbcAutocommit(w) == connection[w] = "cursor" /\ Settings[w].autocommit

\* README.rst, OPTIONS: "autocommit ... Indicates if pyodbc should direct the
\* the ODBC driver to activate the autocommit feature".  get_connection_params
\* drops the option (base.py:228-229), _cursor passes it on (base.py:345-352).
AutocommitHonoured ==
  \A w \in Wrappers :
    connection[w] # "none" => OdbcAutocommit(w) = Settings[w].autocommit

\* README.rst, Features: "Django's TextField both under SQL Server 2000 and
\* 2005": the type of a TextField column is the one of the wrapper's server.
TextFieldOfServer ==
  \A w \in Wrappers :
    IsMicrosoft(w) /\ cursors[w] # {} =>
      (textField = "ntext") = (ServerYear(w) < 2005)

\* README.rst, OPTIONS: "encoding ... Default is 'utf-8'": no call of cursor()
\* fails because the option is not given.
EncodingHasDefault == \A w \in Wrappers : raised[w] # "AttributeError"
=============================================================================
