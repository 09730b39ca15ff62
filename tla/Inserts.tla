------------------------------- MODULE Inserts -------------------------------
(***************************************************************************)
(* INSERT into tables with an identity column, by several sessions at once,*)
(* and the id that save() gets back.                                       *)
(*                                                                         *)
(* SQLInsertCompiler turns a request into one batch of statements.  The    *)
(* server takes each statement in turn; statements of other sessions come  *)
(* in between, and before Django asks for the id.                          *)
(***************************************************************************)
EXTENDS Identity, Sequences

CONSTANTS
  Sessions,
  Installations

\* The version of Django, the server, and features.can_return_id_from_insert.
Installation == [django: {20, 31}, server: {"sqlserver", "db2"}, canReturnId: BOOLEAN]

ASSUME InsertsAssumption == Installations \subseteq Installation

VARIABLES
  installation, \* never changes
  request,      \* what each session inserts
  batch,        \* the statements the server still has to take
  lastId,       \* the last id the server has generated for the session
  result,       \* the rows of the batch's table variable
  stored,       \* history: the id of the row the batch has stored
  state,        \* of the call: "idle" if none came yet, "pending", "done" or "failed"
  reply         \* the id it has returned

callVars == <<request, batch, lastId, result, stored, state, reply>>
vars     == <<installation, tableVars, callVars>>

\* Ids are positive.
NoId == 0

\* "given" says that the id is among the query's fields; "bare" that there are no
\* fields at all.  save() asks for the id of a row it gave none; Django 3.1 asks
\* always.
Requests ==
  {r \in [table: Tables, given: BOOLEAN, bare: BOOLEAN, wanted: BOOLEAN] :
     /\ r.bare => ~ r.given
     /\ installation.django = 20 => ~ (r.wanted /\ r.given)}

Statements == {"insert", "select"}

-----------------------------------------------------------------------------
(* SQLInsertCompiler.                                                      *)

\* as_sql: Django 3.1 no longer sets return_id, so that it is False there.
ReturnsId(r) == r.wanted /\ installation.django = 20 /\ installation.canReturnId

\* Faulty: as_sql fixes a statement that _fix_insert has fixed already.
FixInsertTwice(r) ==
  IF ReturnsId(r) THEN <<"insert", "select", "select">> ELSE <<"insert">>

\* _fix_insert: with an OUTPUT clause the batch ends in reading the table variable.
\* Options has no has_auto_field, so that nothing else is done: no IDENTITY_INSERT
\* around the row of an object with an id of its own, no DEFAULT VALUES for a row
\* without fields.
FixInsert(r) ==
  IF ReturnsId(r) THEN <<"insert", "select">> ELSE <<"insert">>

\* What the server refuses then, which always generates the column: an id of the
\* row's own, and on SQL Server Django's VALUES (DEFAULT), which names the column.
IsRefused(r) == r.given \/ (r.bare /\ installation.server = "sqlserver")

-----------------------------------------------------------------------------
(* The call.                                                               *)

Start(s, r) ==
  /\ state[s] # "pending"
  /\ request' = [request EXCEPT ![s] = r]
  /\ batch' = [batch EXCEPT ![s] = FixInsert(r)]
  /\ result' = [result EXCEPT ![s] = NoId]
  /\ stored' = [stored EXCEPT ![s] = NoId]
  /\ state' = [state EXCEPT ![s] = "pending"]
  /\ reply' = [reply EXCEPT ![s] = NoId]
  /\ UNCHANGED <<tableVars, lastId>>

\* The next statement of the batch is st, and is done with.
Takes(s, st) ==
  /\ state[s] = "pending"
  /\ batch[s] # <<>>
  /\ Head(batch[s]) = st
  /\ batch' = [batch EXCEPT ![s] = Tail(@)]

\* The row is stored; OUTPUT puts its id into the batch's table variable.
Stores(s, id) ==
  /\ stored' = [stored EXCEPT ![s] = id]
  /\ lastId' = [lastId EXCEPT ![s] = id]
  /\ result' = [result EXCEPT ![s] = IF ReturnsId(request[s]) THEN id ELSE NoId]
  /\ UNCHANGED <<request, state, reply>>

InsertGenerated(s) ==
  LET r == request[s] IN
  /\ ~ IsRefused(r)
  /\ NextId(r.table) \in Ids
  /\ Takes(s, "insert")
  /\ Generate(r.table)
  /\ Stores(s, NextId(r.table))

\* An error of the INSERT ends the batch; execute raises.  An id that the server
\* generates is never taken: its counter is ahead of every row.
InsertFails(s) ==
  /\ Takes(s, "insert")
  /\ IsRefused(request[s]) \/ NextId(request[s].table) \notin Ids
  /\ state' = [state EXCEPT ![s] = "failed"]
  /\ UNCHANGED <<tableVars, request, lastId, result, stored, reply>>

Select(s) ==
  /\ Takes(s, "select")
  /\ UNCHANGED <<tableVars, request, lastId, result, stored, state, reply>>

-----------------------------------------------------------------------------
(* The id, when the batch is done.                                         *)

Ends(s, how, answer) ==
  /\ state[s] = "pending"
  /\ batch[s] = <<>>
  /\ state' = [state EXCEPT ![s] = how]
  /\ reply' = [reply EXCEPT ![s] = answer]
  /\ UNCHANGED <<tableVars, request, batch, lastId, result, stored>>

\* Faulty: IDENT_CURRENT in place of the OUTPUT clause.
FetchIdentCurrent(s) == Ends(s, "done", current[request[s].table])

\* fetch_returned_insert_id.
FetchReturnedId(s) == Ends(s, "done", result[s])

\* Faulty: DB2 is asked for the last id of the table, not of the session.
LastInsertIdOfTable(s) == Ends(s, "done", current[request[s].table])

\* Faulty: DB2 reads it from the row stored last.
LastInsertIdOfLastRow(s) ==
  IF installation.server = "db2" /\ current[request[s].table] \in rows[request[s].table]
  THEN Ends(s, "done", lastId[s])
  ELSE Ends(s, "failed", NoId)

\* last_insert_id: DB2 reads IDENTITY_VAL_LOCAL() once for every row of the table,
\* so that there is none if the table is empty.  The statement for SQL Server has
\* a syntax error.
LastInsertId(s) ==
  IF installation.server = "db2" /\ rows[request[s].table] # {}
  THEN Ends(s, "done", lastId[s])
  ELSE Ends(s, "failed", NoId)

\* Django's SQLInsertCompiler.execute_sql.
Finish(s) ==
  \/ ~ request[s].wanted /\ Ends(s, "done", NoId)
  \/ request[s].wanted /\ ReturnsId(request[s]) /\ FetchReturnedId(s)
  \/ request[s].wanted /\ ~ ReturnsId(request[s]) /\ LastInsertId(s)

\* Rows are deleted too, by whoever likes.
Remove ==
  /\ \E t \in Tables : \E id \in rows[t] : DeleteRow(t, id)
  /\ UNCHANGED callVars

Init ==
  /\ installation \in Installations
  /\ TablesInit
  /\ request = [s \in Sessions |-> CHOOSE r \in Requests : ~ r.wanted]
  /\ batch = [s \in Sessions |-> <<>>]
  /\ lastId = [s \in Sessions |-> NoId]
  /\ result = [s \in Sessions |-> NoId]
  /\ stored = [s \in Sessions |-> NoId]
  /\ state = [s \in Sessions |-> "idle"]
  /\ reply = [s \in Sessions |-> NoId]

Next ==
  /\ UNCHANGED installation
  /\ \/ \E s \in Sessions :
          \/ \E r \in Requests : Start(s, r)
          \/ InsertGenerated(s)
          \/ InsertFails(s)
          \/ Select(s)
          \/ Finish(s)
     \/ Remove

Spec == Init /\ [][Next]_vars

-----------------------------------------------------------------------------
(* Properties.                                                             *)

\* The type of the calls; a batch has at most two statements (_fix_insert).
TypeOK ==
  /\ installation \in Installations
  /\ TablesOK
  /\ request \in [Sessions -> Requests]
  /\ batch \in [Sessions -> Seq(Statements)]
  /\ \A s \in Sessions : Len(batch[s]) <= 2
  /\ lastId \in [Sessions -> Nat]
  /\ result \in [Sessions -> Nat]
  /\ stored \in [Sessions -> Nat]
  /\ state \in [Sessions -> {"idle", "pending", "done", "failed"}]
  /\ reply \in [Sessions -> Nat]

\* The id that an insert returns is that of the row it has stored, whatever other
\* sessions have inserted or deleted meanwhile (SQLInsertCompiler._fix_insert,
\* fetch_returned_insert_id and last_insert_id).
OwnId ==
  \A s \in Sessions :
    state[s] = "done" /\ request[s].wanted => stored[s] # NoId /\ reply[s] = stored[s]

\* A call that has stored its row fails, for want of an id, only when that very row
\* is gone, whatever has become of the others; but for SQL Server without the OUTPUT
\* clause, where last_insert_id always fails (operations.py:265-268).
NoIdOnlyIfGone ==
  [][\A s \in Sessions :
       /\ installation.server = "db2" \/ ReturnsId(request[s])
       /\ state[s] = "pending" /\ stored[s] # NoId
       /\ state'[s] = "failed"
       => stored[s] \notin rows[request[s].table]]_vars

\* A call that has stored its row does not fail.  last_insert_id promises to return
\* the id of a row just inserted.
StoredIsReturned ==
  \A s \in Sessions : state[s] = "failed" => stored[s] = NoId
=============================================================================
