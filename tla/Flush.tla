-------------------------------- MODULE Flush --------------------------------
(***************************************************************************)
(* Emptying tables and setting their identity counters back: sql_flush, and*)
(* Django's flush command, which runs its list in one transaction.  And    *)
(* check_constraints, which goes from table to table.                      *)
(*                                                                         *)
(* sql_flush counts rows while it composes the list.  Other sessions store *)
(* and delete rows in between; once the list runs in a transaction, a table*)
(* whose constraint it has altered is locked.  There is no transaction on a*)
(* session that sql_flush's own cursor() opened with OPTIONS['autocommit']:*)
(* each statement is stored at once, and Django switches nothing off.      *)
(***************************************************************************)
EXTENDS Identity, Sequences, FiniteSets

CONSTANTS
  Orders,           \* lists of tables that the two are called with
  ResetSequences,   \* whether sequences are asked for
  OnAzure,          \* on_azure_sql_db
  ForeignKeys       \* a sequence of pairs: a table, and the one it refers to

Pairs == {ForeignKeys[i] : i \in DOMAIN ForeignKeys}

ASSUME FlushAssumption ==
  /\ Orders \subseteq Seq(Tables)
  /\ ResetSequences \in BOOLEAN
  /\ OnAzure \in BOOLEAN
  /\ ForeignKeys \in Seq(Tables \X Tables)

VARIABLES
  autocommit,  \* of the driver, for this session
  phase,       \* of the call: see Phases
  order,       \* the tables it is called with
  counted,     \* the number of sequences counted so far
  startId,     \* start_id of each, 1 before the first count
  todo,        \* the statements of the list that are still to run
  enforced,    \* the foreign keys that the server checks
  removed      \* the rows that a rollback would put back

flushVars == <<autocommit, phase, order, counted, startId, todo, enforced, removed>>
vars      == <<tableVars, flushVars>>

Phases == {"idle", "counting", "running", "checking", "done", "checked", "failed"}

Busy == phase \in {"counting", "running", "checking"}

SequenceTables == IF ResetSequences THEN order ELSE <<>>

Nothing == [t \in Tables |-> {}]

-----------------------------------------------------------------------------
(* sql_flush.                                                              *)

Begin ==
  /\ ~ Busy
  /\ order' \in Orders
  /\ phase' = "counting"
  /\ counted' = 0
  /\ UNCHANGED <<tableVars, startId, todo, enforced, removed>>

\* Faulty: RESEED is given 0 whether or not the table has rows.
StartAtZero(t) == 0

\* Faulty: RESEED is given the number of rows.
StartAtCount(t) == Cardinality(rows[t])

\* SELECT COUNT(*).
StartId(t) == IF rows[t] # {} THEN 0 ELSE 1

Count ==
  /\ phase = "counting"
  /\ counted < Len(SequenceTables)
  /\ counted' = counted + 1
  /\ LET t == SequenceTables[counted + 1] IN startId' = [startId EXCEPT ![t] = StartId(t)]
  /\ UNCHANGED <<tableVars, phase, order, todo, enforced, removed>>

\* A statement: what it does, and to which table or foreign key.
All(op, s) == [i \in DOMAIN s |-> [op |-> op, of |-> s[i]]]

Resets == IF OnAzure THEN <<>> ELSE All("reseed", SequenceTables)

\* Faulty: the constraints stay switched on.
ListWithConstraints == All("delete", order) \o Resets \o All("check", ForeignKeys)

\* Faulty: the constraints stay switched off.
ListWithoutChecks == All("nocheck", ForeignKeys) \o All("delete", order) \o Resets

\* One list for all the tables: the keys of the whole database, and the given tables.
SqlList ==
  IF order = <<>> THEN <<>>
  ELSE All("nocheck", ForeignKeys) \o All("delete", order) \o Resets \o All("check", ForeignKeys)

\* The list is complete, and the transaction begins, if there is one.
List ==
  /\ phase = "counting"
  /\ counted = Len(SequenceTables)
  /\ phase' = "running"
  /\ todo' = SqlList
  /\ UNCHANGED <<tableVars, order, counted, startId, enforced, removed>>

-----------------------------------------------------------------------------
(* The server runs the list.                                               *)

\* Rows are deleted only if no enforced foreign key points to them.
MayEmpty(t) == \A p \in enforced : p[2] = t => rows[p[1]] = {}

Takes(op) ==
  /\ phase = "running"
  /\ todo # <<>>
  /\ Head(todo).op = op
  /\ todo' = Tail(todo)
  /\ UNCHANGED <<phase, order, counted, startId>>

SwitchConstraint ==
  /\ \/ Takes("nocheck") /\ enforced' = enforced \ {Head(todo).of}
     \/ Takes("check") /\ enforced' = enforced \cup {Head(todo).of}
  /\ UNCHANGED <<tableVars, removed>>

DeleteAll ==
  /\ Takes("delete")
  /\ LET t == Head(todo).of IN
     /\ MayEmpty(t)
     /\ rows' = [rows EXCEPT ![t] = {}]
     /\ removed' = IF autocommit THEN removed ELSE [removed EXCEPT ![t] = @ \cup rows[t]]
  /\ UNCHANGED <<current, used, enforced>>

\* DBCC CHECKIDENT (t, RESEED, n).
Reseed ==
  /\ Takes("reseed")
  /\ LET t == Head(todo).of IN current' = [current EXCEPT ![t] = startId[t]]
  /\ UNCHANGED <<rows, used, enforced, removed>>

Commit ==
  /\ phase = "running"
  /\ todo = <<>>
  /\ phase' = "done"
  /\ removed' = Nothing
  /\ UNCHANGED <<tableVars, order, counted, startId, todo, enforced>>

\* A statement fails: rows and constraints are rolled back, but for autocommit; counters
\* stay as they are.
Fail ==
  /\ phase = "running"
  /\ phase' = "failed"
  /\ todo' = <<>>
  /\ removed' = Nothing
  /\ rows' = [t \in Tables |-> rows[t] \cup removed[t]]
  /\ enforced' = IF autocommit THEN enforced ELSE Pairs
  /\ UNCHANGED <<current, used, order, counted, startId>>

-----------------------------------------------------------------------------
(* check_constraints, and with it enable_ and disable_constraint_checking. *)

KeysOf(t) == {p \in Pairs : p[1] = t}

\* The rows of a table have what they refer to.
KeysHold(t) == \A p \in KeysOf(t) : rows[t] # {} => rows[p[2]] # {}

\* Without names the tables come from get_table_list, whose entries quote_name cannot
\* take: the call raises before it has reached the server.
CheckConstraints ==
  /\ ~ Busy
  /\ order' \in Orders
  /\ phase' = IF order' = <<>> THEN "failed" ELSE "checking"
  /\ todo' = All("validate", order')
  /\ UNCHANGED <<tableVars, counted, startId, enforced, removed>>

\* Faulty: CHECK CONSTRAINT ALL, which looks at new rows only.
ValidateNew ==
  /\ phase = "checking"
  /\ todo # <<>>
  /\ todo' = Tail(todo)
  /\ enforced' = enforced \cup KeysOf(Head(todo).of)
  /\ UNCHANGED <<tableVars, phase, order, counted, startId, removed>>

\* ALTER TABLE t WITH CHECK CHECK CONSTRAINT ALL: the keys of t are enforced from now
\* on, unless its rows violate one.
Validate ==
  /\ phase = "checking"
  /\ todo # <<>>
  /\ LET t == Head(todo).of IN
     \/ /\ KeysHold(t)
        /\ todo' = Tail(todo)
        /\ enforced' = enforced \cup KeysOf(t)
        /\ UNCHANGED phase
     \/ /\ ~ KeysHold(t)
        /\ todo' = <<>>
        /\ phase' = "failed"
        /\ UNCHANGED enforced
  /\ UNCHANGED <<tableVars, order, counted, startId, removed>>

EndCheck ==
  /\ phase = "checking"
  /\ todo = <<>>
  /\ phase' = "checked"
  /\ UNCHANGED <<tableVars, order, counted, startId, todo, enforced, removed>>

-----------------------------------------------------------------------------
(* Other sessions.                                                         *)

\* What a transaction has altered waits for its end.
InTransaction == phase = "running" /\ ~ autocommit

Locked(t) == InTransaction /\ KeysOf(t) # {}

\* A table that another refers to keeps its rows while the other has any.
StoreRow(t) ==
  /\ ~ Locked(t)
  /\ NextId(t) \in Ids
  /\ \A p \in enforced : p[1] = t => rows[p[2]] # {}
  /\ IF NextId(t) \in rows[t] THEN Lose(t) ELSE Generate(t)
  /\ UNCHANGED flushVars

\* The server reads the tables that refer to it, and waits for their locks.
RemoveRow(t) ==
  /\ ~ Locked(t)
  /\ InTransaction => \A p \in Pairs : p[2] # t
  /\ MayEmpty(t)
  /\ \E id \in rows[t] : DeleteRow(t, id)
  /\ UNCHANGED flushVars

Init ==
  /\ TablesInit
  /\ autocommit \in BOOLEAN
  /\ phase = "idle"
  /\ order = <<>>
  /\ counted = 0
  /\ startId = [t \in Tables |-> 1]
  /\ todo = <<>>
  /\ enforced = Pairs
  /\ removed = Nothing

Next ==
  /\ UNCHANGED autocommit
  /\ \/ Begin
     \/ Count
     \/ List
     \/ SwitchConstraint
     \/ DeleteAll
     \/ Reseed
     \/ Commit
     \/ Fail
     \/ CheckConstraints
     \/ Validate
     \/ EndCheck
     \/ \E t \in Tables : StoreRow(t) \/ RemoveRow(t)

Spec == Init /\ [][Next]_vars

-----------------------------------------------------------------------------
(* Properties.                                                             *)

Statements == [op: {"delete", "reseed", "validate"}, of: Tables] \cup [op: {"nocheck", "check"}, of: Pairs]

\* The type of the counting and the list; RESEED is given 0 or 1 (operations.py:351-357).
TypeOK ==
  /\ TablesOK
  /\ autocommit \in BOOLEAN
  /\ phase \in Phases
  /\ order \in Seq(Tables)
  /\ counted \in Nat
  /\ phase = "counting" => counted <= Len(SequenceTables)
  /\ startId \in [Tables -> {0, 1}]
  /\ todo \in Seq(Statements)
  /\ enforced \subseteq Pairs
  /\ removed \in [Tables -> SUBSET Nat]

\* No row ever gets the id 0: RESEED is given 0 only for tables whose next id is one
\* more, although the rows were counted long before, and failures and other sessions
\* come in between (the counting in sql_flush).
IdsArePositive ==
  \A t \in Tables : NextId(t) > 0 /\ 0 \notin rows[t]

\* Whatever the order of the tables, and whatever a flush before it has left, no foreign
\* key stands in the way of a DELETE, and a flush that has ended leaves every key switched
\* on: sql_flush puts the statements that switch them around the others.  One that fails
\* half-way leaves none switched off either, if it runs in a transaction: with the
\* driver's autocommit it does, and they stay off until the next flush of some tables.
KeysAreSwitched ==
  /\ phase = "running" /\ todo # <<>> /\ Head(todo).op = "delete" => MayEmpty(Head(todo).of)
  /\ phase = "done" /\ order # <<>> => enforced = Pairs
  /\ phase # "running" /\ ~ autocommit => enforced = Pairs

\* Once check_constraints has returned, and until the next flush, no row of the tables
\* it was given refers to nothing, although a flush before it can have left such rows,
\* and even keys switched off, and others store and delete rows while it goes from table
\* to table.
CheckedHold ==
  phase = "checked" => \A i \in DOMAIN order : KeysHold(order[i])

\* A flush that was asked for the sequences sets the counters back: the first row
\* after it gets the id 1.  The comment in sql_flush says so.
CountersAreReset ==
  [][Commit /\ ResetSequences /\ ~ OnAzure =>
       \A i \in DOMAIN order : NextId(order[i]) = 1]_vars
=============================================================================
