------------------------------ MODULE Identity ------------------------------
(***************************************************************************)
(* Tables with an IDENTITY (1, 1) column, as the server keeps them.        *)
(***************************************************************************)
EXTENDS Naturals

CONSTANTS
  Tables,
  MaxId       \* the largest value of the column's type

ASSUME IdentityAssumption == Tables # {} /\ MaxId \in Nat

VARIABLES
  rows,       \* the ids of each table's rows
  current,    \* IDENT_CURRENT of each table
  used        \* the table has had a row since it was created

tableVars == <<rows, current, used>>

Ids == 1..MaxId

TablesOK ==
  /\ rows \in [Tables -> SUBSET Nat]
  /\ current \in [Tables -> Nat]
  /\ used \in [Tables -> BOOLEAN]

TablesInit ==
  /\ rows = [t \in Tables |-> {}]
  /\ current = [t \in Tables |-> 1]
  /\ used = [t \in Tables |-> FALSE]

\* The first id is the seed itself, or what DBCC CHECKIDENT has made of it.
NextId(t) == IF used[t] THEN current[t] + 1 ELSE current[t]

\* A row with an id that the server has generated.
Generate(t) ==
  /\ rows' = [rows EXCEPT ![t] = @ \cup {NextId(t)}]
  /\ current' = [current EXCEPT ![t] = NextId(t)]
  /\ used' = [used EXCEPT ![t] = TRUE]

\* A generated id that is taken is lost: the row is refused, the counter moves on.
Lose(t) ==
  /\ current' = [current EXCEPT ![t] = NextId(t)]
  /\ used' = [used EXCEPT ![t] = TRUE]
  /\ UNCHANGED rows

DeleteRow(t, id) ==
  /\ id \in rows[t]
  /\ rows' = [rows EXCEPT ![t] = @ \ {id}]
  /\ UNCHANGED <<current, used>>
=============================================================================
