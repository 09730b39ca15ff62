---------------------------- MODULE InsertsProofs ----------------------------
(***************************************************************************)
(* Proofs about Inserts: types, that every insert gets the id of its own   *)
(* row, and that it is left without one only when that row is gone.        *)
(*                                                                         *)
(* The inductive invariant follows a call through its batch: before the    *)
(* INSERT nothing is stored; after it the table variable and the session's *)
(* last id are those of the stored row, and no INSERT is left to take.     *)
(* Other sessions change tables only, and none of this.                    *)
(***************************************************************************)
EXTENDS Inserts, SequenceTheorems, TLAPS

\* What is left of a batch before its INSERT, and after it.
Before(b) == b \in {<<"insert">>, <<"insert", "select">>}
After(b)  == b \in {<<>>, <<"select">>}

Wait(s) == Before(batch[s]) /\ stored[s] = NoId

Kept(s) ==
  /\ After(batch[s])
  /\ stored[s] # NoId
  /\ lastId[s] = stored[s]
  /\ ReturnsId(request[s]) => result[s] = stored[s]

Replied(s) == request[s].wanted => stored[s] # NoId /\ reply[s] = stored[s]

Follows(s) ==
  /\ state[s] = "pending" => Wait(s) \/ Kept(s)
  /\ state[s] = "done" => Replied(s)

Types ==
  /\ installation \in Installations
  /\ rows \in [Tables -> SUBSET Nat]
  /\ current \in [Tables -> Nat \ {0}]
  /\ used \in [Tables -> BOOLEAN]
  /\ request \in [Sessions -> Requests]
  /\ batch \in [Sessions -> Seq(Statements)]
  /\ lastId \in [Sessions -> Nat]
  /\ result \in [Sessions -> Nat]
  /\ stored \in [Sessions -> Nat]
  /\ state \in [Sessions -> {"idle", "pending", "done", "failed"}]
  /\ reply \in [Sessions -> Nat]

Short == \A s \in Sessions : Len(batch[s]) <= 2

IInv == Types /\ Short /\ \A s \in Sessions : Follows(s)

-----------------------------------------------------------------------------
\* Whatever the request, its batch is one that waits for its INSERT.
LEMMA BatchWaits ==
  ASSUME NEW r \in Requests
  PROVE  /\ FixInsert(r) \in Seq(Statements)
         /\ Before(FixInsert(r))
         /\ Len(FixInsert(r)) <= 2
<1>1. FixInsert(r) \in {<<"insert">>, <<"insert", "select">>}
  BY DEF FixInsert
<1>2. /\ <<"insert">> \in Seq(Statements) /\ Len(<<"insert">>) <= 2
      /\ <<"insert", "select">> \in Seq(Statements) /\ Len(<<"insert", "select">>) <= 2
  BY DEF Statements
<1> QED
  BY <1>1, <1>2, Zenon DEF Before

\* The batches, statement by statement.
LEMMA Tails ==
  /\ Tail(<<"select">>) = <<>> /\ Tail(<<"insert">>) = <<>>
  /\ Tail(<<"insert", "select">>) = <<"select">>
OBVIOUS

LEMMA Heads ==
  /\ Head(<<"select">>) = "select"
  /\ Head(<<"insert">>) = "insert" /\ Head(<<"insert", "select">>) = "insert"
OBVIOUS

\* What is left is no longer than what there was.
LEMMA StaysShort ==
  ASSUME IInv, NEW s \in Sessions, batch[s] # <<>>,
         batch' = [batch EXCEPT ![s] = Tail(batch[s])]
  PROVE  batch' \in [Sessions -> Seq(Statements)] /\ Short'
<1>1. /\ batch[s] \in Seq(Statements)
      /\ Tail(batch[s]) \in Seq(Statements)
      /\ Len(batch[s]) <= 2
  BY DEF IInv, Types, Short
<1>2. Len(Tail(batch[s])) <= 2
  BY <1>1
<1> QED
  BY <1>1, <1>2 DEF IInv, Types, Short

\* The SELECT is taken after the INSERT, and ends the batch.
LEMMA SelectLast ==
  ASSUME NEW b \in Seq(Statements), b # <<>>, Head(b) = "select"
  PROVE  ~ Before(b) /\ (After(b) => After(Tail(b)))
<1>1. "select" # "insert"
  OBVIOUS
<1>2. ~ Before(b)
  BY <1>1, Heads, Zenon DEF Before
<1>3. After(b) => Tail(b) = <<>>
  BY Tails, Zenon DEF After
<1> QED
  BY <1>2, <1>3, Zenon DEF After

\* The INSERT is taken once: a batch that begins with it has none after it.
LEMMA InsertOnce ==
  ASSUME NEW b \in Seq(Statements), b # <<>>, Head(b) = "insert"
  PROVE  ~ After(b) /\ (Before(b) => After(Tail(b)))
<1>1. "select" # "insert"
  OBVIOUS
<1>2. ~ After(b)
  BY <1>1, Heads, Zenon DEF After
<1>3. Before(b) => Tail(b) \in {<<>>, <<"select">>}
  BY Tails, Zenon DEF Before
<1> QED
  BY <1>2, <1>3, Zenon DEF After

LEMMA InitInv == Init => IInv
<1> SUFFICES ASSUME Init PROVE IInv
  OBVIOUS
<1>1. PICK t \in Tables : TRUE
  BY IdentityAssumption
<1>2. [table |-> t, given |-> FALSE, bare |-> FALSE, wanted |-> FALSE]
        \in {r \in Requests : ~ r.wanted}
  BY <1>1 DEF Requests
<1>3. (CHOOSE r \in Requests : ~ r.wanted) \in Requests
  BY <1>2
<1>4. \A s \in Sessions : state[s] = "idle"
  BY DEF Init
<1>5. <<>> \in Seq(Statements)
  OBVIOUS
<1>6. NoId \in Nat /\ 1 \in Nat \ {0} /\ {} \in SUBSET Nat
  BY DEF NoId
<1>7. /\ rows \in [Tables -> SUBSET Nat]
      /\ current \in [Tables -> Nat \ {0}]
      /\ used \in [Tables -> BOOLEAN]
  BY <1>6 DEF Init, TablesInit
<1>8. batch \in [Sessions -> Seq(Statements)]
  BY <1>5 DEF Init
<1>9. Types
  BY <1>3, <1>6, <1>7, <1>8 DEF Init, Types
<1>10. Short
  BY DEF Init, Short
<1> QED
  BY <1>4, <1>9, <1>10 DEF IInv, Follows

-----------------------------------------------------------------------------
(* Tables.                                                                 *)

TableTypes ==
  /\ rows \in [Tables -> SUBSET Nat]
  /\ current \in [Tables -> Nat \ {0}]
  /\ used \in [Tables -> BOOLEAN]

\* Generated ids are positive.
LEMMA NextIds ==
  ASSUME TableTypes, NEW t \in Tables
  PROVE  NextId(t) \in Nat \ {0}
<1>1. current[t] \in Nat \ {0}
  BY DEF TableTypes
<1>2. current[t] + 1 \in Nat \ {0}
  BY <1>1
<1> QED
  BY <1>1, <1>2 DEF NextId

LEMMA TablesStep ==
  ASSUME TableTypes, NEW t \in Tables,
         \/ Generate(t)
         \/ \E id \in rows[t] : DeleteRow(t, id)
  PROVE  TableTypes'
<1>1. CASE Generate(t)
  BY <1>1, NextIds DEF TableTypes, Generate
<1>2. ASSUME NEW id \in rows[t], DeleteRow(t, id) PROVE TableTypes'
  BY <1>2 DEF TableTypes, DeleteRow
<1> QED
  BY <1>1, <1>2

-----------------------------------------------------------------------------
(* Steps of a session.                                                     *)

LEMMA SameRequests ==
  ASSUME UNCHANGED installation
  PROVE  Requests' = Requests
BY DEF Requests

\* What holds of a session is kept by a step that leaves its variables alone.
LEMMA Others ==
  ASSUME NEW s \in Sessions, Follows(s),
         UNCHANGED installation,
         request'[s] = request[s], batch'[s] = batch[s], lastId'[s] = lastId[s],
         result'[s] = result[s], stored'[s] = stored[s], state'[s] = state[s],
         reply'[s] = reply[s]
  PROVE  Follows(s)'
BY DEF Follows, Wait, Kept, Replied, ReturnsId

LEMMA StartStep ==
  ASSUME IInv, NEW s \in Sessions, NEW r \in Requests, Start(s, r), UNCHANGED installation
  PROVE  IInv'
<1>1. /\ FixInsert(r) \in Seq(Statements) /\ Before(FixInsert(r))
      /\ Len(FixInsert(r)) <= 2
  BY BatchWaits
<1>2. NoId \in Nat
  BY DEF NoId
<1>3. Types'
  BY SameRequests, <1>1, <1>2 DEF IInv, Types, Start, tableVars
<1>4. Follows(s)'
  BY <1>1 DEF IInv, Types, Start, Follows, Wait
<1>5. ASSUME NEW q \in Sessions, q # s PROVE Follows(q)'
  BY <1>5, Others DEF IInv, Types, Start
<1>6. Short'
  BY <1>1 DEF IInv, Types, Short, Start
<1> QED
  BY <1>3, <1>4, <1>5, <1>6 DEF IInv

\* Reading the table variable.
LEMMA SelectStep ==
  ASSUME IInv, NEW s \in Sessions, Select(s), UNCHANGED installation
  PROVE  IInv'
<1> DEFINE b == batch[s]
<1>1. /\ state[s] = "pending" /\ b # <<>> /\ Head(b) = "select"
      /\ batch' = [batch EXCEPT ![s] = Tail(b)]
      /\ UNCHANGED <<tableVars, request, lastId, result, stored, state, reply>>
  BY DEF Select, Takes
<1>2. b \in Seq(Statements) /\ Tail(b) \in Seq(Statements)
  BY <1>1 DEF IInv, Types
<1>3. ~ Before(b) /\ (After(b) => After(Tail(b)))
  BY <1>1, <1>2, SelectLast
<1>4. batch' \in [Sessions -> Seq(Statements)] /\ Short' /\ batch'[s] = Tail(b)
  BY <1>1, StaysShort DEF IInv, Types
<1>5. Types'
  BY SameRequests, <1>1, <1>4 DEF IInv, Types, tableVars
<1>6. Follows(s)'
  BY <1>1, <1>3, <1>4 DEF IInv, Follows, Wait, Kept, ReturnsId
<1>7. ASSUME NEW q \in Sessions, q # s PROVE Follows(q)'
  BY <1>1, <1>7, Others DEF IInv, Types
<1> QED
  BY <1>4, <1>5, <1>6, <1>7 DEF IInv

LEMMA InsertStep ==
  ASSUME IInv, NEW s \in Sessions, InsertGenerated(s), UNCHANGED installation
  PROVE  IInv'
<1> DEFINE b == batch[s]
           r == request[s]
<1>0. r \in Requests /\ r.table \in Tables /\ TableTypes
  BY DEF IInv, Types, Requests, TableTypes
<1>1. PICK id \in Nat \ {0} : Stores(s, id) /\ TableTypes'
  <2>1. NextId(r.table) \in Nat \ {0}
    BY <1>0, NextIds
  <2>2. Stores(s, NextId(r.table)) /\ Generate(r.table)
    BY DEF InsertGenerated
  <2> QED
    BY <1>0, <2>1, <2>2, TablesStep
<1>2. /\ state[s] = "pending" /\ b # <<>> /\ Head(b) = "insert"
      /\ batch' = [batch EXCEPT ![s] = Tail(b)]
  BY DEF InsertGenerated, Takes
<1>3. b \in Seq(Statements) /\ Tail(b) \in Seq(Statements)
  BY <1>2 DEF IInv, Types
<1>4. After(Tail(b))
  BY <1>2, <1>3, InsertOnce DEF IInv, Follows, Wait, Kept
<1>5. batch' \in [Sessions -> Seq(Statements)] /\ Short' /\ batch'[s] = Tail(b)
  BY <1>2, StaysShort DEF IInv, Types
<1>6. id \in Nat /\ id # NoId /\ NoId \in Nat
  BY DEF NoId
<1>7. Types'
  BY SameRequests, <1>1, <1>5, <1>6 DEF IInv, Types, Stores, TableTypes
<1>8. Follows(s)'
  <2>1. stored'[s] = id /\ lastId'[s] = id /\ (ReturnsId(r) => result'[s] = id)
    BY <1>1 DEF IInv, Types, Stores
  <2>2. request' = request /\ state' = state
    BY <1>1 DEF Stores
  <2>3. Kept(s)'
    BY <1>1, <1>4, <1>5, <1>6, <2>1, <2>2 DEF Kept, ReturnsId
  <2> QED
    BY <1>2, <2>2, <2>3 DEF Follows
<1>9. ASSUME NEW q \in Sessions, q # s PROVE Follows(q)'
  BY <1>1, <1>2, <1>9, Others DEF IInv, Types, Stores
<1> QED
  BY <1>5, <1>7, <1>8, <1>9 DEF IInv

LEMMA FailStep ==
  ASSUME IInv, NEW s \in Sessions, InsertFails(s), UNCHANGED installation
  PROVE  IInv'
<1> DEFINE b == batch[s]
<1>1. /\ b # <<>>
      /\ batch' = [batch EXCEPT ![s] = Tail(b)]
      /\ state' = [state EXCEPT ![s] = "failed"]
      /\ UNCHANGED <<tableVars, request, lastId, result, stored, reply>>
  BY DEF InsertFails, Takes
<1>2. batch' \in [Sessions -> Seq(Statements)] /\ Short'
  BY <1>1, StaysShort
<1>3. Types'
  BY SameRequests, <1>1, <1>2 DEF IInv, Types, tableVars
<1>4. Follows(s)'
  BY <1>1 DEF IInv, Types, Follows
<1>5. ASSUME NEW q \in Sessions, q # s PROVE Follows(q)'
  BY <1>1, <1>5, Others DEF IInv, Types
<1> QED
  BY <1>2, <1>3, <1>4, <1>5 DEF IInv

\* When the batch is done its INSERT has been taken, so that the id read is the row's.
LEMMA FinishStep ==
  ASSUME IInv, NEW s \in Sessions, Finish(s), UNCHANGED installation
  PROVE  IInv'
<1>1. PICK how \in {"done", "failed"}, answer \in Nat :
        /\ Ends(s, how, answer)
        /\ how = "done" /\ request[s].wanted
             => \/ ReturnsId(request[s]) /\ answer = result[s]
                \/ answer = lastId[s]
  <2>1. result[s] \in Nat /\ lastId[s] \in Nat /\ NoId \in Nat
    BY DEF IInv, Types, NoId
  <2> QED
    BY <2>1 DEF Finish, FetchReturnedId, LastInsertId
<1>2. /\ state[s] = "pending" /\ batch[s] = <<>>
      /\ state' = [state EXCEPT ![s] = how]
      /\ reply' = [reply EXCEPT ![s] = answer]
      /\ UNCHANGED <<tableVars, request, batch, lastId, result, stored>>
  BY <1>1 DEF Ends
<1>3. Types'
  BY SameRequests, <1>2 DEF IInv, Types, tableVars
<1>4. ~ Before(<<>>)
  BY DEF Before
<1>5. Kept(s)
  BY <1>2, <1>4 DEF IInv, Follows, Wait
<1>6. state'[s] = how /\ reply'[s] = answer
  BY <1>2 DEF IInv, Types
<1>7. Follows(s)'
  BY <1>1, <1>2, <1>5, <1>6 DEF Follows, Kept, Replied
<1>8. ASSUME NEW q \in Sessions, q # s PROVE Follows(q)'
  BY <1>2, <1>8, Others DEF IInv, Types
<1>9. Short'
  BY <1>2 DEF IInv, Short
<1> QED
  BY <1>3, <1>7, <1>8, <1>9 DEF IInv

LEMMA RemoveStep ==
  ASSUME IInv, Remove, UNCHANGED installation
  PROVE  IInv'
<1>1. PICK t \in Tables : \E id \in rows[t] : DeleteRow(t, id)
  BY DEF Remove
<1>2. TableTypes
  BY DEF IInv, Types, TableTypes
<1>3. TableTypes'
  BY <1>1, <1>2, TablesStep
<1>4. Types'
  BY SameRequests, <1>3 DEF IInv, Types, TableTypes, Remove, callVars
<1>5. ASSUME NEW q \in Sessions PROVE Follows(q)'
  BY Others DEF IInv, Remove, callVars
<1>6. Short'
  BY DEF IInv, Short, Remove, callVars
<1> QED
  BY <1>4, <1>5, <1>6 DEF IInv

LEMMA NextInv == IInv /\ [Next]_vars => IInv'
<1> SUFFICES ASSUME IInv, [Next]_vars PROVE IInv'
  OBVIOUS
<1>1. CASE UNCHANGED vars
  <2>1. ASSUME NEW q \in Sessions PROVE Follows(q)'
    BY <1>1, Others DEF IInv, vars, callVars
  <2> QED
    BY SameRequests, <1>1, <2>1 DEF IInv, Types, Short, vars, callVars, tableVars
<1>2. ASSUME NEW s \in Sessions, NEW r \in Requests, Start(s, r), UNCHANGED installation
      PROVE  IInv'
  BY <1>2, StartStep
<1>3. ASSUME NEW s \in Sessions, Select(s), UNCHANGED installation
      PROVE  IInv'
  BY <1>3, SelectStep
<1>4. ASSUME NEW s \in Sessions, InsertGenerated(s), UNCHANGED installation
      PROVE  IInv'
  BY <1>4, InsertStep
<1>5. ASSUME NEW s \in Sessions, InsertFails(s), UNCHANGED installation
      PROVE  IInv'
  BY <1>5, FailStep
<1>6. ASSUME NEW s \in Sessions, Finish(s), UNCHANGED installation
      PROVE  IInv'
  BY <1>6, FinishStep
<1>7. CASE Remove /\ UNCHANGED installation
  BY <1>7, RemoveStep
<1> QED
  BY <1>1, <1>2, <1>3, <1>4, <1>5, <1>6, <1>7 DEF Next

-----------------------------------------------------------------------------
\* The inductive invariant holds in every reachable state, for every set of sessions
\* and tables, on every installation.
THEOREM Invariance == Spec => []IInv
BY InitInv, NextInv, PTL DEF Spec

\* Type correctness (property TypeOK).
THEOREM TypeCorrect == Spec => []TypeOK
<1>1. IInv => TypeOK
  BY DEF IInv, Types, Short, TypeOK, TablesOK
<1> QED
  BY <1>1, Invariance, PTL

\* Every insert that returns gets the id of the row that it has stored (property
\* OwnId), however many sessions insert into the same table at the same time.
THEOREM OwnIds == Spec => []OwnId
<1>1. IInv => OwnId
  BY DEF IInv, Follows, Replied, OwnId
<1> QED
  BY <1>1, Invariance, PTL

-----------------------------------------------------------------------------
(* Calls that are left without an id.                                      *)

\* A call that fails with its row stored fails in last_insert_id.
LEMMA FailsWithoutId ==
  ASSUME IInv, NEW s \in Sessions, [Next]_vars,
         state[s] = "pending", stored[s] # NoId, state'[s] = "failed"
  PROVE  ~ ReturnsId(request[s]) /\ LastInsertId(s)
<1>1. state' # state
  OBVIOUS
<1>2. ~ InsertFails(s)
  <2>1. After(batch[s])
    BY DEF IInv, Follows, Wait, Kept
  <2>2. batch[s] \in Seq(Statements)
    BY DEF IInv, Types
  <2> QED
    BY <2>1, <2>2, InsertOnce DEF InsertFails, Takes
<1>3. ASSUME NEW q \in Sessions, q # s
      PROVE  ~ Finish(q) /\ ~ InsertFails(q) /\ (\A r \in Requests : ~ Start(q, r))
  BY <1>3 DEF IInv, Types, Finish, FetchReturnedId, LastInsertId, Ends, InsertFails, Start
<1>4. \A r \in Requests : ~ Start(s, r)
  BY DEF Start
<1>5. Finish(s)
  BY <1>1, <1>2, <1>3, <1>4
    DEF Next, vars, callVars, InsertGenerated, Stores, Select, Remove
<1>6. ~ Ends(s, "done", NoId) /\ ~ FetchReturnedId(s)
  BY DEF Ends, FetchReturnedId, IInv, Types
<1> QED
  BY <1>5, <1>6 DEF Finish

\* A call that has stored its row fails only when that row is gone, whatever others
\* have stored and deleted (property NoIdOnlyIfGone): DB2 needs some row to read
\* IDENTITY_VAL_LOCAL() from (operations.py:265), and the OUTPUT clause needs none.
THEOREM LostIds == Spec => NoIdOnlyIfGone
<1>1. ASSUME IInv, [Next]_vars
      PROVE  \A s \in Sessions :
               /\ installation.server = "db2" \/ ReturnsId(request[s])
               /\ state[s] = "pending" /\ stored[s] # NoId
               /\ state'[s] = "failed"
               => stored[s] \notin rows[request[s].table]
  <2> SUFFICES ASSUME NEW s \in Sessions,
                      installation.server = "db2" \/ ReturnsId(request[s]),
                      state[s] = "pending", stored[s] # NoId, state'[s] = "failed"
               PROVE  stored[s] \notin rows[request[s].table]
    OBVIOUS
  <2>1. ~ ReturnsId(request[s]) /\ LastInsertId(s)
    BY <1>1, FailsWithoutId
  <2>2. ~ Ends(s, "done", lastId[s])
    BY <1>1 DEF Ends, IInv, Types
  <2>3. rows[request[s].table] = {}
    BY <2>1, <2>2 DEF LastInsertId
  <2> QED
    BY <2>3
<1> QED
  BY <1>1, Invariance, PTL DEF Spec, NoIdOnlyIfGone
=============================================================================
