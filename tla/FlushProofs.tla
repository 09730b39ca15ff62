----------------------------- MODULE FlushProofs -----------------------------
(***************************************************************************)
(* Proofs about Flush: types, that ids are positive, that foreign keys are *)
(* switched off for the deletes and on again, and that checked keys hold.  *)
(*                                                                         *)
(* RESEED 0 gives a table the id 0 if it has never had a row.  A count of  *)
(* rows says that it has; it still says so when the statement runs, because*)
(* having had a row is something that no step takes back.                  *)
(***************************************************************************)
EXTENDS Flush, SequenceTheorems, TLAPS

\* The reason why a table may be reseeded with 0, kept from the count to the RESEED.
CountersSafe ==
  \A t \in Tables :
    /\ current[t] = 0 => used[t]
    /\ startId[t] = 0 => used[t]
    /\ rows[t] # {} \/ removed[t] # {} => used[t]
    /\ 0 \notin rows[t] /\ 0 \notin removed[t]

IInv == TypeOK /\ CountersSafe

-----------------------------------------------------------------------------
LEMMA AllOfSequence ==
  ASSUME NEW S, NEW s \in Seq(S), NEW op, NEW R, \A x \in S : [op |-> op, of |-> x] \in R
  PROVE  All(op, s) \in Seq(R)
<1>1. DOMAIN s = 1..Len(s) /\ Len(s) \in Nat /\ \A i \in 1..Len(s) : s[i] \in S
  OBVIOUS
<1>2. All(op, s) = [i \in 1..Len(s) |-> [op |-> op, of |-> s[i]]]
  BY <1>1 DEF All
<1>3. \A i \in 1..Len(s) : [op |-> op, of |-> s[i]] \in R
  BY <1>1
<1>4. [i \in 1..Len(s) |-> [op |-> op, of |-> s[i]]] \in Seq(R)
  BY <1>1, <1>3
<1> QED
  BY <1>2, <1>4

\* The tables that are counted stay the same while the order does.
LEMMA SameTables == UNCHANGED order => SequenceTables' = SequenceTables
BY DEF SequenceTables

LEMMA SqlParts ==
  ASSUME TypeOK
  PROVE  /\ All("nocheck", ForeignKeys) \in Seq(Statements) /\ All("delete", order) \in Seq(Statements)
         /\ Resets \in Seq(Statements) /\ All("check", ForeignKeys) \in Seq(Statements)
         /\ SequenceTables \in Seq(Tables)
<1>0. order \in Seq(Tables)
  BY DEF TypeOK
<1>1. All("delete", order) \in Seq(Statements) /\ All("reseed", order) \in Seq(Statements)
  <2>1. \A x \in Tables : /\ [op |-> "delete", of |-> x] \in Statements
                        /\ [op |-> "reseed", of |-> x] \in Statements
    BY DEF Statements
  <2> QED
    BY <1>0, <2>1, AllOfSequence
<1>2. ForeignKeys \in Seq(Pairs)
  BY FlushAssumption DEF Pairs
<1>3. All("nocheck", ForeignKeys) \in Seq(Statements) /\ All("check", ForeignKeys) \in Seq(Statements)
  <2>1. \A x \in Pairs : /\ [op |-> "nocheck", of |-> x] \in Statements
                       /\ [op |-> "check", of |-> x] \in Statements
    BY DEF Statements
  <2> QED
    BY <1>2, <2>1, AllOfSequence
<1>4. <<>> \in Seq(Statements)
  OBVIOUS
<1>5. All("reseed", <<>>) = <<>>
  BY DEF All
<1>6. Resets \in Seq(Statements)
  BY <1>1, <1>4, <1>5 DEF Resets, SequenceTables
<1>7. SequenceTables \in Seq(Tables)
  BY <1>0, <1>4 DEF SequenceTables
<1> QED
  BY <1>1, <1>3, <1>6, <1>7

LEMMA TodoStatements ==
  ASSUME TypeOK
  PROVE  SqlList \in Seq(Statements) /\ SequenceTables \in Seq(Tables)
<1>1. <<>> \in Seq(Statements)
  OBVIOUS
<1> QED
  BY <1>1, SqlParts DEF SqlList

\* The statement that is taken is about a table, if it is a DELETE or a RESEED.
LEMMA NextIds ==
  ASSUME IInv, NEW t \in Tables
  PROVE  NextId(t) \in Nat /\ NextId(t) > 0
<1>1. current[t] \in Nat /\ used[t] \in BOOLEAN
  BY DEF IInv, TypeOK, TablesOK
<1>2. current[t] = 0 => used[t]
  BY DEF IInv, CountersSafe
<1> QED
  BY <1>1, <1>2 DEF NextId

LEMMA InitInv == Init => IInv
<1> SUFFICES ASSUME Init PROVE IInv
  OBVIOUS
<1>1. {} \in SUBSET Nat /\ 1 \in Nat
  OBVIOUS
<1>2. TablesOK
  BY <1>1 DEF Init, TablesInit, TablesOK
<1>3. <<>> \in Seq(Statements)
  OBVIOUS
<1>7. removed \in [Tables -> SUBSET Nat]
  BY <1>1 DEF Init, Nothing
<1>4. <<>> \in Seq(Tables)
  OBVIOUS
<1>5. TypeOK
  BY <1>2, <1>3, <1>4, <1>7 DEF Init, TypeOK, Phases
<1>6. CountersSafe
  <2>1. ASSUME NEW t \in Tables
        PROVE  current[t] = 1 /\ startId[t] = 1 /\ rows[t] = {} /\ removed[t] = {}
    BY <2>1 DEF Init, TablesInit, Nothing
  <2>2. ASSUME NEW t \in Tables
        PROVE  /\ current[t] # 0 /\ startId[t] # 0
               /\ ~ (rows[t] # {} \/ removed[t] # {})
               /\ 0 \notin rows[t] /\ 0 \notin removed[t]
    BY <2>1
  <2> QED
    BY <2>2, Zenon DEF CountersSafe
<1> QED
  BY <1>5, <1>6 DEF IInv

-----------------------------------------------------------------------------
(* The flush.                                                              *)

LEMMA ComposeStep == IInv /\ UNCHANGED autocommit /\ (Begin \/ Count \/ List) => IInv'
<1> SUFFICES ASSUME IInv, UNCHANGED autocommit, Begin \/ Count \/ List PROVE IInv'
  OBVIOUS
<1>0. SequenceTables \in Seq(Tables) /\ Len(SequenceTables) \in Nat
  BY TodoStatements DEF IInv
<1>1. CASE Begin
  <2>1. SequenceTables' \in Seq(Tables)
    BY <1>1, FlushAssumption DEF Begin, SequenceTables
  <2>2. Len(SequenceTables)' \in Nat
    BY <2>1
  <2> QED
    BY <1>1, <2>2, FlushAssumption
    DEF IInv, TypeOK, TablesOK, CountersSafe, Begin, tableVars, Phases
<1>2. CASE Count
  <2> DEFINE t == SequenceTables[counted + 1]
  <2>1. counted + 1 \in 1..Len(SequenceTables)
    BY <1>0, <1>2 DEF IInv, TypeOK, Count
  <2>2. t \in Tables
    BY <2>1, <1>0
  <2>3. startId' = [startId EXCEPT ![t] = StartId(t)] /\ counted' = counted + 1
    BY <1>2 DEF Count
  <2>4. StartId(t) \in {0, 1} /\ (StartId(t) = 0 => rows[t] # {})
    BY DEF StartId
  <2>7. Len(SequenceTables)' = Len(SequenceTables)
    BY <1>2 DEF Count, SequenceTables
  <2>5. TypeOK'
    BY <1>0, <1>2, <2>1, <2>2, <2>3, <2>4, <2>7 DEF IInv, TypeOK, TablesOK, Count, tableVars
  <2>6. CountersSafe'
    BY <1>2, <2>2, <2>3, <2>4 DEF IInv, TypeOK, CountersSafe, Count, tableVars
  <2> QED
    BY <2>5, <2>6 DEF IInv
<1>3. CASE List
  <2>2. TypeOK'
    BY <1>3, TodoStatements DEF IInv, TypeOK, TablesOK, List, tableVars, Phases
  <2>3. CountersSafe'
    BY <1>3 DEF IInv, CountersSafe, List, tableVars
  <2> QED
    BY <2>2, <2>3 DEF IInv
<1> QED
  BY <1>1, <1>2, <1>3

\* The statement that is next, and what is left after it.
LEMMA Taken ==
  ASSUME IInv, NEW op, Takes(op)
  PROVE  /\ todo' \in Seq(Statements)
         /\ Head(todo) \in Statements /\ Head(todo).op = op
         /\ op \in {"delete", "reseed", "validate"} => Head(todo).of \in Tables
         /\ op \in {"nocheck", "check"} => Head(todo).of \in Pairs
         /\ UNCHANGED <<phase, order, counted, startId>>
<1>1. todo \in Seq(Statements) /\ todo # <<>> /\ Head(todo).op = op /\ todo' = Tail(todo)
      /\ UNCHANGED <<phase, order, counted, startId>>
  BY DEF IInv, TypeOK, Takes
<1>2. Head(todo) \in Statements /\ Tail(todo) \in Seq(Statements)
  BY <1>1
<1>3. /\ op \in {"delete", "reseed", "validate"} => Head(todo).of \in Tables
      /\ op \in {"nocheck", "check"} => Head(todo).of \in Pairs
  BY <1>1, <1>2 DEF Statements
<1> QED
  BY <1>1, <1>2, <1>3

LEMMA ConstraintStep == IInv /\ UNCHANGED autocommit /\ SwitchConstraint => IInv'
<1> SUFFICES ASSUME IInv, UNCHANGED autocommit, SwitchConstraint PROVE IInv'
  OBVIOUS
<1>1. PICK op : op \in {"nocheck", "check"} /\ Takes(op)
  BY DEF SwitchConstraint
<1>2. /\ todo' \in Seq(Statements) /\ Head(todo).of \in Pairs
      /\ UNCHANGED <<phase, order, counted, startId>>
  BY <1>1, Taken
<1>3. enforced' \subseteq Pairs
  BY <1>2 DEF IInv, TypeOK, SwitchConstraint
<1>4. UNCHANGED <<rows, current, used, removed>>
  BY DEF SwitchConstraint, tableVars
<1> QED
  BY <1>2, <1>3, <1>4, SameTables DEF IInv, TypeOK, TablesOK, CountersSafe

LEMMA DeleteStep == IInv /\ UNCHANGED autocommit /\ DeleteAll => IInv'
<1> SUFFICES ASSUME IInv, UNCHANGED autocommit, DeleteAll PROVE IInv'
  OBVIOUS
<1> DEFINE t == Head(todo).of
<1>1. /\ todo' \in Seq(Statements) /\ t \in Tables
      /\ UNCHANGED <<phase, order, counted, startId>>
  BY Taken DEF DeleteAll
<1>2. /\ rows' = [rows EXCEPT ![t] = {}]
      /\ \/ removed' = removed
         \/ removed' = [removed EXCEPT ![t] = removed[t] \cup rows[t]]
      /\ UNCHANGED <<current, used, enforced>>
  BY DEF DeleteAll
<1> HIDE DEF t
<1>3. TypeOK'
  BY <1>1, <1>2, SameTables DEF IInv, TypeOK, TablesOK
<1>4. CountersSafe'
  BY <1>1, <1>2, SameTables DEF IInv, TypeOK, TablesOK, CountersSafe
<1> QED
  BY <1>3, <1>4 DEF IInv

LEMMA ReseedStep == IInv /\ UNCHANGED autocommit /\ Reseed => IInv'
<1> SUFFICES ASSUME IInv, UNCHANGED autocommit, Reseed PROVE IInv'
  OBVIOUS
<1> DEFINE t == Head(todo).of
<1>1. /\ todo' \in Seq(Statements) /\ t \in Tables
      /\ UNCHANGED <<phase, order, counted, startId>>
  BY Taken DEF Reseed
<1>2. /\ current' = [current EXCEPT ![t] = startId[t]]
      /\ UNCHANGED <<rows, used, enforced, removed>>
  BY DEF Reseed
<1> HIDE DEF t
<1>3. startId[t] \in Nat
  BY <1>1 DEF IInv, TypeOK
<1>4. TypeOK'
  BY <1>1, <1>2, <1>3, SameTables DEF IInv, TypeOK, TablesOK
<1>5. CountersSafe'
  BY <1>1, <1>2, SameTables DEF IInv, TypeOK, TablesOK, CountersSafe
<1> QED
  BY <1>4, <1>5 DEF IInv

LEMMA EndStep == IInv /\ UNCHANGED autocommit /\ (Commit \/ Fail) => IInv'
<1> SUFFICES ASSUME IInv, UNCHANGED autocommit, Commit \/ Fail PROVE IInv'
  OBVIOUS
<1>0. Nothing \in [Tables -> SUBSET Nat] /\ \A t \in Tables : Nothing[t] = {}
  BY DEF Nothing
<1>1. CASE Commit
  <2>1. TypeOK'
    BY <1>0, <1>1 DEF IInv, TypeOK, TablesOK, Commit, tableVars, Phases
  <2>2. CountersSafe'
    BY <1>0, <1>1 DEF IInv, CountersSafe, Commit, tableVars
  <2> QED
    BY <2>1, <2>2 DEF IInv
<1>2. CASE Fail
  <2>1. <<>> \in Seq(Statements)
    OBVIOUS
  <2>2. rows' \in [Tables -> SUBSET Nat]
    BY <1>2 DEF IInv, TypeOK, TablesOK, Fail
  <2>3. enforced' \subseteq Pairs
    BY <1>2 DEF IInv, TypeOK, Fail
  <2>4. TypeOK'
    BY <1>0, <1>2, <2>1, <2>2, <2>3 DEF IInv, TypeOK, TablesOK, Fail, Phases
  <2>5. CountersSafe'
    BY <1>0, <1>2 DEF IInv, TypeOK, TablesOK, CountersSafe, Fail
  <2> QED
    BY <2>4, <2>5 DEF IInv
<1> QED
  BY <1>1, <1>2

LEMMA CheckStep == IInv /\ UNCHANGED autocommit /\ (CheckConstraints \/ Validate \/ EndCheck) => IInv'
<1> SUFFICES ASSUME IInv, UNCHANGED autocommit, CheckConstraints \/ Validate \/ EndCheck PROVE IInv'
  OBVIOUS
<1>1. UNCHANGED <<rows, current, used, counted, startId, removed>>
  BY DEF CheckConstraints, Validate, EndCheck, tableVars
<1>2. CountersSafe'
  BY <1>1 DEF IInv, CountersSafe
<1>3. order' \in Seq(Tables) /\ phase' \in Phases \ {"counting"}
  BY FlushAssumption
  DEF IInv, TypeOK, CheckConstraints, Validate, EndCheck, Phases
<1>4. todo' \in Seq(Statements)
  <2>1. \A t \in Tables : [op |-> "validate", of |-> t] \in Statements
    BY DEF Statements
  <2>2. CASE CheckConstraints
    BY <1>3, <2>1, <2>2, AllOfSequence DEF CheckConstraints
  <2>3. CASE Validate \/ EndCheck
    <3>1. todo' \in {<<>>, todo} \/ (todo # <<>> /\ todo' = Tail(todo))
      BY <2>3 DEF Validate, EndCheck
    <3>2. todo \in Seq(Statements) /\ <<>> \in Seq(Statements)
      BY DEF IInv, TypeOK
    <3>3. todo # <<>> => Tail(todo) \in Seq(Statements)
      BY <3>2
    <3> QED
      BY <3>1, <3>2, <3>3
  <2> QED
    BY <2>2, <2>3
<1>5. enforced' \subseteq Pairs
  BY DEF IInv, TypeOK, CheckConstraints, Validate, EndCheck, KeysOf
<1>6. TypeOK'
  BY <1>1, <1>3, <1>4, <1>5, SameTables DEF IInv, TypeOK, TablesOK
<1> QED
  BY <1>2, <1>6 DEF IInv

-----------------------------------------------------------------------------
(* Other sessions.                                                         *)

LEMMA OthersStep == IInv /\ (\E t \in Tables : StoreRow(t) \/ RemoveRow(t)) => IInv'
<1> SUFFICES ASSUME IInv, NEW t \in Tables, StoreRow(t) \/ RemoveRow(t) PROVE IInv'
  OBVIOUS
<1> DEFINE n == NextId(t)
<1>1. n \in Nat /\ n # 0
  BY NextIds
<1>2. UNCHANGED flushVars
  BY DEF StoreRow, RemoveRow
<1>3. ASSUME Generate(t) PROVE IInv'
  <2>1. /\ rows' = [rows EXCEPT ![t] = rows[t] \cup {n}]
        /\ current' = [current EXCEPT ![t] = n]
        /\ used' = [used EXCEPT ![t] = TRUE]
    BY <1>3 DEF Generate
  <2> HIDE DEF n
  <2>2. TypeOK'
    BY <1>1, <1>2, <2>1, SameTables DEF IInv, TypeOK, TablesOK, flushVars
  <2>3. CountersSafe'
    BY <1>1, <1>2, <2>1, SameTables DEF IInv, TypeOK, TablesOK, CountersSafe, flushVars
  <2> QED
    BY <2>2, <2>3 DEF IInv
<1>4. ASSUME Lose(t) PROVE IInv'
  <2>1. /\ current' = [current EXCEPT ![t] = n]
        /\ used' = [used EXCEPT ![t] = TRUE]
        /\ UNCHANGED rows
    BY <1>4 DEF Lose
  <2> HIDE DEF n
  <2>2. TypeOK'
    BY <1>1, <1>2, <2>1, SameTables DEF IInv, TypeOK, TablesOK, flushVars
  <2>3. CountersSafe'
    BY <1>1, <1>2, <2>1, SameTables DEF IInv, TypeOK, TablesOK, CountersSafe, flushVars
  <2> QED
    BY <2>2, <2>3 DEF IInv
<1>5. ASSUME NEW id \in rows[t], DeleteRow(t, id) PROVE IInv'
  <2>1. /\ rows' = [rows EXCEPT ![t] = rows[t] \ {id}]
        /\ UNCHANGED <<current, used>>
    BY <1>5 DEF DeleteRow
  <2>2. TypeOK'
    BY <1>2, <2>1, SameTables DEF IInv, TypeOK, TablesOK, flushVars
  <2>3. CountersSafe'
    BY <1>2, <2>1, SameTables DEF IInv, TypeOK, TablesOK, CountersSafe, flushVars
  <2> QED
    BY <2>2, <2>3 DEF IInv
<1> QED
  BY <1>3, <1>4, <1>5 DEF StoreRow, RemoveRow

LEMMA NextInv == IInv /\ [Next]_vars => IInv'
<1> SUFFICES ASSUME IInv, [Next]_vars PROVE IInv'
  OBVIOUS
<1>1. CASE UNCHANGED vars
  BY <1>1, SameTables DEF IInv, TypeOK, TablesOK, CountersSafe, vars, tableVars, flushVars
<1> QED
  BY <1>1, ComposeStep, ConstraintStep, DeleteStep, ReseedStep, EndStep, CheckStep, OthersStep
  DEF Next

-----------------------------------------------------------------------------
\* The inductive invariant, for every set of tables and foreign keys, every order and
\* any number of flushes and of rows that others store and delete.
THEOREM Invariance == Spec => []IInv
BY InitInv, NextInv, PTL DEF Spec

\* Type correctness (property TypeOK).
THEOREM TypeCorrect == Spec => []TypeOK
<1>1. IInv => TypeOK
  BY DEF IInv
<1> QED
  BY <1>1, Invariance, PTL

\* No row ever gets the id 0, although sql_flush counts the rows long before RESEED
\* runs (property IdsArePositive).
THEOREM PositiveIds == Spec => []IdsArePositive
<1>1. IInv => IdsArePositive
  BY NextIds DEF IInv, CountersSafe, IdsArePositive
<1> QED
  BY <1>1, Invariance, PTL

-----------------------------------------------------------------------------
(* The keys.  While the list runs, a key that is still enforced has its    *)
(* NOCHECK ahead of it, or there is nothing left but checks; and a key that*)
(* is not enforced has its check ahead, unless there is no list at all, and*)
(* a flush before it has left the key off.  The statements come in that    *)
(* order.                                                                  *)

Listed(s) == {s[i] : i \in DOMAIN s}

Ahead(op, p) == [op |-> op, of |-> p] \in Listed(todo)

\* The NOCHECKs come before all others, the checks after them.
Precedes(a, b) ==
  /\ b.op = "nocheck" => a.op = "nocheck"
  /\ a.op = "check" => b.op = "check"

InOrder(s) == \A i, j \in DOMAIN s : i < j => Precedes(s[i], s[j])

OnlyChecks(s) == \A x \in Listed(s) : x.op = "check"

KeysInv ==
  /\ phase = "running" =>
       /\ InOrder(todo)
       /\ \A p \in enforced : Ahead("nocheck", p) \/ OnlyChecks(todo)
       /\ order # <<>> \/ ~ autocommit => \A p \in Pairs : p \in enforced \/ Ahead("check", p)
       /\ \A p \in Pairs : Ahead("nocheck", p) => Ahead("check", p)
  /\ phase = "done" /\ order # <<>> => enforced = Pairs
  /\ phase # "running" /\ ~ autocommit => enforced = Pairs

\* Two lists after another hold what both hold, and are in order if both are and
\* nothing in the second has to precede anything in the first.
LEMMA Together ==
  ASSUME NEW s \in Seq(Statements), NEW r \in Seq(Statements), InOrder(s), InOrder(r),
         \A a \in Listed(s), b \in Listed(r) : Precedes(a, b)
  PROVE  /\ InOrder(s \o r)
         /\ Listed(s \o r) = Listed(s) \cup Listed(r)
         /\ s \o r \in Seq(Statements)
<1> DEFINE q == s \o r
           n == Len(s)
           m == Len(r)
<1>1. /\ n \in Nat /\ m \in Nat /\ DOMAIN s = 1..n /\ DOMAIN r = 1..m
      /\ q \in Seq(Statements) /\ Len(q) = n + m /\ DOMAIN q = 1..(n + m)
      /\ \A i \in 1..(n + m) : q[i] = IF i <= n THEN s[i] ELSE r[i - n]
  BY ConcatProperties, LenProperties
<1> HIDE DEF q, n, m
<1>2. ASSUME NEW i \in DOMAIN q, NEW j \in DOMAIN q, i < j
      PROVE  Precedes(q[i], q[j])
  <2>1. CASE j <= n
    <3>1. i \in DOMAIN s /\ j \in DOMAIN s /\ q[i] = s[i] /\ q[j] = s[j]
      BY <1>1, <1>2, <2>1
    <3> QED
      BY <1>2, <3>1 DEF InOrder
  <2>2. CASE i > n
    <3>1. i - n \in DOMAIN r /\ j - n \in DOMAIN r /\ i - n < j - n
      BY <1>1, <1>2, <2>2
    <3>2. q[i] = r[i - n] /\ q[j] = r[j - n]
      BY <1>1, <1>2, <2>2
    <3> QED
      BY <3>1, <3>2 DEF InOrder
  <2>3. CASE i <= n /\ j > n
    <3>1. i \in DOMAIN s /\ j - n \in DOMAIN r
      BY <1>1, <1>2, <2>3
    <3>2. q[i] = s[i] /\ q[j] = r[j - n]
      BY <1>1, <1>2, <2>3
    <3>3. q[i] \in Listed(s) /\ q[j] \in Listed(r)
      BY <3>1, <3>2 DEF Listed
    <3> QED
      BY <3>3
  <2> QED
    BY <1>1, <1>2, <2>1, <2>2, <2>3
<1>3. Listed(q) \subseteq Listed(s) \cup Listed(r)
  <2> SUFFICES ASSUME NEW i \in DOMAIN q PROVE q[i] \in Listed(s) \cup Listed(r)
    BY DEF Listed
  <2>1. CASE i <= n
    BY <1>1, <2>1 DEF Listed
  <2>2. CASE i > n
    <3>1. i - n \in DOMAIN r /\ q[i] = r[i - n]
      BY <1>1, <2>2
    <3> QED
      BY <3>1 DEF Listed
  <2> QED
    BY <1>1, <2>1, <2>2
<1>4. Listed(s) \subseteq Listed(q)
  BY <1>1 DEF Listed
<1>5. Listed(r) \subseteq Listed(q)
  <2> SUFFICES ASSUME NEW i \in DOMAIN r PROVE r[i] \in Listed(q)
    BY DEF Listed
  <2>1. i + n \in DOMAIN q /\ q[i + n] = r[i]
    BY <1>1
  <2> QED
    BY <2>1 DEF Listed
<1>6. InOrder(q) /\ q \in Seq(Statements) /\ Listed(q) = Listed(s) \cup Listed(r)
  BY <1>1, <1>2, <1>3, <1>4, <1>5 DEF InOrder
<1> QED
  BY <1>6 DEF q

\* Statements of one kind.
LEMMA OneKind ==
  ASSUME NEW S, NEW s \in Seq(S), NEW op
  PROVE  /\ InOrder(All(op, s))
         /\ \A x \in Listed(All(op, s)) : x.op = op
         /\ \A i \in DOMAIN s : [op |-> op, of |-> s[i]] \in Listed(All(op, s))
<1>1. DOMAIN All(op, s) = DOMAIN s /\ \A i \in DOMAIN s : All(op, s)[i] = [op |-> op, of |-> s[i]]
  BY DEF All
<1>2. \A x \in Listed(All(op, s)) : x.op = op
  BY <1>1 DEF Listed
<1>3. \A i \in DOMAIN s : [op |-> op, of |-> s[i]] \in Listed(All(op, s))
  BY <1>1 DEF Listed
<1>4. \A i, j \in DOMAIN s : All(op, s)[i].op = All(op, s)[j].op
  BY <1>1
<1>5. InOrder(All(op, s))
  BY <1>1, <1>4 DEF InOrder, Precedes
<1> QED
  BY <1>2, <1>3, <1>5

LEMMA ListIsInOrder ==
  ASSUME TypeOK
  PROVE  /\ InOrder(SqlList)
         /\ order # <<>> => \A p \in Pairs :
              /\ [op |-> "nocheck", of |-> p] \in Listed(SqlList)
              /\ [op |-> "check", of |-> p] \in Listed(SqlList)
<1> DEFINE A == All("nocheck", ForeignKeys)
           D == All("delete", order)
           C == All("check", ForeignKeys)
<1>1. ForeignKeys \in Seq(Tables \X Tables) /\ order \in Seq(Tables)
  BY FlushAssumption DEF TypeOK
<1>2. A \in Seq(Statements) /\ D \in Seq(Statements) /\ C \in Seq(Statements)
      /\ Resets \in Seq(Statements)
  BY SqlParts
<1>3. /\ InOrder(A) /\ InOrder(D) /\ InOrder(C)
      /\ \A x \in Listed(A) : x.op = "nocheck"
      /\ \A x \in Listed(D) : x.op = "delete"
      /\ \A x \in Listed(C) : x.op = "check"
  BY <1>1, OneKind
<1>4. InOrder(<<>>) /\ Listed(<<>>) = {}
  BY DEF InOrder, Listed
<1>5. InOrder(Resets) /\ \A x \in Listed(Resets) : x.op = "reseed"
  <2>1. CASE Resets = <<>>
    BY <1>4, <2>1
  <2>2. CASE Resets = All("reseed", order)
    BY <1>1, <2>2, OneKind
  <2>3. All("reseed", <<>>) = <<>>
    BY DEF All
  <2> QED
    BY <2>1, <2>2, <2>3 DEF Resets, SequenceTables
<1>6. \A p \in Pairs : /\ [op |-> "nocheck", of |-> p] \in Listed(A)
                      /\ [op |-> "check", of |-> p] \in Listed(C)
  BY <1>1, OneKind DEF Pairs
<1> HIDE DEF A, D, C
<1>7. /\ A \o D \in Seq(Statements) /\ InOrder(A \o D)
      /\ Listed(A \o D) = Listed(A) \cup Listed(D)
  <2>1. \A a \in Listed(A), b \in Listed(D) : Precedes(a, b)
    BY <1>3 DEF Precedes
  <2> QED
    BY <1>2, <1>3, <2>1, Together
<1>8. /\ A \o D \o Resets \in Seq(Statements) /\ InOrder(A \o D \o Resets)
      /\ Listed(A \o D \o Resets) = Listed(A) \cup Listed(D) \cup Listed(Resets)
  <2>1. \A a \in Listed(A \o D), b \in Listed(Resets) : Precedes(a, b)
    BY <1>3, <1>5, <1>7 DEF Precedes
  <2> QED
    BY <1>2, <1>5, <1>7, <2>1, Together
<1>9. /\ InOrder(A \o D \o Resets \o C)
      /\ Listed(A \o D \o Resets \o C)
           = Listed(A) \cup Listed(D) \cup Listed(Resets) \cup Listed(C)
  <2>1. \A a \in Listed(A \o D \o Resets), b \in Listed(C) : Precedes(a, b)
    BY <1>3, <1>5, <1>8 DEF Precedes
  <2> QED
    BY <1>2, <1>3, <1>8, <2>1, Together
<1>10. SqlList = IF order = <<>> THEN <<>> ELSE A \o D \o Resets \o C
  BY DEF SqlList, A, D, C
<1> QED
  BY <1>4, <1>6, <1>9, <1>10

LEMMA WithoutHead ==
  ASSUME NEW s \in Seq(Statements), s # <<>>, InOrder(s)
  PROVE  /\ InOrder(Tail(s))
         /\ Listed(s) = {Head(s)} \cup Listed(Tail(s))
         /\ \A x \in Listed(Tail(s)) : Precedes(Head(s), x)
<1> DEFINE n == Len(s)
           r == Tail(s)
<1>1. /\ n \in Nat \ {0} /\ DOMAIN s = 1..n /\ DOMAIN r = 1..(n - 1) /\ Head(s) = s[1]
      /\ \A i \in 1..(n - 1) : r[i] = s[i + 1]
  BY HeadTailProperties, LenProperties
<1> HIDE DEF n, r
<1>2. \A i \in DOMAIN r : /\ i + 1 \in DOMAIN s /\ 1 \in DOMAIN s /\ 1 < i + 1
                          /\ r[i] = s[i + 1]
  BY <1>1
<1>3. InOrder(r)
  <2> SUFFICES ASSUME NEW i \in DOMAIN r, NEW j \in DOMAIN r, i < j
               PROVE  Precedes(r[i], r[j])
    BY DEF InOrder
  <2>1. i + 1 < j + 1
    BY <1>1
  <2> QED
    BY <1>2, <2>1 DEF InOrder
<1>4. \A x \in Listed(r) : Precedes(Head(s), x)
  BY <1>1, <1>2 DEF Listed, InOrder
<1>5. Listed(r) \subseteq Listed(s) /\ Head(s) \in Listed(s)
  BY <1>1, <1>2 DEF Listed
<1>6. ASSUME NEW i \in DOMAIN s
      PROVE  s[i] = Head(s) \/ s[i] \in Listed(r)
  <2>1. i = 1 \/ (i - 1 \in DOMAIN r /\ r[i - 1] = s[i])
    BY <1>1
  <2> QED
    BY <1>1, <2>1 DEF Listed
<1>7. Listed(s) = {Head(s)} \cup Listed(r)
  BY <1>5, <1>6 DEF Listed
<1> QED
  BY <1>3, <1>4, <1>7 DEF r

LEMMA KeysInit == Init => KeysInv
BY DEF Init, KeysInv

LEMMA KeysTaken ==
  ASSUME TypeOK, KeysInv, NEW op, Takes(op)
  PROVE  /\ InOrder(todo')
         /\ Listed(todo) = {Head(todo)} \cup Listed(todo')
         /\ \A x \in Listed(todo') : Precedes(Head(todo), x)
         /\ Head(todo).op = op /\ phase = "running" /\ phase' = phase /\ order' = order
         /\ op \in {"nocheck", "check"} =>
              Head(todo).of \in Pairs /\ Head(todo) = [op |-> op, of |-> Head(todo).of]
<1>1. /\ todo \in Seq(Statements) /\ todo # <<>> /\ Head(todo) \in Statements
      /\ phase = "running" /\ Head(todo).op = op /\ todo' = Tail(todo) /\ phase' = phase
      /\ order' = order
  BY DEF TypeOK, Takes
<1>2. InOrder(todo)
  BY <1>1 DEF KeysInv
<1>3. op \in {"nocheck", "check"} =>
        Head(todo).of \in Pairs /\ Head(todo) = [op |-> op, of |-> Head(todo).of]
  BY <1>1 DEF Statements
<1> QED
  BY <1>1, <1>2, <1>3, WithoutHead

LEMMA KeysNext ==
  ASSUME TypeOK, KeysInv, [Next]_vars
  PROVE  KeysInv'
<1>0. UNCHANGED autocommit
  BY DEF Next, vars, flushVars
<1>1. ASSUME phase' \notin {"running", "done"}, UNCHANGED enforced, phase # "running" PROVE KeysInv'
  BY <1>0, <1>1 DEF KeysInv
<1>2. CASE Begin \/ Count \/ CheckConstraints \/ EndCheck
  BY <1>1, <1>2 DEF Begin, Count, CheckConstraints, EndCheck, Busy
<1>3. CASE List
  <2>1. /\ phase = "counting" /\ phase' = "running" /\ todo' = SqlList
        /\ UNCHANGED <<order, enforced>>
    BY <1>3 DEF List
  <2>2. ~ autocommit => enforced = Pairs
    BY <2>1 DEF KeysInv
  <2>3. InOrder(todo') /\ (order # <<>> => \A p \in Pairs :
          [op |-> "nocheck", of |-> p] \in Listed(todo') /\ [op |-> "check", of |-> p] \in Listed(todo'))
    BY <2>1, ListIsInOrder
  <2>4. CASE order = <<>>
    <3>1. todo' = <<>>
      BY <2>1, <2>4 DEF SqlList
    <3>2. OnlyChecks(todo') /\ Listed(todo') = {}
      BY <3>1 DEF OnlyChecks, Listed
    <3> QED
      BY <1>0, <2>1, <2>2, <2>3, <2>4, <3>2 DEF KeysInv, Ahead
  <2>5. CASE order # <<>>
    BY <2>1, <2>3, <2>5 DEF KeysInv, Ahead, TypeOK
  <2> QED
    BY <2>4, <2>5
<1>4. CASE Takes("nocheck") /\ enforced' = enforced \ {Head(todo).of}
  BY <1>0, <1>4, KeysTaken DEF KeysInv, Ahead, OnlyChecks
<1>5. CASE Takes("check") /\ enforced' = enforced \cup {Head(todo).of}
  BY <1>0, <1>5, KeysTaken DEF KeysInv, Ahead, OnlyChecks, Precedes
<1>6. ASSUME Takes("delete") \/ Takes("reseed"), UNCHANGED enforced PROVE KeysInv'
  BY <1>0, <1>6, KeysTaken DEF KeysInv, Ahead, OnlyChecks, Precedes
<1>7. CASE Commit
  <2>1. phase = "running" /\ todo = <<>> /\ phase' = "done" /\ UNCHANGED <<order, enforced>>
    BY <1>7 DEF Commit
  <2>2. Listed(todo) = {}
    BY <2>1 DEF Listed
  <2>3. order # <<>> \/ ~ autocommit => enforced = Pairs
    BY <2>1, <2>2 DEF KeysInv, Ahead, TypeOK
  <2> QED
    BY <1>0, <2>1, <2>3 DEF KeysInv
<1>8. CASE Fail
  BY <1>0, <1>8 DEF Fail, KeysInv
<1>9. CASE Validate
  <2>1. phase = "checking" /\ phase' \in {"checking", "failed"}
    BY <1>9 DEF Validate
  <2>2. ~ autocommit => enforced' = Pairs
    BY <1>9, <2>1 DEF Validate, KeysOf, KeysInv
  <2> QED
    BY <1>0, <2>1, <2>2 DEF KeysInv
<1>10. ASSUME UNCHANGED <<phase, order, todo, enforced>> PROVE KeysInv'
  BY <1>0, <1>10 DEF KeysInv, Ahead
<1>11. CASE \E t \in Tables : StoreRow(t) \/ RemoveRow(t)
  BY <1>10, <1>11 DEF StoreRow, RemoveRow, flushVars
<1>12. CASE UNCHANGED vars
  BY <1>10, <1>12 DEF vars, flushVars
<1> QED
  BY <1>2, <1>3, <1>4, <1>5, <1>6, <1>7, <1>8, <1>9, <1>11, <1>12
  DEF Next, SwitchConstraint, DeleteAll, Reseed

\* Where the statements are that switch keys, for every flush and every failure.
THEOREM KeysInvariance == Spec => []KeysInv
BY KeysInit, KeysNext, TypeCorrect, PTL DEF Spec

\* No foreign key stands in the way of a DELETE, and a flush that has ended, or has failed
\* in a transaction, leaves none switched off, for every order of tables and keys and
\* whatever earlier flushes with autocommit have left (property KeysAreSwitched).
THEOREM SwitchedKeys == Spec => []KeysAreSwitched
<1>1. ASSUME TypeOK, KeysInv, phase = "running", todo # <<>>, Head(todo).op = "delete"
      PROVE  MayEmpty(Head(todo).of)
  <2>1. /\ Head(todo) \in Listed(todo) /\ ~ OnlyChecks(todo)
        /\ \A x \in Listed(todo) : x # Head(todo) => Precedes(Head(todo), x)
    <3>1. todo \in Seq(Statements) /\ InOrder(todo)
      BY <1>1 DEF TypeOK, KeysInv
    <3>2. /\ Listed(todo) = {Head(todo)} \cup Listed(Tail(todo))
          /\ \A x \in Listed(Tail(todo)) : Precedes(Head(todo), x)
      BY <1>1, <3>1, WithoutHead
    <3> QED
      BY <1>1, <3>2 DEF OnlyChecks
  <2>2. \A p \in Pairs : ~ Ahead("nocheck", p)
    BY <1>1, <2>1 DEF Ahead, Precedes
  <2>3. enforced = {}
    BY <1>1, <2>1, <2>2 DEF KeysInv, TypeOK
  <2> QED
    BY <2>3 DEF MayEmpty
<1>2. TypeOK /\ KeysInv => KeysAreSwitched
  BY <1>1 DEF KeysAreSwitched, KeysInv
<1> QED
  BY <1>2, TypeCorrect, KeysInvariance, PTL

-----------------------------------------------------------------------------
(* check_constraints.  A table it was given is valid already, or is ahead; *)
(* what validated it has switched its keys on, wherever they were off, and *)
(* with these enforced nobody else makes it invalid.                       *)

Valid(t) == KeysHold(t) /\ KeysOf(t) \subseteq enforced

HoldInv ==
  /\ phase = "checking" =>
       /\ \A x \in Listed(todo) : x.op = "validate"
       /\ \A i \in DOMAIN order : Valid(order[i]) \/ Ahead("validate", order[i])
  /\ phase = "checked" => \A i \in DOMAIN order : Valid(order[i])

LEMMA OthersKeep ==
  ASSUME TypeOK, NEW t \in Tables, StoreRow(t) \/ RemoveRow(t),
         NEW u \in Tables, KeysHold(u), KeysOf(u) \subseteq enforced
  PROVE  KeysHold(u)'
<1> SUFFICES ASSUME NEW p \in Pairs, p[1] = u, rows'[u] # {}
             PROVE  rows'[p[2]] # {}
  BY DEF KeysHold, KeysOf
<1>3. p \in enforced
  BY DEF KeysOf
<1>0. p[2] \in Tables /\ rows \in [Tables -> SUBSET Nat]
  BY FlushAssumption DEF Pairs, TypeOK, TablesOK
<1>1. CASE StoreRow(t)
  <2>1. p[1] = t => rows[p[2]] # {}
    BY <1>3, <1>1 DEF StoreRow
  <2>2. rows' = rows \/ rows' = [rows EXCEPT ![t] = rows[t] \cup {NextId(t)}]
    BY <1>1 DEF StoreRow, Lose, Generate
  <2>3. rows[u] # {} => rows[p[2]] # {}
    BY DEF KeysHold, KeysOf
  <2>4. rows[p[2]] # {}
    BY <1>0, <2>1, <2>2, <2>3
  <2> QED
    BY <1>0, <2>2, <2>4
<1>2. CASE RemoveRow(t)
  <2>1. p[2] = t => rows[u] = {}
    BY <1>3, <1>2 DEF RemoveRow, MayEmpty
  <2>2. PICK id \in rows[t] : rows' = [rows EXCEPT ![t] = rows[t] \ {id}]
    BY <1>2 DEF RemoveRow, DeleteRow
  <2>3. rows[u] # {} => rows[p[2]] # {}
    BY DEF KeysHold, KeysOf
  <2>4. rows[u] # {}
    BY <1>0, <2>2
  <2> QED
    BY <1>0, <2>1, <2>2, <2>3, <2>4
<1> QED
  BY <1>1, <1>2

LEMMA HoldInit == Init => HoldInv
BY DEF Init, HoldInv

LEMMA HoldNext ==
  ASSUME TypeOK, HoldInv, [Next]_vars
  PROVE  HoldInv'
<1>0. order \in Seq(Tables) /\ \A i \in DOMAIN order : order[i] \in Tables
  BY DEF TypeOK
<1>1. ASSUME phase' \notin {"checking", "checked"} PROVE HoldInv'
  BY <1>1 DEF HoldInv
<1>2. CASE Begin \/ Count \/ List \/ Commit \/ Fail
  BY <1>1, <1>2 DEF Begin, Count, List, Commit, Fail
<1>3. ASSUME NEW op, Takes(op) PROVE HoldInv'
  BY <1>1, <1>3 DEF Takes
<1>4. CASE CheckConstraints
  <2>1. order' \in Seq(Tables) /\ todo' = All("validate", order')
    BY <1>4, FlushAssumption DEF CheckConstraints
  <2>2. /\ \A x \in Listed(todo') : x.op = "validate"
        /\ \A i \in DOMAIN order' : [op |-> "validate", of |-> order'[i]] \in Listed(todo')
    BY <2>1, OneKind
  <2>3. phase' # "checked"
    BY <1>4 DEF CheckConstraints
  <2> QED
    BY <2>2, <2>3 DEF HoldInv, Ahead
<1>5. CASE Validate
  <2> SUFFICES ASSUME phase' = "checking" PROVE HoldInv'
    BY <1>5, <1>1 DEF Validate, HoldInv
  <2> DEFINE h == Head(todo)
  <2>1. /\ phase = "checking" /\ todo \in Seq(Statements) /\ todo # <<>>
        /\ todo' = Tail(todo) /\ KeysHold(h.of) /\ UNCHANGED <<rows, order>>
        /\ enforced' = enforced \cup KeysOf(h.of)
    BY <1>5 DEF Validate, TypeOK, tableVars
  <2>2. Listed(todo) = {h} \cup Listed(todo')
    <3>1. \A x \in Listed(todo) : x.op = "validate"
      BY <2>1 DEF HoldInv
    <3>2. InOrder(todo)
      BY <3>1 DEF InOrder, Listed, Precedes
    <3> QED
      BY <2>1, <3>2, WithoutHead
  <2>3. \A t : KeysHold(t)' = KeysHold(t)
    BY <2>1 DEF KeysHold, KeysOf
  <2> HIDE DEF h
  <2>4. ASSUME NEW i \in DOMAIN order
        PROVE  Valid(order[i])' \/ Ahead("validate", order[i])'
    <3>1. CASE Valid(order[i])
      BY <2>1, <2>3, <3>1 DEF Valid, KeysHold, KeysOf
    <3>2. CASE [op |-> "validate", of |-> order[i]] = h
      <4>1. h.of = order[i]
        BY <3>2
      <4> QED
        BY <2>1, <4>1 DEF Valid, KeysHold, KeysOf, h
    <3>3. CASE [op |-> "validate", of |-> order[i]] \in Listed(todo')
      BY <2>1, <3>3 DEF Ahead
    <3> QED
      BY <2>1, <2>2, <3>1, <3>2, <3>3 DEF HoldInv, Ahead
  <2>5. \A x \in Listed(todo') : x.op = "validate"
    BY <2>1, <2>2 DEF HoldInv
  <2> QED
    BY <2>1, <2>4, <2>5 DEF HoldInv
<1>6. CASE EndCheck
  <2>1. /\ phase = "checking" /\ todo = <<>> /\ phase' = "checked"
        /\ UNCHANGED <<rows, order, todo, enforced>>
    BY <1>6 DEF EndCheck, tableVars
  <2>2. Listed(todo) = {}
    BY <2>1 DEF Listed
  <2>3. \A i \in DOMAIN order : Valid(order[i])
    BY <2>1, <2>2 DEF HoldInv, Ahead
  <2> QED
    BY <2>1, <2>3 DEF HoldInv, Valid, KeysHold, KeysOf
<1>7. CASE \E t \in Tables : StoreRow(t) \/ RemoveRow(t)
  <2>1. PICK t \in Tables : StoreRow(t) \/ RemoveRow(t)
    BY <1>7
  <2>2. UNCHANGED flushVars
    BY <2>1 DEF StoreRow, RemoveRow
  <2>3. UNCHANGED <<phase, order, todo, enforced>>
    BY <2>2 DEF flushVars
  <2>4. ASSUME NEW i \in DOMAIN order, Valid(order[i])
        PROVE  Valid(order[i])'
    <3>1. order[i] \in Tables /\ KeysHold(order[i]) /\ KeysOf(order[i]) \subseteq enforced
      BY <1>0, <2>4 DEF Valid
    <3>2. \A u \in Tables : KeysHold(u) /\ KeysOf(u) \subseteq enforced => KeysHold(u)'
      BY <2>1, OthersKeep
    <3>3. KeysHold(order[i])' = \A p \in KeysOf(order[i]) : rows'[order[i]] # {} => rows'[p[2]] # {}
      BY <2>3 DEF KeysHold, KeysOf
    <3>4. \A p \in KeysOf(order[i]) : rows'[order[i]] # {} => rows'[p[2]] # {}
      BY <3>1, <3>2 DEF KeysHold, KeysOf
    <3> QED
      BY <2>3, <3>1, <3>3, <3>4 DEF Valid, KeysOf
  <2> QED
    BY <2>3, <2>4 DEF HoldInv, Ahead
<1>8. CASE UNCHANGED vars
  BY <1>8 DEF vars, tableVars, flushVars, HoldInv, Valid, KeysHold, KeysOf, Ahead
<1> QED
  BY <1>2, <1>3, <1>4, <1>5, <1>6, <1>7, <1>8 DEF Next, SwitchConstraint, DeleteAll, Reseed

\* What check_constraints has checked stays valid until the next flush, for every set of
\* keys and however many others store and delete rows (property CheckedHold).
THEOREM CheckedStayValid == Spec => []CheckedHold
<1>1. HoldInv => CheckedHold
  BY DEF HoldInv, Valid, CheckedHold
<1>2. Spec => []HoldInv
  BY HoldInit, HoldNext, TypeCorrect, PTL DEF Spec
<1> QED
  BY <1>1, <1>2, PTL
=============================================================================
