------------------------------ MODULE Slicing -------------------------------
(***************************************************************************)
(* Slices of a queryset: SQLCompiler.as_sql (compiler.py) turns the marks  *)
(* of a query into TOP, into ROW_NUMBER, or, for a server without          *)
(* ROW_NUMBER, into a TOP inside a TOP in the opposite order.  A reader    *)
(* walks through a table slice by slice while another session may delete   *)
(* rows.                                                                   *)
(*                                                                         *)
(* Rows are their primary keys.  The columns of ORDER BY, with their       *)
(* directions, are a sort key: a number per row, equal for rows that the   *)
(* columns do not tell apart.  The sort key of the last column alone is    *)
(* kept beside it.  The server orders rows with equal keys as it likes,    *)
(* differently in each query.                                              *)
(***************************************************************************)
EXTENDS Naturals, FiniteSets

CONSTANTS
  Rows,     \* primary keys
  Situations, \* who reads, from which server, and whether rows go meanwhile
  Orders,   \* what ORDER BY may say: see Order
  PageSize,
  MaxPages  \* bound on the number of pages read

\* "paginator": Django's Paginator; "loop": slices until one is empty; "rest": one
\* page, then everything behind it.
Situation ==
  {"paginator", "loop", "rest"} \X {"2000", "2005", "db2", "openedge"} \X BOOLEAN

Order == [given: BOOLEAN, sortKey: [Rows -> Nat], lastKey: [Rows -> Nat]]

ASSUME SlicingAssumption ==
  /\ IsFiniteSet(Rows) /\ Rows \subseteq Nat
  /\ Situations \subseteq Situation
  /\ Orders \subseteq Order
  /\ PageSize \in Nat \ {0}
  /\ MaxPages \in Nat

VARIABLES
  reader,
  engine,   \* the server
  deletes,  \* whether another session deletes rows
  order,    \* the ordering of the queryset
  table,    \* the rows it selects now
  count,    \* Paginator.count, cached; the loop reader has none
  low,      \* where the next page begins
  page,     \* the page read last
  seen,     \* the rows of the pages before it
  fetched,  \* number of pages read
  status    \* "reading", "done" or "TypeError"

vars == <<reader, engine, deletes, order, table, count, low, page, seen, fetched,
          status>>

-----------------------------------------------------------------------------
(* Positions.                                                              *)

TieOrders == {t \in [Rows -> 1..Cardinality(Rows)] :
                \A r, s \in Rows : t[r] = t[s] => r = s}

\* ROW_NUMBER() of row r among `rows' ordered by the key k, ties in order t.
Position(r, rows, k, t) ==
  Cardinality({s \in rows : k[s] < k[r] \/ (k[s] = k[r] /\ t[s] <= t[r])})

Between(rows, k, t, first, last) ==
  {r \in rows : first < Position(r, rows, k, t) /\ Position(r, rows, k, t) <= last}

\* SELECT TOP n ... ORDER BY k DESC.
TopDescending(n, rows, k, t) ==
  {r \in rows :
     Cardinality({s \in rows : k[s] > k[r] \/ (k[s] = k[r] /\ t[s] <= t[r])}) <= n}

-----------------------------------------------------------------------------
(* The compiler.                                                           *)

\* A query: its marks, high_mark counting only if it is `limited'.
Query(from, to) == [low |-> from, high |-> to, limited |-> TRUE]
QueryFrom(from) == [low |-> from, high |-> 0, limited |-> FALSE]

\* sql_server_ver < 2005 and not is_db2: OpenEdge counts as 2000.
NoRowNumber(e) == e \in {"2000", "openedge"}

\* Faulty: TOP whenever there is a high mark.
FormTop(q, e) ==
  IF q.limited /\ q.low = q.high THEN "no query"
  ELSE IF ~ q.limited /\ q.low = 0 THEN "plain"
  ELSE IF q.limited THEN "top"
  ELSE "row_number"

\* Which of the forms of SQL as_sql builds, in the order of its tests.
Form(q, e) ==
  IF q.limited /\ q.low = q.high THEN "no query"
  ELSE IF ~ q.limited /\ q.low = 0 THEN "plain"
  ELSE IF q.low = 0 THEN "top"
  ELSE IF ~ NoRowNumber(e) THEN "row_number"
  ELSE IF q.limited THEN "top in top"
  ELSE "TypeError"  \* high_mark - low_mark with a high_mark of None

\* _fix_slicing_order: without an ordering, ROW_NUMBER goes by primary key;
\* the TOP in TOP keeps only the last column of the ordering.
PrimaryKey == [r \in Rows |-> r]
NumberKey(o) == IF o.given THEN o.sortKey ELSE PrimaryKey
LastKey(o)   == IF o.given THEN o.lastKey ELSE PrimaryKey

\* Faulty: where_row_num includes the low mark.
RowNumberInclusive(q, rows, k, t) ==
  {r \in rows : /\ q.low <= Position(r, rows, k, t)
                /\ q.limited => Position(r, rows, k, t) <= q.high}

\* Faulty: where_row_num always names the high mark.
RowNumberLimited(q, rows, k, t) ==
  {r \in rows : q.low < Position(r, rows, k, t) /\ Position(r, rows, k, t) <= q.high}

\* where_row_num: {low_mark} < _row_num and _row_num <= {high_mark}.
RowNumber(q, rows, k, t) ==
  {r \in rows : /\ q.low < Position(r, rows, k, t)
                /\ q.limited => Position(r, rows, k, t) <= q.high}

\* Faulty: the outer TOP takes high_mark rows, not num_to_select.
TopInTopHigh(q, rows, k, t, u) ==
  TopDescending(q.high, Between(rows, k, t, 0, q.high), k, u)

\* TOP num_to_select of the TOP high_mark rows, in the opposite order.
TopInTop(q, rows, k, t, u) ==
  TopDescending(q.high - q.low, Between(rows, k, t, 0, q.high), k, u)

\* The rows a server may answer with.  TOP keeps the ORDER BY of the query, so
\* without one it returns any rows.
Answer(q, e, o, rows, answer) ==
  LET form == Form(q, e)
  IN  \/ form = "no query" /\ answer = {}
      \/ form = "plain" /\ answer = rows
      \/ /\ form = "top" /\ o.given
         /\ \E t \in TieOrders : answer = Between(rows, o.sortKey, t, 0, q.high)
      \/ /\ form = "top" /\ ~o.given
         /\ \E t \in TieOrders :
              answer = Between(rows, [r \in Rows |-> 0], t, 0, q.high)
      \/ /\ form = "row_number"
         /\ \E t \in TieOrders : answer = RowNumber(q, rows, NumberKey(o), t)
      \/ /\ form = "top in top"
         /\ \E t, u \in TieOrders :
              answer = TopInTop(q, rows, LastKey(o), t, u)

-----------------------------------------------------------------------------
(* The reader and the other session                                        *)

Smaller(m, n) == IF m <= n THEN m ELSE n

\* One slice is asked for and read.
ReadTo(to) ==
  /\ \E answer \in SUBSET table :
       /\ Answer(Query(low, to), engine, order, table, answer)
       /\ page' = answer
  /\ seen' = seen \cup page
  /\ low' = to
  /\ fetched' = fetched + 1

\* Faulty: one row more than there is.
ReadCountOffByOne ==
  /\ status = "counting"
  /\ count' = Cardinality(table) + 1
  /\ status' = "reading"
  /\ UNCHANGED <<reader, engine, deletes, order, table, low, page, seen, fetched>>

\* Paginator.count: one SELECT COUNT(*), kept for all the pages.
ReadCount ==
  /\ status = "counting"
  /\ count' = Cardinality(table)
  /\ status' = "reading"
  /\ UNCHANGED <<reader, engine, deletes, order, table, low, page, seen, fetched>>

\* Paginator.page(n): the last page ends at the count.
PaginatorPage ==
  LET to == Smaller(low + PageSize, count)
  IN  /\ reader = "paginator"
      /\ status = "reading"
      /\ ReadTo(to)
      /\ status' = IF to = count THEN "done" ELSE "reading"
      /\ UNCHANGED <<reader, engine, deletes, order, table, count>>

\* queryset[low:low + PageSize], until a slice is empty.
LoopPage ==
  /\ reader = "loop"
  /\ status = "reading"
  /\ fetched < MaxPages
  /\ ReadTo(low + PageSize)
  /\ status' = IF page' = {} THEN "done" ELSE "reading"
  /\ UNCHANGED <<reader, engine, deletes, order, table, count>>

\* queryset[:PageSize] and then queryset[PageSize:].
FirstPage ==
  /\ reader = "rest"
  /\ status = "reading"
  /\ low = 0
  /\ ReadTo(PageSize)
  /\ UNCHANGED <<reader, engine, deletes, order, table, count, status>>

RestPage ==
  /\ reader = "rest"
  /\ status = "reading"
  /\ low # 0
  /\ IF Form(QueryFrom(low), engine) = "TypeError"
     THEN /\ status' = "TypeError"
          /\ UNCHANGED <<page, seen, low, fetched>>
     ELSE /\ \E answer \in SUBSET table :
               /\ Answer(QueryFrom(low), engine, order, table, answer)
               /\ page' = answer
          /\ seen' = seen \cup page
          /\ low' = low + Cardinality(Rows)
          /\ fetched' = fetched + 1
          /\ status' = "done"
  /\ UNCHANGED <<reader, engine, deletes, order, table, count>>

\* Another session deletes a row between two queries.
Delete(r) ==
  /\ deletes
  /\ r \in table
  /\ table' = table \ {r}
  /\ UNCHANGED <<reader, engine, deletes, order, count, low, page, seen, fetched, status>>

Init ==
  /\ \E s \in Situations : reader = s[1] /\ engine = s[2] /\ deletes = s[3]
  /\ order \in Orders
  /\ table \in SUBSET Rows
  /\ count = 0
  /\ low = 0
  /\ page = {}
  /\ seen = {}
  /\ fetched = 0
  /\ status = IF reader = "paginator" THEN "counting" ELSE "reading"

Read == ReadCount \/ PaginatorPage \/ LoopPage \/ FirstPage \/ RestPage

Next == Read \/ \E r \in Rows : Delete(r)

Spec == Init /\ [][Next]_vars

\* The reader goes on; nobody has to delete anything.
FairSpec == Spec /\ WF_vars(Read)

-----------------------------------------------------------------------------
(* Properties                                                              *)

\* The type of a query's marks and of what has been read (compiler.py:207-344).
TypeOK ==
  /\ <<reader, engine, deletes>> \in Situations
  /\ order \in Orders
  /\ table \subseteq Rows
  /\ count \in 0..Cardinality(Rows)
  /\ low \in Nat
  /\ page \subseteq Rows
  /\ seen \subseteq Rows
  /\ fetched \in Nat
  /\ status \in {"counting", "reading", "done", "TypeError"}

\* The places that the ORDER BY allows.
AllowedKey(o) == IF o.given THEN o.sortKey ELSE [r \in Rows |-> 0]

\* What as_sql owes its caller (compiler.py:207-336): the rows at the places
\* low + 1 to high of the table in some order that the ORDER BY allows,
\* whatever form of SQL the server gets.
PageIsSlice ==
  [][fetched' # fetched =>
       \E t \in TieOrders :
         page' = Between(table, AllowedKey(order), t, low, low')]_vars

\* The ordering tells all rows apart.
Distinguishes(o) ==
  o.given /\ \A r, s \in Rows : o.sortKey[r] = o.sortKey[s] => r = s

\* A reader that has come to the end has read every row: TOP for the first
\* page and ROW_NUMBER or TOP in TOP for the others fit together.
PagesComplete ==
  status = "done" /\ Distinguishes(order) /\ ~deletes => seen \cup page = table

\* No row is read twice, even while rows before the mark are deleted: a later
\* slice asks for higher places, and deleting only lowers the place of a row.
NoRowTwice == Distinguishes(order) => page \cap seen = {}

\* What is read is the table, every row once: nothing twice at any moment, nothing left
\* out at the end (where_row_num and the TOP in TOP, compiler.py:279-325).
PagesAreExact == PagesComplete /\ NoRowTwice

\* A loop that reads slices until one is empty comes to its end.
PagingEnds == <>(status \in {"done", "TypeError"})

-----------------------------------------------------------------------------
(* What comments, README and tests say and the code does not do            *)

\* compiler.py:81 lists a strategy for "SQL Server 2000 when offset but no
\* limit is provided"; as_sql subtracts None from a number.
OffsetWithoutLimit == status # "TypeError"
=============================================================================
