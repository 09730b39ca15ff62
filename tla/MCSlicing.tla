----------------------------- MODULE MCSlicing ------------------------------
(* Tables of up to four rows, orderings and situations for Slicing.          *)
EXTENDS Slicing

MCRows == 1..4

OneColumn(key) == [given |-> TRUE, sortKey |-> key, lastKey |-> key]

Unordered  == [OneColumn([r \in MCRows |-> 0]) EXCEPT !.given = FALSE]
Descending == OneColumn([r \in MCRows |-> 4 - r])
Shuffled   == OneColumn([r \in MCRows |-> (3 * r) % 5])
Ties       == OneColumn([r \in MCRows |-> r \div 2])

\* ORDER BY [parity], [id] DESC.
TwoColumns == [given   |-> TRUE,
               sortKey |-> [r \in MCRows |-> 10 * (r % 2) + 4 - r],
               lastKey |-> [r \in MCRows |-> 4 - r]]

OneColumnOrders == {Unordered, Descending, Shuffled, Ties}
AllOrders       == OneColumnOrders \cup {TwoColumns}

\* Every server with Django's Paginator, those with ROW_NUMBER with every reader.
MCSituations ==
  LET modern == {"2005", "db2"}
  IN  ({"paginator"} \X {"2000", "2005", "db2", "openedge"} \X {FALSE})
      \cup ({"rest"} \X modern \X {FALSE})
      \cup ({"loop"} \X modern \X {TRUE})

\* Beyond what holds: see "Known disagreements" in README.md.
OldLoop == {<<"loop", "2000", FALSE>>}
OldRest == {<<"rest", "2000", FALSE>>}
OldPaginator == {<<"paginator", "2000", FALSE>>}
=============================================================================
