--------------------------- MODULE MCTransactions ---------------------------
(* Instances of Transactions: the writes are model values. *)
EXTENDS Transactions

CONSTANTS w1, w2, w3

Program(autocommit, cursors, savepoints, outside) ==
  [autocommit |-> autocommit, cursors |-> cursors, savepoints |-> savepoints,
   outside |-> outside]

\* Blocks first, and savepoints inside them.
Saving == {Program(FALSE, FALSE, TRUE, FALSE)}
=============================================================================
