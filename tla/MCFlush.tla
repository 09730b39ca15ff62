------------------------------- MODULE MCFlush -------------------------------
(* A parent table and the child that refers to it. *)
EXTENDS Flush

CONSTANTS parent, child

\* The lists of a call: both tables, the referenced one first; the referenced one alone,
\* whose child belongs to somebody else; and none.
Lists  == {<<parent, child>>, <<parent>>, <<>>}
OneKey == << <<child, parent>> >>

\* For a flush of one table that has no keys.
Single == {<<parent>>}
NoKeys == <<>>
=============================================================================
