---------------------------- MODULE AtomicStore -----------------------------
(***************************************************************************)
(* What a database promises to a program that works in blocks of           *)
(* transaction.atomic(), one inside the other.  What it writes outside     *)
(* every block is stored at once.  What it writes in blocks is stored      *)
(* together when the outermost one ends well, and not at all in every      *)
(* other case: an inner block that does not end well dooms the blocks      *)
(* around it.                                                              *)
(***************************************************************************)
EXTENDS Naturals

CONSTANT Writes  \* what a program may write, each once

VARIABLES
  stored,   \* the writes that other sessions see
  pending,  \* the writes of the open blocks
  depth,    \* number of open blocks
  doomed,   \* an inner block has not ended well: the outermost one must not be stored
  lost,     \* the session is gone, and with it what was pending
  kept      \* the last call left a block and told the program that it ended well

vars == <<stored, pending, depth, doomed, lost, kept>>

Init ==
  /\ stored = {}
  /\ pending = {}
  /\ depth = 0
  /\ ~ doomed
  /\ ~ lost
  /\ ~ kept

\* A doomed block may go on writing, in vain.
Write(w) ==
  /\ ~ lost
  /\ w \notin stored \cup pending
  /\ \/ depth = 0 /\ stored' = stored \cup {w} /\ UNCHANGED pending
     \/ depth > 0 /\ pending' = pending \cup {w} /\ UNCHANGED stored
  /\ kept' = FALSE
  /\ UNCHANGED <<depth, doomed, lost>>

Begin ==
  /\ depth' = depth + 1
  /\ kept' = FALSE
  /\ UNCHANGED <<stored, pending, doomed, lost>>

EndInnerWell ==
  /\ depth > 1
  /\ ~ doomed
  /\ depth' = depth - 1
  /\ kept' = TRUE
  /\ UNCHANGED <<stored, pending, doomed, lost>>

EndInnerBadly ==
  /\ depth > 1
  /\ depth' = depth - 1
  /\ doomed' = TRUE
  /\ kept' = FALSE
  /\ UNCHANGED <<stored, pending, lost>>

Store ==
  /\ depth = 1
  /\ ~ doomed
  /\ ~ lost
  /\ stored' = stored \cup pending
  /\ pending' = {}
  /\ depth' = 0
  /\ kept' = TRUE
  /\ UNCHANGED <<doomed, lost>>

Discard ==
  /\ depth = 1
  /\ pending' = {}
  /\ depth' = 0
  /\ doomed' = FALSE
  /\ lost' = FALSE
  /\ kept' = FALSE
  /\ UNCHANGED stored

\* A block cannot be entered.
Fail ==
  /\ kept' = FALSE
  /\ UNCHANGED <<stored, pending, depth, doomed, lost>>

\* The session ends.  Inside a block nothing takes its place.
Lose ==
  /\ pending' = {}
  /\ lost' \in BOOLEAN
  /\ depth > 0 => lost'
  /\ doomed' \in {doomed, depth > 0}
  /\ kept' = FALSE
  /\ UNCHANGED <<stored, depth>>

Next ==
  \/ \E w \in Writes : Write(w)
  \/ Begin
  \/ Fail
  \/ EndInnerWell
  \/ EndInnerBadly
  \/ Store
  \/ Discard
  \/ Lose

Spec == Init /\ [][Next]_vars
=============================================================================
