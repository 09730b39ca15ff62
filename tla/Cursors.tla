------------------------------- MODULE Cursors -------------------------------
(***************************************************************************)
(* Rows on their way from the driver to querysets, through CursorWrapper.  *)
(*                                                                         *)
(* A program has several cursors on one session.  A queryset reads its     *)
(* cursor in chunks: all of them before anything else happens, or, if the  *)
(* backend says can_use_chunked_reads, one at a time while the program     *)
(* runs other queries in between.  A session without multiple active       *)
(* result sets (MARS) refuses a statement while the rows of another are    *)
(* pending.                                                                *)
(***************************************************************************)
EXTENDS Naturals, Sequences

CONSTANTS
  Cursors,
  Installations,  \* drivers, servers and settings: see Installation
  MaxRows,        \* bound on the rows of a result
  Chunk           \* rows per chunk: Django's GET_ITERATOR_CHUNK_SIZE

\* driver: its name.  mars: the setting MARS_Connection.  year: the release of the
\* server.  opener: who opened the session, _cursor or Django's connect().
\* utf8: driver_supports_utf8, as a truth value.
Installation ==
  [driver: {"SQLNCLI", "LIBTDSODBC", "SQLSRV32"}, mars: BOOLEAN,
   year: {2000, 2005, 2008}, opener: {"cursor", "connect"}, utf8: BOOLEAN]

ASSUME CursorsAssumption ==
  /\ Installations \subseteq Installation
  /\ MaxRows \in Nat
  /\ Chunk \in Nat \ {0}

VARIABLES
  installation,
  phase,    \* of each cursor: "idle", "listing" (a queryset reads it to the end at
            \* once), "reading" (a queryset reads it chunk by chunk), "raw" (the
            \* program reads it row by row), "done", "failed" or "abandoned"
  size,     \* rows of its result
  fetched,  \* how many of them the driver has handed out
  pending,  \* whether the session is still busy with its result
  got,      \* the rows its reader has been given
  error     \* how its last call failed, if it did

vars == <<installation, phase, size, fetched, pending, got, error>>

Phases == {"idle", "listing", "reading", "raw", "done", "failed", "abandoned"}

\* The program does nothing else until such a cursor is read.
Exclusive == {"listing", "raw"}

NoOtherIsExclusive(c) == \A d \in Cursors \ {c} : phase[d] \notin Exclusive

-----------------------------------------------------------------------------
(* The driver.                                                             *)

\* Several results may be pending on a session.
Multiple ==
  installation.driver = "SQLNCLI" /\ installation.mars /\ installation.year >= 2005

\* Executing on a cursor drops what is pending on it.
Busy(c) == ~ Multiple /\ \E d \in Cursors \ {c} : pending[d]

\* A row: its place in the result and how its text is represented.
Row == (1..MaxRows) \X {"text", "bytes"}

DriverRow(i) == <<i, IF installation.utf8 THEN "text" ELSE "bytes">>

-----------------------------------------------------------------------------
(* CursorWrapper.                                                          *)

\* Faulty: the option alone is asked.
ChunkedReadsByOption == installation.mars /\ installation.opener = "cursor"

\* _cursor sets features.can_use_chunked_reads when it opens a session; it is False
\* otherwise.
ChunkedReads ==
  /\ installation.opener = "cursor"
  /\ installation.year >= 2005
  /\ installation.driver = "SQLNCLI"
  /\ installation.mars

\* Faulty: text is decoded for drivers that support UTF-8.
FormatTheOthers(row) ==
  <<row[1], IF installation.utf8 /\ row[2] = "bytes" THEN "text" ELSE row[2]>>

\* format_results.
FormatResults(row) ==
  <<row[1], IF ~ installation.utf8 /\ row[2] = "bytes" THEN "text" ELSE row[2]>>

\* Faulty: with fetchmany's answer an iterator that equals no list.
ManyAsIterator(k) == "iterator"

\* What fetchmany gives for k rows: a list, empty or not.
Many(k) == IF k = 0 THEN "empty list" ELSE "list"

\* features.empty_fetchmany_value, on which cursor_iter ends.
EmptyFetchmanyValue == "empty list"

-----------------------------------------------------------------------------
(* Statements.                                                             *)

Ends(c, how, why) ==
  /\ phase' = [phase EXCEPT ![c] = how]
  /\ pending' = [pending EXCEPT ![c] = FALSE]
  /\ error' = [error EXCEPT ![c] = why]

\* How a statement on c may go: the driver refuses it on a busy session, or for
\* reasons of its own.
Answers(c) == {"DatabaseError", IF Busy(c) THEN "busy" ELSE "none"}

\* CursorWrapper.execute of a SELECT with n rows, to be read in the way `how'.
Execute(c, n, how) ==
  /\ size' = [size EXCEPT ![c] = n]
  /\ fetched' = [fetched EXCEPT ![c] = 0]
  /\ got' = [got EXCEPT ![c] = <<>>]
  /\ \E answer \in Answers(c) :
       /\ phase' = [phase EXCEPT ![c] = IF answer = "none" THEN how ELSE "failed"]
       /\ pending' = [pending EXCEPT ![c] = answer = "none"]
       /\ error' = [error EXCEPT ![c] = answer]
  /\ UNCHANGED installation

\* A queryset is evaluated: Django's SQLCompiler.execute_sql reads all of its
\* rows into a list unless the backend can use chunked reads.  (A program that asks
\* for iterator() gets chunks whatever the backend says; that is its own affair.)
Evaluate(c, n) ==
  /\ phase[c] \notin Exclusive \cup {"reading"}
  /\ NoOtherIsExclusive(c)
  /\ Execute(c, n, IF ChunkedReads THEN "reading" ELSE "listing")

\* The program uses a cursor itself.
ExecuteRaw(c, n) ==
  /\ phase[c] \notin Exclusive \cup {"reading"}
  /\ NoOtherIsExclusive(c)
  /\ Execute(c, n, "raw")

\* executemany: without parameters, a statement with placeholders does nothing, and
\* one without them is refused by the driver.
ExecuteMany(c, hasParams, hasPlaceholders) ==
  /\ phase[c] \notin Exclusive \cup {"reading"}
  /\ NoOtherIsExclusive(c)
  /\ hasParams \/ ~ hasPlaceholders
  /\ \E answer \in Answers(c) :
       /\ ~ hasParams => answer = "DatabaseError"
       /\ Ends(c, IF answer = "none" THEN "done" ELSE "failed", answer)
  /\ size' = [size EXCEPT ![c] = 0]
  /\ fetched' = [fetched EXCEPT ![c] = 0]
  /\ got' = [got EXCEPT ![c] = <<>>]
  /\ UNCHANGED installation

-----------------------------------------------------------------------------
(* Rows.                                                                   *)

\* Faulty: every chunk is taken for a full one.
HandsOutFull(c, k, n) ==
  /\ k = n
  /\ fetched' = [fetched EXCEPT ![c] = @ + k]
  /\ got' = [got EXCEPT ![c] =
               @ \o [i \in 1..k |-> FormatResults(DriverRow(fetched[c] + i))]]
  /\ UNCHANGED <<installation, size>>

\* The driver is asked for n rows and hands out k; fewer than n mean that it has
\* seen the end of the result.
HandsOut(c, k, n) ==
  /\ k = IF size[c] - fetched[c] < n THEN size[c] - fetched[c] ELSE n
  /\ fetched' = [fetched EXCEPT ![c] = @ + k]
  /\ got' = [got EXCEPT ![c] =
               @ \o [i \in 1..k |-> FormatResults(DriverRow(fetched[c] + i))]]
  /\ UNCHANGED <<installation, size>>

\* cursor_iter: fetchmany until its answer is the empty one, then close().
FetchMany(c) ==
  /\ phase[c] \in {"listing", "reading"}
  /\ NoOtherIsExclusive(c)
  /\ \E k \in 0..Chunk :
       /\ HandsOut(c, k, Chunk)
       /\ IF Many(k) = EmptyFetchmanyValue
          THEN Ends(c, "done", "none")
          ELSE /\ pending' = [pending EXCEPT ![c] = k = Chunk]
               /\ UNCHANGED <<phase, error>>

\* fetchone gives [] when there are no more rows; the program then goes on.
FetchOne(c) ==
  /\ phase[c] = "raw"
  /\ \E k \in 0..1 :
       /\ HandsOut(c, k, 1)
       /\ IF k = 0
          THEN Ends(c, "done", "none")
          ELSE UNCHANGED <<phase, pending, error>>

\* fetchall, and the program goes on.
FetchAll(c) ==
  /\ phase[c] = "raw"
  /\ \E k \in 0..MaxRows : HandsOut(c, k, MaxRows + 1)
  /\ Ends(c, "done", "none")

\* The driver raises; cursor_iter closes the cursor, the program drops its own.
FetchFails(c) ==
  /\ phase[c] \in {"listing", "reading", "raw"}
  /\ NoOtherIsExclusive(c)
  /\ Ends(c, "failed", "driver's error")
  /\ UNCHANGED <<installation, size, fetched, got>>

\* The program leaves the rest of a queryset, or closes its own cursor.
Abandon(c) ==
  /\ phase[c] \in {"reading", "raw"}
  /\ NoOtherIsExclusive(c)
  /\ Ends(c, "abandoned", "none")
  /\ UNCHANGED <<installation, size, fetched, got>>

Init ==
  /\ installation \in Installations
  /\ phase = [c \in Cursors |-> "idle"]
  /\ size = [c \in Cursors |-> 0]
  /\ fetched = [c \in Cursors |-> 0]
  /\ pending = [c \in Cursors |-> FALSE]
  /\ got = [c \in Cursors |-> <<>>]
  /\ error = [c \in Cursors |-> "none"]

Fetch(c) == FetchMany(c) \/ FetchOne(c) \/ FetchAll(c)

Next ==
  \E c \in Cursors :
    \/ \E n \in 0..MaxRows : Evaluate(c, n) \/ ExecuteRaw(c, n)
    \/ \E hasParams, hasPlaceholders \in BOOLEAN :
         ExecuteMany(c, hasParams, hasPlaceholders)
    \/ FetchMany(c)
    \/ FetchOne(c)
    \/ FetchAll(c)
    \/ FetchFails(c)
    \/ Abandon(c)

Spec == Init /\ [][Next]_vars

\* A program that reads a cursor to its end keeps reading.
FairSpec == Spec /\ \A c \in Cursors : WF_vars(Fetch(c))

-----------------------------------------------------------------------------
(* Properties.                                                             *)

\* The type of what readers have, and which errors they may meet (base.py:428-571).
TypeOK ==
  /\ installation \in Installations
  /\ phase \in [Cursors -> Phases]
  /\ size \in [Cursors -> 0..MaxRows]
  /\ fetched \in [Cursors -> 0..MaxRows]
  /\ pending \in [Cursors -> BOOLEAN]
  /\ got \in [Cursors -> Seq(Row)]
  /\ error \in [Cursors -> {"none", "busy", "DatabaseError", "driver's error"}]

\* However querysets are read in between each other, no statement of the program
\* meets a session that is busy with another's rows: chunked reads are used only
\* where the driver can have several results pending (base.py:371-381).
NeverBusy == \A c \in Cursors : error[c] # "busy"

\* A reader has been given, in order, the rows that the driver has handed out, as
\* text whatever the driver makes of it, and a reader that came to the end has all
\* of them (CursorWrapper.fetchone, fetchmany, fetchall and format_results).
RowsInOrder ==
  \A c \in Cursors :
    /\ got[c] = [i \in 1..fetched[c] |-> <<i, "text">>]
    /\ phase[c] = "done" => fetched[c] = size[c]

\* A cursor that is read to the end before anything else happens comes to its end:
\* what fetchmany gives for no rows is what Django's cursor_iter waits for.
ReadersEnd ==
  \A c \in Cursors : phase[c] \in Exclusive ~> phase[c] \notin Exclusive
=============================================================================
