---------------------------- MODULE CursorsProofs ----------------------------
(***************************************************************************)
(* Proofs about Cursors: types, rows in order, and no busy session.        *)
(*                                                                         *)
(* Two facts make the inductive invariant.  A session that cannot have     *)
(* several results pending has them only for a reader that nothing else    *)
(* runs beside; and what a reader has been given is the beginning of the   *)
(* result that the driver has handed out.                                  *)
(***************************************************************************)
EXTENDS Cursors, SequenceTheorems, TLAPS

Errors == {"none", "busy", "DatabaseError", "driver's error"}

\* The first n rows of a result, as text.
Rows(n) == [i \in 1..n |-> <<i, "text">>]

Types ==
  /\ installation \in Installations
  /\ phase \in [Cursors -> Phases]
  /\ size \in [Cursors -> 0..MaxRows]
  /\ fetched \in [Cursors -> 0..MaxRows]
  /\ pending \in [Cursors -> BOOLEAN]
  /\ error \in [Cursors -> Errors]

Delivered(c) ==
  /\ fetched[c] <= size[c]
  /\ got[c] = Rows(fetched[c])
  /\ phase[c] = "done" => fetched[c] = size[c]

Polite(c) ==
  /\ error[c] # "busy"
  /\ phase[c] = "reading" => ChunkedReads
  /\ pending[c] => phase[c] \in Exclusive \cup {"reading"}

IInv ==
  /\ Types
  /\ got \in [Cursors -> Seq(Row)]
  /\ \A c \in Cursors : Delivered(c) /\ Polite(c)

-----------------------------------------------------------------------------
(* Rows.                                                                   *)

\* Chunked reads are used only where several results may be pending.
LEMMA ChunksNeedMars == ChunkedReads => Multiple
BY DEF ChunkedReads, Multiple

\* A statement that runs while no other reader is exclusive finds the session free.
LEMMA Free ==
  ASSUME IInv, NEW c \in Cursors, NoOtherIsExclusive(c)
  PROVE  "busy" \notin Answers(c)
<1>1. ASSUME NEW d \in Cursors \ {c}, pending[d] PROVE Multiple
  BY <1>1, ChunksNeedMars DEF IInv, Polite, NoOtherIsExclusive
<1>2. ~ Busy(c)
  BY <1>1 DEF Busy
<1> QED
  BY <1>2 DEF Answers

\* Whatever the driver makes of a row, its reader gets text.
LEMMA AsText ==
  ASSUME NEW j
  PROVE  FormatResults(DriverRow(j)) = <<j, "text">>
BY DEF FormatResults, DriverRow

LEMMA RowsType ==
  ASSUME NEW n \in 0..MaxRows
  PROVE  Rows(n) \in Seq(Row) /\ Len(Rows(n)) = n
<1>1. MaxRows \in Nat /\ n \in Nat
  BY CursorsAssumption
<1>2. \A i \in 1..n : <<i, "text">> \in Row
  BY <1>1 DEF Row
<1>3. Rows(n) \in [1..n -> Row]
  BY <1>2, Zenon DEF Rows
<1>4. Rows(n) \in Seq(Row)
  BY <1>1, <1>3, LenProperties
<1>5. DOMAIN Rows(n) = 1..n
  BY DEF Rows
<1> QED
  BY <1>1, <1>4, <1>5

\* The first n rows and the next k are the first n + k.
LEMMA RowsGrow ==
  ASSUME NEW n \in Nat, NEW k \in Nat, n + k \in 0..MaxRows
  PROVE  Rows(n) \o [i \in 1..k |-> <<n + i, "text">>] = Rows(n + k)
<1> DEFINE more == [i \in 1..k |-> <<n + i, "text">>]
           both == Rows(n) \o more
<1>0. MaxRows \in Nat /\ n \in 0..MaxRows
  BY CursorsAssumption
<1>1. \A i \in 1..k : <<n + i, "text">> \in Row
  <2> SUFFICES ASSUME NEW i \in 1..k PROVE <<n + i, "text">> \in Row
    OBVIOUS
  <2>1. n + i \in 1..MaxRows
    BY <1>0
  <2> QED
    BY <2>1 DEF Row
<1>2. more \in Seq(Row) /\ Len(more) = k
  <2>1. more \in [1..k -> Row]
    BY <1>1, Zenon
  <2>2. more \in Seq(Row)
    BY <2>1, LenProperties
  <2> QED
    BY <2>2
<1>3. Rows(n) \in Seq(Row) /\ Len(Rows(n)) = n
  BY <1>0, RowsType
<1>4. Rows(n + k) \in Seq(Row) /\ Len(Rows(n + k)) = n + k
  BY RowsType
<1>5. both \in Seq(Row) /\ Len(both) = n + k
  BY <1>2, <1>3
<1>6. ASSUME NEW i \in 1..(n + k) PROVE both[i] = Rows(n + k)[i]
  <2>1. Rows(n + k)[i] = <<i, "text">>
    BY DEF Rows
  <2>2. CASE i <= n
    <3>1. both[i] = Rows(n)[i]
      BY <1>2, <1>3, <2>2
    <3>2. Rows(n)[i] = <<i, "text">>
      BY <2>2 DEF Rows
    <3> QED
      BY <2>1, <3>1, <3>2, Zenon
  <2>3. CASE i > n
    <3>1. i - n \in 1..k
      BY <2>3
    <3>2. both[i] = more[i - n]
      <4> HIDE DEF more
      <4>1. \A j \in 1..(Len(Rows(n)) + Len(more)) :
              both[j] = IF j <= Len(Rows(n)) THEN Rows(n)[j] ELSE more[j - Len(Rows(n))]
        BY <1>2, <1>3, ConcatProperties
      <4>2. i \in 1..(Len(Rows(n)) + Len(more)) /\ ~ (i <= Len(Rows(n)))
        BY <1>2, <1>3, <2>3
      <4> QED
        BY <1>3, <4>1, <4>2
    <3>3. more[i - n] = <<n + (i - n), "text">>
      BY <3>1, Zenon
    <3>4. n + (i - n) = i
      OBVIOUS
    <3>5. both[i] = <<i, "text">>
      <4> HIDE DEF both, more
      <4> QED
        BY <3>2, <3>3, <3>4, Zenon
    <3> QED
      BY <2>1, <3>5, Zenon
  <2>4. i <= n \/ i > n
    OBVIOUS
  <2> QED
    BY <2>2, <2>3, <2>4, Zenon
<1> QED
  <2>1. Len(both) = Len(Rows(n + k))
    BY <1>4, <1>5
  <2>2. \A i \in 1..Len(both) : both[i] = Rows(n + k)[i]
    BY <1>5, <1>6
  <2> HIDE DEF both
  <2>3. both = Rows(n + k)
    BY <1>4, <1>5, <2>1, <2>2, SeqEqual
  <2> QED
    BY <2>3 DEF both

\* What the driver hands out carries on where its reader was.
LEMMA HandsOutStep ==
  ASSUME IInv, NEW c \in Cursors, NEW n \in Nat, NEW k \in Nat, HandsOut(c, k, n)
  PROVE  /\ fetched' \in [Cursors -> 0..MaxRows]
         /\ got' \in [Cursors -> Seq(Row)]
         /\ fetched'[c] = fetched[c] + k
         /\ fetched'[c] <= size[c]
         /\ k < n => fetched'[c] = size[c]
         /\ got'[c] = Rows(fetched'[c])
         /\ \A d \in Cursors \ {c} : fetched'[d] = fetched[d] /\ got'[d] = got[d]
         /\ UNCHANGED <<installation, size>>
<1>1. /\ MaxRows \in Nat /\ size[c] \in 0..MaxRows /\ fetched[c] \in 0..MaxRows
      /\ fetched[c] <= size[c]
  BY CursorsAssumption DEF IInv, Types, Delivered
<1>2. k = IF size[c] - fetched[c] < n THEN size[c] - fetched[c] ELSE n
  BY DEF HandsOut
<1>3. /\ fetched[c] + k \in 0..MaxRows
      /\ fetched[c] + k <= size[c]
      /\ k < n => fetched[c] + k = size[c]
  BY <1>1, <1>2
<1>4. [i \in 1..k |-> FormatResults(DriverRow(fetched[c] + i))]
        = [i \in 1..k |-> <<fetched[c] + i, "text">>]
  BY AsText, Zenon
<1>5. got[c] = Rows(fetched[c])
  BY DEF IInv, Delivered
<1>6. Rows(fetched[c]) \o [i \in 1..k |-> <<fetched[c] + i, "text">>]
        = Rows(fetched[c] + k)
  <2>1. fetched[c] \in Nat
    BY <1>1
  <2> QED
    BY <1>3, <2>1, RowsGrow, Zenon
<1>7. got' = [got EXCEPT ![c] = Rows(fetched[c] + k)]
  <2>1. got' = [got EXCEPT ![c] =
                  got[c] \o [i \in 1..k |-> FormatResults(DriverRow(fetched[c] + i))]]
    BY DEF HandsOut
  <2> QED
    BY <1>4, <1>5, <1>6, <2>1, Zenon
<1>8. Rows(fetched[c] + k) \in Seq(Row)
  BY <1>3, RowsType
<1> QED
  BY <1>3, <1>7, <1>8 DEF HandsOut, IInv, Types

-----------------------------------------------------------------------------
(* Steps.                                                                  *)

LEMMA InitInv == Init => IInv
<1> SUFFICES ASSUME Init PROVE IInv
  OBVIOUS
<1>1. 0 \in 0..MaxRows
  BY CursorsAssumption
<1>2. Rows(0) = <<>>
  <2>1. Rows(0) \in Seq(Row) /\ Len(Rows(0)) = 0
    BY <1>1, RowsType
  <2> QED
    BY <2>1
<1>3. <<>> \in Seq(Row)
  OBVIOUS
<1> QED
  BY <1>1, <1>2, <1>3 DEF Init, IInv, Types, Phases, Errors, Delivered, Polite

\* What holds of a cursor is kept by a step that leaves it alone.
LEMMA Others ==
  ASSUME NEW d \in Cursors, Delivered(d), Polite(d), UNCHANGED installation,
         phase'[d] = phase[d], size'[d] = size[d], fetched'[d] = fetched[d],
         pending'[d] = pending[d], got'[d] = got[d], error'[d] = error[d]
  PROVE  Delivered(d)' /\ Polite(d)'
BY DEF Delivered, Polite, Rows, ChunkedReads

\* A new result: nothing of it has been handed out.
LEMMA ExecuteStep ==
  ASSUME IInv, NEW c \in Cursors, NEW n \in 0..MaxRows, NEW how \in Phases,
         NoOtherIsExclusive(c), Execute(c, n, how),
         how \in Exclusive \cup {"reading"},
         how = "reading" => ChunkedReads
  PROVE  IInv'
<1>1. PICK answer \in Answers(c) :
        /\ phase' = [phase EXCEPT ![c] = IF answer = "none" THEN how ELSE "failed"]
        /\ pending' = [pending EXCEPT ![c] = answer = "none"]
        /\ error' = [error EXCEPT ![c] = answer]
  BY DEF Execute
<1>2. answer \in Errors /\ answer # "busy"
  BY Free DEF Answers, Errors
<1>3. /\ size' = [size EXCEPT ![c] = n]
      /\ fetched' = [fetched EXCEPT ![c] = 0]
      /\ got' = [got EXCEPT ![c] = <<>>]
      /\ UNCHANGED installation
  BY DEF Execute
<1>4. 0 \in 0..MaxRows /\ 0 <= n /\ <<>> \in Seq(Row)
  BY CursorsAssumption
<1>5. Rows(0) = <<>>
  BY <1>4, RowsType
<1>6. Types' /\ got' \in [Cursors -> Seq(Row)]
  BY <1>1, <1>2, <1>3, <1>4 DEF IInv, Types, Phases, Errors
<1>7. Delivered(c)'
  <2>1. fetched'[c] = 0 /\ size'[c] = n /\ got'[c] = <<>> /\ phase'[c] # "done"
    BY <1>1, <1>3 DEF IInv, Types, Exclusive
  <2> QED
    BY <1>4, <1>5, <2>1 DEF Delivered, Rows
<1>8. Polite(c)'
  <2>1. error'[c] = answer /\ pending'[c] = (answer = "none")
    BY <1>1 DEF IInv, Types
  <2>2. phase'[c] = IF answer = "none" THEN how ELSE "failed"
    BY <1>1 DEF IInv, Types
  <2>3. ChunkedReads' = ChunkedReads
    BY <1>3 DEF ChunkedReads
  <2> QED
    BY <1>2, <2>1, <2>2, <2>3 DEF Polite, Exclusive
<1>9. ASSUME NEW d \in Cursors, d # c PROVE Delivered(d)' /\ Polite(d)'
  BY <1>1, <1>3, <1>9, Others DEF IInv, Types
<1> QED
  BY <1>6, <1>7, <1>8, <1>9 DEF IInv

LEMMA ExecuteManyStep ==
  ASSUME IInv, NEW c \in Cursors, NEW p \in BOOLEAN, NEW q \in BOOLEAN,
         ExecuteMany(c, p, q)
  PROVE  IInv'
<1>1. PICK answer \in Answers(c) :
        Ends(c, IF answer = "none" THEN "done" ELSE "failed", answer)
  BY DEF ExecuteMany
<1>2. answer \in Errors /\ answer # "busy"
  BY Free DEF ExecuteMany, Answers, Errors
<1>3. /\ size' = [size EXCEPT ![c] = 0]
      /\ fetched' = [fetched EXCEPT ![c] = 0]
      /\ got' = [got EXCEPT ![c] = <<>>]
      /\ UNCHANGED installation
  BY DEF ExecuteMany
<1>4. 0 \in 0..MaxRows /\ <<>> \in Seq(Row)
  BY CursorsAssumption
<1>5. Rows(0) = <<>>
  BY <1>4, RowsType
<1>6. Types' /\ got' \in [Cursors -> Seq(Row)]
  BY <1>1, <1>2, <1>3, <1>4 DEF IInv, Types, Phases, Errors, Ends
<1>7. Delivered(c)'
  <2>1. fetched'[c] = 0 /\ size'[c] = 0 /\ got'[c] = <<>>
    BY <1>3 DEF IInv, Types
  <2> QED
    BY <1>5, <2>1 DEF Delivered, Rows
<1>8. Polite(c)'
  BY <1>1, <1>2 DEF IInv, Types, Ends, Polite
<1>9. ASSUME NEW d \in Cursors, d # c PROVE Delivered(d)' /\ Polite(d)'
  BY <1>1, <1>3, <1>9, Others DEF IInv, Types, Ends
<1> QED
  BY <1>6, <1>7, <1>8, <1>9 DEF IInv

\* Rows are handed out, and the reader comes to its end only with the last of them.
LEMMA FetchStep ==
  ASSUME IInv, NEW c \in Cursors, NEW n \in Nat, NEW k \in Nat, HandsOut(c, k, n),
         phase[c] \in Exclusive \cup {"reading"},
         \/ Ends(c, "done", "none") /\ k < n
         \/ UNCHANGED <<phase, error>> /\ pending' \in {pending, [pending EXCEPT ![c] = k = n]}
  PROVE  IInv'
<1>1. /\ fetched' \in [Cursors -> 0..MaxRows]
      /\ got' \in [Cursors -> Seq(Row)]
      /\ fetched'[c] <= size[c]
      /\ k < n => fetched'[c] = size[c]
      /\ got'[c] = Rows(fetched'[c])
      /\ \A d \in Cursors \ {c} : fetched'[d] = fetched[d] /\ got'[d] = got[d]
      /\ UNCHANGED <<installation, size>>
  BY HandsOutStep
<1>2. Types'
  BY <1>1 DEF IInv, Types, Ends, Phases, Errors
<1>3. Delivered(c)'
  <2>1. phase'[c] = "done" => k < n
    BY DEF Ends, Exclusive
  <2> QED
    BY <1>1, <2>1 DEF Delivered, Rows
<1>4. ChunkedReads' = ChunkedReads
  BY <1>1 DEF ChunkedReads
<1>5. Polite(c)'
  <2>1. CASE Ends(c, "done", "none")
    BY <2>1 DEF IInv, Types, Ends, Polite
  <2>2. CASE UNCHANGED <<phase, error>>
    BY <1>4, <2>2 DEF IInv, Polite
  <2> QED
    BY <2>1, <2>2
<1>6. ASSUME NEW d \in Cursors, d # c PROVE Delivered(d)' /\ Polite(d)'
  <2>1. phase'[d] = phase[d] /\ error'[d] = error[d] /\ pending'[d] = pending[d]
    BY <1>6 DEF IInv, Types, Ends
  <2> QED
    BY <1>1, <1>6, <2>1, Others DEF IInv
<1> QED
  BY <1>1, <1>2, <1>3, <1>5, <1>6 DEF IInv

\* A reader gives up.
LEMMA GiveUpStep ==
  ASSUME IInv, NEW c \in Cursors, FetchFails(c) \/ Abandon(c)
  PROVE  IInv'
<1>1. PICK how \in {"failed", "abandoned"}, why \in {"driver's error", "none"} :
        Ends(c, how, why) /\ UNCHANGED <<installation, size, fetched, got>>
  BY DEF FetchFails, Abandon
<1>2. Types'
  BY <1>1 DEF IInv, Types, Ends, Phases, Errors
<1>3. Delivered(c)' /\ Polite(c)'
  BY <1>1 DEF IInv, Types, Delivered, Polite, Rows, Ends
<1>4. ASSUME NEW d \in Cursors, d # c PROVE Delivered(d)' /\ Polite(d)'
  BY <1>1, <1>4, Others DEF IInv, Types, Ends
<1> QED
  BY <1>1, <1>2, <1>3, <1>4 DEF IInv

LEMMA NextInv == IInv /\ [Next]_vars => IInv'
<1> SUFFICES ASSUME IInv, [Next]_vars PROVE IInv'
  OBVIOUS
<1>0. Chunk \in Nat \ {0} /\ MaxRows \in Nat
  BY CursorsAssumption
<1>1. CASE UNCHANGED vars
  <2>1. ASSUME NEW d \in Cursors PROVE Delivered(d)' /\ Polite(d)'
    BY <1>1, Others DEF IInv, vars
  <2> QED
    BY <1>1, <2>1 DEF IInv, Types, vars
<1>2. ASSUME NEW c \in Cursors, NEW n \in 0..MaxRows, Evaluate(c, n) PROVE IInv'
  <2>1. PICK how \in {"reading", "listing"} :
          Execute(c, n, how) /\ (how = "reading" => ChunkedReads)
    BY <1>2 DEF Evaluate
  <2> QED
    BY <1>2, <2>1, ExecuteStep DEF Evaluate, Phases, Exclusive
<1>3. ASSUME NEW c \in Cursors, NEW n \in 0..MaxRows, ExecuteRaw(c, n) PROVE IInv'
  BY <1>3, ExecuteStep DEF ExecuteRaw, Phases, Exclusive
<1>4. ASSUME NEW c \in Cursors, NEW p \in BOOLEAN, NEW q \in BOOLEAN, ExecuteMany(c, p, q)
      PROVE  IInv'
  BY <1>4, ExecuteManyStep
<1>5. ASSUME NEW c \in Cursors, FetchMany(c) PROVE IInv'
  <2>1. PICK k \in 0..Chunk :
          /\ HandsOut(c, k, Chunk)
          /\ \/ Ends(c, "done", "none") /\ k = 0
             \/ pending' = [pending EXCEPT ![c] = k = Chunk] /\ UNCHANGED <<phase, error>>
    BY <1>5 DEF FetchMany, Many, EmptyFetchmanyValue
  <2>2. k \in Nat /\ (k = 0 => k < Chunk)
    BY <1>0
  <2> QED
    BY <1>0, <1>5, <2>1, <2>2, FetchStep DEF FetchMany, Exclusive
<1>6. ASSUME NEW c \in Cursors, FetchOne(c) PROVE IInv'
  <2>1. PICK k \in 0..1 :
          /\ HandsOut(c, k, 1)
          /\ \/ Ends(c, "done", "none") /\ k = 0
             \/ UNCHANGED <<phase, pending, error>>
    BY <1>6 DEF FetchOne
  <2>2. k \in Nat /\ 1 \in Nat /\ (k = 0 => k < 1)
    OBVIOUS
  <2> QED
    BY <1>6, <2>1, <2>2, FetchStep DEF FetchOne, Exclusive
<1>7. ASSUME NEW c \in Cursors, FetchAll(c) PROVE IInv'
  <2>1. PICK k \in 0..MaxRows : HandsOut(c, k, MaxRows + 1)
    BY <1>7 DEF FetchAll
  <2>2. k \in Nat /\ MaxRows + 1 \in Nat /\ k < MaxRows + 1
    BY <1>0
  <2> QED
    BY <1>7, <2>1, <2>2, FetchStep DEF FetchAll, Exclusive
<1>8. ASSUME NEW c \in Cursors, FetchFails(c) \/ Abandon(c) PROVE IInv'
  BY <1>8, GiveUpStep
<1> QED
  BY <1>1, <1>2, <1>3, <1>4, <1>5, <1>6, <1>7, <1>8 DEF Next

-----------------------------------------------------------------------------
\* The inductive invariant holds in every reachable state, for every set of cursors,
\* every driver and server, and results and chunks of any size.
THEOREM Invariance == Spec => []IInv
BY InitInv, NextInv, PTL DEF Spec

\* Type correctness (property TypeOK).
THEOREM TypeCorrect == Spec => []TypeOK
<1>1. IInv => TypeOK
  BY DEF IInv, Types, Errors, TypeOK
<1> QED
  BY <1>1, Invariance, PTL

\* No statement of the program meets a busy session (property NeverBusy), however
\* many cursors it has: base.py:371-381.
THEOREM NobodyIsBusy == Spec => []NeverBusy
<1>1. IInv => NeverBusy
  BY DEF IInv, Polite, NeverBusy
<1> QED
  BY <1>1, Invariance, PTL

\* Every reader is given the rows of its result in order, as text, and all of them
\* when it comes to the end (property RowsInOrder): CursorWrapper's fetch methods.
THEOREM Ordered == Spec => []RowsInOrder
<1>1. IInv => RowsInOrder
  BY DEF IInv, Delivered, Rows, RowsInOrder
<1> QED
  BY <1>1, Invariance, PTL
=============================================================================
