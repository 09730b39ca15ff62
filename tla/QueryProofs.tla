--------------------------- MODULE QueryProofs -----------------------------
(***************************************************************************)
(* Proofs about what SQLCompiler does to a SELECT and about the values     *)
(* bound to it: Slicing in every situation in which it is right, Rewriting *)
(* for every SELECT of the kind Django writes, and Lookups for every text, *)
(* name and moment, and for decimals with any number of digits.            *)
(*                                                                         *)
(* Slicing.  For every table, ordering, page size and way of reading, each *)
(* page is a slice, no row is read twice although rows are deleted in      *)
(* between, and a reader that has come to the end has read all of the      *)
(* table.  Everything rests on one fact about a step that reads            *)
(* (ReadsSlice): the new page is the rows at the places low + 1 to low' in *)
(* an order that ORDER BY allows.  For a TOP inside a TOP, which may break *)
(* ties differently, that order has to be found (TopInTopIsSlice).  If the *)
(* ordering tells the rows apart, the place of a row is its rank, whatever *)
(* the order of the ties; deleting rows only lowers ranks; so the rows     *)
(* read so far stay at ranks up to low.                                    *)
(*                                                                         *)
(* Rewriting.  The text between two commas is a column only if the commas  *)
(* inside parentheses are out of the way, which is what _break's           *)
(* placeholders are for.  The argument therefore follows two texts at once *)
(* (ScanInv): the buffers of _break, which with their placeholders         *)
(* expanded are what has been read of the statement, and the skeleton of   *)
(* that text, which has one placeholder for what is in parentheses.  The   *)
(* first buffer is the skeleton, but for the keys of the placeholders      *)
(* (Alike); so its commas are those between columns, Split gives whole     *)
(* columns (Wholes), and each of them expands to a column that Django      *)
(* wrote.                                                                  *)
(*                                                                         *)
(* Lookups.  Each Replaced goes character by character, so their nesting   *)
(* does (PreparedIs): an escape is never escaped again.  LIKE, reading the *)
(* escape of a character, goes on to the places behind that character      *)
(* (IsFound), and so behind a whole text (Behind); the two % around it are *)
(* any place before and behind.  A decimal passes a float that is off by   *)
(* less than nine twentieths of its last digit; printing one digit more    *)
(* moves it by a twentieth at most, so that the column rounds it back.     *)
(***************************************************************************)
EXTENDS Slicing, Rewriting, Lookups, SequenceTheorems, FiniteSetTheorems,
        WellFoundedInduction, TLAPS

\* Servers that have ROW_NUMBER.
Modern(e) == e \in {"2005", "db2"}

\* Whether the last column of an ordering is all of it.
SingleColumn(o) == o.given => o.lastKey = o.sortKey

\* The situations in which slices are right: every reader of a server with ROW_NUMBER, and
\* without it Django's Paginator, on a table that nobody changes and in orderings of one
\* column, since a TOP inside a TOP counts from the end of the inner one and is ordered by
\* the last column (compiler.py:288-290).
Supported ==
  \A s \in Situations :
    \/ Modern(s[2])
    \/ s[1] = "paginator" /\ ~ s[3] /\ \A o \in Orders : SingleColumn(o)

\* How many rows have a key that is no greater than that of r.
Rank(r, rows, k) == Cardinality({s \in rows : k[s] <= k[r]})

-----------------------------------------------------------------------------
(* Ranks and places.                                                       *)

\* Sets of rows are finite and no larger than Rows.
LEMMA FiniteRows ==
  ASSUME NEW rows \in SUBSET Rows
  PROVE  /\ IsFiniteSet(rows)
         /\ Cardinality(rows) \in Nat
         /\ Cardinality(rows) <= Cardinality(Rows)
         /\ Cardinality(Rows) \in Nat
BY FS_Subset, FS_CardinalityType, SlicingAssumption

\* The places of a set of rows are the numbers from 1 to its size.
LEMMA PositionRange ==
  ASSUME NEW rows \in SUBSET Rows, NEW k, NEW t, NEW r
  PROVE  /\ Position(r, rows, k, t) \in Nat
         /\ Position(r, rows, k, t) <= Cardinality(rows)
<1> DEFINE before == {s \in rows : k[s] < k[r] \/ (k[s] = k[r] /\ t[s] <= t[r])}
<1>1. before \in SUBSET rows
  OBVIOUS
<1>2. IsFiniteSet(rows)
  BY FiniteRows
<1>3. IsFiniteSet(before) /\ Cardinality(before) <= Cardinality(rows)
  BY <1>1, <1>2, FS_Subset
<1>4. Cardinality(before) \in Nat
  BY <1>3, FS_CardinalityType
<1> QED
  BY <1>3, <1>4 DEF Position

\* No row stands at place 0.
LEMMA PositionPositive ==
  ASSUME NEW rows \in SUBSET Rows, NEW k \in [Rows -> Nat], NEW t \in TieOrders,
         NEW r \in rows
  PROVE  0 < Position(r, rows, k, t)
<1> DEFINE before == {s \in rows : k[s] < k[r] \/ (k[s] = k[r] /\ t[s] <= t[r])}
<1>1. t[r] \in Nat
  BY FiniteRows DEF TieOrders
<1>2. r \in before
  BY <1>1
<1>3. before \in SUBSET Rows
  OBVIOUS
<1>4. IsFiniteSet(before) /\ Cardinality(before) \in Nat
  BY <1>3, FiniteRows
<1>5. Cardinality(before) # 0
  BY <1>2, <1>4, FS_EmptySet
<1> QED
  BY <1>4, <1>5 DEF Position

\* With an ordering that tells the rows apart, ties do not matter.
LEMMA PositionIsRank ==
  ASSUME NEW rows \in SUBSET Rows, NEW o \in Order, Distinguishes(o),
         NEW t \in TieOrders, NEW r \in Rows
  PROVE  Position(r, rows, o.sortKey, t) = Rank(r, rows, o.sortKey)
<1> DEFINE k == o.sortKey
<1>1. k \in [Rows -> Nat]
  BY DEF Order
<1>2. \A s \in Rows : k[s] = k[r] => s = r
  BY DEF Distinguishes
<1>3. t[r] \in Nat
  BY FiniteRows DEF TieOrders
<1> HIDE DEF k
<1>4. {s \in rows : k[s] < k[r] \/ (k[s] = k[r] /\ t[s] <= t[r])}
        = {s \in rows : k[s] <= k[r]}
  BY <1>1, <1>2, <1>3
<1> QED
  BY <1>4 DEF Position, Rank, k

\* Ranks are numbers up to the size of the table, and deleting rows lowers them.
LEMMA RankBounds ==
  ASSUME NEW rows \in SUBSET Rows, NEW k, NEW r
  PROVE  /\ Rank(r, rows, k) \in Nat
         /\ Rank(r, rows, k) <= Cardinality(rows)
         /\ \A fewer \in SUBSET rows : Rank(r, fewer, k) <= Rank(r, rows, k)
<1> DEFINE upto(set) == {s \in set : k[s] <= k[r]}
<1>1. upto(rows) \in SUBSET rows /\ upto(rows) \in SUBSET Rows
  OBVIOUS
<1>2. IsFiniteSet(rows) /\ IsFiniteSet(upto(rows)) /\ Cardinality(upto(rows)) \in Nat
  BY <1>1, FiniteRows
<1>3. Cardinality(upto(rows)) <= Cardinality(rows)
  BY <1>1, <1>2, FS_Subset
<1>4. ASSUME NEW fewer \in SUBSET rows
      PROVE  Cardinality(upto(fewer)) <= Cardinality(upto(rows))
  <2>1. upto(fewer) \in SUBSET upto(rows)
    OBVIOUS
  <2> HIDE DEF upto
  <2> QED
    BY <2>1, <1>2, FS_Subset
<1> QED
  BY <1>2, <1>3, <1>4 DEF Rank

\* A row that sorts before another has a lower rank.
LEMMA RankStrict ==
  ASSUME NEW rows \in SUBSET Rows, NEW k \in [Rows -> Nat],
         NEW r \in rows, NEW s \in rows, k[r] < k[s]
  PROVE  Rank(r, rows, k) < Rank(s, rows, k)
<1> DEFINE upto(x) == {y \in rows : k[y] <= k[x]}
<1>1. upto(r) \in SUBSET upto(s) /\ s \in upto(s) /\ s \notin upto(r)
  OBVIOUS
<1>2. upto(r) \in SUBSET Rows /\ upto(s) \in SUBSET Rows
  OBVIOUS
<1> HIDE DEF upto
<1>3. IsFiniteSet(upto(s)) /\ Cardinality(upto(s)) \in Nat /\ Cardinality(upto(r)) \in Nat
  BY <1>2, FiniteRows
<1>4. Cardinality(upto(r)) <= Cardinality(upto(s))
  BY <1>1, <1>3, FS_Subset
<1>5. Cardinality(upto(r)) # Cardinality(upto(s))
  BY <1>1, <1>3, FS_Subset
<1>6. Cardinality(upto(r)) < Cardinality(upto(s))
  BY <1>3, <1>4, <1>5
<1> QED
  BY <1>6 DEF Rank, upto
\* A non-empty set of rows has a row that no other sorts before.
LEMMA FirstRow ==
  ASSUME NEW rows \in SUBSET Rows, rows # {}, NEW k \in [Rows -> Nat]
  PROVE  \E r \in rows : \A s \in rows : k[r] <= k[s]
<1> DEFINE keys == {k[r] : r \in rows}
<1>1. keys \subseteq Nat /\ keys # {}
  OBVIOUS
<1>2. PICK n \in keys : \A m \in keys : ~ (<<m, n>> \in OpToRel(<, Nat))
  BY <1>1, NatLessThanWellFounded, WFMin
<1>3. \A m \in keys : ~ (m < n)
  BY <1>1, <1>2 DEF OpToRel
<1>4. PICK r \in rows : n = k[r]
  BY <1>2
<1>5. \A s \in rows : k[r] <= k[s]
  BY <1>3, <1>4
<1> QED
  BY <1>5

\* Ranks have no gap: if no row has a rank between low and high, and high is
\* above low, then no row has a higher rank.
LEMMA NoGap ==
  ASSUME NEW rows \in SUBSET Rows, NEW o \in Order, Distinguishes(o),
         NEW first \in Nat, NEW to \in Nat, first < to,
         \A r \in rows : ~ (first < Rank(r, rows, o.sortKey) /\ Rank(r, rows, o.sortKey) <= to)
  PROVE  \A r \in rows : Rank(r, rows, o.sortKey) <= first
<1> DEFINE k == o.sortKey
           behind == {r \in rows : first < Rank(r, rows, k)}
<1>1. k \in [Rows -> Nat]
  BY DEF Order
<1>2. \A r, s \in Rows : k[r] = k[s] => r = s
  BY DEF Distinguishes
<1>3. \A r \in rows : Rank(r, rows, k) \in Nat
  BY RankBounds
<1>4. \A r \in rows : ~ (first < Rank(r, rows, k) /\ Rank(r, rows, k) <= to)
  OBVIOUS
<1> HIDE DEF k
<1>5. SUFFICES ASSUME behind # {} PROVE FALSE
  BY <1>3 DEF k
<1>6. behind \in SUBSET Rows
  OBVIOUS
<1>7. PICK r \in behind : \A s \in behind : k[r] <= k[s]
  BY <1>1, <1>5, <1>6, FirstRow
<1> DEFINE ahead == {s \in rows : k[s] < k[r]}
<1>8. {s \in rows : k[s] <= k[r]} = ahead \cup {r} /\ r \notin ahead
  BY <1>1, <1>2, <1>7
<1>9. ahead \in SUBSET Rows
  OBVIOUS
<1>10. IsFiniteSet(ahead) /\ Cardinality(ahead) \in Nat
  BY <1>9, FiniteRows
<1>11. Rank(r, rows, k) = Cardinality(ahead) + 1
  BY <1>8, <1>10, FS_AddElement DEF Rank
<1>12. to < Rank(r, rows, k)
  BY <1>3, <1>4, <1>7
<1>13. first < Cardinality(ahead)
  BY <1>10, <1>11, <1>12
<1>14. \A s \in ahead : Rank(s, rows, k) <= first /\ 0 < Rank(s, rows, k)
  <2> TAKE s \in ahead
  <2>1. s \in rows /\ k[s] < k[r] /\ r \in rows
    BY <1>7
  <2>2. s \notin behind
    BY <2>1, <1>1, <1>7
  <2>3. Rank(s, rows, k) <= first
    BY <2>1, <2>2, <1>3
  <2> DEFINE upto == {x \in rows : k[x] <= k[s]}
  <2>4. upto \in SUBSET Rows /\ s \in upto
    BY <1>1, <2>1
  <2>5. IsFiniteSet(upto) /\ Cardinality(upto) \in Nat /\ Cardinality(upto) # 0
    BY <2>4, FiniteRows, FS_EmptySet
  <2>6. 0 < Rank(s, rows, k)
    BY <2>5 DEF Rank
  <2> QED
    BY <2>3, <2>6
<1> DEFINE ranks == [s \in ahead |-> Rank(s, rows, k)]
<1>15. ranks \in [ahead -> 1..first]
  BY <1>14, <1>3
<1>16. IsFiniteSet(1..first) /\ Cardinality(1..first) = first
  BY FS_Interval
<1>17. PICK x \in ahead, y \in ahead : x # y /\ ranks[x] = ranks[y]
  <2> HIDE DEF ahead, ranks
  <2> QED
    BY <1>10, <1>13, <1>15, <1>16, FS_PigeonHole
<1>18. x \in rows /\ y \in rows /\ Rank(x, rows, k) = Rank(y, rows, k)
  BY <1>17
<1>19. k[x] < k[y] \/ k[y] < k[x]
  BY <1>1, <1>2, <1>17, <1>18
<1>20. Rank(x, rows, k) < Rank(y, rows, k) \/ Rank(y, rows, k) < Rank(x, rows, k)
  BY <1>1, <1>18, <1>19, RankStrict
<1> QED
  BY <1>3, <1>18, <1>20

-----------------------------------------------------------------------------
(* What the compiler answers.                                              *)

\* The ties may be broken by primary key.
KeyTies == [r \in Rows |-> Rank(r, Rows, PrimaryKey)]

\* One of the orders of ties is that of the rows themselves.
LEMMA KeyTiesFacts ==
  /\ KeyTies \in TieOrders
  /\ \A r, s \in Rows : KeyTies[s] <= KeyTies[r] <=> s <= r
<1>1. Rows \in SUBSET Rows /\ PrimaryKey \in [Rows -> Nat]
  BY SlicingAssumption DEF PrimaryKey
<1>2. \A r \in Rows : PrimaryKey[r] = r /\ r \in Nat /\ KeyTies[r] = Rank(r, Rows, PrimaryKey)
  BY SlicingAssumption DEF PrimaryKey, KeyTies
<1>3. \A r \in Rows : KeyTies[r] \in Nat /\ KeyTies[r] <= Cardinality(Rows)
  BY <1>1, <1>2, RankBounds
<1>4. \A r, s \in Rows : r < s => KeyTies[r] < KeyTies[s]
  <2> SUFFICES ASSUME NEW r \in Rows, NEW s \in Rows, r < s
               PROVE  KeyTies[r] < KeyTies[s]
    OBVIOUS
  <2>1. PrimaryKey[r] < PrimaryKey[s]
    BY <1>2
  <2>2. Rank(r, Rows, PrimaryKey) < Rank(s, Rows, PrimaryKey)
    BY <1>1, <2>1, RankStrict
  <2> QED
    BY <1>2, <2>2
<1>5. \A r \in Rows : 0 < KeyTies[r]
  <2> SUFFICES ASSUME NEW r \in Rows PROVE 0 < KeyTies[r]
    OBVIOUS
  <2> DEFINE upto == {x \in Rows : PrimaryKey[x] <= PrimaryKey[r]}
  <2>1. upto \in SUBSET Rows /\ r \in upto
    BY <1>2
  <2>2. IsFiniteSet(upto) /\ Cardinality(upto) \in Nat /\ Cardinality(upto) # 0
    BY <2>1, FiniteRows, FS_EmptySet
  <2> QED
    BY <2>2, <1>2 DEF Rank
<1>6. \A r, s \in Rows : KeyTies[s] <= KeyTies[r] <=> s <= r
  BY <1>2, <1>3, <1>4
<1>7. \A r, s \in Rows : KeyTies[s] = KeyTies[r] => s = r
  BY <1>2, <1>3, <1>4
<1>8. KeyTies \in [Rows -> 1..Cardinality(Rows)]
  <2>1. Cardinality(Rows) \in Nat
    BY <1>1, FiniteRows
  <2> QED
    BY <1>2, <1>3, <1>5, <2>1 DEF KeyTies
<1> QED
  BY <1>6, <1>7, <1>8 DEF TieOrders

\* The primary key is one of the orders that no ORDER BY allows.
LEMMA NumberedAsAllowed ==
  ASSUME NEW rows \in SUBSET Rows, NEW o \in Order, NEW t \in TieOrders
  PROVE  \E u \in TieOrders : \A r \in rows :
           Position(r, rows, NumberKey(o), t) = Position(r, rows, AllowedKey(o), u)
<1>1. CASE o.given
  BY <1>1 DEF NumberKey, AllowedKey
<1>2. CASE ~ o.given
  <2> DEFINE zero == [r \in Rows |-> 0]
  <2>1. NumberKey(o) = PrimaryKey /\ AllowedKey(o) = zero
    BY <1>2 DEF NumberKey, AllowedKey
  <2>2. ASSUME NEW r \in rows
        PROVE  Position(r, rows, PrimaryKey, t) = Position(r, rows, zero, KeyTies)
    <3>1. \A s \in rows : PrimaryKey[s] = s /\ s \in Nat /\ zero[s] = 0 /\ s \in Rows
      BY SlicingAssumption DEF PrimaryKey
    <3>2. t[r] \in Nat
      BY FiniteRows DEF TieOrders
    <3>3. \A s \in rows : KeyTies[s] <= KeyTies[r] <=> s <= r
      BY KeyTiesFacts
    <3> HIDE DEF zero
    <3>4. {s \in rows : PrimaryKey[s] < PrimaryKey[r]
                         \/ (PrimaryKey[s] = PrimaryKey[r] /\ t[s] <= t[r])}
          = {s \in rows : zero[s] < zero[r] \/ (zero[s] = zero[r] /\ KeyTies[s] <= KeyTies[r])}
      BY <3>1, <3>2, <3>3
    <3> QED
      BY <3>4 DEF Position
  <2> QED
    BY <2>1, <2>2, KeyTiesFacts
<1> QED
  BY <1>1, <1>2

-----------------------------------------------------------------------------
(* A TOP inside a TOP.                                                     *)

\* R, a set of pairs, puts all of a set in a row.
Sorts(R, S) ==
  /\ \A x \in S : <<x, x>> \in R
  /\ \A x, y \in S : <<x, y>> \in R \/ <<y, x>> \in R
  /\ \A x, y \in S : <<x, y>> \in R /\ <<y, x>> \in R => x = y
  /\ \A x, y, z \in S : <<x, y>> \in R /\ <<y, z>> \in R => <<x, z>> \in R

\* Those of a set that come no later than r.
NotAfter(R, S, r) == {s \in S : <<s, r>> \in R}

\* Those of a set with at most n of them up to themselves.
FirstOnes(R, S, n) == {r \in S : Cardinality(NotAfter(R, S, r)) <= n}

\* A part of a set comes before all the others.
Leads(R, S, part) == \A x \in part, y \in S \ part : <<x, y>> \in R

\* What comes up to a row is a finite set that the row is in.
LEMMA NotAfterIs ==
  ASSUME NEW S \in SUBSET Rows, NEW R, Sorts(R, S), NEW r \in S
  PROVE  /\ NotAfter(R, S, r) \in SUBSET S /\ r \in NotAfter(R, S, r)
         /\ IsFiniteSet(NotAfter(R, S, r))
         /\ Cardinality(NotAfter(R, S, r)) \in 1..Cardinality(S)
<1>1. NotAfter(R, S, r) \in SUBSET S /\ r \in NotAfter(R, S, r)
  BY DEF NotAfter, Sorts
<1>2. IsFiniteSet(S) /\ Cardinality(S) \in Nat
  BY FiniteRows
<1>3. /\ IsFiniteSet(NotAfter(R, S, r)) /\ Cardinality(NotAfter(R, S, r)) <= Cardinality(S)
  BY <1>1, <1>2, FS_Subset
<1>4. Cardinality(NotAfter(R, S, r)) \in Nat /\ Cardinality(NotAfter(R, S, r)) # 0
  BY <1>1, <1>3, FS_CardinalityType, FS_EmptySet
<1> QED
  BY <1>1, <1>2, <1>3, <1>4

\* Who comes before another has fewer up to himself.
LEMMA NotAfterGrows ==
  ASSUME NEW S \in SUBSET Rows, NEW R, Sorts(R, S), NEW x \in S, NEW y \in S, x # y,
         <<x, y>> \in R
  PROVE  Cardinality(NotAfter(R, S, x)) < Cardinality(NotAfter(R, S, y))
<1>1. NotAfter(R, S, x) \in SUBSET NotAfter(R, S, y)
  BY DEF NotAfter, Sorts
<1>2. y \in NotAfter(R, S, y) /\ y \notin NotAfter(R, S, x)
  BY DEF NotAfter, Sorts
<1>3. /\ IsFiniteSet(NotAfter(R, S, y)) /\ Cardinality(NotAfter(R, S, y)) \in Nat
      /\ Cardinality(NotAfter(R, S, x)) \in Nat
  BY NotAfterIs
<1>4. /\ Cardinality(NotAfter(R, S, x)) <= Cardinality(NotAfter(R, S, y))
      /\ Cardinality(NotAfter(R, S, y)) = Cardinality(NotAfter(R, S, x))
           => NotAfter(R, S, y) = NotAfter(R, S, x)
  BY <1>1, <1>3, FS_Subset
<1> QED
  BY <1>2, <1>3, <1>4

\* The first n are n, and they lead.
LEMMA FirstOnesAre ==
  ASSUME NEW S \in SUBSET Rows, NEW R, Sorts(R, S), NEW n \in 0..Cardinality(S)
  PROVE  /\ FirstOnes(R, S, n) \in SUBSET S
         /\ Cardinality(FirstOnes(R, S, n)) = n
         /\ Leads(R, S, FirstOnes(R, S, n))
<1> DEFINE top == FirstOnes(R, S, n)
           all == Cardinality(S)
           place == [r \in S |-> Cardinality(NotAfter(R, S, r))]
<1>1. IsFiniteSet(S) /\ all \in Nat /\ n \in Nat /\ n <= all
  BY FiniteRows
<1>2. place \in [S -> 1..all]
  BY NotAfterIs
<1>3. \A x, y \in S : x # y /\ <<x, y>> \in R => place[x] < place[y]
  BY NotAfterGrows
<1>4. top = {r \in S : place[r] <= n} /\ top \in SUBSET S
  BY DEF FirstOnes
<1> HIDE DEF top, all, place
<1>5. \A x, y \in S : x # y => place[x] # place[y]
  <2> SUFFICES ASSUME NEW x \in S, NEW y \in S, x # y, place[x] = place[y]
               PROVE  FALSE
    OBVIOUS
  <2>1. <<x, y>> \in R \/ <<y, x>> \in R
    BY DEF Sorts
  <2>2. place[x] < place[y] \/ place[y] < place[x]
    BY <1>3, <2>1
  <2>3. place[x] \in Int /\ place[y] \in Int
    BY <1>1, <1>2
  <2> QED
    BY <2>2, <2>3
<1>6. /\ IsFiniteSet(top) /\ Cardinality(top) \in Nat
      /\ IsFiniteSet(S \ top) /\ Cardinality(S \ top) \in Nat
  BY <1>1, <1>4, FS_Subset, FS_CardinalityType
<1>7. Cardinality(top) <= n
  <2> DEFINE f == [r \in top |-> place[r]]
  <2>1. f \in [top -> 1..n]
    BY <1>1, <1>2, <1>4
  <2>2. \A x, y \in top : x # y => f[x] # f[y]
    BY <1>4, <1>5
  <2>3. IsFiniteSet(1..n) /\ Cardinality(1..n) = n
    BY <1>1, FS_Interval
  <2> HIDE DEF f
  <2> QED
    BY <1>1, <1>6, <2>1, <2>2, <2>3, FS_PigeonHole
<1>8. Cardinality(S \ top) <= all - n
  <2> DEFINE f == [r \in S \ top |-> place[r]]
  <2>1. f \in [S \ top -> (n + 1)..all]
    BY <1>1, <1>2, <1>4
  <2>2. \A x, y \in S \ top : x # y => f[x] # f[y]
    BY <1>4, <1>5
  <2>3. IsFiniteSet((n + 1)..all) /\ Cardinality((n + 1)..all) = all - n
    <3>1. n + 1 \in Int /\ all \in Int
      BY <1>1
    <3>2. /\ IsFiniteSet((n + 1)..all)
          /\ Cardinality((n + 1)..all) = IF n + 1 > all THEN 0 ELSE all - (n + 1) + 1
      BY <3>1, FS_Interval
    <3> QED
      BY <1>1, <3>2
  <2> HIDE DEF f
  <2> QED
    BY <1>1, <1>6, <2>1, <2>2, <2>3, FS_PigeonHole
<1>9. Cardinality(S \ top) = all - Cardinality(top)
  <2>1. S \cap top = top
    BY <1>4
  <2> QED
    BY <1>1, <2>1, FS_Difference DEF all
<1>10. Cardinality(top) = n
  BY <1>1, <1>6, <1>7, <1>8, <1>9
<1>11. Leads(R, S, top)
  <2> SUFFICES ASSUME NEW x \in top, NEW y \in S \ top, <<x, y>> \notin R
               PROVE  FALSE
    BY DEF Leads
  <2>1. x \in S /\ x # y /\ <<y, x>> \in R
    BY <1>4 DEF Sorts
  <2>2. place[y] < place[x] /\ place[x] <= n /\ ~ (place[y] <= n)
    BY <1>3, <1>4, <2>1
  <2> QED
    BY <1>1, <1>2, <2>1, <2>2
<1> QED
  BY <1>4, <1>10, <1>11 DEF top

\* A part that leads is the first ones, as many as it has.
LEMMA LeadersAreFirst ==
  ASSUME NEW S \in SUBSET Rows, NEW R, Sorts(R, S), NEW part \in SUBSET S, Leads(R, S, part)
  PROVE  \A r \in S : r \in part <=> Cardinality(NotAfter(R, S, r)) <= Cardinality(part)
<1> TAKE r \in S
<1>1. /\ IsFiniteSet(part) /\ Cardinality(part) \in Nat
      /\ IsFiniteSet(NotAfter(R, S, r)) /\ Cardinality(NotAfter(R, S, r)) \in Nat
  BY FiniteRows, NotAfterIs
<1>2. CASE r \in part
  <2>1. NotAfter(R, S, r) \in SUBSET part
    BY <1>2 DEF NotAfter, Sorts, Leads
  <2>2. Cardinality(NotAfter(R, S, r)) <= Cardinality(part)
    BY <1>1, <2>1, FS_Subset
  <2> QED
    BY <1>2, <2>2
<1>3. CASE r \notin part
  <2>1. part \cup {r} \in SUBSET NotAfter(R, S, r)
    BY <1>3 DEF NotAfter, Sorts, Leads
  <2>2. Cardinality(part \cup {r}) = Cardinality(part) + 1
    BY <1>1, <1>3, FS_AddElement
  <2>3. Cardinality(part \cup {r}) <= Cardinality(NotAfter(R, S, r))
    BY <1>1, <2>1, FS_Subset
  <2> QED
    BY <1>1, <1>3, <2>2, <2>3
<1> QED
  BY <1>2, <1>3

\* ORDER BY a key, ties in a given order, as pairs.
ByKey(k, t) ==
  {p \in Rows \X Rows : k[p[1]] < k[p[2]] \/ (k[p[1]] = k[p[2]] /\ t[p[1]] <= t[p[2]])}

\* ORDER BY a key, descending.
ByKeyDown(k, t) ==
  {p \in Rows \X Rows : k[p[1]] > k[p[2]] \/ (k[p[1]] = k[p[2]] /\ t[p[1]] <= t[p[2]])}

\* Each of them sorts the rows.
LEMMA KeysSort ==
  ASSUME NEW S \in SUBSET Rows, NEW k \in [Rows -> Nat], NEW t \in TieOrders
  PROVE  Sorts(ByKey(k, t), S) /\ Sorts(ByKeyDown(k, t), S)
<1>1. \A r \in S : r \in Rows /\ k[r] \in Nat /\ t[r] \in Nat
  BY FiniteRows DEF TieOrders
<1>2. \A r, s \in S : t[r] = t[s] => r = s
  BY DEF TieOrders
<1>3. \A r, s \in S : <<r, s>> \in ByKey(k, t) <=> k[r] < k[s] \/ (k[r] = k[s] /\ t[r] <= t[s])
  BY <1>1 DEF ByKey
<1>4. \A r, s \in S : <<r, s>> \in ByKeyDown(k, t) <=> k[r] > k[s] \/ (k[r] = k[s] /\ t[r] <= t[s])
  BY <1>1 DEF ByKeyDown
<1>5. Sorts(ByKey(k, t), S)
  BY <1>1, <1>2, <1>3 DEF Sorts
<1>6. Sorts(ByKeyDown(k, t), S)
  BY <1>1, <1>2, <1>4 DEF Sorts
<1> QED
  BY <1>5, <1>6

\* The place of a row, and the rows that TOP takes from the other end.
LEMMA PositionNotAfter ==
  ASSUME NEW rows \in SUBSET Rows, NEW k, NEW t
  PROVE  /\ \A r \in rows : Position(r, rows, k, t) = Cardinality(NotAfter(ByKey(k, t), rows, r))
         /\ \A n : TopDescending(n, rows, k, t) = FirstOnes(ByKeyDown(k, t), rows, n)
<1>1. ASSUME NEW r \in rows
      PROVE  {s \in rows : k[s] < k[r] \/ (k[s] = k[r] /\ t[s] <= t[r])}
               = NotAfter(ByKey(k, t), rows, r)
  BY DEF NotAfter, ByKey
<1>2. ASSUME NEW r \in rows
      PROVE  {s \in rows : k[s] > k[r] \/ (k[s] = k[r] /\ t[s] <= t[r])}
               = NotAfter(ByKeyDown(k, t), rows, r)
  BY DEF NotAfter, ByKeyDown
<1>3. \A r \in rows : Position(r, rows, k, t) = Cardinality(NotAfter(ByKey(k, t), rows, r))
  BY <1>1 DEF Position
<1>4. ASSUME NEW n
      PROVE  TopDescending(n, rows, k, t) = FirstOnes(ByKeyDown(k, t), rows, n)
  BY <1>2 DEF TopDescending, FirstOnes
<1> QED
  BY <1>3, <1>4

\* Rows may be told apart by a number first and by their primary key then: the places
\* that this gives are an order of ties.
LEMMA TiesByClass ==
  ASSUME NEW class \in [Rows -> Nat]
  PROVE  \E w \in TieOrders : \A r, s \in Rows : class[r] < class[s] => w[r] < w[s]
<1> DEFINE R == ByKey(class, KeyTies)
           w == [r \in Rows |-> Cardinality(NotAfter(R, Rows, r))]
<1>1. Rows \in SUBSET Rows /\ Sorts(R, Rows)
  BY KeysSort, KeyTiesFacts
<1>2. \A r, s \in Rows : class[r] < class[s] => <<r, s>> \in R /\ r # s
  BY DEF ByKey
<1> HIDE DEF R
<1>3. w \in [Rows -> 1..Cardinality(Rows)]
  BY <1>1, NotAfterIs
<1>4. \A r, s \in Rows : r # s /\ <<r, s>> \in R => w[r] < w[s]
  BY <1>1, NotAfterGrows
<1> HIDE DEF w
<1>5. \A r \in Rows : w[r] \in Nat
  BY <1>3, FiniteRows
<1>6. \A r, s \in Rows : w[r] = w[s] => r = s
  <2> SUFFICES ASSUME NEW r \in Rows, NEW s \in Rows, r # s
               PROVE  w[r] # w[s]
    OBVIOUS
  <2>1. <<r, s>> \in R \/ <<s, r>> \in R
    BY <1>1 DEF Sorts
  <2> QED
    BY <1>4, <1>5, <2>1
<1>7. \A r, s \in Rows : class[r] < class[s] => w[r] < w[s]
  BY <1>2, <1>4
<1> QED
  BY <1>3, <1>6, <1>7 DEF TieOrders

\* TOP num_to_select, in the opposite order, of the TOP high_mark rows is a slice of the
\* table, if the table reaches up to the high mark.  The two TOPs may break the ties in
\* different orders; the order that shows it to be a slice has, among equals, first the
\* rows of the inner TOP that the outer one leaves out, and then those that it takes.
LEMMA TopInTopIsSlice ==
  ASSUME NEW rows \in SUBSET Rows, NEW k \in [Rows -> Nat], NEW t \in TieOrders,
         NEW u \in TieOrders, NEW first \in Nat, NEW to \in Nat, first <= to,
         to <= Cardinality(rows)
  PROVE  \E w \in TieOrders :
           TopDescending(to - first, Between(rows, k, t, 0, to), k, u)
             = Between(rows, k, w, first, to)
<1> DEFINE inner == Between(rows, k, t, 0, to)
           taken == TopDescending(to - first, inner, k, u)
           left  == inner \ taken
           class == [r \in Rows |-> IF r \in left THEN 0 ELSE IF r \in taken THEN 1 ELSE 2]
<1>1. Cardinality(rows) \in Nat /\ IsFiniteSet(rows)
  BY FiniteRows
<1>2. /\ inner \in SUBSET rows /\ inner \in SUBSET Rows
      /\ Cardinality(inner) = to
      /\ Leads(ByKey(k, t), rows, inner)
  <2>1. \A r \in rows : 0 < Position(r, rows, k, t)
    BY PositionPositive
  <2>2. inner = FirstOnes(ByKey(k, t), rows, to)
    BY <2>1, PositionNotAfter DEF Between, FirstOnes
  <2>3. to \in 0..Cardinality(rows) /\ Sorts(ByKey(k, t), rows)
    BY <1>1, KeysSort
  <2>4. inner \in SUBSET rows /\ Cardinality(inner) = to /\ Leads(ByKey(k, t), rows, inner)
    BY <2>2, <2>3, FirstOnesAre
  <2> QED
    BY <2>4
<1> HIDE DEF inner
<1>3. /\ taken \in SUBSET inner
      /\ Cardinality(taken) = to - first
      /\ Leads(ByKeyDown(k, u), inner, taken)
  <2>1. taken = FirstOnes(ByKeyDown(k, u), inner, to - first)
    BY <1>2, PositionNotAfter
  <2>2. to - first \in 0..Cardinality(inner) /\ Sorts(ByKeyDown(k, u), inner)
    BY <1>2, KeysSort
  <2> QED
    BY <1>2, <2>1, <2>2, FirstOnesAre
<1> HIDE DEF taken
<1>4. Cardinality(left) = first /\ left \in SUBSET inner
  <2>1. IsFiniteSet(inner) /\ inner \cap taken = taken
    BY <1>2, <1>3, FiniteRows
  <2>2. Cardinality(left) = Cardinality(inner) - Cardinality(taken)
    BY <2>1, FS_Difference
  <2> QED
    BY <1>2, <1>3, <2>2
<1>5. /\ class \in [Rows -> Nat]
      /\ \A r \in left : class[r] = 0
      /\ \A r \in taken : class[r] = 1
      /\ \A r \in rows \ inner : class[r] = 2
  BY <1>2, <1>3
<1>6. left \cup taken = inner
  BY <1>3
<1> HIDE DEF class, left
<1>7. PICK w \in TieOrders : \A r, s \in Rows : class[r] < class[s] => w[r] < w[s]
  BY <1>5, TiesByClass
<1>8. \A r \in Rows : k[r] \in Nat /\ w[r] \in Nat
  BY FiniteRows DEF TieOrders
<1>9. \A r, s \in Rows : k[r] <= k[s] /\ w[r] < w[s] => <<r, s>> \in ByKey(k, w)
  BY <1>8 DEF ByKey
<1>10. Leads(ByKey(k, w), rows, inner)
  <2> SUFFICES ASSUME NEW x \in inner, NEW y \in rows \ inner
               PROVE  <<x, y>> \in ByKey(k, w)
    BY DEF Leads
  <2>1. x \in Rows /\ y \in Rows /\ class[x] < class[y]
    BY <1>2, <1>5, <1>6
  <2>2. <<x, y>> \in ByKey(k, t)
    BY <1>2 DEF Leads
  <2>3. k[x] <= k[y]
    BY <1>8, <2>1, <2>2 DEF ByKey
  <2> QED
    BY <1>7, <1>9, <2>1, <2>3
<1>11. Leads(ByKey(k, w), rows, left)
  <2> SUFFICES ASSUME NEW x \in left, NEW y \in rows \ left
               PROVE  <<x, y>> \in ByKey(k, w)
    BY DEF Leads
  <2>1. CASE y \in inner
    <3>1. y \in taken /\ x \in inner \ taken
      BY <1>4, <1>6, <2>1 DEF left
    <3>2. <<y, x>> \in ByKeyDown(k, u)
      BY <1>3, <3>1 DEF Leads
    <3>3. x \in Rows /\ y \in Rows /\ class[x] < class[y]
      BY <1>2, <1>4, <1>5, <3>1
    <3>4. k[x] <= k[y]
      BY <1>8, <3>2, <3>3 DEF ByKeyDown
    <3> QED
      BY <1>7, <1>9, <3>3, <3>4
  <2>2. CASE y \notin inner
    BY <1>4, <1>10, <2>2 DEF Leads
  <2> QED
    BY <2>1, <2>2
<1>12. Sorts(ByKey(k, w), rows)
  BY KeysSort
<1>13. \A r \in rows : /\ r \in left <=> Position(r, rows, k, w) <= first
                       /\ r \in inner <=> Position(r, rows, k, w) <= to
                       /\ Position(r, rows, k, w) \in Nat
  <2>1. left \in SUBSET rows /\ inner \in SUBSET rows
    BY <1>2, <1>4
  <2>2. \A r \in rows : r \in left <=> Cardinality(NotAfter(ByKey(k, w), rows, r)) <= first
    BY <1>4, <1>11, <1>12, <2>1, LeadersAreFirst
  <2>3. \A r \in rows : r \in inner <=> Cardinality(NotAfter(ByKey(k, w), rows, r)) <= to
    BY <1>2, <1>10, <1>12, <2>1, LeadersAreFirst
  <2> QED
    BY <2>2, <2>3, PositionNotAfter, PositionRange
<1>14. taken = Between(rows, k, w, first, to)
  <2>1. taken = {r \in rows : r \in inner /\ r \notin left}
    BY <1>2, <1>3 DEF left
  <2>2. \A r \in rows : r \in inner /\ r \notin left
          <=> first < Position(r, rows, k, w) /\ Position(r, rows, k, w) <= to
    BY <1>13
  <2> QED
    BY <2>1, <2>2 DEF Between
<1> QED
  BY <1>14 DEF taken, inner

-----------------------------------------------------------------------------
(* Whole queries.                                                          *)

\* A query with both marks is answered with its slice.
LEMMA LimitedAnswer ==
  ASSUME NEW e, NEW o \in Order, NEW rows \in SUBSET Rows,
         NEW first \in Nat, NEW to \in Nat, first <= to, NEW answer,
         Modern(e) \/ (NoRowNumber(e) /\ SingleColumn(o) /\ to <= Cardinality(rows)),
         Answer(Query(first, to), e, o, rows, answer)
  PROVE  \E t \in TieOrders : answer = Between(rows, AllowedKey(o), t, first, to)
<1> DEFINE q == Query(first, to)
<1>1. q.low = first /\ q.high = to /\ q.limited
  BY DEF Query
<1> HIDE DEF q
<1>2. Answer(q, e, o, rows, answer)
  BY DEF q
<1>3. CASE first = to
  <2>1. Form(q, e) = "no query"
    BY <1>1, <1>3 DEF Form
  <2>2. answer = {}
    BY <1>2, <2>1 DEF Answer
  <2>3. Between(rows, AllowedKey(o), KeyTies, first, to) = {}
    <3>1. \A r \in rows : Position(r, rows, AllowedKey(o), KeyTies) \in Nat
      BY PositionRange
    <3> QED
      BY <1>3, <3>1 DEF Between
  <2> QED
    BY <2>2, <2>3, KeyTiesFacts
<1>4. CASE first # to /\ first = 0
  <2>1. Form(q, e) = "top"
    BY <1>1, <1>4 DEF Form
  <2>2. CASE o.given
    <3>1. PICK t \in TieOrders : answer = Between(rows, o.sortKey, t, 0, q.high)
      BY <1>2, <2>1, <2>2 DEF Answer
    <3> QED
      BY <1>1, <1>4, <2>2, <3>1 DEF AllowedKey
  <2>3. CASE ~ o.given
    <3>1. PICK t \in TieOrders : answer = Between(rows, [r \in Rows |-> 0], t, 0, q.high)
      BY <1>2, <2>1, <2>3 DEF Answer
    <3> QED
      BY <1>1, <1>4, <2>3, <3>1 DEF AllowedKey
  <2> QED
    BY <2>2, <2>3
<1>5. CASE first # to /\ first # 0 /\ NoRowNumber(e)
  <2>1. Form(q, e) = "top in top"
    BY <1>1, <1>5 DEF Form
  <2>2. PICK t \in TieOrders, u \in TieOrders : answer = TopInTop(q, rows, LastKey(o), t, u)
    BY <1>2, <2>1 DEF Answer
  <2>3. SingleColumn(o) /\ to <= Cardinality(rows)
    BY <1>5 DEF Modern, NoRowNumber
  <2>4. LastKey(o) = NumberKey(o) /\ NumberKey(o) \in [Rows -> Nat]
    BY <2>3, SlicingAssumption DEF SingleColumn, LastKey, NumberKey, PrimaryKey, Order
  <2>5. PICK w \in TieOrders :
          TopDescending(to - first, Between(rows, NumberKey(o), t, 0, to), NumberKey(o), u)
            = Between(rows, NumberKey(o), w, first, to)
    BY <2>3, <2>4, TopInTopIsSlice
  <2>6. answer = Between(rows, NumberKey(o), w, first, to)
    BY <1>1, <2>2, <2>4, <2>5 DEF TopInTop
  <2>7. PICK x \in TieOrders : \A r \in rows :
          Position(r, rows, NumberKey(o), w) = Position(r, rows, AllowedKey(o), x)
    BY NumberedAsAllowed
  <2>8. answer = Between(rows, AllowedKey(o), x, first, to)
    BY <2>6, <2>7 DEF Between
  <2> QED
    BY <2>8
<1>6. CASE first # to /\ first # 0 /\ ~ NoRowNumber(e)
  <2>1. Form(q, e) = "row_number"
    BY <1>1, <1>6 DEF Form
  <2>2. PICK t \in TieOrders : answer = RowNumber(q, rows, NumberKey(o), t)
    BY <1>2, <2>1 DEF Answer
  <2>3. PICK u \in TieOrders : \A r \in rows :
          Position(r, rows, NumberKey(o), t) = Position(r, rows, AllowedKey(o), u)
    BY NumberedAsAllowed
  <2>4. answer = Between(rows, AllowedKey(o), u, first, to)
    BY <1>1, <2>2, <2>3 DEF RowNumber, Between
  <2> QED
    BY <2>4
<1> QED
  BY <1>3, <1>4, <1>5, <1>6

\* A query without a high mark is answered with all the rows behind the low one.
LEMMA UnlimitedAnswer ==
  ASSUME NEW e, Modern(e), NEW o \in Order, NEW rows \in SUBSET Rows,
         NEW first \in Nat, first # 0, NEW answer,
         Answer(QueryFrom(first), e, o, rows, answer)
  PROVE  \E t \in TieOrders :
           answer = Between(rows, AllowedKey(o), t, first, first + Cardinality(Rows))
<1> DEFINE q == QueryFrom(first)
<1>1. q.low = first /\ ~ q.limited
  BY DEF QueryFrom
<1> HIDE DEF q
<1>2. Form(q, e) = "row_number"
  BY <1>1 DEF Form, NoRowNumber, Modern
<1>3. PICK t \in TieOrders : answer = RowNumber(q, rows, NumberKey(o), t)
  BY <1>2 DEF Answer, q
<1>4. PICK u \in TieOrders : \A r \in rows :
        Position(r, rows, NumberKey(o), t) = Position(r, rows, AllowedKey(o), u)
  BY NumberedAsAllowed
<1>5. \A r \in rows : Position(r, rows, AllowedKey(o), u) <= first + Cardinality(Rows)
  <2> TAKE r \in rows
  <2>1. /\ Position(r, rows, AllowedKey(o), u) \in Nat
        /\ Position(r, rows, AllowedKey(o), u) <= Cardinality(rows)
    BY PositionRange
  <2>2. Cardinality(rows) \in Nat /\ Cardinality(rows) <= Cardinality(Rows) /\ Cardinality(Rows) \in Nat
    BY FiniteRows
  <2> QED
    BY <2>1, <2>2
<1>6. answer = Between(rows, AllowedKey(o), u, first, first + Cardinality(Rows))
  BY <1>1, <1>3, <1>4, <1>5 DEF RowNumber, Between
<1> QED
  BY <1>6

-----------------------------------------------------------------------------
(* Steps.                                                                  *)

\* Where the reader stands: the paginator never passes its count, and the
\* count is right while nobody deletes.
Place ==
  /\ reader # "paginator" => status # "counting"
  /\ status = "counting" => low = 0 /\ page = {} /\ seen = {}
  /\ reader = "paginator" /\ status # "counting" =>
       /\ low <= count
       /\ ~ deletes => count = Cardinality(table)

\* The rows read are those of the ranks up to low; rows deleted since then
\* leave this as an upper bound.
ReadUpToLow ==
  Distinguishes(order) =>
    \A r \in table :
      /\ r \in seen \cup page => Rank(r, table, order.sortKey) <= low
      /\ ~ deletes /\ Rank(r, table, order.sortKey) <= low => r \in seen \cup page

\* What was read is still in the table, unless rows are deleted.
OnlyRows == ~ deletes => seen \cup page \subseteq table

\* The inductive invariant of Slicing.
Inv == TypeOK /\ Place /\ ReadUpToLow /\ OnlyRows /\ NoRowTwice /\ PagesComplete

\* What a step that reads a page does.
ReadsSlice ==
  /\ \E t \in TieOrders : page' = Between(table, AllowedKey(order), t, low, low')
  /\ seen' = seen \cup page
  /\ low' \in Nat /\ low <= low'
  /\ fetched' = fetched + 1
  /\ UNCHANGED <<reader, engine, deletes, order, table, count>>

\* Who reads from a server without ROW_NUMBER.
LEMMA OldReaders ==
  ASSUME Supported, TypeOK
  PROVE  \/ Modern(engine)
         \/ NoRowNumber(engine) /\ SingleColumn(order) /\ reader = "paginator" /\ ~ deletes
<1>1. PICK s \in Situations : s = <<reader, engine, deletes>>
  BY DEF TypeOK
<1>2. s[1] = reader /\ s[2] = engine /\ s[3] = deletes
  BY <1>1
<1>3. engine \in {"2000", "2005", "db2", "openedge"}
  BY <1>2, SlicingAssumption DEF Situation
<1>4. Modern(engine) \/ (reader = "paginator" /\ ~ deletes /\ \A o \in Orders : SingleColumn(o))
  BY <1>2 DEF Supported
<1>5. order \in Orders
  BY DEF TypeOK
<1> QED
  BY <1>3, <1>4, <1>5 DEF Modern, NoRowNumber

\* Reading up to a mark reads a slice.
LEMMA ReadToSlice ==
  ASSUME TypeOK, NEW to \in Nat, low <= to, ReadTo(to),
         Modern(engine) \/ (NoRowNumber(engine) /\ SingleColumn(order) /\ to <= Cardinality(table)),
         UNCHANGED <<reader, engine, deletes, order, table, count>>
  PROVE  ReadsSlice
<1>1. PICK answer \in SUBSET table :
        Answer(Query(low, to), engine, order, table, answer) /\ page' = answer
  BY DEF ReadTo
<1>2. order \in Order /\ table \in SUBSET Rows /\ low \in Nat
  BY SlicingAssumption DEF TypeOK
<1>3. PICK t \in TieOrders : answer = Between(table, AllowedKey(order), t, low, to)
  BY <1>1, <1>2, LimitedAnswer
<1> QED
  BY <1>1, <1>2, <1>3 DEF ReadTo, ReadsSlice

\* The three actions that read a slice between two marks.
LEMMA PaginatorReads ==
  ASSUME Supported, TypeOK, Place, PaginatorPage
  PROVE  ReadsSlice /\ low' = Smaller(low + PageSize, count)
<1> DEFINE to == Smaller(low + PageSize, count)
<1>1. low \in Nat /\ count \in Nat /\ PageSize \in Nat
  BY FiniteRows, SlicingAssumption DEF TypeOK
<1>2. low <= count
  BY DEF PaginatorPage, Place
<1>3. to \in Nat /\ low <= to
  BY <1>1, <1>2 DEF Smaller
<1>4. ReadTo(to) /\ UNCHANGED <<reader, engine, deletes, order, table, count>>
  BY DEF PaginatorPage
<1>5. low' = to
  BY <1>4 DEF ReadTo
<1>6. \/ Modern(engine)
      \/ NoRowNumber(engine) /\ SingleColumn(order) /\ to <= Cardinality(table)
  <2>1. to <= count
    BY <1>1 DEF Smaller
  <2>2. ~ deletes => count = Cardinality(table)
    BY DEF PaginatorPage, Place
  <2> QED
    BY <2>1, <2>2, OldReaders
<1> HIDE DEF to
<1>7. ReadsSlice
  BY <1>3, <1>4, <1>6, ReadToSlice
<1> QED
  BY <1>5, <1>7 DEF to

\* So does a loop over slices, ...
LEMMA LoopReads ==
  ASSUME Supported, TypeOK, LoopPage
  PROVE  ReadsSlice /\ low' = low + PageSize
<1>1. low + PageSize \in Nat /\ low <= low + PageSize
  BY SlicingAssumption DEF TypeOK
<1>2. ReadTo(low + PageSize) /\ UNCHANGED <<reader, engine, deletes, order, table, count>>
  BY DEF LoopPage
<1>3. ReadsSlice
  BY <1>1, <1>2, OldReaders, ReadToSlice DEF LoopPage
<1> QED
  BY <1>2, <1>3 DEF ReadTo

\* ... and whoever reads the first slice and the rest.
LEMMA FirstReads ==
  ASSUME Supported, TypeOK, FirstPage
  PROVE  ReadsSlice /\ status' = status
<1>1. PageSize \in Nat /\ low <= PageSize
  BY SlicingAssumption DEF FirstPage
<1>2. ReadTo(PageSize) /\ UNCHANGED <<reader, engine, deletes, order, table, count>> /\ status' = status
  BY DEF FirstPage
<1>3. ReadsSlice
  BY <1>1, <1>2, OldReaders, ReadToSlice DEF FirstPage
<1> QED
  BY <1>2, <1>3

\* On a server with ROW_NUMBER the rest of the table can be asked for.
LEMMA RestReads ==
  ASSUME Supported, TypeOK, RestPage
  PROVE  ReadsSlice /\ low' = low + Cardinality(Rows) /\ status' = "done"
<1>1. Modern(engine) /\ order \in Order /\ table \in SUBSET Rows /\ low \in Nat
  BY OldReaders, SlicingAssumption DEF TypeOK, RestPage
<1>2. low # 0
  BY DEF RestPage
<1>3. Form(QueryFrom(low), engine) # "TypeError"
  BY <1>1 DEF Form, QueryFrom, NoRowNumber, Modern
<1>4. PICK answer \in SUBSET table :
        Answer(QueryFrom(low), engine, order, table, answer) /\ page' = answer
  BY <1>3 DEF RestPage
<1>5. PICK t \in TieOrders :
        answer = Between(table, AllowedKey(order), t, low, low + Cardinality(Rows))
  BY <1>1, <1>2, <1>4, UnlimitedAnswer
<1>6. /\ seen' = seen \cup page /\ low' = low + Cardinality(Rows)
      /\ fetched' = fetched + 1 /\ status' = "done"
      /\ UNCHANGED <<reader, engine, deletes, order, table, count>>
  BY <1>3 DEF RestPage
<1>7. Cardinality(Rows) \in Nat
  BY <1>1, FiniteRows
<1>8. low' \in Nat /\ low <= low'
  BY <1>1, <1>6, <1>7
<1> QED
  BY <1>4, <1>5, <1>6, <1>8 DEF ReadsSlice

-----------------------------------------------------------------------------
(* The parts of the invariant that a read changes.                         *)

\* With an ordering that tells the rows apart, a page is given by ranks.
LEMMA PageByRank ==
  ASSUME TypeOK, ReadsSlice, Distinguishes(order)
  PROVE  page' = {r \in table : /\ low < Rank(r, table, order.sortKey)
                                /\ Rank(r, table, order.sortKey) <= low'}
<1>1. PICK t \in TieOrders : page' = Between(table, AllowedKey(order), t, low, low')
  BY DEF ReadsSlice
<1>2. AllowedKey(order) = order.sortKey
  BY DEF AllowedKey, Distinguishes
<1>3. table \in SUBSET Rows /\ order \in Order
  BY SlicingAssumption DEF TypeOK
<1>4. \A r \in table : Position(r, table, order.sortKey, t) = Rank(r, table, order.sortKey)
  BY <1>3, PositionIsRank
<1> QED
  BY <1>1, <1>2, <1>4 DEF Between

\* A slice that was read keeps what is true of the rows read.
LEMMA ReadKeeps ==
  ASSUME Inv, ReadsSlice
  PROVE  ReadUpToLow' /\ OnlyRows' /\ NoRowTwice'
<1>1. /\ table \in SUBSET Rows /\ low \in Nat /\ low' \in Nat /\ low <= low'
      /\ seen' = seen \cup page
      /\ order' = order /\ table' = table /\ deletes' = deletes
  BY DEF Inv, TypeOK, ReadsSlice
<1>2. page' \subseteq table
  BY DEF ReadsSlice, Between
<1>3. OnlyRows'
  BY <1>1, <1>2 DEF OnlyRows, Inv
<1>4. ASSUME Distinguishes(order)
      PROVE  /\ page' \cap seen' = {}
             /\ \A r \in table :
                  /\ r \in seen' \cup page' => Rank(r, table, order.sortKey) <= low'
                  /\ ~ deletes /\ Rank(r, table, order.sortKey) <= low' => r \in seen' \cup page'
  <2>1. page' = {r \in table : /\ low < Rank(r, table, order.sortKey)
                                /\ Rank(r, table, order.sortKey) <= low'}
    BY <1>4, PageByRank DEF Inv
  <2>2. \A r \in table : Rank(r, table, order.sortKey) \in Nat
    BY <1>1, RankBounds
  <2>3. \A r \in table :
          /\ r \in seen \cup page => Rank(r, table, order.sortKey) <= low
          /\ ~ deletes /\ Rank(r, table, order.sortKey) <= low => r \in seen \cup page
    BY <1>4 DEF Inv, ReadUpToLow
  <2> QED
    BY <1>1, <2>1, <2>2, <2>3
<1>5. ReadUpToLow'
  BY <1>1, <1>4 DEF ReadUpToLow
<1>6. NoRowTwice'
  BY <1>1, <1>4 DEF NoRowTwice
<1> QED
  BY <1>3, <1>5, <1>6

\* If the marks have passed all the ranks, everything has been read.
LEMMA AllRead ==
  ASSUME Inv, ReadsSlice,
         Distinguishes(order) /\ ~ deletes =>
           \A r \in table : Rank(r, table, order.sortKey) <= low'
  PROVE  PagesComplete'
<1>1. ReadUpToLow' /\ OnlyRows'
  BY ReadKeeps
<1>2. order' = order /\ table' = table /\ deletes' = deletes
  BY DEF ReadsSlice
<1> QED
  BY <1>1, <1>2 DEF ReadUpToLow, OnlyRows, PagesComplete

\* The invariant after a step that reads, but for status.
LEMMA ReadKeepsInv ==
  ASSUME Inv, ReadsSlice, status' \in {"reading", "done"},
         reader = "paginator" => low' <= count /\ status # "counting",
         status' = "done" /\ Distinguishes(order) /\ ~ deletes =>
           \A r \in table : Rank(r, table, order.sortKey) <= low'
  PROVE  Inv'
<1>1. ReadUpToLow' /\ OnlyRows' /\ NoRowTwice'
  BY ReadKeeps
<1>2. TypeOK'
  <2>1. page' \subseteq table /\ fetched' \in Nat
    BY DEF ReadsSlice, Between, Inv, TypeOK
  <2> QED
    BY <2>1 DEF ReadsSlice, Inv, TypeOK
<1>3. Place'
  BY DEF Inv, Place, ReadsSlice
<1>4. PagesComplete'
  <2>1. CASE status' = "done"
    BY <2>1, AllRead
  <2>2. CASE status' # "done"
    BY <2>2 DEF PagesComplete
  <2> QED
    BY <2>1, <2>2
<1> QED
  BY <1>1, <1>2, <1>3, <1>4 DEF Inv

\* No rank exceeds the size of the table.
LEMMA TopRank ==
  ASSUME TypeOK
  PROVE  /\ Cardinality(table) \in Nat /\ Cardinality(Rows) \in Nat
         /\ Cardinality(table) <= Cardinality(Rows)
         /\ \A r \in table : /\ Rank(r, table, order.sortKey) \in Nat
                            /\ Rank(r, table, order.sortKey) <= Cardinality(table)
<1>1. table \in SUBSET Rows
  BY DEF TypeOK
<1> QED
  BY <1>1, FiniteRows, RankBounds

\* The invariant of Slicing holds in the beginning, ...
LEMMA InvInit == Init => Inv
<1> SUFFICES ASSUME Init PROVE Inv
  OBVIOUS
<1>1. TypeOK
  <2>1. 0 \in 0..Cardinality(Rows)
    BY FiniteRows
  <2>2. <<reader, engine, deletes>> \in Situations
    <3>1. PICK s \in Situations : reader = s[1] /\ engine = s[2] /\ deletes = s[3]
      BY DEF Init
    <3>2. s = <<s[1], s[2], s[3]>>
      BY SlicingAssumption DEF Situation
    <3> QED
      BY <3>1, <3>2
  <2> QED
    BY <2>1, <2>2 DEF Init, TypeOK
<1>2. Place
  BY DEF Init, Place
<1>3. ReadUpToLow
  <2> SUFFICES ASSUME NEW r \in table PROVE Rank(r, table, order.sortKey) # 0
    <3>1. \A r \in table : Rank(r, table, order.sortKey) \in Nat
      BY <1>1, TopRank
    <3> QED
      BY <3>1 DEF ReadUpToLow, Init
  <2> DEFINE upto == {s \in table : order.sortKey[s] <= order.sortKey[r]}
  <2>1. order \in Order /\ table \in SUBSET Rows
    BY SlicingAssumption DEF Init
  <2>2. order.sortKey[r] \in Nat
    BY <2>1 DEF Order
  <2>3. r \in upto /\ upto \in SUBSET Rows
    BY <2>1, <2>2
  <2>4. IsFiniteSet(upto) /\ Cardinality(upto) # 0
    BY <2>3, FiniteRows, FS_EmptySet
  <2> QED
    BY <2>4 DEF Rank
<1>4. OnlyRows /\ NoRowTwice /\ PagesComplete
  BY DEF Init, OnlyRows, NoRowTwice, PagesComplete
<1> QED
  BY <1>1, <1>2, <1>3, <1>4 DEF Inv

\* ... and every step keeps it.
LEMMA InvStep == Supported /\ Inv /\ [Next]_vars => Inv'
<1> SUFFICES ASSUME Supported, Inv, [Next]_vars PROVE Inv'
  OBVIOUS
<1>1. TypeOK /\ Place
  BY DEF Inv
<1>2. CASE ReadCount
  <2>1. Cardinality(table) \in 0..Cardinality(Rows)
    BY <1>1, TopRank
  <2>2. TypeOK'
    BY <1>1, <1>2, <2>1 DEF ReadCount, TypeOK
  <2>3. Place'
    BY <1>1, <1>2, <2>1 DEF ReadCount, Place
  <2>4. ReadUpToLow' /\ OnlyRows' /\ NoRowTwice' /\ PagesComplete'
    BY <1>2 DEF ReadCount, Inv, ReadUpToLow, OnlyRows, NoRowTwice, PagesComplete
  <2> QED
    BY <2>2, <2>3, <2>4 DEF Inv
<1>3. CASE PaginatorPage
  <2>1. ReadsSlice /\ low' = Smaller(low + PageSize, count)
    BY <1>1, <1>3, PaginatorReads
  <2>2. low \in Nat /\ count \in Nat /\ PageSize \in Nat
    BY <1>1, FiniteRows, SlicingAssumption DEF TypeOK
  <2>3. low' <= count
    BY <2>1, <2>2 DEF Smaller
  <2>4. status' \in {"reading", "done"} /\ status # "counting"
    BY <1>3 DEF PaginatorPage
  <2>5. ASSUME status' = "done", ~ deletes
        PROVE  \A r \in table : Rank(r, table, order.sortKey) <= low'
    <3>1. low' = count
      BY <1>3, <2>1, <2>5 DEF PaginatorPage
    <3>2. count = Cardinality(table)
      BY <1>1, <1>3, <2>5 DEF PaginatorPage, Place
    <3> QED
      BY <1>1, <3>1, <3>2, TopRank
  <2> QED
    BY <2>1, <2>3, <2>4, <2>5, ReadKeepsInv
<1>4. CASE LoopPage
  <2>1. ReadsSlice /\ low' = low + PageSize
    BY <1>1, <1>4, LoopReads
  <2>2. status' \in {"reading", "done"} /\ reader # "paginator"
    BY <1>4 DEF LoopPage
  <2>3. ASSUME status' = "done", Distinguishes(order)
        PROVE  \A r \in table : Rank(r, table, order.sortKey) <= low'
    <3>1. page' = {}
      BY <1>4, <2>3 DEF LoopPage
    <3>2. \A r \in table : ~ (/\ low < Rank(r, table, order.sortKey)
                             /\ Rank(r, table, order.sortKey) <= low')
      BY <1>1, <2>1, <2>3, <3>1, PageByRank
    <3>3. /\ low \in Nat /\ low' \in Nat /\ low < low'
          /\ table \in SUBSET Rows /\ order \in Order
      BY <1>1, <2>1, SlicingAssumption DEF TypeOK
    <3>4. \A r \in table : Rank(r, table, order.sortKey) <= low
      BY <2>3, <3>2, <3>3, NoGap
    <3> QED
      BY <1>1, <3>3, <3>4, TopRank
  <2> QED
    BY <2>1, <2>2, <2>3, ReadKeepsInv
<1>5. CASE FirstPage
  <2>1. ReadsSlice /\ status' = status
    BY <1>1, <1>5, FirstReads
  <2>2. status = "reading" /\ reader # "paginator"
    BY <1>5 DEF FirstPage
  <2> QED
    BY <2>1, <2>2, ReadKeepsInv
<1>6. CASE RestPage
  <2>1. ReadsSlice /\ low' = low + Cardinality(Rows) /\ status' = "done"
    BY <1>1, <1>6, RestReads
  <2>2. reader # "paginator"
    BY <1>6 DEF RestPage
  <2>3. \A r \in table : Rank(r, table, order.sortKey) <= low'
    <3>1. low \in Nat
      BY <1>1 DEF TypeOK
    <3> QED
      BY <1>1, <2>1, <3>1, TopRank
  <2> QED
    BY <2>1, <2>2, <2>3, ReadKeepsInv
<1>7. ASSUME NEW d \in Rows, Delete(d) PROVE Inv'
  <2>1. /\ deletes /\ table' = table \ {d}
        /\ UNCHANGED <<reader, engine, deletes, order, count, low, page, seen, fetched, status>>
    BY <1>7 DEF Delete
  <2>2. TypeOK' /\ Place' /\ OnlyRows' /\ NoRowTwice' /\ PagesComplete'
    BY <2>1 DEF Inv, TypeOK, Place, OnlyRows, NoRowTwice, PagesComplete
  <2>3. ReadUpToLow'
    <3>1. table \in SUBSET Rows /\ table' \in SUBSET table /\ table' \in SUBSET Rows /\ low \in Nat
      BY <1>1, <2>1 DEF TypeOK
    <3>2. \A r \in table' : /\ Rank(r, table', order.sortKey) \in Nat
                            /\ Rank(r, table, order.sortKey) \in Nat
                            /\ Rank(r, table', order.sortKey) <= Rank(r, table, order.sortKey)
      BY <3>1, RankBounds
    <3>3. Distinguishes(order) => \A r \in table' :
            r \in seen \cup page => Rank(r, table', order.sortKey) <= low
      BY <3>1, <3>2 DEF Inv, ReadUpToLow
    <3> QED
      BY <2>1, <3>3 DEF ReadUpToLow
  <2> QED
    BY <2>2, <2>3 DEF Inv
<1>8. CASE UNCHANGED vars
  BY <1>8 DEF vars, Inv, TypeOK, Place, ReadUpToLow, OnlyRows, NoRowTwice, PagesComplete
<1> QED
  BY <1>2, <1>3, <1>4, <1>5, <1>6, <1>7, <1>8 DEF Next, Read

-----------------------------------------------------------------------------
(* The theorems.                                                           *)

\* The invariant holds in every reachable state.
THEOREM Invariance == Supported => (Spec => []Inv)
<1> SUFFICES ASSUME Supported PROVE Spec => []Inv
  OBVIOUS
<1>1. Inv /\ [Next]_vars => Inv'
  BY InvStep
<1> QED
  BY <1>1, InvInit, PTL DEF Spec

\* Type correctness, in all situations.
THEOREM TypeCorrect == Spec => []TypeOK
<1>1. Init => TypeOK
  BY InvInit DEF Inv
<1>2. TypeOK /\ [Next]_vars => TypeOK'
  <2> SUFFICES ASSUME TypeOK, [Next]_vars PROVE TypeOK'
    OBVIOUS
  <2>1. /\ Cardinality(table) \in 0..Cardinality(Rows) /\ Cardinality(Rows) \in Nat
        /\ count \in Nat /\ low \in Nat /\ PageSize \in Nat /\ fetched \in Nat
    BY TopRank, SlicingAssumption DEF TypeOK
  <2>2. ASSUME NEW to \in Nat, ReadTo(to), status' \in {"reading", "done"},
               UNCHANGED <<reader, engine, deletes, order, table, count>>
        PROVE  TypeOK'
    <3>1. page' \subseteq Rows /\ seen' \subseteq Rows /\ low' \in Nat /\ fetched' \in Nat
      BY <2>1, <2>2 DEF ReadTo, TypeOK
    <3> QED
      BY <2>2, <3>1 DEF TypeOK
  <2>3. CASE ReadCount
    BY <2>1, <2>3 DEF ReadCount, TypeOK
  <2>4. CASE PaginatorPage
    <3>1. Smaller(low + PageSize, count) \in Nat
      BY <2>1 DEF Smaller
    <3> QED
      BY <2>2, <2>4, <3>1 DEF PaginatorPage
  <2>5. CASE LoopPage
    <3>1. low + PageSize \in Nat
      BY <2>1
    <3> QED
      BY <2>2, <2>5, <3>1 DEF LoopPage
  <2>6. CASE FirstPage
    BY <2>1, <2>2, <2>6 DEF FirstPage
  <2>7. CASE RestPage
    <3>1. CASE Form(QueryFrom(low), engine) = "TypeError"
      BY <2>7, <3>1 DEF RestPage, TypeOK
    <3>2. CASE Form(QueryFrom(low), engine) # "TypeError"
      <4>1. /\ page' \subseteq Rows /\ seen' \subseteq Rows
            /\ low' \in Nat /\ fetched' \in Nat /\ status' = "done"
            /\ UNCHANGED <<reader, engine, deletes, order, table, count>>
        BY <2>1, <2>7, <3>2 DEF RestPage, TypeOK
      <4> QED
        BY <4>1 DEF TypeOK
    <3> QED
      BY <3>1, <3>2
  <2>8. ASSUME NEW r \in Rows, Delete(r) PROVE TypeOK'
    BY <2>8 DEF Delete, TypeOK
  <2>9. CASE UNCHANGED vars
    BY <2>9 DEF vars, TypeOK
  <2> QED
    BY <2>3, <2>4, <2>5, <2>6, <2>7, <2>8, <2>9 DEF Next, Read
<1> QED
  BY <1>1, <1>2, PTL DEF Spec

\* No row is read twice, whoever deletes rows meanwhile, and a reader at the end has
\* read every row that is left, in each of the three ways (where_row_num and the TOP
\* in TOP, compiler.py:279-325).
THEOREM Exact == Supported => (Spec => []PagesAreExact)
<1> SUFFICES ASSUME Supported PROVE Spec => []PagesAreExact
  OBVIOUS
<1>1. Spec => []Inv
  BY Invariance
<1>2. Inv => PagesAreExact
  BY DEF Inv, PagesAreExact
<1> QED
  BY <1>1, <1>2, PTL

\* Every page is the slice it was asked for, in an order that ORDER BY allows
\* (as_sql, compiler.py:207-336).
THEOREM Slices == Supported => (Spec => PageIsSlice)
<1> SUFFICES ASSUME Supported PROVE Spec => PageIsSlice
  OBVIOUS
<1>1. ASSUME Inv, [Next]_vars, fetched' # fetched
      PROVE  \E t \in TieOrders :
               page' = Between(table, AllowedKey(order), t, low, low')
  <2>1. TypeOK /\ Place
    BY <1>1 DEF Inv
  <2>2. PaginatorPage \/ LoopPage \/ FirstPage \/ RestPage
    BY <1>1 DEF Next, Read, vars, ReadCount, Delete
  <2>3. ReadsSlice
    BY <2>1, <2>2, PaginatorReads, LoopReads, FirstReads, RestReads
  <2> QED
    BY <2>3 DEF ReadsSlice
<1>2. Inv /\ [Next]_vars =>
        [fetched' # fetched =>
           \E t \in TieOrders :
             page' = Between(table, AllowedKey(order), t, low, low')]_vars
  BY <1>1
<1>3. Spec => []Inv
  BY Invariance
<1> QED
  BY <1>2, <1>3, PTL DEF Spec, PageIsSlice


-----------------------------------------------------------------------------
(* Rewriting.                                                              *)


-----------------------------------------------------------------------------
(* Induction, over numbers and over sequences, stated of sets: the         *)
(* theorems of the library that take a predicate cannot be instantiated.   *)

\* Every set of numbers has a least element.
LEMMA Least ==
  ASSUME NEW T, T \subseteq Nat, T # {}
  PROVE  \E x \in T : \A y \in T : x <= y
<1>1. \E x \in T : \A y \in T : ~ (<<y, x>> \in OpToRel(<, Nat))
  BY NatLessThanWellFounded, WFMin
<1>2. PICK x \in T : \A y \in T : ~ (<<y, x>> \in OpToRel(<, Nat))
  BY <1>1
<1>3. \A y \in T : ~ (y < x)
  BY <1>2 DEF OpToRel
<1> QED
  BY <1>3

\* A set of numbers that has 0, and with a number the next one, has them all.
LEMMA Counting ==
  ASSUME NEW T, 0 \in T, \A n \in Nat : n \in T => n + 1 \in T
  PROVE  \A n \in Nat : n \in T
<1> SUFFICES ASSUME Nat \ T # {}
             PROVE  FALSE
  OBVIOUS
<1>1. PICK x \in Nat \ T : \A y \in Nat \ T : x <= y
  BY Least
<1>2. x - 1 \in Nat /\ x - 1 \notin Nat \ T
  BY <1>1
<1> QED
  BY <1>1, <1>2

\* So has a set of sequences that has the empty one, and with a sequence every one that
\* is longer by an element.
LEMMA Appending ==
  ASSUME NEW S, NEW T, <<>> \in T, \A s \in Seq(S), e \in S : s \in T => Append(s, e) \in T
  PROVE  \A s \in Seq(S) : s \in T
<1> DEFINE N == {n \in Nat : \A s \in Seq(S) : Len(s) = n => s \in T}
<1>1. 0 \in N
  BY EmptySeq
<1>2. ASSUME NEW n \in Nat, n \in N
      PROVE  n + 1 \in N
  <2> SUFFICES ASSUME NEW s \in Seq(S), Len(s) = n + 1
               PROVE  s \in T
    OBVIOUS
  <2>1. PICK u \in Seq(S), e \in S : s = Append(u, e)
    BY SequenceEmptyOrAppend, EmptySeq
  <2>2. Len(u) = n
    BY <2>1, AppendProperties, LenProperties
  <2> QED
    BY <1>2, <2>1, <2>2
<1>3. \A n \in Nat : n \in N
  <2> HIDE DEF N
  <2> QED
    BY <1>1, <1>2, Counting
<1> QED
  BY <1>3, LenProperties

-----------------------------------------------------------------------------
(* FlattenSeq.                                                             *)

\* What the function in the definition of FlattenSeq is chosen for.
IsFlattening(g, lists) ==
  g = [n \in 1..Len(lists) |-> IF n = 1 THEN lists[n] ELSE g[n - 1] \o lists[n]]

\* FlattenSeq takes its last element from a function that satisfies its equations.
LEMMA FlattenDef ==
  ASSUME NEW lists, Len(lists) # 0
  PROVE  FlattenSeq(lists) = (CHOOSE g : IsFlattening(g, lists))[Len(lists)]
BY DEF FlattenSeq, IsFlattening

\* There is such a function, and its values are sequences.
LEMMA FlatteningExists ==
  ASSUME NEW S, NEW lists \in Seq(Seq(S))
  PROVE  \E g : IsFlattening(g, lists) /\ \A n \in 1..Len(lists) : g[n] \in Seq(S)
<1> DEFINE Good(ss) == \E g : IsFlattening(g, ss) /\ \A n \in 1..Len(ss) : g[n] \in Seq(S)
           T == {ss \in Seq(Seq(S)) : Good(ss)}
<1>1. <<>> \in T
  <2>1. IsFlattening(<<>>, <<>>)
    BY DEF IsFlattening
  <2> QED
    BY <2>1
<1>2. ASSUME NEW ss \in Seq(Seq(S)), NEW s \in Seq(S), ss \in T
      PROVE  Append(ss, s) \in T
  <2>1. PICK g : IsFlattening(g, ss) /\ \A n \in 1..Len(ss) : g[n] \in Seq(S)
    BY <1>2
  <2> DEFINE l == Len(ss)
             tt == Append(ss, s)
             last == IF l = 0 THEN s ELSE g[l] \o s
             h == [n \in 1..l + 1 |-> IF n = l + 1 THEN last ELSE g[n]]
  <2>2. /\ l \in Nat /\ Len(tt) = l + 1 /\ tt \in Seq(Seq(S)) /\ tt[l + 1] = s
        /\ \A n \in 1..l : tt[n] = ss[n] /\ ss[n] \in Seq(S)
    BY AppendProperties, LenProperties
  <2>3. last \in Seq(S)
    BY <2>1, <2>2, ConcatProperties
  <2>4. \A n \in 1..l : g[n] = IF n = 1 THEN ss[n] ELSE g[n - 1] \o ss[n]
    BY <2>1 DEF IsFlattening
  <2>5. \A n \in 1..l + 1 : h[n] = IF n = 1 THEN tt[n] ELSE h[n - 1] \o tt[n]
    <3> HIDE DEF tt
    <3> SUFFICES ASSUME NEW n \in 1..l + 1
                 PROVE  h[n] = IF n = 1 THEN tt[n] ELSE h[n - 1] \o tt[n]
      OBVIOUS
    <3>1. CASE n = l + 1
      BY <3>1, <2>2
    <3>2. CASE n # l + 1
      <4>1. n \in 1..l /\ (n # 1 => n - 1 \in 1..l /\ n - 1 \in 1..l + 1 /\ n - 1 # l + 1)
        BY <3>2, <2>2
      <4>2. h[n] = g[n] /\ (n # 1 => h[n - 1] = g[n - 1]) /\ tt[n] = ss[n]
        BY <3>2, <4>1, <2>2
      <4> QED
        BY <2>4, <4>1, <4>2
    <3> QED
      BY <3>1, <3>2
  <2>6. IsFlattening(h, tt)
    BY <2>2, <2>5 DEF IsFlattening
  <2>7. \A n \in 1..Len(tt) : h[n] \in Seq(S)
    BY <2>1, <2>2, <2>3
  <2> HIDE DEF h
  <2> QED
    BY <2>2, <2>6, <2>7
<1>3. \A ss \in Seq(Seq(S)) : ss \in T
  <2> HIDE DEF T
  <2> QED
    BY <1>1, <1>2, Appending
<1> QED
  BY <1>3

\* A list that goes on from another one.
Continues(more, lists) ==
  /\ Len(lists) \in Nat /\ Len(more) \in Nat /\ Len(lists) <= Len(more)
  /\ \A n \in 1..Len(lists) : more[n] = lists[n]

\* The flattening of a list starts with that of a list it continues.
LEMMA FlatteningsAgree ==
  ASSUME NEW lists, NEW more, Continues(more, lists),
         NEW g, IsFlattening(g, lists), NEW h, IsFlattening(h, more)
  PROVE  \A n \in 1..Len(lists) : g[n] = h[n]
<1> DEFINE T == {n \in Nat : n \in 1..Len(lists) => g[n] = h[n]}
<1> USE DEF Continues
<1>1. \A n \in 1..Len(lists) : g[n] = IF n = 1 THEN lists[n] ELSE g[n - 1] \o lists[n]
  BY DEF IsFlattening
<1>2. \A n \in 1..Len(lists) : h[n] = IF n = 1 THEN lists[n] ELSE h[n - 1] \o lists[n]
  <2>1. \A n \in 1..Len(more) : h[n] = IF n = 1 THEN more[n] ELSE h[n - 1] \o more[n]
    BY DEF IsFlattening
  <2> QED
    BY <2>1
<1>3. 0 \in T
  OBVIOUS
<1>4. ASSUME NEW n \in Nat, n \in T
      PROVE  n + 1 \in T
  <2> SUFFICES ASSUME n + 1 \in 1..Len(lists)
               PROVE  g[n + 1] = h[n + 1]
    OBVIOUS
  <2>1. CASE n = 0
    BY <2>1, <1>1, <1>2
  <2>2. CASE n # 0
    <3>1. g[n] = h[n] /\ (n + 1) - 1 = n /\ n + 1 # 1
      BY <1>4, <2>2
    <3>2. g[n + 1] = g[(n + 1) - 1] \o lists[n + 1] /\ h[n + 1] = h[(n + 1) - 1] \o lists[n + 1]
      BY <1>1, <1>2, <3>1
    <3> QED
      BY <3>1, <3>2
  <2> QED
    BY <2>1, <2>2
<1>5. \A n \in Nat : n \in T
  <2> HIDE DEF T
  <2> QED
    BY <1>3, <1>4, Counting
<1> QED
  BY <1>5

\* Nothing put together is nothing.
LEMMA FlattenEmpty == FlattenSeq(<<>>) = <<>>
BY DEF FlattenSeq

\* Sequences put together are a sequence.
LEMMA FlattenType ==
  ASSUME NEW S, NEW lists \in Seq(Seq(S))
  PROVE  FlattenSeq(lists) \in Seq(S)
<1>1. CASE Len(lists) = 0
  <2>1. lists = <<>>
    BY <1>1, EmptySeq
  <2> QED
    BY <2>1, FlattenEmpty, EmptySeq
<1>2. CASE Len(lists) # 0
  <2> DEFINE c == CHOOSE g : IsFlattening(g, lists)
  <2>1. PICK g : IsFlattening(g, lists) /\ \A n \in 1..Len(lists) : g[n] \in Seq(S)
    BY FlatteningExists
  <2>2. IsFlattening(c, lists)
    BY <2>1
  <2>3. Len(lists) \in Nat /\ Len(lists) \in 1..Len(lists)
    BY <1>2, LenProperties
  <2> HIDE DEF c
  <2>4. \A n \in 1..Len(lists) : g[n] = c[n]
    <3>1. Continues(lists, lists)
      BY <2>3 DEF Continues
    <3>2. IsFlattening(g, lists)
      BY <2>1
    <3> QED
      BY <3>1, <3>2, <2>2, FlatteningsAgree
  <2> QED
    BY <1>2, <2>1, <2>3, <2>4, FlattenDef DEF c
<1> QED
  BY <1>1, <1>2

\* FlattenSeq of a list that is longer by a text.
LEMMA FlattenAppend ==
  ASSUME NEW S, NEW lists \in Seq(Seq(S)), NEW text \in Seq(S)
  PROVE  FlattenSeq(Append(lists, text)) = FlattenSeq(lists) \o text
<1> DEFINE l == Len(lists)
           tt == Append(lists, text)
           h == CHOOSE g : IsFlattening(g, tt)
           c == CHOOSE g : IsFlattening(g, lists)
<1>1. /\ l \in Nat /\ Len(tt) = l + 1 /\ tt \in Seq(Seq(S)) /\ tt[l + 1] = text
      /\ \A n \in 1..l : tt[n] = lists[n]
  BY AppendProperties, LenProperties
<1>2. IsFlattening(h, tt)
  BY <1>1, FlatteningExists
<1>3. IsFlattening(c, lists)
  BY FlatteningExists
<1>4. FlattenSeq(tt) = h[l + 1]
  <2>1. Len(tt) # 0 /\ Len(tt) = l + 1
    BY <1>1
  <2> HIDE DEF tt, l
  <2> QED
    BY <2>1, FlattenDef
<1> HIDE DEF h, c, tt, l
<1>5. h[l + 1] = IF l + 1 = 1 THEN tt[l + 1] ELSE h[(l + 1) - 1] \o tt[l + 1]
  <2>1. l + 1 \in 1..l + 1
    BY <1>1
  <2>2. h = [n \in 1..l + 1 |-> IF n = 1 THEN tt[n] ELSE h[n - 1] \o tt[n]]
    BY <1>1, <1>2 DEF IsFlattening
  <2>3. \A n \in 1..l + 1 : h[n] = IF n = 1 THEN tt[n] ELSE h[n - 1] \o tt[n]
    BY <2>2
  <2> QED
    BY <2>1, <2>3
<1>6. CASE l = 0
  <2>1. lists = <<>>
    BY <1>6, EmptySeq DEF l
  <2> QED
    BY <2>1, <1>1, <1>4, <1>5, <1>6, FlattenEmpty, ConcatEmptySeq DEF tt
<1>7. CASE l # 0
  <2>1. \A n \in 1..l : c[n] = h[n]
    <3>1. Continues(tt, lists)
      BY <1>1 DEF Continues, l
    <3> QED
      BY <3>1, <1>2, <1>3, FlatteningsAgree DEF l
  <2>2. l \in 1..l /\ (l + 1) - 1 = l /\ l + 1 # 1
    BY <1>1, <1>7
  <2>3. h[l + 1] = c[l] \o text
    BY <1>1, <1>5, <2>1, <2>2
  <2>4. FlattenSeq(lists) = c[l]
    BY <1>7, FlattenDef DEF c, l
  <2> QED
    BY <1>4, <2>3, <2>4 DEF tt
<1> QED
  BY <1>6, <1>7

\* The function that is base at 0, and whose next value G gives.
IsDefinedBy(f, S, base, G) ==
  f \in [Nat -> S] /\ f[0] = base /\ \A n \in Nat : f[n + 1] = G[n][f[n]]

\* It exists.
LEMMA Recursion ==
  ASSUME NEW S, NEW base \in S, NEW G \in [Nat -> [S -> S]]
  PROVE  \E f : IsDefinedBy(f, S, base, G)
<1> DEFINE UpTo(g, n) ==
             /\ g \in [0..n -> S] /\ g[0] = base
             /\ \A m \in Nat : m < n => g[m + 1] = G[m][g[m]]
           T == {n \in Nat : \E g : UpTo(g, n)}
           C(n) == CHOOSE g : UpTo(g, n)
           f == [n \in Nat |-> C(n)[n]]
<1>1. 0 \in T
  <2>1. UpTo([n \in 0..0 |-> base], 0)
    OBVIOUS
  <2> QED
    BY <2>1
<1>2. ASSUME NEW n \in Nat, n \in T
      PROVE  n + 1 \in T
  <2>1. PICK g : UpTo(g, n)
    BY <1>2
  <2> DEFINE h == [m \in 0..n + 1 |-> IF m = n + 1 THEN G[n][g[n]] ELSE g[m]]
  <2>2. h \in [0..n + 1 -> S]
    BY <2>1
  <2>3. h[0] = base
    BY <2>1
  <2>4. ASSUME NEW m \in Nat, m < n + 1
        PROVE  h[m + 1] = G[m][h[m]]
    BY <2>1, <2>4
  <2>5. UpTo(h, n + 1)
    BY <2>2, <2>3, <2>4
  <2> HIDE DEF h
  <2> QED
    BY <2>5
<1>3. \A n \in Nat : UpTo(C(n), n)
  <2> HIDE DEF T
  <2>1. \A n \in Nat : n \in T
    BY <1>1, <1>2, Counting
  <2> QED
    BY <2>1 DEF T
<1>4. ASSUME NEW n \in Nat, NEW g, UpTo(g, n), NEW h, UpTo(h, n + 1)
      PROVE  g[n] = h[n]
  <2> DEFINE A == {m \in Nat : m <= n => g[m] = h[m]}
  <2>1. 0 \in A
    BY <1>4
  <2>2. \A m \in Nat : m \in A => m + 1 \in A
    BY <1>4
  <2>3. \A m \in Nat : m \in A
    <3> HIDE DEF A
    <3> QED
      BY <2>1, <2>2, Counting
  <2> QED
    BY <2>3
<1>5. ASSUME NEW n \in Nat
      PROVE  f[n] \in S /\ f[n + 1] = G[n][f[n]]
  <2>1. UpTo(C(n), n) /\ UpTo(C(n + 1), n + 1)
    <3> HIDE DEF C, UpTo
    <3> QED
      BY <1>3
  <2>2. C(n)[n] = C(n + 1)[n]
    <3> HIDE DEF C, UpTo
    <3> QED
      BY <1>4, <2>1
  <2> HIDE DEF C
  <2>3. C(n)[n] \in S /\ C(n + 1)[n + 1] = G[n][C(n + 1)[n]]
    BY <2>1
  <2> QED
    BY <2>2, <2>3
<1>6. f[0] = base
  <2>1. UpTo(C(0), 0)
    BY <1>3
  <2> HIDE DEF C
  <2> QED
    BY <2>1
<1>7. f \in [Nat -> S]
  <2> HIDE DEF C
  <2> QED
    BY <1>5
<1> HIDE DEF f
<1>8. IsDefinedBy(f, S, base, G)
  BY <1>5, <1>6, <1>7 DEF IsDefinedBy
<1> QED
  BY <1>8

\* One sequence put together is itself.
LEMMA FlattenOne ==
  ASSUME NEW S, NEW text \in Seq(S)
  PROVE  FlattenSeq(<<text>>) = text
<1>1. <<text>> = Append(<<>>, text) /\ <<>> \in Seq(Seq(S))
  BY EmptySeq
<1> QED
  <2>1. FlattenSeq(<<text>>) = FlattenSeq(<<>>) \o text
    BY <1>1, FlattenAppend
  <2>2. <<>> \o text = text
    BY ConcatEmptySeq
  <2> QED
    BY <2>1, <2>2, FlattenEmpty

\* Sequences put together.
LEMMA Together ==
  ASSUME NEW S, NEW a \in Seq(S), NEW b \in Seq(S), NEW c \in Seq(S), NEW e \in S
  PROVE  /\ (a \o b) \o c = a \o (b \o c)
         /\ Append(a \o b, e) = a \o Append(b, e)
         /\ Append(a, e) = a \o <<e>>
<1>1. (a \o b) \o c = a \o (b \o c)
  BY ConcatAssociative
<1>2. a \o b \in Seq(S) /\ <<e>> \in Seq(S)
  BY ConcatProperties
<1>3. /\ Append(a, e) = a \o <<e>> /\ Append(b, e) = b \o <<e>>
      /\ Append(a \o b, e) = (a \o b) \o <<e>>
  BY <1>2, AppendIsConcat
<1>4. (a \o b) \o <<e>> = a \o (b \o <<e>>)
  BY <1>2, ConcatAssociative
<1> QED
  BY <1>1, <1>3, <1>4, Zenon

-----------------------------------------------------------------------------
(* Texts put together with a token between them, as Joined and Separated do. *)

\* Texts one after the other, with a token between two.
Marked(lists, mark) ==
  FlattenSeq([k \in 1..Len(lists) |-> IF k = 1 THEN lists[k] ELSE <<mark>> \o lists[k]])

\* The pieces that Marked puts together are texts.
LEMMA MarkedPieces ==
  ASSUME NEW S, NEW lists \in Seq(Seq(S)), NEW mark \in S
  PROVE  [k \in 1..Len(lists) |-> IF k = 1 THEN lists[k] ELSE <<mark>> \o lists[k]]
           \in Seq(Seq(S))
<1>1. \A k \in 1..Len(lists) : lists[k] \in Seq(S) /\ <<mark>> \o lists[k] \in Seq(S)
  BY ConcatProperties
<1> QED
  BY <1>1, LenProperties

\* What Marked gives is a text.
LEMMA MarkedType ==
  ASSUME NEW S, NEW lists \in Seq(Seq(S)), NEW mark \in S
  PROVE  Marked(lists, mark) \in Seq(S)
BY MarkedPieces, FlattenType DEF Marked

\* One text has no token before it.
LEMMA MarkedOne ==
  ASSUME NEW S, NEW text \in Seq(S), NEW mark
  PROVE  Marked(<<text>>, mark) = text
<1>1. [k \in 1..Len(<<text>>) |-> IF k = 1 THEN <<text>>[k] ELSE <<mark>> \o <<text>>[k]] = <<text>>
  OBVIOUS
<1> QED
  BY <1>1, FlattenOne DEF Marked

\* A text at the end comes behind the token.
LEMMA MarkedAppend ==
  ASSUME NEW S, NEW lists \in Seq(Seq(S)), lists # <<>>, NEW text \in Seq(S), NEW mark \in S
  PROVE  Marked(Append(lists, text), mark) = Marked(lists, mark) \o (<<mark>> \o text)
<1> DEFINE Piece(ss, k) == IF k = 1 THEN ss[k] ELSE <<mark>> \o ss[k]
           Pieces(ss) == [k \in 1..Len(ss) |-> Piece(ss, k)]
           more == Append(lists, text)
<1>1. /\ Len(lists) \in Nat \ {0} /\ Len(more) = Len(lists) + 1 /\ more[Len(lists) + 1] = text
      /\ \A k \in 1..Len(lists) : more[k] = lists[k]
  BY AppendProperties, EmptySeq
<1>2. /\ Pieces(lists) \in Seq(Seq(S)) /\ Len(Pieces(lists)) = Len(lists)
      /\ <<mark>> \o text \in Seq(S)
  BY MarkedPieces, <1>1, ConcatProperties
<1>3. Pieces(more) = Append(Pieces(lists), <<mark>> \o text)
  <2> HIDE DEF more
  <2>1. DOMAIN Pieces(more) = 1..Len(lists) + 1
    BY <1>1
  <2>2. /\ DOMAIN Append(Pieces(lists), <<mark>> \o text) = 1..Len(lists) + 1
        /\ Append(Pieces(lists), <<mark>> \o text)[Len(lists) + 1] = <<mark>> \o text
        /\ \A k \in 1..Len(lists) : Append(Pieces(lists), <<mark>> \o text)[k] = Pieces(lists)[k]
    <3> HIDE DEF Pieces
    <3> QED
      BY <1>1, <1>2, AppendProperties, LenProperties
  <2>3. Pieces(more)[Len(lists) + 1] = <<mark>> \o text
    BY <1>1
  <2>4. \A k \in 1..Len(lists) : Pieces(more)[k] = Pieces(lists)[k]
    BY <1>1
  <2>5. \A k \in 1..Len(lists) + 1 : Pieces(more)[k] = Append(Pieces(lists), <<mark>> \o text)[k]
    <3> DEFINE a == Pieces(more)
               b == Append(Pieces(lists), <<mark>> \o text)
               last == Len(lists) + 1
    <3>1. a[last] = b[last] /\ \A k \in 1..Len(lists) : a[k] = b[k]
      BY <2>2, <2>3, <2>4
    <3>2. \A k \in 1..Len(lists) + 1 : k = last \/ k \in 1..Len(lists)
      BY <1>1
    <3> HIDE DEF a, b, last
    <3>3. \A k \in 1..Len(lists) + 1 : a[k] = b[k]
      BY <3>1, <3>2
    <3> QED
      BY <3>3 DEF a, b
  <2> DEFINE a == Pieces(more)
             b == Append(Pieces(lists), <<mark>> \o text)
  <2>6. a = [k \in 1..Len(lists) + 1 |-> a[k]]
    BY <2>1
  <2>7. b = [k \in 1..Len(lists) + 1 |-> b[k]]
    <3>1. b \in Seq(Seq(S))
      BY <1>2, AppendProperties
    <3> HIDE DEF b
    <3> QED
      BY <2>2, <3>1 DEF b
  <2> HIDE DEF a, b
  <2> QED
    BY <2>5, <2>6, <2>7 DEF a, b
<1> HIDE DEF Pieces
<1>4. FlattenSeq(Pieces(more)) = FlattenSeq(Pieces(lists)) \o (<<mark>> \o text)
  BY <1>2, <1>3, FlattenAppend
<1> QED
  BY <1>4 DEF Marked, Pieces

\* The buffers of _break are joined by "(".
LEMMA JoinedIsMarked ==
  ASSUME NEW S, NEW bufs \in Seq(S)
  PROVE  Joined(bufs) = Marked(bufs, Open)
<1>1. DOMAIN bufs = 1..Len(bufs)
  BY LenProperties
<1> QED
  BY <1>1 DEF Joined, Marked

\* The columns of a SELECT are separated by ",".
LEMMA SeparatedIsMarked ==
  ASSUME NEW lists
  PROVE  Separated(lists) = Marked(lists, Comma)
BY DEF Separated, Marked

\* Four sequences are put together alike from the left and from the right.
Regroup(t, a, m, b) == (t \o (a \o m)) \o b = t \o (a \o (m \o b))

LEMMA Regrouped ==
  ASSUME NEW S, NEW t \in Seq(S), NEW a \in Seq(S), NEW m \in Seq(S), NEW b \in Seq(S)
  PROVE  Regroup(t, a, m, b)
<1>1. PICK am : am = a \o m
  OBVIOUS
<1>2. am \in Seq(S)
  BY <1>1, ConcatProperties
<1>3. (t \o am) \o b = t \o (am \o b)
  BY <1>2, ConcatAssociative
<1>4. am \o b = a \o (m \o b)
  BY <1>1, ConcatAssociative
<1> QED
  BY <1>1, <1>3, <1>4, Zenon DEF Regroup

\* A text at the front comes before the token.
LEMMA MarkedPrepend ==
  ASSUME NEW S, NEW lists \in Seq(Seq(S)), lists # <<>>, NEW text \in Seq(S), NEW mark \in S
  PROVE  Marked(<<text>> \o lists, mark) = text \o (<<mark>> \o Marked(lists, mark))
<1> DEFINE Good(ss) == Marked(<<text>> \o ss, mark) = text \o (<<mark>> \o Marked(ss, mark))
           T == {ss \in Seq(Seq(S)) : ss # <<>> => Good(ss)}
<1>1. <<>> \in T
  OBVIOUS
<1>2. ASSUME NEW ss \in Seq(Seq(S)), NEW s \in Seq(S), ss \in T
      PROVE  Append(ss, s) \in T
  <2> DEFINE m == Marked(ss, mark)
             front == <<text>> \o ss
  <2>1. front \in Seq(Seq(S)) /\ front # <<>> /\ <<text>> \o Append(ss, s) = Append(front, s)
    OBVIOUS
  <2>2. Marked(Append(front, s), mark) = Marked(front, mark) \o (<<mark>> \o s)
    BY <2>1, MarkedAppend
  <2>3. CASE ss = <<>>
    <3>1. front = <<text>> /\ Append(ss, s) = <<s>>
      BY <2>3
    <3>2. Marked(front, mark) = text /\ Marked(Append(ss, s), mark) = s
      BY <3>1, MarkedOne
    <3> HIDE DEF front
    <3>3. Good(Append(ss, s))
      BY <2>1, <2>2, <3>2
    <3> HIDE DEF Good
    <3> QED
      BY <3>3
  <2>4. CASE ss # <<>>
    <3>1. Marked(front, mark) = text \o (<<mark>> \o m)
      BY <1>2, <2>4
    <3>2. Marked(Append(ss, s), mark) = m \o (<<mark>> \o s)
      BY <2>4, MarkedAppend
    <3>3. m \in Seq(S) /\ <<mark>> \in Seq(S)
      BY MarkedType
    <3> HIDE DEF m, front
    <3>4. (text \o (<<mark>> \o m)) \o (<<mark>> \o s) = text \o (<<mark>> \o (m \o (<<mark>> \o s)))
      <4> DEFINE a == <<mark>>
                 b == <<mark>> \o s
      <4>1. a \in Seq(S) /\ b \in Seq(S) /\ a \o m \in Seq(S) /\ m \o b \in Seq(S)
        BY <3>3, ConcatProperties
      <4> HIDE DEF a, b
      <4>2. Regroup(text, a, m, b)
        BY <3>3, <4>1, Regrouped
      <4> QED
        BY <4>2 DEF Regroup, a, b
    <3>5. Good(Append(ss, s))
      BY <2>1, <2>2, <3>1, <3>2, <3>4 DEF m
    <3> HIDE DEF Good
    <3> QED
      BY <3>5
  <2> QED
    BY <2>3, <2>4
<1>3. \A ss \in Seq(Seq(S)) : ss \in T
  <2> HIDE DEF T
  <2> QED
    BY <1>1, <1>2, Appending
<1> QED
  BY <1>3

-----------------------------------------------------------------------------
(* Tokens, and Expand.                                                     *)

\* What Token and Placeholder make are tokens of their kind.
LEMMA TokenTypes ==
  /\ \A kind \in Kinds : Token(kind) \in Tokens /\ Token(kind).kind = kind
  /\ \A key \in Nat : /\ Placeholder(key) \in Tokens
                      /\ Placeholder(key).kind = "placeholder" /\ Placeholder(key).key = key
  /\ \A x \in Tokens : x.key \in Nat /\ x.name \in Names
<1>1. NoName \in Names
  BY DEF NoName, Names
<1>2. \A kind \in Kinds : Token(kind) \in Tokens /\ Token(kind).kind = kind
  BY <1>1 DEF Token, Tokens
<1>3. \A key \in Nat : /\ Placeholder(key) \in Tokens
                       /\ Placeholder(key).kind = "placeholder" /\ Placeholder(key).key = key
  BY <1>2 DEF Placeholder, Tokens, Kinds
<1>4. \A x \in Tokens : x.key \in Nat /\ x.name \in Names
  BY DEF Tokens
<1> QED
  BY <1>2, <1>3, <1>4

\* The tokens that have a name of their own, and their kinds.
LEMMA TokenKinds ==
  /\ Open.kind = "open" /\ Close.kind = "close" /\ Comma.kind = "comma" /\ From.kind = "from"
  /\ Param.kind = "param" /\ Percents.kind = "percents" /\ Percent.kind = "percent"
  /\ Question.kind = "question" /\ Other.kind = "other"
  /\ {Open, Close, Comma, From, Param, Percents, Percent, Question, Other}
       \subseteq Tokens
BY TokenTypes DEF Open, Close, Comma, From, Param, Percents, Percent, Question, Other, Kinds

\* Django writes tokens, and none of them is a placeholder.
LEMMA SourceTypes ==
  /\ SourceTokens \subseteq Tokens
  /\ \A x \in SourceTokens : x.kind # "placeholder"
<1>1. ASSUME NEW x \in SourceTokens
      PROVE  x \in Tokens /\ x.kind # "placeholder"
  <2>1. CASE x \in {Open, Close, Comma, Param, Percents, From, Other}
    BY <2>1, TokenKinds
  <2>2. CASE x \in [kind: {"name"}, table: Words \cup {"none"}, name: Names, key: {0}]
    BY <2>2 DEF Tokens, Kinds
  <2> QED
    BY <2>1, <2>2 DEF SourceTokens
<1> QED
  BY <1>1

\* What a token becomes.
Meant(token, values) == IF token.kind = "placeholder" THEN values[token.key] ELSE <<token>>

\* The placeholders among the tokens stand for something.
Known(tokens, values) ==
  \A k \in DOMAIN tokens : tokens[k].kind = "placeholder" => values[tokens[k].key] \in Seq(Tokens)

\* What each token of a text stands for is a text.
LEMMA MeantType ==
  ASSUME NEW tokens \in Seq(Tokens), NEW values, Known(tokens, values)
  PROVE  [k \in 1..Len(tokens) |-> Meant(tokens[k], values)] \in Seq(Seq(Tokens))
<1>1. \A k \in 1..Len(tokens) : Meant(tokens[k], values) \in Seq(Tokens)
  BY DEF Meant, Known
<1> QED
  BY <1>1, LenProperties

\* A text expands to a text.
LEMMA ExpandType ==
  ASSUME NEW tokens \in Seq(Tokens), NEW values, Known(tokens, values)
  PROVE  Expand(tokens, values) \in Seq(Tokens)
BY MeantType, FlattenType DEF Expand, Meant

\* The empty text expands to itself.
LEMMA ExpandEmpty ==
  ASSUME NEW values
  PROVE  Expand(<<>>, values) = <<>>
<1>1. [k \in 1..Len(<<>>) |-> Meant(<<>>[k], values)] = <<>>
  OBVIOUS
<1> QED
  BY <1>1, FlattenEmpty DEF Expand, Meant

\* A token at the end of a text adds what it stands for.
LEMMA ExpandAppend ==
  ASSUME NEW tokens \in Seq(Tokens), NEW token \in Tokens, NEW values,
         Known(Append(tokens, token), values)
  PROVE  /\ Known(tokens, values)
         /\ Meant(token, values) \in Seq(Tokens)
         /\ Expand(Append(tokens, token), values) = Expand(tokens, values) \o Meant(token, values)
<1> DEFINE Pieces(t) == [k \in 1..Len(t) |-> Meant(t[k], values)]
           more == Append(tokens, token)
           l == Len(tokens)
<1>1. /\ l \in Nat /\ Len(more) = l + 1 /\ more[l + 1] = token /\ more \in Seq(Tokens)
      /\ DOMAIN more = 1..l + 1 /\ DOMAIN tokens = 1..l
      /\ \A k \in 1..l : more[k] = tokens[k]
  OBVIOUS
<1> HIDE DEF more
<1>2. Known(tokens, values) /\ Meant(token, values) \in Seq(Tokens)
  <2>1. \A k \in 1..l + 1 : more[k].kind = "placeholder" => values[more[k].key] \in Seq(Tokens)
    BY <1>1 DEF Known, more
  <2>2. Known(tokens, values)
    BY <1>1, <2>1 DEF Known
  <2>3. token.kind = "placeholder" => values[token.key] \in Seq(Tokens)
    BY <1>1, <2>1
  <2> QED
    BY <2>2, <2>3 DEF Meant
<1>3. Pieces(tokens) \in Seq(Seq(Tokens)) /\ Len(Pieces(tokens)) = l
  <2>1. Pieces(tokens) \in Seq(Seq(Tokens))
    BY <1>2, MeantType, Zenon
  <2>2. Len(Pieces(tokens)) = l
    BY <1>1
  <2> QED
    BY <2>1, <2>2
<1>4. Pieces(more) = Append(Pieces(tokens), Meant(token, values))
  <2> DEFINE a == Pieces(more)
             p == Pieces(tokens)
             b == Append(p, Meant(token, values))
  <2>1. a = [k \in 1..l + 1 |-> Meant(more[k], values)]
    BY <1>1
  <2>2. \A k \in 1..l : p[k] = Meant(tokens[k], values)
    OBVIOUS
  <2> HIDE DEF a, p
  <2>3. b = [k \in 1..l + 1 |-> IF k = l + 1 THEN Meant(token, values) ELSE p[k]]
    BY <1>1, <1>2, <1>3 DEF p
  <2>4. \A k \in 1..l + 1 : Meant(more[k], values) = IF k = l + 1 THEN Meant(token, values) ELSE p[k]
    BY <1>1, <2>2
  <2> HIDE DEF b
  <2> QED
    BY <2>1, <2>3, <2>4 DEF a, b, p
<1> HIDE DEF Pieces
<1>5. FlattenSeq(Pieces(more)) = FlattenSeq(Pieces(tokens)) \o Meant(token, values)
  BY <1>2, <1>3, <1>4, FlattenAppend
<1> QED
  BY <1>2, <1>5 DEF Pieces, Expand, Meant, more

\* A single token expands to what it stands for.
LEMMA ExpandOne ==
  ASSUME NEW token \in Tokens, NEW values, Known(<<token>>, values)
  PROVE  Expand(<<token>>, values) = Meant(token, values)
<1>1. <<token>> = Append(<<>>, token) /\ <<>> \in Seq(Tokens)
  OBVIOUS
<1>2. /\ Meant(token, values) \in Seq(Tokens)
      /\ Expand(Append(<<>>, token), values) = Expand(<<>>, values) \o Meant(token, values)
  BY <1>1, ExpandAppend
<1>3. <<>> \o Meant(token, values) = Meant(token, values)
  BY <1>2
<1>4. Expand(<<>>, values) = <<>>
  BY ExpandEmpty
<1> QED
  BY <1>1, <1>2, <1>3, <1>4

\* Texts are expanded one after the other.
LEMMA ExpandConcat ==
  ASSUME NEW head \in Seq(Tokens), NEW tail \in Seq(Tokens), NEW values, Known(head \o tail, values)
  PROVE  /\ Known(head, values) /\ Known(tail, values)
         /\ Expand(head \o tail, values) = Expand(head, values) \o Expand(tail, values)
<1> DEFINE Good(t) ==
             /\ Known(head, values) /\ Known(t, values)
             /\ Expand(head \o t, values) = Expand(head, values) \o Expand(t, values)
           T == {t \in Seq(Tokens) : Known(head \o t, values) => Good(t)}
<1>1. <<>> \in T
  <2>1. head \o <<>> = head /\ <<>> \in Seq(Tokens)
    OBVIOUS
  <2>2. Known(<<>>, values)
    BY DEF Known
  <2>3. ASSUME Known(head, values)
        PROVE  Expand(head, values) \o <<>> = Expand(head, values)
    BY <2>3, ExpandType
  <2> QED
    BY <2>1, <2>2, <2>3, ExpandEmpty
<1>2. ASSUME NEW t \in Seq(Tokens), NEW e \in Tokens, t \in T
      PROVE  Append(t, e) \in T
  <2>1. head \o Append(t, e) = Append(head \o t, e) /\ head \o t \in Seq(Tokens)
    OBVIOUS
  <2> SUFFICES ASSUME Known(head \o Append(t, e), values)
               PROVE  Good(Append(t, e))
    OBVIOUS
  <2>2. /\ Known(head \o t, values) /\ Meant(e, values) \in Seq(Tokens)
        /\ Expand(Append(head \o t, e), values) = Expand(head \o t, values) \o Meant(e, values)
    <3>1. Known(Append(head \o t, e), values)
      BY <2>1
    <3> QED
      BY <2>1, <3>1, ExpandAppend
  <2>3. Good(t)
    BY <1>2, <2>2
  <2>4. Known(Append(t, e), values)
    <3>1. e.kind = "placeholder" => values[e.key] \in Seq(Tokens)
      BY <2>2 DEF Meant
    <3>2. \A k \in DOMAIN Append(t, e) : Append(t, e)[k] = e \/ (k \in DOMAIN t /\ Append(t, e)[k] = t[k])
      OBVIOUS
    <3> QED
      BY <2>3, <3>1, <3>2 DEF Known
  <2>5. Expand(Append(t, e), values) = Expand(t, values) \o Meant(e, values)
    BY <2>4, ExpandAppend
  <2> DEFINE a == Expand(head, values)
             b == Expand(t, values)
             c == Meant(e, values)
  <2>6. a \in Seq(Tokens) /\ b \in Seq(Tokens) /\ c \in Seq(Tokens)
    BY <2>2, <2>3, ExpandType
  <2>7. (a \o b) \o c = a \o (b \o c)
    <3> HIDE DEF a, b, c
    <3> QED
      BY <2>6
  <2> QED
    BY <2>1, <2>2, <2>3, <2>4, <2>5, <2>7
<1>3. \A t \in Seq(Tokens) : t \in T
  <2> HIDE DEF T
  <2> QED
    BY <1>1, <1>2, Appending
<1> QED
  BY <1>3

\* A text of another text is expanded in the same way with other values for what it has
\* no placeholder of.
LEMMA ExpandSame ==
  ASSUME NEW tokens, NEW values, NEW others,
         \A k \in 1..Len(tokens) : Meant(tokens[k], values) = Meant(tokens[k], others)
  PROVE  Expand(tokens, values) = Expand(tokens, others)
<1>1. [k \in 1..Len(tokens) |-> Meant(tokens[k], values)]
        = [k \in 1..Len(tokens) |-> Meant(tokens[k], others)]
  OBVIOUS
<1> QED
  BY <1>1 DEF Expand, Meant

\* What an expanded text consists of.
LEMMA ExpandRange ==
  ASSUME NEW tokens \in Seq(Tokens), NEW values, Known(tokens, values)
  PROVE  \A x : x \in Range(Expand(tokens, values))
                  <=> \E k \in DOMAIN tokens : x \in Range(Meant(tokens[k], values))
<1> DEFINE Good(t) == \A x : x \in Range(Expand(t, values))
                               <=> \E k \in DOMAIN t : x \in Range(Meant(t[k], values))
           T == {t \in Seq(Tokens) : Known(t, values) => Good(t)}
<1>1. <<>> \in T
  <2>1. Range(<<>>) = {} /\ DOMAIN <<>> = {}
    BY DEF Range
  <2> QED
    BY <2>1, ExpandEmpty
<1>2. ASSUME NEW t \in Seq(Tokens), NEW e \in Tokens, t \in T
      PROVE  Append(t, e) \in T
  <2> DEFINE u == Append(t, e)
  <2>1. /\ u \in Seq(Tokens) /\ DOMAIN u = 1..Len(t) + 1 /\ DOMAIN t = 1..Len(t) /\ Len(t) \in Nat
        /\ u[Len(t) + 1] = e /\ \A k \in 1..Len(t) : u[k] = t[k]
    OBVIOUS
  <2> SUFFICES ASSUME Known(u, values)
               PROVE  Good(u)
    BY <2>1
  <2>2. /\ Known(t, values) /\ Meant(e, values) \in Seq(Tokens)
        /\ Expand(u, values) = Expand(t, values) \o Meant(e, values)
    BY ExpandAppend
  <2>3. Range(Expand(u, values)) = Range(Expand(t, values)) \cup Range(Meant(e, values))
    BY <2>2, ExpandType, RangeConcatenation
  <2>4. Good(t)
    BY <1>2, <2>2
  <2> HIDE DEF u
  <2> SUFFICES ASSUME NEW x
               PROVE  x \in Range(Expand(u, values))
                        <=> \E k \in DOMAIN u : x \in Range(Meant(u[k], values))
    OBVIOUS
  <2>5. x \in Range(Expand(u, values))
          <=> (\E k \in DOMAIN t : x \in Range(Meant(t[k], values))) \/ x \in Range(Meant(e, values))
    BY <2>3, <2>4
  <2>6. \A k \in DOMAIN u : k \in DOMAIN t \/ k = Len(t) + 1
    BY <2>1
  <2>7. DOMAIN t \subseteq DOMAIN u /\ Len(t) + 1 \in DOMAIN u
    BY <2>1
  <2> QED
    BY <2>1, <2>5, <2>6, <2>7
<1>3. \A t \in Seq(Tokens) : t \in T
  <2> HIDE DEF T
  <2> QED
    BY <1>1, <1>2, Appending
<1> QED
  BY <1>3

-----------------------------------------------------------------------------
(* The depth of parentheses.                                               *)

\* How many of the first k tokens are the given one.
Among(text, token, k) == Cardinality({m \in 1..k : text[m] = token})

\* The number of a token in the beginning of a text, counted token by token.
LEMMA AmongStep ==
  ASSUME NEW text, NEW token, NEW k \in Nat
  PROVE  /\ Among(text, token, 0) = 0
         /\ Among(text, token, k) \in Nat
         /\ Among(text, token, k + 1)
              = Among(text, token, k) + (IF text[k + 1] = token THEN 1 ELSE 0)
<1> DEFINE S(n) == {m \in 1..n : text[m] = token}
<1>1. \A n \in Nat : IsFiniteSet(S(n)) /\ Cardinality(S(n)) \in Nat
  <2> SUFFICES ASSUME NEW n \in Nat
               PROVE  IsFiniteSet(S(n)) /\ Cardinality(S(n)) \in Nat
    OBVIOUS
  <2>1. IsFiniteSet(1..n) /\ S(n) \in SUBSET (1..n)
    BY FS_Interval
  <2> HIDE DEF S
  <2> QED
    BY <2>1, FS_Subset, FS_CardinalityType
<1>2. S(0) = {}
  OBVIOUS
<1>3. Cardinality(S(k + 1)) = Cardinality(S(k)) + (IF text[k + 1] = token THEN 1 ELSE 0)
  <2>1. CASE text[k + 1] = token
    <3>1. S(k + 1) = S(k) \cup {k + 1} /\ k + 1 \notin S(k)
      BY <2>1
    <3>2. IsFiniteSet(S(k))
      BY <1>1
    <3> HIDE DEF S
    <3>3. Cardinality(S(k + 1)) = Cardinality(S(k)) + 1
      BY <3>1, <3>2, FS_AddElement
    <3> QED
      BY <2>1, <3>3
  <2>2. CASE text[k + 1] # token
    <3>1. S(k + 1) = S(k)
      BY <2>2
    <3>2. Cardinality(S(k)) \in Nat
      BY <1>1
    <3> HIDE DEF S
    <3> QED
      BY <2>2, <3>1, <3>2
  <2> QED
    BY <2>1, <2>2
<1>4. Cardinality(S(0)) = 0 /\ Cardinality(S(k)) \in Nat
  <2>1. Cardinality(S(k)) \in Nat
    BY <1>1
  <2> QED
    BY <1>2, <2>1, FS_EmptySet
<1> QED
  BY <1>3, <1>4 DEF Among

\* Opens and Closes count "(" and ")".
LEMMA ParenthesesAmong ==
  ASSUME NEW text, NEW k
  PROVE  Opens(text, k) = Among(text, Open, k) /\ Closes(text, k) = Among(text, Close, k)
BY DEF Opens, Closes, Among

\* How many parentheses are open after k tokens.
Depth(text, k) == Opens(text, k) - Closes(text, k)

\* What a token adds to the depth.
Deeper(token) == IF token = Open THEN 1 ELSE IF token = Close THEN 0 - 1 ELSE 0

\* A token changes the depth by what it is, and Outside is depth 0.
LEMMA DepthStep ==
  ASSUME NEW text, NEW k \in Nat
  PROVE  /\ Depth(text, 0) = 0
         /\ Depth(text, k) \in Int
         /\ Depth(text, k + 1) = Depth(text, k) + Deeper(text[k + 1])
         /\ Outside(text, k) <=> Depth(text, k) = 0
<1>1. /\ Opens(text, 0) = 0
      /\ Opens(text, k) \in Nat
      /\ Opens(text, k + 1) = Opens(text, k) + (IF text[k + 1] = Open THEN 1 ELSE 0)
  BY AmongStep, ParenthesesAmong
<1>2. /\ Closes(text, 0) = 0
      /\ Closes(text, k) \in Nat
      /\ Closes(text, k + 1) = Closes(text, k) + (IF text[k + 1] = Close THEN 1 ELSE 0)
  BY AmongStep, ParenthesesAmong
<1>3. Open # Close
  BY TokenKinds
<1> QED
  BY <1>1, <1>2, <1>3 DEF Depth, Outside, Deeper

\* Texts that begin alike are equally deep.
LEMMA DepthEqual ==
  ASSUME NEW text, NEW other, NEW l \in Nat, \A k \in 1..l : text[k] = other[k]
  PROVE  \A k \in 0..l : Depth(text, k) = Depth(other, k)
<1> DEFINE T == {k \in Nat : k <= l => Depth(text, k) = Depth(other, k)}
<1>1. 0 \in T
  BY DepthStep
<1>2. ASSUME NEW k \in Nat, k \in T
      PROVE  k + 1 \in T
  <2> SUFFICES ASSUME k + 1 <= l
               PROVE  Depth(text, k + 1) = Depth(other, k + 1)
    OBVIOUS
  <2>1. Depth(text, k) = Depth(other, k) /\ text[k + 1] = other[k + 1]
    BY <1>2
  <2> QED
    BY <2>1, DepthStep
<1>3. \A k \in Nat : k \in T
  <2> HIDE DEF T
  <2> QED
    BY <1>1, <1>2, Counting
<1> QED
  BY <1>3

\* The depth in two texts put together.
LEMMA DepthConcat ==
  ASSUME NEW S, NEW head \in Seq(S), NEW tail \in Seq(S)
  PROVE  /\ \A k \in 0..Len(head) : Depth(head \o tail, k) = Depth(head, k)
         /\ \A k \in 0..Len(tail) :
              Depth(head \o tail, Len(head) + k) = Depth(head, Len(head)) + Depth(tail, k)
<1> DEFINE both == head \o tail
           l == Len(head)
<1>1. /\ l \in Nat /\ Len(tail) \in Nat
      /\ \A k \in 1..l : both[k] = head[k]
      /\ \A k \in 1..Len(tail) : both[l + k] = tail[k]
  OBVIOUS
<1> HIDE DEF both
<1>2. \A k \in 0..l : Depth(both, k) = Depth(head, k)
  BY <1>1, DepthEqual
<1> DEFINE T == {k \in Nat : k <= Len(tail) => Depth(both, l + k) = Depth(head, l) + Depth(tail, k)}
<1>3. 0 \in T
  <2>1. Depth(both, l) = Depth(head, l) /\ Depth(head, l) \in Int /\ Depth(tail, 0) = 0 /\ l + 0 = l
    BY <1>1, <1>2, DepthStep
  <2> QED
    BY <2>1
<1>4. ASSUME NEW k \in Nat, k \in T
      PROVE  k + 1 \in T
  <2> SUFFICES ASSUME k + 1 <= Len(tail)
               PROVE  Depth(both, l + (k + 1)) = Depth(head, l) + Depth(tail, k + 1)
    OBVIOUS
  <2>1. Depth(both, l + k) = Depth(head, l) + Depth(tail, k) /\ both[(l + k) + 1] = tail[k + 1]
    <3>1. k + 1 \in 1..Len(tail) /\ l + (k + 1) = (l + k) + 1
      BY <1>1
    <3> QED
      BY <1>1, <1>4, <3>1
  <2>2. Depth(both, (l + k) + 1) = Depth(both, l + k) + Deeper(both[(l + k) + 1])
    <3>1. l + k \in Nat
      BY <1>1
    <3> QED
      BY <3>1, DepthStep
  <2>3. Depth(tail, k + 1) = Depth(tail, k) + Deeper(tail[k + 1]) /\ Depth(tail, k) \in Int
    BY DepthStep
  <2>4. Depth(head, l) \in Int /\ Deeper(tail[k + 1]) \in Int /\ l + (k + 1) = (l + k) + 1
    BY <1>1, DepthStep DEF Deeper
  <2> QED
    BY <2>1, <2>2, <2>3, <2>4
<1>5. \A k \in Nat : k \in T
  <2> HIDE DEF T
  <2> QED
    BY <1>3, <1>4, Counting
<1> QED
  BY <1>1, <1>2, <1>5 DEF both

\* In a balanced text the depth is never negative, and 0 at the end.
LEMMA BalancedDepth ==
  ASSUME NEW S, NEW text \in Seq(S)
  PROVE  Balanced(text) <=> /\ \A k \in 0..Len(text) : Depth(text, k) >= 0
                            /\ Depth(text, Len(text)) = 0
<1>1. DOMAIN text = 1..Len(text) /\ Len(text) \in Nat
  OBVIOUS
<1>2. \A k \in Nat : Opens(text, k) \in Nat /\ Closes(text, k) \in Nat
  BY AmongStep, ParenthesesAmong
<1>3. Depth(text, 0) = 0
  BY DepthStep
<1>4. \A k \in Nat : /\ Closes(text, k) <= Opens(text, k) <=> Depth(text, k) >= 0
                     /\ Outside(text, k) <=> Depth(text, k) = 0
  <2> SUFFICES ASSUME NEW k \in Nat
               PROVE  /\ Closes(text, k) <= Opens(text, k) <=> Depth(text, k) >= 0
                      /\ Outside(text, k) <=> Depth(text, k) = 0
    OBVIOUS
  <2> DEFINE o == Opens(text, k)
             c == Closes(text, k)
  <2>1. o \in Nat /\ c \in Nat
    BY <1>2
  <2> HIDE DEF o, c
  <2>2. (c <= o <=> o - c >= 0) /\ (o = c <=> o - c = 0)
    BY <2>1
  <2> QED
    BY <2>2 DEF Depth, Outside, o, c
<1>5. Balanced(text) <=> /\ \A k \in 1..Len(text) : Depth(text, k) >= 0
                         /\ Depth(text, Len(text)) = 0
  BY <1>1, <1>4 DEF Balanced
<1> QED
  BY <1>1, <1>3, <1>5

\* Two balanced texts are one balanced text.
LEMMA BalancedConcat ==
  ASSUME NEW S, NEW head \in Seq(S), Balanced(head), NEW tail \in Seq(S), Balanced(tail)
  PROVE  Balanced(head \o tail)
<1> DEFINE both == head \o tail
           l == Len(head)
           r == Len(tail)
<1>1. l \in Nat /\ r \in Nat /\ both \in Seq(S) /\ Len(both) = l + r
  OBVIOUS
<1>2. /\ \A k \in 0..l : Depth(both, k) = Depth(head, k)
      /\ \A k \in 0..r : Depth(both, l + k) = Depth(head, l) + Depth(tail, k)
  BY DepthConcat
<1>3. /\ Depth(head, l) = 0 /\ Depth(tail, r) = 0
      /\ \A k \in 0..l : Depth(head, k) >= 0
      /\ \A k \in 0..r : Depth(tail, k) >= 0
  BY BalancedDepth
<1>4. \A k \in 0..r : Depth(tail, k) \in Int
  BY <1>1, DepthStep
<1> HIDE DEF both, l, r
<1>5. \A k \in 0..r : Depth(both, l + k) = Depth(tail, k)
  BY <1>2, <1>3, <1>4
<1>6. Depth(both, l + r) = 0
  BY <1>1, <1>3, <1>5
<1>7. ASSUME NEW k \in 0..l + r
      PROVE  Depth(both, k) >= 0
  <2>1. CASE k <= l
    BY <1>1, <1>2, <1>3, <2>1
  <2>2. CASE ~ (k <= l)
    <3>1. k - l \in 0..r /\ l + (k - l) = k
      BY <1>1, <2>2
    <3> QED
      BY <1>3, <1>5, <3>1
  <2> QED
    BY <2>1, <2>2
<1>8. Balanced(both)
  BY <1>1, <1>6, <1>7, BalancedDepth
<1> QED
  BY <1>8 DEF both

-----------------------------------------------------------------------------
(* What a text looks like once its parentheses have been replaced.         *)

\* What the buffer outside all parentheses is after the n-th token, if it was sofar
\* before it, and if all placeholders are alike.
Seen(sofar, text, n) ==
  IF ~ Outside(text, n) THEN sofar
  ELSE IF text[n] = Close THEN sofar \o <<Open, Placeholder(0), Close>>
  ELSE Append(sofar, text[n])

\* The skeletons of the beginnings of a text, one for each length.
IsSkeleton(sk, text) ==
  /\ sk \in [0..Len(text) -> Seq(Tokens)]
  /\ sk[0] = <<>>
  /\ \A n \in 1..Len(text) : sk[n] = Seen(sk[n - 1], text, n)

\* They are determined by the text.
Skeleton(text) == CHOOSE sk : IsSkeleton(sk, text)

\* The skeleton of all of a text.
Whole(text) == Skeleton(text)[Len(text)]

\* What a closed group leaves in a skeleton is a text.
LEMMA GroupType == <<Open, Placeholder(0), Close>> \in Seq(Tokens)
BY TokenKinds, TokenTypes

\* A token keeps a skeleton a text.
LEMMA SeenType ==
  ASSUME NEW text \in Seq(Tokens), NEW n \in 1..Len(text), NEW sofar \in Seq(Tokens)
  PROVE  Seen(sofar, text, n) \in Seq(Tokens)
<1>1. sofar \o <<Open, Placeholder(0), Close>> \in Seq(Tokens)
  BY GroupType, ConcatProperties
<1>2. Append(sofar, text[n]) \in Seq(Tokens)
  OBVIOUS
<1> QED
  BY <1>1, <1>2 DEF Seen

\* Every text has its skeletons.
LEMMA SkeletonExists ==
  ASSUME NEW text \in Seq(Tokens)
  PROVE  IsSkeleton(Skeleton(text), text)
<1> DEFINE l == Len(text)
           G == [n \in Nat |-> [s \in Seq(Tokens) |->
                   IF n + 1 \in 1..l THEN Seen(s, text, n + 1) ELSE s]]
<1>1. l \in Nat
  OBVIOUS
<1>2. G \in [Nat -> [Seq(Tokens) -> Seq(Tokens)]]
  BY SeenType
<1>3. PICK f \in [Nat -> Seq(Tokens)] : f[0] = <<>> /\ \A n \in Nat : f[n + 1] = G[n][f[n]]
  <2>1. <<>> \in Seq(Tokens)
    OBVIOUS
  <2> DEFINE S == Seq(Tokens)
             empty == <<>>
  <2> HIDE DEF G, S, empty
  <2>2. empty \in S /\ G \in [Nat -> [S -> S]]
    BY <1>2, <2>1 DEF S, empty
  <2>3. \E f : IsDefinedBy(f, S, empty, G)
    BY <2>2, Recursion
  <2> QED
    BY <2>3 DEF IsDefinedBy, S, empty
<1> DEFINE sk == [n \in 0..l |-> f[n]]
<1>4. ASSUME NEW n \in 1..l
      PROVE  sk[n] = Seen(sk[n - 1], text, n)
  <2>1. n - 1 \in Nat /\ n - 1 \in 0..l /\ n \in 0..l /\ (n - 1) + 1 = n
    BY <1>1
  <2>2. f[n - 1] \in Seq(Tokens) /\ f[(n - 1) + 1] = G[n - 1][f[n - 1]]
    BY <1>3, <2>1
  <2>3. G[n - 1][f[n - 1]] = Seen(f[n - 1], text, n)
    BY <2>1, <2>2
  <2>4. sk[n] = f[n] /\ sk[n - 1] = f[n - 1]
    BY <2>1
  <2> HIDE DEF G, sk
  <2> QED
    BY <2>1, <2>2, <2>3, <2>4
<1>5. IsSkeleton(sk, text)
  <2>1. sk \in [0..l -> Seq(Tokens)] /\ sk[0] = <<>>
    BY <1>1, <1>3
  <2> HIDE DEF sk
  <2> QED
    BY <1>4, <2>1 DEF IsSkeleton
<1> HIDE DEF sk
<1> QED
  BY <1>5 DEF Skeleton

\* A step of the skeleton, with the depth.
LEMMA SkeletonStep ==
  ASSUME NEW text \in Seq(Tokens), NEW n \in Nat, n < Len(text)
  PROVE  /\ Skeleton(text)[0] = <<>>
         /\ Skeleton(text)[n] \in Seq(Tokens)
         /\ Skeleton(text)[n + 1] \in Seq(Tokens)
         /\ Skeleton(text)[n + 1] =
              IF Depth(text, n + 1) # 0 THEN Skeleton(text)[n]
              ELSE IF text[n + 1] = Close
                   THEN Skeleton(text)[n] \o <<Open, Placeholder(0), Close>>
                   ELSE Append(Skeleton(text)[n], text[n + 1])
<1> DEFINE sk == Skeleton(text)
<1>1. IsSkeleton(sk, text)
  BY SkeletonExists
<1>2. n \in 0..Len(text) /\ n + 1 \in 1..Len(text) /\ n + 1 \in 0..Len(text) /\ (n + 1) - 1 = n
  OBVIOUS
<1>3. Outside(text, n + 1) <=> Depth(text, n + 1) = 0
  BY DepthStep
<1> HIDE DEF sk
<1>4. sk[0] = <<>> /\ sk[n] \in Seq(Tokens) /\ sk[n + 1] \in Seq(Tokens)
  BY <1>1, <1>2 DEF IsSkeleton
<1>5. sk[n + 1] = Seen(sk[n], text, n + 1)
  BY <1>1, <1>2 DEF IsSkeleton
<1> QED
  BY <1>3, <1>4, <1>5 DEF Seen, sk

\* The skeleton of a text in front of which stands one without open parentheses.
LEMMA SkeletonConcat ==
  ASSUME NEW head \in Seq(Tokens), Depth(head, Len(head)) = 0, NEW tail \in Seq(Tokens)
  PROVE  /\ \A n \in 0..Len(head) : Skeleton(head \o tail)[n] = Skeleton(head)[n]
         /\ \A n \in 0..Len(tail) :
              Skeleton(head \o tail)[Len(head) + n] = Whole(head) \o Skeleton(tail)[n]
<1> DEFINE both == head \o tail
           l == Len(head)
           r == Len(tail)
           B == Skeleton(both)
           H == Skeleton(head)
           K == Skeleton(tail)
           group == <<Open, Placeholder(0), Close>>
<1>1. /\ l \in Nat /\ r \in Nat /\ both \in Seq(Tokens) /\ Len(both) = l + r
      /\ \A n \in 1..l : both[n] = head[n]
      /\ \A n \in 1..r : both[l + n] = tail[n]
  OBVIOUS
<1>2. /\ \A n \in 0..l : Depth(both, n) = Depth(head, n)
      /\ \A n \in 0..r : Depth(both, l + n) = Depth(tail, n)
  <2>1. \A n \in 0..r : Depth(tail, n) \in Int
    BY <1>1, DepthStep
  <2>2. \A n \in 0..r : 0 + Depth(tail, n) = Depth(tail, n)
    BY <2>1
  <2> QED
    BY <2>2, DepthConcat
<1>3. IsSkeleton(B, both) /\ IsSkeleton(H, head) /\ IsSkeleton(K, tail)
  BY <1>1, SkeletonExists
<1>4. B[0] = <<>> /\ H[0] = <<>> /\ K[0] = <<>>
  BY <1>3 DEF IsSkeleton
<1>5. ASSUME NEW n \in Nat, n < l
      PROVE  /\ Depth(both, n + 1) = Depth(head, n + 1) /\ both[n + 1] = head[n + 1]
             /\ B[n + 1] = IF Depth(both, n + 1) # 0 THEN B[n]
                           ELSE IF both[n + 1] = Close THEN B[n] \o group
                           ELSE Append(B[n], both[n + 1])
             /\ H[n + 1] = IF Depth(head, n + 1) # 0 THEN H[n]
                           ELSE IF head[n + 1] = Close THEN H[n] \o group
                           ELSE Append(H[n], head[n + 1])
  <2>1. n + 1 \in 1..l /\ n + 1 \in 0..l /\ n < Len(both) /\ n < Len(head)
    BY <1>1, <1>5
  <2> HIDE DEF both
  <2> QED
    BY <1>1, <1>2, <2>1, SkeletonStep
<1>6. ASSUME NEW n \in Nat, n < r
      PROVE  /\ Depth(both, l + (n + 1)) = Depth(tail, n + 1) /\ both[l + (n + 1)] = tail[n + 1]
             /\ B[l + (n + 1)] = IF Depth(both, l + (n + 1)) # 0 THEN B[l + n]
                                 ELSE IF both[l + (n + 1)] = Close THEN B[l + n] \o group
                                 ELSE Append(B[l + n], both[l + (n + 1)])
             /\ K[n] \in Seq(Tokens)
             /\ K[n + 1] = IF Depth(tail, n + 1) # 0 THEN K[n]
                           ELSE IF tail[n + 1] = Close THEN K[n] \o group
                           ELSE Append(K[n], tail[n + 1])
  <2>1. /\ n + 1 \in 1..r /\ n + 1 \in 0..r /\ l + n < Len(both) /\ l + n \in Nat /\ n < Len(tail)
        /\ l + (n + 1) = (l + n) + 1
    BY <1>1, <1>6
  <2> HIDE DEF both
  <2> QED
    <3>1. /\ Depth(both, l + (n + 1)) = Depth(tail, n + 1) /\ both[l + (n + 1)] = tail[n + 1]
      BY <1>1, <1>2, <2>1
    <3>2. /\ B[(l + n) + 1] = IF Depth(both, (l + n) + 1) # 0 THEN B[l + n]
                              ELSE IF both[(l + n) + 1] = Close THEN B[l + n] \o group
                              ELSE Append(B[l + n], both[(l + n) + 1])
      BY <1>1, <2>1, SkeletonStep
    <3>3. /\ K[n] \in Seq(Tokens)
          /\ K[n + 1] = IF Depth(tail, n + 1) # 0 THEN K[n]
                        ELSE IF tail[n + 1] = Close THEN K[n] \o group
                        ELSE Append(K[n], tail[n + 1])
      BY <2>1, SkeletonStep
    <3> HIDE DEF B, K, group, l
    <3> QED
      BY <2>1, <3>1, <3>2, <3>3
<1> HIDE DEF both, l, r, B, H, K, group
<1> DEFINE T == {n \in Nat : n <= l => B[n] = H[n]}
           Good(n) == n <= r => B[l + n] = H[l] \o K[n]
           U == {n \in Nat : Good(n)}
<1>7. 0 \in T
  BY <1>4
<1>8. ASSUME NEW n \in Nat, n \in T
      PROVE  n + 1 \in T
  <2> SUFFICES ASSUME n + 1 <= l
               PROVE  B[n + 1] = H[n + 1]
    OBVIOUS
  <2>1. B[n] = H[n] /\ n < l
    BY <1>1, <1>8
  <2> QED
    BY <2>1, <1>5
<1>9. \A n \in 0..l : B[n] = H[n]
  <2>1. \A n \in Nat : n \in T
    <3> HIDE DEF T
    <3> QED
      BY <1>7, <1>8, Counting
  <2> QED
    BY <2>1
<1>10. H[l] \in Seq(Tokens)
  <2>1. H \in [0..Len(head) -> Seq(Tokens)]
    BY <1>3 DEF IsSkeleton
  <2>2. l \in 0..Len(head)
    BY <1>1 DEF l
  <2> QED
    BY <2>1, <2>2
<1>11. Good(0)
  <2>1. l + 0 = l /\ l \in 0..l
    BY <1>1
  <2>2. H[l] \o <<>> = H[l]
    BY <1>10, ConcatEmptySeq
  <2> QED
    BY <1>4, <1>9, <2>1, <2>2
<1>12. ASSUME NEW n \in Nat, Good(n)
       PROVE  Good(n + 1)
  <2> SUFFICES ASSUME n + 1 <= r
               PROVE  B[l + (n + 1)] = H[l] \o K[n + 1]
    OBVIOUS
  <2>1. B[l + n] = H[l] \o K[n] /\ n < r
    <3>1. n <= r /\ n < r
      BY <1>1
    <3> QED
      BY <1>12, <3>1
  <2>2. K[n] \in Seq(Tokens) /\ group \in Seq(Tokens) /\ tail[n + 1] \in Tokens
    BY <1>1, <1>6, <2>1, GroupType DEF group, r
  <2> DEFINE a == H[l]
             b == K[n]
             e == tail[n + 1]
  <2>3. a \in Seq(Tokens) /\ b \in Seq(Tokens) /\ group \in Seq(Tokens) /\ e \in Tokens
    BY <1>10, <2>2
  <2>4. /\ e = both[l + (n + 1)] /\ Depth(both, l + (n + 1)) = Depth(tail, n + 1)
        /\ B[l + (n + 1)] = IF Depth(both, l + (n + 1)) # 0 THEN a \o b
                            ELSE IF e = Close THEN (a \o b) \o group
                            ELSE Append(a \o b, e)
        /\ K[n + 1] = IF Depth(tail, n + 1) # 0 THEN b
                      ELSE IF e = Close THEN b \o group
                      ELSE Append(b, e)
    BY <1>6, <2>1
  <2> HIDE DEF a, b, e
  <2>5. (a \o b) \o group = a \o (b \o group)
    BY <2>3
  <2>6. Append(a \o b, e) = a \o Append(b, e)
    BY <2>3, Together
  <2>7. B[l + (n + 1)] = a \o K[n + 1]
    BY <2>4, <2>5, <2>6
  <2> QED
    BY <2>7 DEF a
<1>13. \A n \in 0..r : B[l + n] = H[l] \o K[n]
  <2> HIDE DEF Good
  <2>1. 0 \in U /\ \A n \in Nat : n \in U => n + 1 \in U
    BY <1>11, <1>12
  <2>2. \A n \in Nat : n \in U
    <3> HIDE DEF U
    <3> QED
      BY <2>1, Counting
  <2>3. \A n \in Nat : Good(n)
    BY <2>2
  <2>4. \A n \in 0..r : n \in Nat /\ n <= r
    BY <1>1
  <2> QED
    BY <2>3, <2>4 DEF Good
<1> QED
  BY <1>9, <1>13 DEF B, H, K, both, l, r, Whole

\* The skeleton of a text is a text.
LEMMA WholeType ==
  ASSUME NEW text \in Seq(Tokens)
  PROVE  Whole(text) \in Seq(Tokens)
<1>1. IsSkeleton(Skeleton(text), text) /\ Len(text) \in 0..Len(text)
  BY SkeletonExists
<1> QED
  BY <1>1 DEF IsSkeleton, Whole

\* Behind a text that ends at depth 0 a skeleton goes on as from its start.
LEMMA WholeConcat ==
  ASSUME NEW head \in Seq(Tokens), Depth(head, Len(head)) = 0, NEW tail \in Seq(Tokens)
  PROVE  Whole(head \o tail) = Whole(head) \o Whole(tail)
<1>1. Len(head \o tail) = Len(head) + Len(tail) /\ Len(tail) \in 0..Len(tail)
  OBVIOUS
<1> QED
  BY <1>1, SkeletonConcat DEF Whole

\* What it consists of.
LEMMA WholeTokens ==
  ASSUME NEW text \in Seq(Tokens)
  PROVE  Whole(text) \in
           Seq({Open, Close, Placeholder(0)}
                 \cup {text[p] : p \in {q \in 1..Len(text) : Outside(text, q)}})
<1> DEFINE Z == {Open, Close, Placeholder(0)}
                  \cup {text[p] : p \in {q \in 1..Len(text) : Outside(text, q)}}
           l == Len(text)
           sk == Skeleton(text)
           Good(n) == n <= l => sk[n] \in Seq(Z)
           T == {n \in Nat : Good(n)}
<1>1. l \in Nat /\ <<Open, Placeholder(0), Close>> \in Seq(Z)
  OBVIOUS
<1>2. Good(0)
  <2>1. IsSkeleton(sk, text)
    BY SkeletonExists
  <2> QED
    BY <2>1 DEF IsSkeleton
<1>3. ASSUME NEW n \in Nat, Good(n)
      PROVE  Good(n + 1)
  <2> SUFFICES ASSUME n + 1 <= l
               PROVE  sk[n + 1] \in Seq(Z)
    OBVIOUS
  <2>1. n < Len(text) /\ n <= l /\ n + 1 \in 1..Len(text)
    BY <1>1
  <2>2. sk[n] \in Seq(Z)
    BY <1>3, <2>1
  <2>3. Outside(text, n + 1) => text[n + 1] \in Z
    BY <2>1
  <2>4. Outside(text, n + 1) <=> Depth(text, n + 1) = 0
    BY DepthStep
  <2>5. sk[n + 1] = IF Depth(text, n + 1) # 0 THEN sk[n]
                    ELSE IF text[n + 1] = Close THEN sk[n] \o <<Open, Placeholder(0), Close>>
                    ELSE Append(sk[n], text[n + 1])
    BY <2>1, SkeletonStep
  <2> DEFINE a == sk[n]
             g == <<Open, Placeholder(0), Close>>
             e == text[n + 1]
  <2>6. a \in Seq(Z) /\ g \in Seq(Z) /\ (Outside(text, n + 1) => e \in Z)
    BY <1>1, <2>2, <2>3
  <2>7. sk[n + 1] = IF Depth(text, n + 1) # 0 THEN a
                    ELSE IF e = Close THEN a \o g ELSE Append(a, e)
    BY <2>5
  <2> HIDE DEF a, g, e, Z, sk
  <2>8. a \o g \in Seq(Z) /\ (Outside(text, n + 1) => Append(a, e) \in Seq(Z))
    BY <2>6
  <2> QED
    BY <2>4, <2>6, <2>7, <2>8
<1>4. \A n \in Nat : Good(n)
  <2> HIDE DEF Good
  <2>1. 0 \in T /\ \A n \in Nat : n \in T => n + 1 \in T
    BY <1>2, <1>3
  <2>2. \A n \in Nat : n \in T
    <3> HIDE DEF T
    <3> QED
      BY <2>1, Counting
  <2> QED
    BY <2>2
<1>5. sk[l] \in Seq(Z)
  BY <1>1, <1>4
<1> QED
  BY <1>5 DEF Whole

\* The last element of a sequence that one was appended to.
LEMMA LastOfAppend ==
  ASSUME NEW S, NEW text \in Seq(S), NEW e \in S
  PROVE  Append(text, e) # <<>> /\ Last(Append(text, e)) = e
<1>1. Len(Append(text, e)) = Len(text) + 1 /\ Append(text, e)[Len(text) + 1] = e
  OBVIOUS
<1>2. Append(text, e) # <<>>
  BY <1>1
<1> QED
  BY <1>1, <1>2 DEF Last

\* It ends as the text does.
LEMMA WholeLast ==
  ASSUME NEW text \in Seq(Tokens), text # <<>>, Depth(text, Len(text)) = 0
  PROVE  Whole(text) # <<>> /\ Last(Whole(text)) = Last(text)
<1> DEFINE n == Len(text) - 1
           a == Skeleton(text)[n]
           e == text[n + 1]
<1>1. n \in Nat /\ n < Len(text) /\ n + 1 = Len(text) /\ e \in Tokens /\ Last(text) = e
  BY DEF Last
<1>2. /\ a \in Seq(Tokens)
      /\ Whole(text) = IF e = Close THEN a \o <<Open, Placeholder(0), Close>> ELSE Append(a, e)
  <2> HIDE DEF n
  <2> QED
    BY <1>1, SkeletonStep DEF Whole
<1> HIDE DEF n, a, e
<1>3. a \o <<Open, Placeholder(0), Close>> # <<>> /\ Last(a \o <<Open, Placeholder(0), Close>>) = Close
  BY <1>2, GroupType DEF Last
<1>4. Append(a, e) # <<>> /\ Last(Append(a, e)) = e
  BY <1>1, <1>2, LastOfAppend
<1> QED
  BY <1>1, <1>2, <1>3, <1>4

\* Without parentheses it is the text itself.
LEMMA WholePlain ==
  ASSUME NEW text \in Seq(Tokens), Balanced(text), \A k \in 1..Len(text) : text[k] # Open
  PROVE  Whole(text) = text
<1> DEFINE l == Len(text)
           sk == Skeleton(text)
           Good(n) == n <= l => Depth(text, n) = 0 /\ sk[n] = SubSeq(text, 1, n)
           T == {n \in Nat : Good(n)}
<1>1. l \in Nat
  OBVIOUS
<1>2. \A k \in 0..l : Depth(text, k) >= 0
  BY BalancedDepth
<1>3. Good(0)
  <2>1. IsSkeleton(sk, text)
    BY SkeletonExists
  <2>2. Depth(text, 0) = 0
    BY DepthStep
  <2> QED
    BY <2>1, <2>2 DEF IsSkeleton
<1>4. ASSUME NEW n \in Nat, Good(n)
      PROVE  Good(n + 1)
  <2> SUFFICES ASSUME n + 1 <= l
               PROVE  Depth(text, n + 1) = 0 /\ sk[n + 1] = SubSeq(text, 1, n + 1)
    OBVIOUS
  <2>1. n < Len(text) /\ n <= l /\ n + 1 \in 1..Len(text) /\ n + 1 \in 0..l
    BY <1>1
  <2>2. Depth(text, n) = 0 /\ sk[n] = SubSeq(text, 1, n)
    BY <1>4, <2>1
  <2>3. Depth(text, n + 1) = 0 + Deeper(text[n + 1])
    BY <2>2, DepthStep
  <2>4. Depth(text, n + 1) >= 0 /\ text[n + 1] # Open
    BY <1>2, <2>1
  <2>5. Depth(text, n + 1) = 0 /\ text[n + 1] # Close
    BY <2>3, <2>4 DEF Deeper
  <2>6. sk[n + 1] = Append(sk[n], text[n + 1])
    BY <2>1, <2>5, SkeletonStep
  <2> DEFINE s == sk
  <2> HIDE DEF sk
  <2>7. Append(SubSeq(text, 1, n), text[n + 1]) = SubSeq(text, 1, n + 1)
    BY <2>1
  <2> QED
    BY <2>2, <2>5, <2>6, <2>7
<1>5. \A n \in Nat : Good(n)
  <2> HIDE DEF Good
  <2>1. 0 \in T /\ \A n \in Nat : n \in T => n + 1 \in T
    BY <1>3, <1>4
  <2>2. \A n \in Nat : n \in T
    <3> HIDE DEF T
    <3> QED
      BY <2>1, Counting
  <2> QED
    BY <2>2
<1>6. sk[l] = SubSeq(text, 1, l)
  BY <1>1, <1>5
<1>7. SubSeq(text, 1, Len(text)) = text
  OBVIOUS
<1> QED
  BY <1>6, <1>7 DEF Whole

\* A sequence is the function of its elements.
LEMMA SequenceIsFunction ==
  ASSUME NEW S, NEW s \in Seq(S)
  PROVE  s = [k \in 1..Len(s) |-> s[k]]
OBVIOUS

\* A sequence whose elements are in a set is one over that set.
LEMMA SequenceOf ==
  ASSUME NEW S, NEW s \in Seq(S), NEW T, \A k \in 1..Len(s) : s[k] \in T
  PROVE  s \in Seq(T)
OBVIOUS

\* A text of one token.
LEMMA WholeOne ==
  ASSUME NEW e \in Tokens, e \notin {Open, Close}
  PROVE  Balanced(<<e>>) /\ Depth(<<e>>, Len(<<e>>)) = 0 /\ Whole(<<e>>) = <<e>>
<1> DEFINE t == <<e>>
<1>1. t \in Seq(Tokens) /\ Len(t) = 1 /\ t[1] = e
  OBVIOUS
<1> HIDE DEF t
<1>2. Depth(t, 0) = 0 /\ Depth(t, 0 + 1) = 0 + Deeper(t[0 + 1])
  BY DepthStep
<1>3. Deeper(t[0 + 1]) = 0
  BY <1>1 DEF Deeper
<1>4. \A k \in 0..Len(t) : Depth(t, k) = 0
  BY <1>1, <1>2, <1>3
<1>5. \A k \in 0..Len(t) : Depth(t, k) >= 0
  BY <1>1, <1>4
<1>6. Depth(t, Len(t)) = 0
  BY <1>1, <1>4
<1>7. Balanced(t)
  BY <1>1, <1>5, <1>6, BalancedDepth
<1>8. \A k \in 1..Len(t) : t[k] # Open
  BY <1>1
<1>9. Whole(t) = t
  BY <1>1, <1>7, <1>8, WholePlain
<1> QED
  BY <1>6, <1>7, <1>9 DEF t

\* A statement put together from several balanced texts.
LEMMA WholeSeparated ==
  ASSUME NEW lists \in Seq({t \in Seq(Tokens) : Balanced(t)}), lists # <<>>
  PROVE  /\ Separated(lists) \in Seq(Tokens)
         /\ Balanced(Separated(lists))
         /\ Whole(Separated(lists)) = Separated([k \in 1..Len(lists) |-> Whole(lists[k])])
<1> DEFINE B == {t \in Seq(Tokens) : Balanced(t)}
           wholes(ls) == [k \in 1..Len(ls) |-> Whole(ls[k])]
           Good(ls) == ls # <<>> =>
                         /\ Balanced(Separated(ls))
                         /\ Whole(Separated(ls)) = Separated(wholes(ls))
           T == {ls \in Seq(B) : Good(ls)}
<1>1. \A ls \in Seq(B) : /\ ls \in Seq(Seq(Tokens)) /\ Separated(ls) \in Seq(Tokens)
                         /\ wholes(ls) \in Seq(Seq(Tokens)) /\ Len(wholes(ls)) = Len(ls)
  <2> TAKE ls \in Seq(B)
  <2>1. ls \in Seq(Seq(Tokens))
    OBVIOUS
  <2>2. Separated(ls) \in Seq(Tokens)
    BY <2>1, MarkedType, SeparatedIsMarked, TokenKinds
  <2>3. \A k \in 1..Len(ls) : Whole(ls[k]) \in Seq(Tokens)
    BY <2>1, WholeType
  <2> QED
    BY <2>1, <2>2, <2>3
<1>2. ASSUME NEW ls \in Seq(B), NEW t \in B, Good(ls)
      PROVE  Good(Append(ls, t))
  <2>1. t \in Seq(Tokens) /\ Balanced(t) /\ Whole(t) \in Seq(Tokens)
    BY WholeType
  <2>2. CASE ls = <<>>
    <3>1. Append(ls, t) = <<t>> /\ wholes(<<t>>) = <<Whole(t)>>
      BY <2>2
    <3>2. Separated(<<t>>) = t /\ Separated(<<Whole(t)>>) = Whole(t)
      BY <2>1, MarkedOne, SeparatedIsMarked
    <3> QED
      BY <2>1, <3>1, <3>2
  <2>3. CASE ls # <<>>
    <3> DEFINE s == Separated(ls)
               c == <<Comma>>
               ws == wholes(ls)
               w == Whole(t)
    <3>1. /\ s \in Seq(Tokens) /\ ws \in Seq(Seq(Tokens)) /\ ws # <<>> /\ ls \in Seq(Seq(Tokens))
          /\ Balanced(s) /\ Whole(s) = Separated(ws)
      <4>1. s \in Seq(Tokens) /\ ws \in Seq(Seq(Tokens)) /\ ls \in Seq(Seq(Tokens)) /\ Len(ws) = Len(ls)
        BY <1>1
      <4>2. ws # <<>>
        <5>1. Len(ls) # 0
          BY <2>3, <4>1
        <5> HIDE DEF ws
        <5> QED
          BY <4>1, <5>1
      <4>3. Balanced(s) /\ Whole(s) = Separated(ws)
        BY <1>2, <2>3
      <4> QED
        BY <4>1, <4>2, <4>3
    <3>2. /\ c \in Seq(Tokens) /\ Balanced(c) /\ Depth(c, Len(c)) = 0 /\ Whole(c) = c
      <4>1. Comma \in Tokens /\ Comma \notin {Open, Close}
        BY TokenKinds
      <4> QED
        BY <4>1, WholeOne
    <3>3. wholes(Append(ls, t)) = Append(ws, w)
      <4>1. /\ Len(Append(ls, t)) = Len(ls) + 1
            /\ \A k \in 1..Len(ls) : Append(ls, t)[k] = ls[k]
            /\ Append(ls, t)[Len(ls) + 1] = t
        OBVIOUS
      <4>2. /\ Len(Append(ws, w)) = Len(ls) + 1
            /\ \A k \in 1..Len(ls) : Append(ws, w)[k] = Whole(ls[k])
            /\ Append(ws, w)[Len(ls) + 1] = w
        <5>1. Len(ws) = Len(ls) /\ \A k \in 1..Len(ls) : ws[k] = Whole(ls[k])
          BY <1>1
        <5> HIDE DEF ws, w
        <5> QED
          BY <3>1, <5>1
      <4>3. Append(ws, w) = [k \in 1..Len(ls) + 1 |-> Append(ws, w)[k]]
        <5>1. w \in Seq(Tokens)
          BY <2>1
        <5> HIDE DEF ws, w
        <5>2. Append(ws, w) \in Seq(Seq(Tokens))
          BY <3>1, <5>1
        <5>3. Append(ws, w) = [k \in 1..Len(Append(ws, w)) |-> Append(ws, w)[k]]
          BY <5>2, SequenceIsFunction
        <5> QED
          BY <4>2, <5>3
      <4>4. wholes(Append(ls, t)) = [k \in 1..Len(ls) + 1 |-> Whole(Append(ls, t)[k])]
        BY <4>1
      <4>5. \A k \in 1..Len(ls) + 1 : Whole(Append(ls, t)[k]) = Append(ws, w)[k]
        <5> SUFFICES ASSUME NEW k \in 1..Len(ls) + 1
                     PROVE  Whole(Append(ls, t)[k]) = Append(ws, w)[k]
          OBVIOUS
        <5>1. k \in 1..Len(ls) \/ k = Len(ls) + 1
          OBVIOUS
        <5> QED
          BY <4>1, <4>2, <5>1
      <4> QED
        BY <4>3, <4>4, <4>5
    <3> HIDE DEF s, c, ws, w
    <3>4. /\ Separated(Append(ls, t)) = s \o (c \o t)
          /\ Separated(Append(ws, w)) = Separated(ws) \o (c \o w)
      <4>1. Marked(Append(ls, t), Comma) = Marked(ls, Comma) \o (<<Comma>> \o t)
        BY <2>1, <2>3, <3>1, MarkedAppend, TokenKinds
      <4>2. w \in Seq(Tokens)
        BY <2>1 DEF w
      <4>3. Marked(Append(ws, w), Comma) = Marked(ws, Comma) \o (<<Comma>> \o w)
        BY <3>1, <4>2, MarkedAppend, TokenKinds
      <4> QED
        BY <4>1, <4>3, SeparatedIsMarked DEF s, c
    <3>5. c \o t \in Seq(Tokens) /\ Balanced(c \o t)
      BY <2>1, <3>2, BalancedConcat
    <3>6. Whole(c \o t) = c \o w
      BY <2>1, <3>2, WholeConcat DEF w
    <3>7. Balanced(s \o (c \o t))
      BY <3>1, <3>5, BalancedConcat
    <3>8. Whole(s \o (c \o t)) = Separated(ws) \o (c \o w)
      <4>1. Depth(s, Len(s)) = 0
        BY <3>1, BalancedDepth
      <4> QED
        BY <3>1, <3>5, <3>6, <4>1, WholeConcat
    <3> QED
      BY <3>3, <3>4, <3>7, <3>8
  <2> QED
    BY <2>2, <2>3
<1>3. \A ls \in Seq(B) : ls \in T
  <2> HIDE DEF B, Good
  <2>1. <<>> \in T
    <3>1. Good(<<>>)
      BY DEF Good
    <3> QED
      BY <3>1
  <2>2. \A ls \in Seq(B), t \in B : ls \in T => Append(ls, t) \in T
    BY <1>2
  <2> HIDE DEF T
  <2> QED
    BY <2>1, <2>2, Appending
<1> QED
  BY <1>1, <1>3

-----------------------------------------------------------------------------
(* What Django writes.                                                     *)

\* What Django gives the compiler, which no step changes.
Given == selected \in SelectLists /\ from \in Rests /\ ordering \in Orderings

\* The columns without what stands in parentheses.
Wholes == [k \in 1..Len(selected) |-> Whole(selected[k])]

\* What the assumption on SELECTs says of it, in the terms of the proofs.
LEMMA GivenTypes ==
  ASSUME Given
  PROVE  /\ selected \in Seq(Seq(SourceTokens)) /\ selected # <<>>
         /\ selected \in Seq(Seq(Tokens))
         /\ \A k \in 1..Len(selected) :
              /\ selected[k] \in Seq(SourceTokens) /\ selected[k] \in Seq(Tokens)
              /\ IsColumn(selected[k])
              /\ selected[k] # <<>> /\ Balanced(selected[k])
              /\ Depth(selected[k], Len(selected[k])) = 0
         /\ from \in Seq(SourceTokens) /\ from \in Seq(Tokens) /\ Balanced(from)
         /\ from # <<>> /\ Head(from) = From
         /\ Separated(selected) \in Seq(SourceTokens) /\ Separated(selected) \in Seq(Tokens)
         /\ sql = Separated(selected) \o from
         /\ sql \in Seq(SourceTokens) /\ sql \in Seq(Tokens)
<1>1. /\ selected \in Seq(Seq(SourceTokens)) /\ selected # <<>>
      /\ \A k \in DOMAIN selected : IsColumn(selected[k])
      /\ from \in Seq(SourceTokens) /\ Balanced(from) /\ from # <<>> /\ Head(from) = From
  BY RewritingAssumption DEF Given
<1>2. SourceTokens \subseteq Tokens
  BY SourceTypes
<1> DEFINE S == SourceTokens
           T == Tokens
<1> HIDE DEF S, T
<1>3. /\ selected \in Seq(Seq(S)) /\ from \in Seq(S) /\ S \subseteq T
  BY <1>1, <1>2 DEF S, T
<1>4. /\ selected \in Seq(Seq(T)) /\ from \in Seq(T)
      /\ \A k \in 1..Len(selected) : selected[k] \in Seq(S) /\ selected[k] \in Seq(T)
  BY <1>3
<1>5. \A k \in 1..Len(selected) :
        IsColumn(selected[k]) /\ selected[k] # <<>> /\ Balanced(selected[k])
  BY <1>1, <1>3 DEF IsColumn
<1>6. \A k \in 1..Len(selected) : Depth(selected[k], Len(selected[k])) = 0
  BY <1>4, <1>5, BalancedDepth
<1>7. Comma \in S
  BY DEF S, SourceTokens
<1>8. Separated(selected) \in Seq(S)
  BY <1>3, <1>7, MarkedType, SeparatedIsMarked
<1> DEFINE h == Separated(selected)
<1>9. sql = h \o from
  BY DEF sql
<1> HIDE DEF h
<1>10. h \in Seq(S) /\ h \in Seq(T) /\ h \o from \in Seq(S) /\ h \o from \in Seq(T)
  <2>1. h \in Seq(S)
    BY <1>8 DEF h
  <2> QED
    BY <1>3, <2>1
<1> QED
  BY <1>1, <1>3, <1>4, <1>5, <1>6, <1>9, <1>10 DEF S, T, h

\* What a column keeps when all parentheses are replaced.
LEMMA WholeColumn ==
  ASSUME NEW text \in Seq(SourceTokens), IsColumn(text)
  PROVE  /\ Whole(text) \in Seq(Tokens) /\ Whole(text) # <<>>
         /\ Last(Whole(text)) = Last(text)
         /\ \A k \in 1..Len(Whole(text)) :
              /\ Whole(text)[k] \notin {Comma, From}
              /\ \/ Whole(text)[k] \in {Open, Close, Placeholder(0)}
                 \/ \E m \in DOMAIN text : text[m] = Whole(text)[k] /\ Outside(text, m)
<1>1. text \in Seq(Tokens)
  <2> DEFINE S == SourceTokens
             T == Tokens
  <2>1. text \in Seq(S) /\ S \subseteq T
    BY SourceTypes
  <2> HIDE DEF S, T
  <2>2. text \in Seq(T)
    BY <2>1
  <2> QED
    BY <2>2 DEF T
<1>2. /\ text # <<>> /\ Balanced(text)
      /\ \A k \in DOMAIN text : Outside(text, k) => text[k] \notin {Comma, From}
  BY DEF IsColumn
<1>3. Depth(text, Len(text)) = 0
  BY <1>1, <1>2, BalancedDepth
<1> DEFINE w == Whole(text)
           Z == {Open, Close, Placeholder(0)}
                  \cup {text[p] : p \in {q \in 1..Len(text) : Outside(text, q)}}
<1>4. w # <<>> /\ Last(w) = Last(text)
  BY <1>1, <1>2, <1>3, WholeLast
<1>5. w \in Seq(Z)
  BY <1>1, WholeTokens
<1>6. w \in Seq(Tokens)
  BY <1>1, WholeType
<1> HIDE DEF w
<1>7. \A k \in 1..Len(w) : w[k] \in Z
  <2> HIDE DEF Z
  <2> QED
    BY <1>5
<1>8. {Open, Close, Placeholder(0)} \cap {Comma, From} = {}
  BY TokenKinds, TokenTypes
<1>9. DOMAIN text = 1..Len(text)
  OBVIOUS
<1>10. ASSUME NEW k \in 1..Len(w)
       PROVE  /\ w[k] \notin {Comma, From}
              /\ \/ w[k] \in {Open, Close, Placeholder(0)}
                 \/ \E m \in DOMAIN text : text[m] = w[k] /\ Outside(text, m)
  <2>1. CASE w[k] \in {Open, Close, Placeholder(0)}
    BY <1>8, <2>1
  <2>2. CASE w[k] \in {text[p] : p \in {q \in 1..Len(text) : Outside(text, q)}}
    BY <1>2, <1>9, <2>2
  <2> QED
    BY <1>7, <2>1, <2>2
<1> QED
  BY <1>4, <1>6, <1>10 DEF w

\* The whole statement without what stands in parentheses.
LEMMA WholeStatement ==
  ASSUME Given
  PROVE  /\ Balanced(sql) /\ Balanced(Separated(selected))
         /\ Wholes \in Seq(Seq(Tokens)) /\ Len(Wholes) = Len(selected) /\ Wholes # <<>>
         /\ Separated(Wholes) \in Seq(Tokens)
         /\ Skeleton(sql)[Len(Separated(selected))] = Separated(Wholes)
         /\ Whole(sql) = Separated(Wholes) \o Whole(from)
         /\ Whole(from) \in Seq(Tokens) /\ Whole(from) # <<>> /\ Whole(from)[1] = From
<1> DEFINE h == Separated(selected)
<1>1. /\ Balanced(h) /\ Whole(h) = Separated(Wholes) /\ h \in Seq(Tokens)
  <2>1. selected \in Seq({t \in Seq(Tokens) : Balanced(t)})
    <3> DEFINE B == {t \in Seq(Tokens) : Balanced(t)}
    <3>1. \A k \in 1..Len(selected) : selected[k] \in B
      BY GivenTypes
    <3> HIDE DEF B
    <3>2. selected \in Seq(B)
      BY <3>1, GivenTypes, SequenceOf
    <3> QED
      BY <3>2 DEF B
  <2>2. selected # <<>>
    BY GivenTypes
  <2> QED
    BY <2>1, <2>2, WholeSeparated DEF Wholes
<1>2. Depth(h, Len(h)) = 0
  BY <1>1, BalancedDepth
<1>3. from \in Seq(Tokens) /\ Balanced(from) /\ sql = h \o from
  BY GivenTypes
<1>4. Balanced(sql)
  BY <1>1, <1>3, BalancedConcat
<1>5. Whole(sql) = Separated(Wholes) \o Whole(from)
  BY <1>1, <1>2, <1>3, WholeConcat
<1>6. Skeleton(sql)[Len(h)] = Separated(Wholes)
  <2>1. Len(h) \in 0..Len(h)
    BY <1>1
  <2>2. Skeleton(h \o from)[Len(h)] = Skeleton(h)[Len(h)]
    BY <1>1, <1>2, <1>3, <2>1, SkeletonConcat
  <2> QED
    BY <1>1, <1>3, <2>2 DEF Whole
<1>7. Wholes \in Seq(Seq(Tokens)) /\ Len(Wholes) = Len(selected) /\ Wholes # <<>>
  <2>1. \A k \in 1..Len(selected) : Whole(selected[k]) \in Seq(Tokens)
    BY GivenTypes, WholeType
  <2>2. Len(selected) \in Nat /\ Len(selected) # 0
    BY GivenTypes
  <2>3. Wholes \in Seq(Seq(Tokens)) /\ Len(Wholes) = Len(selected)
    BY <2>1, <2>2 DEF Wholes
  <2> QED
    BY <2>2, <2>3
<1>8. Separated(Wholes) \in Seq(Tokens)
  BY <1>7, MarkedType, SeparatedIsMarked, TokenKinds
<1>9. Whole(from) \in Seq(Tokens) /\ Whole(from) # <<>> /\ Whole(from)[1] = From
  <2> DEFINE f == <<From>>
             t == Tail(from)
  <2>1. from = f \o t /\ t \in Seq(Tokens)
    <3>1. from \in Seq(Tokens) /\ from # <<>> /\ Head(from) = From
      BY GivenTypes
    <3>2. from = <<Head(from)>> \o Tail(from) /\ Tail(from) \in Seq(Tokens)
      BY <3>1
    <3> QED
      BY <3>1, <3>2
  <2>2. f \in Seq(Tokens) /\ Depth(f, Len(f)) = 0 /\ Whole(f) = f
    <3>1. From \in Tokens /\ From \notin {Open, Close}
      BY TokenKinds
    <3> QED
      BY <3>1, WholeOne
  <2>3. Whole(from) = f \o Whole(t) /\ Whole(t) \in Seq(Tokens)
    <3> HIDE DEF f, t
    <3> QED
      BY <2>1, <2>2, WholeConcat, WholeType
  <2> DEFINE v == Whole(t)
  <2> HIDE DEF t, v
  <2>4. v \in Seq(Tokens) /\ From \in Tokens
    BY <2>3, TokenKinds DEF v
  <2>5. f \o v \in Seq(Tokens) /\ f \o v # <<>> /\ (f \o v)[1] = From
    BY <2>4
  <2> QED
    BY <2>3, <2>5 DEF v
<1> QED
  BY <1>1, <1>4, <1>5, <1>6, <1>7, <1>8, <1>9

-----------------------------------------------------------------------------
(* Texts that differ in their placeholders and parameters only.            *)

\* A token that stands for something else.
Hole(token) == token.kind \in {"placeholder", "param"}

\* Tokens that are the same, but for what they stand for.
LikeToken(token, other) == token = other \/ (Hole(token) /\ Hole(other))

\* Texts of the same length whose tokens are the same, but for what they stand for.
Alike(text, other) ==
  Len(text) = Len(other) /\ \A k \in 1..Len(text) : LikeToken(text[k], other[k])

\* Texts remain alike when like tokens are added.
LEMMA AlikeAppend ==
  ASSUME NEW a \in Seq(Tokens), NEW b \in Seq(Tokens), Alike(a, b),
         NEW e \in Tokens, NEW f \in Tokens, LikeToken(e, f)
  PROVE  Alike(Append(a, e), Append(b, f))
<1> DEFINE c == Append(a, e)
           d == Append(b, f)
<1>1. /\ Len(c) = Len(a) + 1 /\ Len(d) = Len(b) + 1 /\ Len(a) \in Nat
      /\ \A k \in 1..Len(a) : c[k] = a[k] /\ c[Len(a) + 1] = e
      /\ \A k \in 1..Len(b) : d[k] = b[k] /\ d[Len(b) + 1] = f
      /\ c[Len(a) + 1] = e /\ d[Len(b) + 1] = f
  OBVIOUS
<1>2. Len(a) = Len(b) /\ \A k \in 1..Len(a) : LikeToken(a[k], b[k])
  BY DEF Alike
<1> HIDE DEF c, d
<1>3. ASSUME NEW k \in 1..Len(c)
      PROVE  LikeToken(c[k], d[k])
  <2>1. k \in 1..Len(a) \/ k = Len(a) + 1
    BY <1>1
  <2> QED
    BY <1>1, <1>2, <2>1
<1>4. Alike(c, d)
  BY <1>1, <1>2, <1>3 DEF Alike
<1> QED
  BY <1>4 DEF c, d

\* Texts remain alike when alike texts are added.
LEMMA AlikeConcat ==
  ASSUME NEW a \in Seq(Tokens), NEW b \in Seq(Tokens), Alike(a, b),
         NEW e \in Seq(Tokens), NEW f \in Seq(Tokens), Alike(e, f)
  PROVE  Alike(a \o e, b \o f)
<1> DEFINE c == a \o e
           d == b \o f
<1>1. /\ Len(c) = Len(a) + Len(e) /\ Len(d) = Len(b) + Len(f) /\ Len(a) \in Nat /\ Len(e) \in Nat
      /\ \A k \in 1..Len(a) : c[k] = a[k]
      /\ \A k \in 1..Len(e) : c[Len(a) + k] = e[k]
      /\ \A k \in 1..Len(b) : d[k] = b[k]
      /\ \A k \in 1..Len(f) : d[Len(b) + k] = f[k]
  OBVIOUS
<1>2. /\ Len(a) = Len(b) /\ \A k \in 1..Len(a) : LikeToken(a[k], b[k])
      /\ Len(e) = Len(f) /\ \A k \in 1..Len(e) : LikeToken(e[k], f[k])
  BY DEF Alike
<1> HIDE DEF c, d
<1>3. ASSUME NEW k \in 1..Len(c)
      PROVE  LikeToken(c[k], d[k])
  <2>1. CASE k \in 1..Len(a)
    BY <1>1, <1>2, <2>1
  <2>2. CASE k \notin 1..Len(a)
    <3>1. k - Len(a) \in 1..Len(e) /\ Len(a) + (k - Len(a)) = k
      BY <1>1, <2>2
    <3>2. c[Len(a) + (k - Len(a))] = e[k - Len(a)] /\ d[Len(b) + (k - Len(a))] = f[k - Len(a)]
      BY <1>1, <1>2, <3>1
    <3> QED
      BY <1>2, <3>1, <3>2
  <2> QED
    BY <2>1, <2>2
<1>4. Alike(c, d)
  BY <1>1, <1>2, <1>3 DEF Alike
<1> QED
  BY <1>4 DEF c, d

\* Texts that are alike to the same text are alike.
LEMMA AlikeTransitive ==
  ASSUME NEW a, NEW b, NEW c, Alike(a, b), Alike(b, c)
  PROVE  Alike(a, c)
BY DEF Alike, LikeToken

\* The parts of a text that is like a concatenation.
LEMMA AlikeParts ==
  ASSUME NEW text \in Seq(Tokens), NEW a \in Seq(Tokens), NEW b \in Seq(Tokens),
         Alike(text, a \o b)
  PROVE  /\ Alike(SubSeq(text, 1, Len(a)), a)
         /\ Alike(SubSeq(text, Len(a) + 1, Len(text)), b)
<1> DEFINE c == SubSeq(text, 1, Len(a))
           d == SubSeq(text, Len(a) + 1, Len(text))
           ab == a \o b
<1>1. /\ Len(ab) = Len(a) + Len(b) /\ Len(a) \in Nat /\ Len(b) \in Nat
      /\ \A k \in 1..Len(a) : ab[k] = a[k]
      /\ \A k \in 1..Len(b) : ab[Len(a) + k] = b[k]
  OBVIOUS
<1>2. Len(text) = Len(a) + Len(b) /\ \A k \in 1..Len(text) : LikeToken(text[k], ab[k])
  BY <1>1 DEF Alike
<1>3. /\ Len(c) = Len(a) /\ Len(d) = Len(b)
      /\ \A k \in 1..Len(a) : c[k] = text[k]
      /\ \A k \in 1..Len(b) : d[k] = text[Len(a) + k]
  BY <1>1, <1>2
<1> HIDE DEF c, d, ab
<1>4. \A k \in 1..Len(a) : k \in 1..Len(text)
  BY <1>1, <1>2
<1>5. \A k \in 1..Len(b) : Len(a) + k \in 1..Len(text)
  BY <1>1, <1>2
<1>6. Alike(c, a)
  BY <1>1, <1>2, <1>3, <1>4 DEF Alike
<1>7. \A k \in 1..Len(b) : LikeToken(d[k], b[k])
  BY <1>1, <1>2, <1>3, <1>5
<1> QED
  BY <1>3, <1>6, <1>7 DEF c, d, Alike

\* HideParams changes nothing but parameters.
LEMMA AlikeHidden ==
  ASSUME NEW text \in Seq(Tokens), NEW n \in Nat
  PROVE  HideParams(text, n) \in Seq(Tokens) /\ Alike(HideParams(text, n), text)
<1>1. ASSUME NEW k \in 1..Len(text)
      PROVE  ParamKey(text, k, n) \in Nat
  <2>1. IsFiniteSet(Places(text, Param))
    <3>1. Places(text, Param) \subseteq 1..Len(text)
      BY DEF Places
    <3>2. IsFiniteSet(1..Len(text))
      BY FS_Interval
    <3> QED
      BY <3>1, <3>2, FS_Subset
  <2>2. {m \in Places(text, Param) : m <= k} \subseteq Places(text, Param)
    OBVIOUS
  <2>3. Cardinality({m \in Places(text, Param) : m <= k}) \in Nat
    BY <2>1, <2>2, FS_Subset, FS_CardinalityType
  <2> QED
    BY <2>3 DEF ParamKey
<1> DEFINE h == HideParams(text, n)
<1>2. /\ h = [k \in 1..Len(text) |-> h[k]] /\ Len(text) \in Nat
      /\ \A k \in 1..Len(text) :
           h[k] = IF text[k] = Param THEN Placeholder(ParamKey(text, k, n)) ELSE text[k]
  BY DEF HideParams
<1>3. \A k \in 1..Len(text) : h[k] \in Tokens /\ LikeToken(h[k], text[k])
  BY <1>1, <1>2, TokenTypes, TokenKinds DEF LikeToken, Hole
<1> HIDE DEF h
<1>4. h \in Seq(Tokens) /\ Len(h) = Len(text)
  BY <1>2, <1>3
<1> QED
  BY <1>3, <1>4 DEF h, Alike

-----------------------------------------------------------------------------
(* A text split at its commas.                                             *)

\* What Split has made of a text, one token further.
PartsSoFar(sofar, token) ==
  IF token = Comma THEN Append(sofar, <<>>) ELSE Pushed(sofar, token)

\* The function by which Split is defined, ...
AreParts(parts, text) ==
  parts = [n \in 0..Len(text) |->
             IF n = 0 THEN << <<>> >>
             ELSE IF text[n] = Comma THEN Append(parts[n - 1], <<>>)
             ELSE Pushed(parts[n - 1], text[n])]

\* ... which is determined by the text.
Parts(text) == CHOOSE parts : AreParts(parts, text)

\* Texts, one at least.
SomeTexts == {b \in Seq(Seq(Tokens)) : b # <<>>}

\* Split is the last value of that function.
LEMMA SplitDef ==
  ASSUME NEW text
  PROVE  Split(text) = Parts(text)[Len(text)]
BY DEF Split, Parts, AreParts

\* What Pushed does.
LEMMA PushedIs ==
  ASSUME NEW bufs \in SomeTexts, NEW token \in Tokens
  PROVE  /\ Pushed(bufs, token) \in SomeTexts
         /\ Len(Pushed(bufs, token)) = Len(bufs) /\ Len(bufs) \in Nat \ {0}
         /\ \A k \in 1..Len(bufs) : k # Len(bufs) => Pushed(bufs, token)[k] = bufs[k]
         /\ Pushed(bufs, token)[Len(bufs)] = Append(bufs[Len(bufs)], token)
<1>1. bufs \in Seq(Seq(Tokens)) /\ Len(bufs) \in Nat \ {0} /\ bufs # <<>>
  BY DEF SomeTexts
<1> DEFINE l == Len(bufs)
           e == Append(bufs[l], token)
<1>2. bufs[l] \in Seq(Tokens)
  BY <1>1
<1>3. e \in Seq(Tokens)
  BY <1>2
<1> HIDE DEF e
<1> DEFINE p == [bufs EXCEPT ![l] = e]
<1>4. /\ p \in Seq(Seq(Tokens)) /\ Len(p) = l
      /\ \A k \in 1..l : k # l => p[k] = bufs[k]
      /\ p[l] = e
  BY <1>1, <1>3
<1>5. p # <<>>
  <2> HIDE DEF p
  <2> QED
    BY <1>1, <1>4
<1>6. Pushed(bufs, token) = p
  BY DEF Pushed, e
<1> HIDE DEF p
<1> QED
  BY <1>1, <1>4, <1>5, <1>6 DEF SomeTexts, e

\* There is always a part to go on with.
LEMMA PartsSoFarType ==
  ASSUME NEW sofar \in SomeTexts, NEW token \in Tokens
  PROVE  PartsSoFar(sofar, token) \in SomeTexts
<1>1. sofar \in Seq(Seq(Tokens)) /\ <<>> \in Seq(Tokens)
  BY DEF SomeTexts
<1>2. Append(sofar, <<>>) \in Seq(Seq(Tokens)) /\ Len(Append(sofar, <<>>)) = Len(sofar) + 1
  BY <1>1
<1>3. Append(sofar, <<>>) # <<>>
  BY <1>1, LastOfAppend
<1> QED
  BY <1>2, <1>3, PushedIs DEF PartsSoFar, SomeTexts

\* The function exists, and goes on token by token.
LEMMA PartsExist ==
  ASSUME NEW text \in Seq(Tokens)
  PROVE  /\ Parts(text)[0] = << <<>> >>
         /\ \A n \in 0..Len(text) : Parts(text)[n] \in SomeTexts
         /\ \A n \in Nat : n < Len(text) =>
              Parts(text)[n + 1] = PartsSoFar(Parts(text)[n], text[n + 1])
<1> DEFINE l == Len(text)
           S == SomeTexts
           base == << <<>> >>
           G == [n \in Nat |-> [s \in S |->
                   IF n + 1 \in 1..l THEN PartsSoFar(s, text[n + 1]) ELSE s]]
<1>1. l \in Nat /\ \A n \in 1..l : text[n] \in Tokens
  OBVIOUS
<1>2. base \in S
  <2>1. base \in Seq(Seq(Tokens)) /\ base # <<>>
    OBVIOUS
  <2> QED
    BY <2>1 DEF SomeTexts
<1>3. G \in [Nat -> [S -> S]]
  <2> HIDE DEF S
  <2>1. \A n \in Nat, s \in S : n + 1 \in 1..l => PartsSoFar(s, text[n + 1]) \in S
    BY <1>1, PartsSoFarType DEF S
  <2> QED
    BY <2>1
<1>4. PICK f : f \in [Nat -> S] /\ f[0] = base /\ \A n \in Nat : f[n + 1] = G[n][f[n]]
  <2> HIDE DEF S, G, base
  <2>1. \E f : IsDefinedBy(f, S, base, G)
    BY <1>2, <1>3, Recursion
  <2> QED
    BY <2>1 DEF IsDefinedBy
<1>5. \A n \in Nat : n < l => f[n + 1] = PartsSoFar(f[n], text[n + 1])
  <2> SUFFICES ASSUME NEW n \in Nat, n < l
               PROVE  f[n + 1] = PartsSoFar(f[n], text[n + 1])
    OBVIOUS
  <2> HIDE DEF S
  <2>1. f[n] \in S /\ n + 1 \in 1..l
    BY <1>1, <1>4
  <2>2. G[n][f[n]] = PartsSoFar(f[n], text[n + 1])
    BY <2>1
  <2> HIDE DEF G
  <2> QED
    BY <1>4, <2>2
<1> HIDE DEF G, S, base
<1> DEFINE p == [n \in 0..l |-> f[n]]
<1>6. AreParts(p, text)
  <2>1. ASSUME NEW n \in 0..l
        PROVE  f[n] = IF n = 0 THEN base
                      ELSE IF text[n] = Comma THEN Append(p[n - 1], <<>>)
                      ELSE Pushed(p[n - 1], text[n])
    <3>1. CASE n = 0
      BY <1>4, <3>1
    <3>2. CASE n # 0
      <4>1. n - 1 \in Nat /\ n - 1 < l /\ (n - 1) + 1 = n /\ n - 1 \in 0..l
        BY <1>1, <3>2
      <4>2. f[n] = PartsSoFar(f[n - 1], text[n])
        BY <1>5, <4>1
      <4>3. p[n - 1] = f[n - 1]
        BY <4>1
      <4> HIDE DEF p
      <4> QED
        BY <3>2, <4>2, <4>3 DEF PartsSoFar
    <3> QED
      BY <3>1, <3>2
  <2>2. p = [n \in 0..l |-> IF n = 0 THEN base
                            ELSE IF text[n] = Comma THEN Append(p[n - 1], <<>>)
                            ELSE Pushed(p[n - 1], text[n])]
    BY <2>1
  <2> QED
    BY <2>2 DEF AreParts, base
<1> HIDE DEF p
<1>7. AreParts(Parts(text), text)
  BY <1>6 DEF Parts
<1> DEFINE q == Parts(text)
           Good(n) == n <= l => q[n] \in S
           T == {n \in Nat : Good(n)}
<1>8. q[0] = base
  <2> HIDE DEF q
  <2> QED
    BY <1>1, <1>7 DEF AreParts, base, q
<1>9. \A n \in Nat : n < l => q[n + 1] = PartsSoFar(q[n], text[n + 1])
  <2> SUFFICES ASSUME NEW n \in Nat, n < l
               PROVE  q[n + 1] = PartsSoFar(q[n], text[n + 1])
    OBVIOUS
  <2>1. n + 1 \in 0..l /\ n + 1 # 0 /\ (n + 1) - 1 = n
    BY <1>1
  <2> HIDE DEF q
  <2>2. q[n + 1] = IF text[n + 1] = Comma THEN Append(q[(n + 1) - 1], <<>>)
                   ELSE Pushed(q[(n + 1) - 1], text[n + 1])
    BY <1>7, <2>1 DEF AreParts, q
  <2> QED
    BY <2>1, <2>2 DEF PartsSoFar
<1> HIDE DEF q
<1>10. Good(0)
  BY <1>2, <1>8
<1>11. ASSUME NEW n \in Nat, Good(n)
       PROVE  Good(n + 1)
  <2> SUFFICES ASSUME n + 1 <= l
               PROVE  q[n + 1] \in S
    OBVIOUS
  <2>1. n < l /\ n <= l /\ n + 1 \in 1..l
    BY <1>1
  <2>2. q[n] \in S
    BY <1>11, <2>1
  <2>3. q[n + 1] = PartsSoFar(q[n], text[n + 1])
    BY <1>9, <2>1
  <2> QED
    BY <1>1, <2>1, <2>2, <2>3, PartsSoFarType DEF S
<1>12. \A n \in Nat : Good(n)
  <2> HIDE DEF Good
  <2>1. 0 \in T /\ \A n \in Nat : n \in T => n + 1 \in T
    BY <1>10, <1>11
  <2>2. \A n \in Nat : n \in T
    <3> HIDE DEF T
    <3> QED
      BY <2>1, Counting
  <2> QED
    BY <2>2
<1>13. \A n \in 0..l : q[n] \in S
  BY <1>1, <1>12
<1> QED
  BY <1>8, <1>9, <1>13 DEF q, S, base

\* Lists of texts that are alike one by one.
AllAlike(lists, others) ==
  Len(lists) = Len(others) /\ \A k \in 1..Len(lists) : Alike(lists[k], others[k])

\* Tokens that are like a comma are commas.
LEMMA LikeComma ==
  ASSUME NEW e, NEW f, LikeToken(e, f)
  PROVE  e = Comma <=> f = Comma
BY TokenKinds DEF LikeToken, Hole

\* Alike parts remain alike by like tokens.
LEMMA PartsSoFarAlike ==
  ASSUME NEW a \in SomeTexts, NEW b \in SomeTexts, AllAlike(a, b),
         NEW e \in Tokens, NEW f \in Tokens, LikeToken(e, f)
  PROVE  AllAlike(PartsSoFar(a, e), PartsSoFar(b, f))
<1> DEFINE l == Len(a)
<1>1. /\ l \in Nat \ {0} /\ l = Len(b)
      /\ \A k \in 1..l : Alike(a[k], b[k])
      /\ a \in Seq(Seq(Tokens)) /\ b \in Seq(Seq(Tokens))
  <2>1. Len(a) \in Nat \ {0}
    BY PushedIs, TokenKinds
  <2> QED
    BY <2>1 DEF AllAlike, SomeTexts
<1>2. CASE e = Comma
  <2> DEFINE c == Append(a, <<>>)
             d == Append(b, <<>>)
  <2>1. <<>> \in Seq(Tokens)
    OBVIOUS
  <2>2. /\ Len(c) = l + 1 /\ c[l + 1] = <<>> /\ \A k \in 1..l : c[k] = a[k]
        /\ Len(d) = l + 1 /\ d[l + 1] = <<>> /\ \A k \in 1..l : d[k] = b[k]
    BY <1>1, <2>1
  <2>3. Alike(<<>>, <<>>)
    BY DEF Alike
  <2> HIDE DEF c, d
  <2>4. ASSUME NEW k \in 1..Len(c)
        PROVE  Alike(c[k], d[k])
    <3>1. k \in 1..l \/ k = l + 1
      BY <1>1, <2>2
    <3> QED
      BY <1>1, <2>2, <2>3, <3>1
  <2>5. AllAlike(c, d)
    BY <2>2, <2>4 DEF AllAlike
  <2> QED
    BY <1>2, <2>5, LikeComma DEF PartsSoFar, c, d
<1>3. CASE e # Comma
  <2> DEFINE c == Pushed(a, e)
             d == Pushed(b, f)
  <2>1. /\ Len(c) = l /\ \A k \in 1..l : k # l => c[k] = a[k]
        /\ c[l] = Append(a[l], e)
        /\ Len(d) = l /\ \A k \in 1..l : k # l => d[k] = b[k]
        /\ d[l] = Append(b[l], f)
    BY <1>1, PushedIs
  <2>2. a[l] \in Seq(Tokens) /\ b[l] \in Seq(Tokens) /\ Alike(a[l], b[l])
    <3>1. l \in 1..l /\ 1..l = DOMAIN a /\ 1..l = DOMAIN b
      BY <1>1
    <3> QED
      BY <1>1, <3>1
  <2>3. Alike(Append(a[l], e), Append(b[l], f))
    BY <2>2, AlikeAppend
  <2> HIDE DEF c, d
  <2>4. ASSUME NEW k \in 1..Len(c)
        PROVE  Alike(c[k], d[k])
    <3>1. (k \in 1..l /\ k # l) \/ k = l
      BY <2>1
    <3> QED
      BY <1>1, <2>1, <2>3, <3>1
  <2>5. AllAlike(c, d)
    BY <2>1, <2>4 DEF AllAlike
  <2> QED
    BY <1>3, <2>5, LikeComma DEF PartsSoFar, c, d
<1> QED
  BY <1>2, <1>3

\* A text is split into texts, one at least.
LEMMA SplitType ==
  ASSUME NEW text \in Seq(Tokens)
  PROVE  Split(text) \in SomeTexts
<1>1. Len(text) \in 0..Len(text)
  OBVIOUS
<1> QED
  BY <1>1, PartsExist, SplitDef

\* Texts that are alike have columns that are alike.
LEMMA SplitAlike ==
  ASSUME NEW text \in Seq(Tokens), NEW other \in Seq(Tokens), Alike(text, other)
  PROVE  AllAlike(Split(text), Split(other))
<1> DEFINE l == Len(text)
           p == Parts(text)
           q == Parts(other)
           Good(n) == n <= l => AllAlike(p[n], q[n])
           T == {n \in Nat : Good(n)}
<1>1. /\ l \in Nat /\ l = Len(other) /\ \A k \in 1..l : LikeToken(text[k], other[k])
      /\ \A k \in 1..l : text[k] \in Tokens /\ other[k] \in Tokens
  BY DEF Alike
<1>2. /\ p[0] = << <<>> >> /\ q[0] = << <<>> >>
      /\ \A n \in 0..l : p[n] \in SomeTexts /\ q[n] \in SomeTexts
      /\ \A n \in Nat : n < l => /\ p[n + 1] = PartsSoFar(p[n], text[n + 1])
                                 /\ q[n + 1] = PartsSoFar(q[n], other[n + 1])
  BY <1>1, PartsExist
<1> HIDE DEF p, q, l
<1>3. Good(0)
  <2>1. Alike(<<>>, <<>>)
    BY DEF Alike
  <2>2. AllAlike(<< <<>> >>, << <<>> >>)
    BY <2>1 DEF AllAlike
  <2> QED
    BY <1>2, <2>2
<1>4. ASSUME NEW n \in Nat, Good(n)
      PROVE  Good(n + 1)
  <2> SUFFICES ASSUME n + 1 <= l
               PROVE  AllAlike(p[n + 1], q[n + 1])
    OBVIOUS
  <2>1. n < l /\ n <= l /\ n + 1 \in 1..l /\ n \in 0..l
    BY <1>1
  <2>2. /\ p[n] \in SomeTexts /\ q[n] \in SomeTexts /\ AllAlike(p[n], q[n])
        /\ text[n + 1] \in Tokens /\ other[n + 1] \in Tokens /\ LikeToken(text[n + 1], other[n + 1])
        /\ p[n + 1] = PartsSoFar(p[n], text[n + 1])
        /\ q[n + 1] = PartsSoFar(q[n], other[n + 1])
    BY <1>1, <1>2, <1>4, <2>1
  <2> QED
    BY <2>2, PartsSoFarAlike
<1>5. \A n \in Nat : Good(n)
  <2> HIDE DEF Good
  <2>1. 0 \in T /\ \A n \in Nat : n \in T => n + 1 \in T
    BY <1>3, <1>4
  <2>2. \A n \in Nat : n \in T
    <3> HIDE DEF T
    <3> QED
      BY <2>1, Counting
  <2> QED
    BY <2>2
<1>6. AllAlike(p[l], q[l])
  BY <1>1, <1>5
<1> QED
  BY <1>1, <1>6, SplitDef DEF p, q, l

\* The empty text is one part.
LEMMA SplitEmpty == Split(<<>>) = << <<>> >>
<1>1. <<>> \in Seq(Tokens) /\ Len(<<>>) = 0
  OBVIOUS
<1> QED
  BY <1>1, PartsExist, SplitDef

\* A token at the end of a text goes to the last part or begins a new one.
LEMMA SplitAppend ==
  ASSUME NEW text \in Seq(Tokens), NEW e \in Tokens
  PROVE  Split(Append(text, e)) = PartsSoFar(Split(text), e)
<1> DEFINE more == Append(text, e)
           l == Len(text)
           p == Parts(text)
           q == Parts(more)
           Good(n) == n <= l => p[n] = q[n]
           T == {n \in Nat : Good(n)}
<1>1. /\ l \in Nat /\ Len(more) = l + 1 /\ more \in Seq(Tokens)
      /\ more[l + 1] = e /\ \A k \in 1..l : more[k] = text[k]
  OBVIOUS
<1> HIDE DEF more
<1>2. /\ p[0] = << <<>> >> /\ q[0] = << <<>> >>
      /\ \A n \in Nat : n < l => /\ p[n + 1] = PartsSoFar(p[n], text[n + 1])
                                 /\ q[n + 1] = PartsSoFar(q[n], more[n + 1])
      /\ q[l + 1] = PartsSoFar(q[l], more[l + 1])
  <2>1. \A n \in Nat : n < l => n < Len(more)
    BY <1>1
  <2>2. l < Len(more)
    BY <1>1
  <2> QED
    BY <1>1, <2>1, <2>2, PartsExist
<1> HIDE DEF p, q, l
<1>3. Good(0)
  BY <1>2
<1>4. ASSUME NEW n \in Nat, Good(n)
      PROVE  Good(n + 1)
  <2> SUFFICES ASSUME n + 1 <= l
               PROVE  p[n + 1] = q[n + 1]
    OBVIOUS
  <2>1. n < l /\ n <= l /\ n + 1 \in 1..l
    BY <1>1
  <2> QED
    BY <1>1, <1>2, <1>4, <2>1
<1>5. \A n \in Nat : Good(n)
  <2> HIDE DEF Good
  <2>1. 0 \in T /\ \A n \in Nat : n \in T => n + 1 \in T
    BY <1>3, <1>4
  <2>2. \A n \in Nat : n \in T
    <3> HIDE DEF T
    <3> QED
      BY <2>1, Counting
  <2> QED
    BY <2>2
<1>6. p[l] = q[l]
  BY <1>1, <1>5
<1>7. q[l + 1] = PartsSoFar(p[l], e)
  BY <1>1, <1>2, <1>6
<1> QED
  BY <1>1, <1>7, SplitDef DEF p, q, l, more

\* The texts with more at the end of the last one.
Extended(lists, more) == [lists EXCEPT ![Len(lists)] = @ \o more]

\* Extended adds to the last text and leaves the others.
LEMMA ExtendedIs ==
  ASSUME NEW lists \in SomeTexts, NEW more \in Seq(Tokens)
  PROVE  /\ Extended(lists, more) \in SomeTexts
         /\ Len(Extended(lists, more)) = Len(lists) /\ Len(lists) \in Nat \ {0}
         /\ \A k \in 1..Len(lists) : k # Len(lists) => Extended(lists, more)[k] = lists[k]
         /\ Extended(lists, more)[Len(lists)] = lists[Len(lists)] \o more
<1>1. lists \in Seq(Seq(Tokens)) /\ Len(lists) \in Nat \ {0} /\ lists # <<>>
  BY DEF SomeTexts
<1> DEFINE l == Len(lists)
           e == lists[l] \o more
<1>2. lists[l] \in Seq(Tokens)
  BY <1>1
<1>3. e \in Seq(Tokens)
  BY <1>2
<1> HIDE DEF e
<1> DEFINE p == [lists EXCEPT ![l] = e]
<1>4. /\ p \in Seq(Seq(Tokens)) /\ Len(p) = l
      /\ \A k \in 1..l : k # l => p[k] = lists[k]
      /\ p[l] = e
  BY <1>1, <1>3
<1>5. p # <<>>
  <2> HIDE DEF p
  <2> QED
    BY <1>1, <1>4
<1>6. Extended(lists, more) = p
  BY DEF Extended, e
<1> HIDE DEF p
<1> QED
  BY <1>1, <1>4, <1>5, <1>6 DEF SomeTexts, e

\* Two lists of texts of the same length with the same texts.
LEMMA SameTexts ==
  ASSUME NEW a \in Seq(Seq(Tokens)), NEW b \in Seq(Seq(Tokens)), Len(a) = Len(b),
         \A k \in 1..Len(a) : a[k] = b[k]
  PROVE  a = b
<1> DEFINE S == Seq(Tokens)
<1>1. a \in Seq(S) /\ b \in Seq(S)
  OBVIOUS
<1> HIDE DEF S
<1> QED
  BY <1>1, SequenceIsFunction

\* The empty text adds nothing.
LEMMA ExtendedByNothing ==
  ASSUME NEW lists \in SomeTexts
  PROVE  Extended(lists, <<>>) = lists
<1> DEFINE p == Extended(lists, <<>>)
           l == Len(lists)
<1>1. <<>> \in Seq(Tokens) /\ lists \in Seq(Seq(Tokens))
  BY DEF SomeTexts
<1>2. /\ p \in SomeTexts /\ Len(p) = l /\ l \in Nat \ {0}
      /\ \A k \in 1..l : k # l => p[k] = lists[k]
      /\ p[l] = lists[l] \o <<>>
  BY <1>1, ExtendedIs
<1>3. lists[l] \in Seq(Tokens)
  BY <1>1, <1>2
<1>4. lists[l] \o <<>> = lists[l]
  BY <1>3, ConcatEmptySeq
<1> HIDE DEF p
<1>5. \A k \in 1..Len(p) : p[k] = lists[k]
  BY <1>2, <1>4
<1>6. p \in Seq(Seq(Tokens))
  BY <1>2 DEF SomeTexts
<1>7. p = lists
  BY <1>1, <1>2, <1>5, <1>6, SameTexts
<1> QED
  BY <1>7 DEF p

\* Adding a token behind an addition is one longer addition.
LEMMA ExtendedPushed ==
  ASSUME NEW lists \in SomeTexts, NEW more \in Seq(Tokens), NEW e \in Tokens
  PROVE  Pushed(Extended(lists, more), e) = Extended(lists, Append(more, e))
<1> DEFINE x == Extended(lists, more)
           p == Pushed(x, e)
           q == Extended(lists, Append(more, e))
           l == Len(lists)
<1>1. Append(more, e) \in Seq(Tokens) /\ lists \in Seq(Seq(Tokens))
  BY DEF SomeTexts
<1>2. /\ x \in SomeTexts /\ Len(x) = l /\ l \in Nat \ {0}
      /\ \A k \in 1..l : k # l => x[k] = lists[k]
      /\ x[l] = lists[l] \o more
  BY ExtendedIs
<1>3. /\ q \in SomeTexts /\ Len(q) = l
      /\ \A k \in 1..l : k # l => q[k] = lists[k]
      /\ q[l] = lists[l] \o Append(more, e)
  BY <1>1, ExtendedIs
<1> HIDE DEF x, q
<1>4. /\ p \in SomeTexts /\ Len(p) = l
      /\ \A k \in 1..l : k # l => p[k] = x[k]
      /\ p[l] = Append(x[l], e)
  BY <1>2, PushedIs
<1> HIDE DEF p
<1>5. lists[l] \in Seq(Tokens)
  BY <1>1, <1>2
<1>6. Append(lists[l] \o more, e) = lists[l] \o Append(more, e)
  BY <1>5, Together
<1>7. \A k \in 1..l : p[k] = q[k]
  BY <1>2, <1>3, <1>4, <1>6
<1>8. p \in Seq(Seq(Tokens)) /\ q \in Seq(Seq(Tokens))
  BY <1>3, <1>4 DEF SomeTexts
<1>9. p = q
  BY <1>3, <1>4, <1>7, <1>8, SameTexts
<1> QED
  BY <1>9 DEF p, q, x

\* A text without commas ends up in the last column.
LEMMA SplitConcat ==
  ASSUME NEW text \in Seq(Tokens), NEW more \in Seq(Tokens \ {Comma})
  PROVE  Split(text \o more) = Extended(Split(text), more)
<1> DEFINE S == Tokens \ {Comma}
           Good(s) == Split(text \o s) = Extended(Split(text), s)
           T == {s \in Seq(S) : Good(s)}
<1>1. Good(<<>>)
  <2>1. text \o <<>> = text
    BY ConcatEmptySeq
  <2>2. Extended(Split(text), <<>>) = Split(text)
    BY SplitType, ExtendedByNothing
  <2> QED
    BY <2>1, <2>2
<1>2. ASSUME NEW s \in Seq(S), NEW e \in S, Good(s)
      PROVE  Good(Append(s, e))
  <2>1. s \in Seq(Tokens) /\ e \in Tokens /\ e # Comma
    <3>1. \A k \in 1..Len(s) : s[k] \in Tokens
      OBVIOUS
    <3> QED
      BY <3>1, SequenceOf
  <2>2. text \o Append(s, e) = Append(text \o s, e)
    BY <2>1, Together
  <2>3. text \o s \in Seq(Tokens)
    BY <2>1
  <2> DEFINE t == text \o s
  <2> HIDE DEF t
  <2>4. Split(Append(t, e)) = Pushed(Split(t), e)
    BY <2>1, <2>3, SplitAppend DEF PartsSoFar, t
  <2>5. Pushed(Extended(Split(text), s), e) = Extended(Split(text), Append(s, e))
    BY <2>1, SplitType, ExtendedPushed
  <2>6. Split(t) = Extended(Split(text), s)
    BY <1>2 DEF t
  <2> QED
    BY <2>2, <2>4, <2>5, <2>6 DEF t
<1> HIDE DEF S, Good
<1>3. <<>> \in T /\ \A s \in Seq(S), e \in S : s \in T => Append(s, e) \in T
  <2>1. <<>> \in Seq(S)
    OBVIOUS
  <2>2. \A s \in Seq(S), e \in S : Append(s, e) \in Seq(S)
    OBVIOUS
  <2> QED
    BY <1>1, <1>2, <2>1, <2>2
<1>4. \A s \in Seq(S) : s \in T
  <2> HIDE DEF T
  <2> QED
    BY <1>3, Appending
<1> QED
  BY <1>4 DEF S, Good

\* Columns without commas are put together and taken apart again.
LEMMA SplitSeparated ==
  ASSUME NEW lists \in Seq(Seq(Tokens \ {Comma})), lists # <<>>
  PROVE  Split(Separated(lists)) = lists
<1> DEFINE S == Tokens \ {Comma}
           B == Seq(S)
           Good(ls) == ls # <<>> => Split(Separated(ls)) = ls
           T == {ls \in Seq(B) : Good(ls)}
<1>1. Good(<<>>)
  OBVIOUS
<1>2. S \subseteq Tokens /\ Comma \in Tokens
  BY TokenKinds
<1> HIDE DEF S
<1>3. \A t \in B : t \in Seq(Tokens)
  BY <1>2
<1>4. \A ls \in Seq(B) : ls \in Seq(Seq(Tokens))
  <2> SUFFICES ASSUME NEW ls \in Seq(B)
               PROVE  ls \in Seq(Seq(Tokens))
    OBVIOUS
  <2>1. \A k \in 1..Len(ls) : ls[k] \in Seq(Tokens)
    <3>1. \A k \in 1..Len(ls) : ls[k] \in B
      <4> HIDE DEF B
      <4> QED
        OBVIOUS
    <3> QED
      BY <1>3, <3>1
  <2> DEFINE V == Seq(Tokens)
  <2> HIDE DEF V, B
  <2>2. ls \in Seq(V)
    BY <2>1, SequenceOf DEF V
  <2> QED
    BY <2>2 DEF V
<1>5. ASSUME NEW ls \in Seq(B), NEW t \in B, Good(ls)
      PROVE  Good(Append(ls, t))
  <2>1. t \in Seq(Tokens) /\ ls \in Seq(Seq(Tokens)) /\ t \in Seq(Tokens \ {Comma})
    BY <1>3, <1>4 DEF S
  <2>2. CASE ls = <<>>
    <3>1. Append(ls, t) = <<t>>
      BY <2>2
    <3>2. Separated(<<t>>) = t
      BY <2>1, MarkedOne, SeparatedIsMarked
    <3>3. <<>> \in Seq(Tokens) /\ <<>> \o t = t
      BY <2>1, ConcatEmptySeq
    <3>4. Split(t) = Extended(<< <<>> >>, t)
      BY <2>1, <3>3, SplitConcat, SplitEmpty
    <3>5. Extended(<< <<>> >>, t) = <<t>>
      <4> DEFINE b == << <<>> >>
                 x == Extended(b, t)
      <4>1. b \in SomeTexts /\ Len(b) = 1 /\ b[1] = <<>>
        <5>1. b \in Seq(Seq(Tokens)) /\ Len(b) = 1 /\ b[1] = <<>>
          OBVIOUS
        <5>2. b # <<>>
          OBVIOUS
        <5> HIDE DEF b
        <5> QED
          BY <5>1, <5>2 DEF SomeTexts
      <4> HIDE DEF b
      <4>2. x \in SomeTexts /\ Len(x) = 1 /\ x[1] = b[1] \o t
        BY <2>1, <4>1, ExtendedIs
      <4>3. x[1] = t /\ x \in Seq(Seq(Tokens))
        BY <3>3, <4>1, <4>2 DEF SomeTexts
      <4>4. <<t>> \in Seq(Seq(Tokens)) /\ Len(<<t>>) = 1 /\ <<t>>[1] = t
        BY <2>1
      <4> DEFINE y == <<t>>
      <4> HIDE DEF x, y
      <4>5. \A k \in 1..Len(x) : x[k] = y[k]
        <5>1. \A k \in 1..1 : k = 1
          OBVIOUS
        <5> QED
          BY <4>2, <4>3, <4>4, <5>1 DEF y
      <4>6. x = y
        BY <4>2, <4>3, <4>4, <4>5, SameTexts DEF y
      <4> QED
        BY <4>6 DEF x, y, b
    <3> QED
      BY <3>1, <3>2, <3>4, <3>5
  <2>3. CASE ls # <<>>
    <3> DEFINE s == Separated(ls)
    <3>1. s \in Seq(Tokens) /\ Split(s) = ls
      <4>1. s \in Seq(Tokens)
        BY <1>2, <2>1, MarkedType, SeparatedIsMarked
      <4> QED
        BY <1>5, <2>3, <4>1
    <3>2. Separated(Append(ls, t)) = s \o (<<Comma>> \o t)
      <4>1. Marked(Append(ls, t), Comma) = Marked(ls, Comma) \o (<<Comma>> \o t)
        BY <1>2, <2>1, <2>3, MarkedAppend
      <4> QED
        BY <4>1, SeparatedIsMarked
    <3> HIDE DEF s
    <3> DEFINE c == <<Comma>>
    <3>3. c \in Seq(Tokens) /\ Append(s, Comma) = s \o c
      BY <1>2, <3>1, Together
    <3> HIDE DEF c
    <3>4. (s \o c) \o t = s \o (c \o t) /\ s \o c \in Seq(Tokens)
      BY <2>1, <3>1, <3>3, Together
    <3>5. Split(s \o c) = Append(ls, <<>>)
      BY <1>2, <3>1, <3>3, SplitAppend DEF PartsSoFar
    <3>6. Split((s \o c) \o t) = Extended(Append(ls, <<>>), t)
      BY <2>1, <3>4, <3>5, SplitConcat
    <3>7. Extended(Append(ls, <<>>), t) = Append(ls, t)
      <4> DEFINE b == Append(ls, <<>>)
                 x == Extended(b, t)
                 y == Append(ls, t)
                 l == Len(ls)
      <4>1. <<>> \in Seq(Tokens) /\ l \in Nat
        BY <2>1
      <4>2. /\ b \in Seq(Seq(Tokens)) /\ Len(b) = l + 1 /\ b[l + 1] = <<>>
            /\ \A k \in 1..l : b[k] = ls[k]
        BY <2>1, <4>1
      <4>3. /\ y \in Seq(Seq(Tokens)) /\ Len(y) = l + 1 /\ y[l + 1] = t
            /\ \A k \in 1..l : y[k] = ls[k]
        BY <2>1, <4>1
      <4> HIDE DEF b, y, l
      <4>4. b # <<>>
        BY <4>1, <4>2
      <4>5. b \in SomeTexts
        BY <4>2, <4>4 DEF SomeTexts
      <4>6. /\ x \in Seq(Seq(Tokens)) /\ Len(x) = l + 1 /\ x[l + 1] = b[l + 1] \o t
            /\ \A k \in 1..l + 1 : k # l + 1 => x[k] = b[k]
        BY <2>1, <4>2, <4>5, ExtendedIs DEF SomeTexts
      <4>7. x[l + 1] = t
        BY <2>1, <4>2, <4>6, ConcatEmptySeq
      <4> HIDE DEF x
      <4>8. ASSUME NEW k \in 1..Len(x)
            PROVE  x[k] = y[k]
        <5>1. k \in 1..l + 1 /\ (k = l + 1 \/ (k \in 1..l /\ k # l + 1))
          BY <4>1, <4>6
        <5> QED
          BY <4>2, <4>3, <4>6, <4>7, <5>1
      <4>9. x = y
        BY <4>3, <4>6, <4>8, SameTexts
      <4> QED
        BY <4>9 DEF x, y, b
    <3> QED
      BY <3>2, <3>4, <3>6, <3>7 DEF c
  <2> QED
    BY <2>2, <2>3
<1> HIDE DEF B, Good
<1>6. <<>> \in T /\ \A ls \in Seq(B), t \in B : ls \in T => Append(ls, t) \in T
  <2>1. <<>> \in Seq(B)
    OBVIOUS
  <2>2. \A ls \in Seq(B), t \in B : Append(ls, t) \in Seq(B)
    OBVIOUS
  <2> QED
    BY <1>1, <1>5, <2>1, <2>2
<1>7. \A ls \in Seq(B) : ls \in T
  <2> HIDE DEF T
  <2> QED
    BY <1>6, Appending
<1> QED
  BY <1>7 DEF B, Good, S

-----------------------------------------------------------------------------
(* The loop over the characters.                                           *)

\* A list of texts: its last one, and those in front of it.
LEMMA FrontAndLast ==
  ASSUME NEW lists \in SomeTexts
  PROVE  /\ Front(lists) \in Seq(Seq(Tokens)) /\ Last(lists) \in Seq(Tokens)
         /\ Len(lists) \in Nat \ {0} /\ Len(Front(lists)) = Len(lists) - 1
         /\ \A k \in 1..Len(Front(lists)) : Front(lists)[k] = lists[k]
         /\ Last(lists) = lists[Len(lists)]
         /\ lists = Append(Front(lists), Last(lists))
<1> DEFINE S == Seq(Tokens)
           l == Len(lists)
<1>1. lists \in Seq(S) /\ lists # <<>>
  BY DEF SomeTexts
<1> HIDE DEF S
<1>2. l \in Nat \ {0}
  BY <1>1
<1>3. /\ SubSeq(lists, 1, l - 1) \in Seq(S) /\ Len(SubSeq(lists, 1, l - 1)) = l - 1
      /\ \A k \in 1..l - 1 : SubSeq(lists, 1, l - 1)[k] = lists[k]
      /\ lists[l] \in S
  <2> DEFINE m == l - 1
  <2>1. m \in Nat /\ m <= Len(lists)
    BY <1>2
  <2>2. lists[l] \in S
    BY <1>1, <1>2
  <2> HIDE DEF m
  <2>3. SubSeq(lists, 1, m) \in Seq(S) /\ Len(SubSeq(lists, 1, m)) = m
    BY <1>1, <2>1
  <2>4. \A k \in 1..m : SubSeq(lists, 1, m)[k] = lists[k]
    BY <1>1, <2>1
  <2> QED
    BY <2>2, <2>3, <2>4 DEF m
<1>4. lists = Append(SubSeq(lists, 1, l - 1), lists[l])
  BY <1>1, <1>2
<1> QED
  BY <1>2, <1>3, <1>4 DEF Front, Last, S

\* Extended replaces the last text by a longer one.
LEMMA ExtendedAppended ==
  ASSUME NEW lists \in SomeTexts, NEW more \in Seq(Tokens)
  PROVE  Extended(lists, more) = Append(Front(lists), Last(lists) \o more)
<1> DEFINE f == Front(lists)
           b == Last(lists)
           l == Len(lists)
           x == Extended(lists, more)
           bm == b \o more
           y == Append(f, bm)
<1>1. /\ f \in Seq(Seq(Tokens)) /\ b \in Seq(Tokens) /\ l \in Nat \ {0} /\ Len(f) = l - 1
      /\ \A k \in 1..l - 1 : f[k] = lists[k]
      /\ b = lists[l]
  BY FrontAndLast
<1>2. /\ x \in Seq(Seq(Tokens)) /\ Len(x) = l
      /\ \A k \in 1..l : k # l => x[k] = lists[k]
      /\ x[l] = bm
  BY <1>1, ExtendedIs DEF SomeTexts
<1> HIDE DEF f, x
<1>3. bm \in Seq(Tokens)
  BY <1>1
<1> HIDE DEF bm, b
<1>4. /\ y \in Seq(Seq(Tokens)) /\ Len(y) = l /\ y[l] = bm
      /\ \A k \in 1..l - 1 : y[k] = f[k]
  BY <1>1, <1>3
<1> HIDE DEF y
<1>5. ASSUME NEW k \in 1..Len(x)
      PROVE  x[k] = y[k]
  <2>1. k \in 1..l /\ (k = l \/ (k # l /\ k \in 1..l - 1))
    BY <1>1, <1>2
  <2> QED
    BY <1>1, <1>2, <1>4, <2>1
<1>6. x = y
  BY <1>2, <1>4, <1>5, SameTexts
<1> QED
  BY <1>6 DEF x, y, bm, f, b

\* What is put behind the last text is put behind all of it.
LEMMA MarkedExtended ==
  ASSUME NEW lists \in SomeTexts, NEW more \in Seq(Tokens), NEW mark \in Tokens
  PROVE  Marked(Extended(lists, more), mark) = Marked(lists, mark) \o more
<1> DEFINE f == Front(lists)
           b == Last(lists)
           bm == b \o more
           m == <<mark>>
           s == Marked(f, mark)
<1>1. f \in Seq(Seq(Tokens)) /\ b \in Seq(Tokens) /\ lists = Append(f, b)
  BY FrontAndLast
<1>2. Extended(lists, more) = Append(f, bm)
  BY ExtendedAppended
<1>3. s \in Seq(Tokens) /\ bm \in Seq(Tokens) /\ m \in Seq(Tokens)
  BY <1>1, MarkedType
<1> HIDE DEF f, b
<1>4. CASE f = <<>>
  <2>1. lists = <<b>> /\ Append(f, bm) = <<bm>>
    BY <1>1, <1>4
  <2>2. Marked(<<b>>, mark) = b /\ Marked(<<bm>>, mark) = bm
    BY <1>1, <1>3, MarkedOne
  <2> QED
    BY <1>2, <2>1, <2>2
<1>5. CASE f # <<>>
  <2>1. Marked(Append(f, b), mark) = s \o (m \o b)
    BY <1>1, <1>5, MarkedAppend
  <2>2. Marked(Append(f, bm), mark) = s \o (m \o bm)
    <3> HIDE DEF bm
    <3> QED
      BY <1>1, <1>3, <1>5, MarkedAppend
  <2> HIDE DEF s, m
  <2>3. s \o (m \o bm) = (s \o (m \o b)) \o more
    <3>1. m \o bm = (m \o b) \o more
      BY <1>1, <1>3
    <3>2. m \o b \in Seq(Tokens)
      BY <1>1, <1>3
    <3> DEFINE mb == m \o b
    <3> HIDE DEF mb
    <3>3. s \o (mb \o more) = (s \o mb) \o more
      BY <1>3, <3>2 DEF mb
    <3> QED
      BY <3>1, <3>3 DEF mb
  <2> QED
    BY <1>1, <1>2, <2>1, <2>2, <2>3
<1> QED
  BY <1>4, <1>5

\* A pushed token is an addition of one token.
LEMMA PushedExtended ==
  ASSUME NEW bufs \in SomeTexts, NEW token \in Tokens
  PROVE  Pushed(bufs, token) = Extended(bufs, <<token>>)
<1>1. bufs[Len(bufs)] \in Seq(Tokens)
  BY FrontAndLast
<1>2. Append(bufs[Len(bufs)], token) = bufs[Len(bufs)] \o <<token>>
  BY <1>1, Together
<1> QED
  BY <1>2 DEF Pushed, Extended

\* The tokens whose placeholders have keys up to n, and stand for something.
UpTo(n, values) ==
  {x \in Tokens : x.kind = "placeholder" => x.key \in 1..n /\ x.key \in DOMAIN values}

\* Every placeholder stands for a text.
AreTexts(values) == \A key \in DOMAIN values : values[key] \in Seq(Tokens)

\* With more placeholders there are more tokens that are known.
LEMMA UpToMore ==
  ASSUME NEW n \in Int, NEW m \in Int, n <= m, NEW values, NEW others,
         DOMAIN values \subseteq DOMAIN others
  PROVE  /\ UpTo(n, values) \subseteq UpTo(m, others)
         /\ UpTo(n, values) \subseteq Tokens
         /\ SourceTokens \subseteq UpTo(n, values)
<1>1. SourceTokens \subseteq UpTo(n, values)
  BY SourceTypes DEF UpTo
<1>2. 1..n \subseteq 1..m
  OBVIOUS
<1> QED
  BY <1>1, <1>2 DEF UpTo

\* A text of known tokens can be expanded.
LEMMA UpToKnown ==
  ASSUME NEW n \in Int, NEW values, AreTexts(values), NEW tokens \in Seq(UpTo(n, values))
  PROVE  tokens \in Seq(Tokens) /\ Known(tokens, values)
<1> DEFINE U == UpTo(n, values)
<1>1. U \subseteq Tokens
  BY DEF UpTo
<1>0. tokens \in Seq(U)
  OBVIOUS
<1>2. \A k \in DOMAIN tokens : tokens[k] \in U
  <2> HIDE DEF U
  <2> QED
    BY <1>0
<1>3. tokens \in Seq(Tokens)
  <2> DEFINE T == Tokens
  <2>1. U \subseteq T
    BY <1>1
  <2> HIDE DEF U, T
  <2>2. tokens \in Seq(T)
    BY <1>0, <2>1
  <2> QED
    BY <2>2 DEF T
<1>4. \A x \in U : x.kind = "placeholder" => values[x.key] \in Seq(Tokens)
  BY DEF UpTo, AreTexts
<1>5. Known(tokens, values)
  <2> HIDE DEF U
  <2> QED
    BY <1>2, <1>4 DEF Known
<1> QED
  BY <1>3, <1>5

\* New values for other keys leave the text as it is.
LEMMA ExpandUpdated ==
  ASSUME NEW n \in Int, NEW values, NEW tokens \in Seq(UpTo(n, values)),
         NEW keys, keys \cap (1..n) = {}, NEW text
  PROVE  Expand(tokens, Updated(values, keys, text)) = Expand(tokens, values)
<1> DEFINE U == UpTo(n, values)
           new == Updated(values, keys, text)
<1>0. tokens \in Seq(U)
  OBVIOUS
<1>1. \A k \in 1..Len(tokens) : tokens[k] \in U
  <2> HIDE DEF U
  <2> QED
    BY <1>0
<1>2. \A x \in U : x.kind = "placeholder" => new[x.key] = values[x.key]
  BY DEF UpTo, Updated
<1> HIDE DEF U, new
<1>3. \A k \in 1..Len(tokens) : Meant(tokens[k], new) = Meant(tokens[k], values)
  BY <1>1, <1>2 DEF Meant
<1>4. Expand(tokens, new) = Expand(tokens, values)
  BY <1>3, ExpandSame
<1> QED
  BY <1>4 DEF new

\* Updated gives the keys the text and the others what they had.
LEMMA UpdatedIs ==
  ASSUME NEW values, NEW keys, NEW text
  PROVE  /\ DOMAIN Updated(values, keys, text) = DOMAIN values \cup keys
         /\ \A key \in keys : Updated(values, keys, text)[key] = text
         /\ AreTexts(values) /\ text \in Seq(Tokens) => AreTexts(Updated(values, keys, text))
BY DEF Updated, AreTexts

\* A statement, and the columns it starts with.
IsStatement(text, head) ==
  /\ text \in Seq(SourceTokens) /\ text \in Seq(Tokens) /\ Balanced(text)
  /\ head \in Seq(Tokens) /\ Len(head) \in 0..Len(text)
  /\ SubSeq(text, 1, Len(head)) = head /\ Depth(text, Len(head)) = 0

\* The first buffer starts with the columns.
Prefixed(text, head, first, values) ==
  \E a, b \in Seq(Tokens) :
    /\ first = a \o b
    /\ Len(a) = Len(Skeleton(text)[Len(head)])
    /\ Expand(a, values) = head

\* What is true of the buffers bufs after p tokens of the text, n of them parentheses
\* that open, with the values of the placeholders.
Scanned(text, head, bufs, values, n, p) ==
  /\ p \in 0..Len(text) /\ n \in Nat /\ bufs \in SomeTexts /\ AreTexts(values)
  /\ Len(bufs) = 1 + Depth(text, p) /\ Len(bufs) - 1 <= n
  /\ \A k \in 1..Len(bufs) :
       bufs[k] \in Seq(UpTo(IF k = Len(bufs) THEN n ELSE n - 1, values))
  /\ Expand(Joined(bufs), values) = SubSeq(text, 1, p)
  /\ Alike(bufs[1], Skeleton(text)[p])
  /\ p >= Len(head) => Prefixed(text, head, bufs[1], values)

\* The first buffer at the end of the SELECT list is a prefix of what comes.
LEMMA PrefixStarts ==
  ASSUME NEW text, NEW head, IsStatement(text, head),
         NEW bufs \in SomeTexts, Len(bufs) = 1 + Depth(text, Len(head)), NEW values,
         Expand(Joined(bufs), values) = SubSeq(text, 1, Len(head)),
         Alike(bufs[1], Skeleton(text)[Len(head)])
  PROVE  Prefixed(text, head, bufs[1], values)
<1> DEFINE a == bufs[1]
<1>1. Len(bufs) = 1 /\ SubSeq(text, 1, Len(head)) = head
  BY DEF IsStatement
<1>2. bufs = <<a>> /\ a \in Seq(Tokens)
  <2>1. bufs \in Seq(Seq(Tokens))
    BY DEF SomeTexts
  <2>2. a \in Seq(Tokens)
    BY <1>1, <2>1
  <2>3. \A k \in 1..1 : k = 1
    OBVIOUS
  <2>4. <<a>> \in Seq(Seq(Tokens)) /\ Len(<<a>>) = 1 /\ <<a>>[1] = a
    BY <2>2
  <2> DEFINE one == <<a>>
  <2> HIDE DEF one
  <2>5. \A k \in 1..Len(bufs) : bufs[k] = one[k]
    BY <1>1, <2>3, <2>4 DEF one
  <2>6. bufs = one
    BY <1>1, <2>1, <2>4, <2>5, SameTexts DEF one
  <2> QED
    BY <2>2, <2>6 DEF one
<1>3. Joined(bufs) = a
  <2>1. Joined(bufs) = Marked(bufs, Open)
    BY JoinedIsMarked DEF SomeTexts
  <2> HIDE DEF a
  <2> QED
    BY <1>2, <2>1, MarkedOne
<1>4. Expand(a, values) = head
  BY <1>1, <1>3
<1>5. Len(a) = Len(Skeleton(text)[Len(head)])
  BY DEF Alike
<1>6. <<>> \in Seq(Tokens) /\ a \o <<>> = a
  BY <1>2, ConcatEmptySeq
<1> HIDE DEF a
<1>7. Prefixed(text, head, a, values)
  BY <1>2, <1>4, <1>5, <1>6 DEF Prefixed
<1> QED
  BY <1>7 DEF a

\* The first buffer grows at its end, and old keys keep their values.
LEMMA PrefixGrows ==
  ASSUME NEW text, NEW head, NEW n \in Int, NEW values, AreTexts(values),
         NEW first \in Seq(UpTo(n, values)), Prefixed(text, head, first, values),
         NEW more \in Seq(Tokens),
         NEW keys, keys \cap (1..n) = {}, NEW new
  PROVE  Prefixed(text, head, first \o more, Updated(values, keys, new))
<1> DEFINE U == UpTo(n, values)
<1>1. PICK a \in Seq(Tokens), b \in Seq(Tokens) :
        /\ first = a \o b
        /\ Len(a) = Len(Skeleton(text)[Len(head)])
        /\ Expand(a, values) = head
  BY DEF Prefixed
<1>2. a \in Seq(U)
  <2>1. \A k \in 1..Len(first) : first[k] \in U
    <3>1. first \in Seq(U)
      OBVIOUS
    <3> HIDE DEF U
    <3> QED
      BY <3>1
  <2>2. /\ \A k \in 1..Len(a) : (a \o b)[k] = a[k]
        /\ Len(a \o b) = Len(a) + Len(b) /\ Len(a) \in Nat /\ Len(b) \in Nat
    OBVIOUS
  <2> DEFINE ab == a \o b
  <2> HIDE DEF ab
  <2>3. \A k \in 1..Len(a) : k \in 1..Len(first) /\ first[k] = a[k]
    BY <1>1, <2>2 DEF ab
  <2>4. \A k \in 1..Len(a) : a[k] \in U
    BY <2>1, <2>3
  <2> HIDE DEF U
  <2> QED
    BY <2>4, SequenceOf
<1>3. Expand(a, Updated(values, keys, new)) = head
  <2>1. Expand(a, Updated(values, keys, new)) = Expand(a, values)
    BY <1>2, ExpandUpdated
  <2> QED
    BY <1>1, <2>1
<1>4. first \o more = a \o (b \o more) /\ b \o more \in Seq(Tokens)
  BY <1>1, Together
<1> DEFINE bm == b \o more
<1> HIDE DEF bm
<1>5. first \o more = a \o bm /\ bm \in Seq(Tokens)
  BY <1>4 DEF bm
<1> QED
  BY <1>1, <1>3, <1>5 DEF Prefixed

\* It remains one whatever is added.
LEMMA PrefixStays ==
  ASSUME NEW text, NEW head, NEW first, NEW values, Prefixed(text, head, first, values),
         NEW more \in Seq(Tokens)
  PROVE  Prefixed(text, head, first \o more, values)
<1>1. PICK a \in Seq(Tokens), b \in Seq(Tokens) :
        /\ first = a \o b
        /\ Len(a) = Len(Skeleton(text)[Len(head)])
        /\ Expand(a, values) = head
  BY DEF Prefixed
<1> DEFINE bm == b \o more
<1>2. first \o more = a \o bm /\ bm \in Seq(Tokens)
  BY <1>1, Together
<1> HIDE DEF bm
<1> QED
  BY <1>1, <1>2 DEF Prefixed

\* What the buffers hold, with the open parentheses between them.
LEMMA JoinedUpTo ==
  ASSUME NEW n \in Int, NEW values, AreTexts(values), NEW bufs \in SomeTexts,
         \A k \in 1..Len(bufs) : bufs[k] \in Seq(UpTo(n, values))
  PROVE  /\ Joined(bufs) = Marked(bufs, Open)
         /\ Joined(bufs) \in Seq(UpTo(n, values)) /\ Joined(bufs) \in Seq(Tokens)
         /\ Known(Joined(bufs), values)
<1> DEFINE U == UpTo(n, values)
<1>1. Open \in U
  <2>1. Open \in Tokens /\ Open.kind # "placeholder"
    BY TokenKinds
  <2> QED
    BY <2>1 DEF UpTo
<1>2. bufs \in Seq(Seq(U))
  <2>1. bufs \in Seq(Seq(Tokens))
    BY DEF SomeTexts
  <2> DEFINE A == Seq(Tokens)
             B == Seq(U)
  <2>2. bufs \in Seq(A) /\ \A k \in 1..Len(bufs) : bufs[k] \in B
    BY <2>1
  <2> HIDE DEF A, B
  <2>3. bufs \in Seq(B)
    BY <2>2, SequenceOf
  <2> QED
    BY <2>3 DEF B
<1>3. Joined(bufs) = Marked(bufs, Open)
  BY JoinedIsMarked DEF SomeTexts
<1> HIDE DEF U
<1>4. Joined(bufs) \in Seq(U)
  BY <1>1, <1>2, <1>3, MarkedType
<1>5. Joined(bufs) \in Seq(Tokens) /\ Known(Joined(bufs), values)
  BY <1>4, UpToKnown DEF U
<1> QED
  BY <1>3, <1>4, <1>5 DEF U

\* The joined buffers are a text whose placeholders are known.
LEMMA JoinedTypes ==
  ASSUME NEW n \in Nat, NEW values, AreTexts(values), NEW bufs \in SomeTexts,
         \A k \in 1..Len(bufs) :
           bufs[k] \in Seq(UpTo(IF k = Len(bufs) THEN n ELSE n - 1, values))
  PROVE  /\ \A k \in 1..Len(bufs) : bufs[k] \in Seq(UpTo(n, values))
         /\ Joined(bufs) = Marked(bufs, Open)
         /\ Joined(bufs) \in Seq(UpTo(n, values)) /\ Joined(bufs) \in Seq(Tokens)
         /\ Known(Joined(bufs), values)
<1> DEFINE U == UpTo(n, values)
           V == UpTo(n - 1, values)
<1>1. V \subseteq U
  <2>1. n - 1 \in Int /\ n \in Int /\ n - 1 <= n
    OBVIOUS
  <2> QED
    BY <2>1, UpToMore
<1>2. \A k \in 1..Len(bufs) : bufs[k] \in Seq(U) \/ bufs[k] \in Seq(V)
  OBVIOUS
<1> HIDE DEF U, V
<1>3. \A k \in 1..Len(bufs) : bufs[k] \in Seq(U)
  BY <1>1, <1>2
<1> QED
  BY <1>3, JoinedUpTo DEF U

\* One more token of the text.
LEMMA OneMore ==
  ASSUME NEW text, NEW head, IsStatement(text, head), NEW p \in 0..Len(text), p < Len(text)
  PROVE  /\ text[p + 1] \in Tokens /\ text[p + 1] \in SourceTokens
         /\ text[p + 1].kind # "placeholder"
         /\ p + 1 \in 0..Len(text) /\ p \in Nat
         /\ SubSeq(text, 1, p) \in Seq(Tokens)
         /\ SubSeq(text, 1, p + 1) = Append(SubSeq(text, 1, p), text[p + 1])
         /\ Depth(text, p + 1) \in Nat
         /\ Depth(text, p + 1) = Depth(text, p) + Deeper(text[p + 1])
<1> DEFINE S == SourceTokens
<1>1. text \in Seq(S) /\ text \in Seq(Tokens) /\ Balanced(text)
  BY DEF IsStatement
<1> HIDE DEF S
<1>2. p \in Nat /\ p + 1 \in 0..Len(text) /\ p + 1 \in 1..Len(text)
  BY <1>1
<1>3. text[p + 1] \in S
  BY <1>1, <1>2
<1>4. text[p + 1] \in Tokens /\ text[p + 1].kind # "placeholder"
  BY <1>3, SourceTypes DEF S
<1>5. /\ SubSeq(text, 1, p) \in Seq(Tokens)
      /\ SubSeq(text, 1, p + 1) = Append(SubSeq(text, 1, p), text[p + 1])
  <2> HIDE DEF S
  <2> QED
    BY <1>1, <1>2
<1>6. Depth(text, p + 1) >= 0
  BY <1>1, <1>2, BalancedDepth
<1>7. /\ Depth(text, p + 1) \in Int
      /\ Depth(text, p + 1) = Depth(text, p) + Deeper(text[p + 1])
  BY <1>2, DepthStep
<1> QED
  BY <1>2, <1>3, <1>4, <1>5, <1>6, <1>7 DEF S

\* A token that is no placeholder stands for itself.
LEMMA ExpandKept ==
  ASSUME NEW tokens \in Seq(Tokens), NEW values, Known(tokens, values),
         NEW e \in Tokens, e.kind # "placeholder"
  PROVE  /\ Known(Append(tokens, e), values)
         /\ Expand(Append(tokens, e), values) = Append(Expand(tokens, values), e)
<1> DEFINE more == Append(tokens, e)
<1>1. /\ Len(more) = Len(tokens) + 1 /\ Len(tokens) \in Nat /\ DOMAIN more = 1..Len(more)
      /\ \A k \in 1..Len(tokens) : more[k] = tokens[k]
      /\ more[Len(tokens) + 1] = e /\ DOMAIN tokens = 1..Len(tokens)
  OBVIOUS
<1> HIDE DEF more
<1>2. ASSUME NEW k \in DOMAIN more, more[k].kind = "placeholder"
      PROVE  values[more[k].key] \in Seq(Tokens)
  <2>1. k \in 1..Len(tokens)
    BY <1>1, <1>2
  <2> QED
    BY <1>1, <1>2, <2>1 DEF Known
<1>3. Known(more, values)
  BY <1>2 DEF Known
<1>4. Meant(e, values) = <<e>>
  BY DEF Meant
<1>5. Expand(more, values) = Expand(tokens, values) \o <<e>>
  BY <1>3, <1>4, ExpandAppend DEF more
<1>6. Expand(tokens, values) \o <<e>> = Append(Expand(tokens, values), e)
  BY ExpandType, Together
<1> QED
  BY <1>3, <1>5, <1>6 DEF more

\* A parenthesis opens.
LEMMA ScannedOpen ==
  ASSUME NEW text, NEW head, IsStatement(text, head), NEW bufs, NEW values, NEW n, NEW p,
         Scanned(text, head, bufs, values, n, p), p < Len(text), text[p + 1] = Open
  PROVE  Scanned(text, head, Append(bufs, <<>>), values, n + 1, p + 1)
<1> DEFINE more == Append(bufs, <<>>)
           l == Len(bufs)
<1>1. /\ p \in 0..Len(text) /\ n \in Nat /\ bufs \in SomeTexts /\ AreTexts(values)
      /\ l = 1 + Depth(text, p) /\ l - 1 <= n
      /\ \A k \in 1..l :
           bufs[k] \in Seq(UpTo(IF k = l THEN n ELSE n - 1, values))
      /\ Expand(Joined(bufs), values) = SubSeq(text, 1, p)
      /\ Alike(bufs[1], Skeleton(text)[p])
      /\ p >= Len(head) => Prefixed(text, head, bufs[1], values)
  BY DEF Scanned
<1>2. /\ p + 1 \in 0..Len(text) /\ p \in Nat
      /\ SubSeq(text, 1, p + 1) = Append(SubSeq(text, 1, p), Open)
      /\ Depth(text, p + 1) = Depth(text, p) + 1
      /\ Depth(text, p + 1) # 0 /\ Open \in Tokens /\ Open.kind # "placeholder"
  <2>1. Deeper(Open) = 1
    BY DEF Deeper
  <2>2. l \in Nat \ {0}
    BY <1>1, FrontAndLast
  <2>3. Depth(text, p) \in Int
    BY <1>1, OneMore, DepthStep
  <2>4. Depth(text, p) >= 0
    BY <1>1, <2>2, <2>3
  <2> QED
    BY <1>1, <2>1, <2>3, <2>4, OneMore
<1>3. /\ more \in SomeTexts /\ Len(more) = l + 1 /\ l \in Nat \ {0}
      /\ \A k \in 1..l : more[k] = bufs[k]
      /\ more[l + 1] = <<>>
  <2>1. bufs \in Seq(Seq(Tokens)) /\ l \in Nat \ {0} /\ <<>> \in Seq(Tokens)
    BY <1>1, FrontAndLast DEF SomeTexts
  <2>2. /\ more \in Seq(Seq(Tokens)) /\ Len(more) = l + 1
        /\ \A k \in 1..l : more[k] = bufs[k]
        /\ more[l + 1] = <<>>
    BY <2>1
  <2>3. more # <<>>
    BY <2>1, LastOfAppend
  <2> QED
    BY <2>1, <2>2, <2>3 DEF SomeTexts
<1>4. /\ \A k \in 1..l : bufs[k] \in Seq(UpTo(n, values))
      /\ Joined(bufs) = Marked(bufs, Open)
      /\ Joined(bufs) \in Seq(Tokens) /\ Known(Joined(bufs), values)
  BY <1>1, JoinedTypes
<1>5. \A k \in 1..Len(more) :
        more[k] \in Seq(UpTo(IF k = Len(more) THEN n + 1 ELSE (n + 1) - 1, values))
  <2> SUFFICES ASSUME NEW k \in 1..Len(more)
               PROVE  more[k] \in Seq(UpTo(IF k = Len(more) THEN n + 1 ELSE (n + 1) - 1, values))
    OBVIOUS
  <2>1. CASE k = Len(more)
    <3>1. more[k] = <<>> /\ <<>> \in Seq(UpTo(n + 1, values))
      BY <1>3, <2>1
    <3> QED
      BY <2>1, <3>1
  <2>2. CASE k # Len(more)
    <3>1. k \in 1..l /\ (n + 1) - 1 = n
      BY <1>1, <1>3, <2>2
    <3>2. more[k] \in Seq(UpTo(n, values))
      BY <1>3, <1>4, <3>1
    <3> QED
      BY <2>2, <3>1, <3>2
  <2> QED
    BY <2>1, <2>2
<1>6. Joined(more) = Append(Joined(bufs), Open)
  <2>1. bufs \in Seq(Seq(Tokens)) /\ bufs # <<>> /\ <<>> \in Seq(Tokens)
    BY <1>1 DEF SomeTexts
  <2>2. Marked(more, Open) = Marked(bufs, Open) \o (<<Open>> \o <<>>)
    BY <1>2, <2>1, MarkedAppend
  <2>3. <<Open>> \o <<>> = <<Open>>
    BY <1>2, ConcatEmptySeq
  <2>4. Joined(more) = Marked(more, Open)
    BY <1>3, JoinedIsMarked DEF SomeTexts
  <2>5. Joined(bufs) \o <<Open>> = Append(Joined(bufs), Open)
    BY <1>2, <1>4, Together
  <2> QED
    BY <1>4, <2>2, <2>3, <2>4, <2>5
<1>7. Expand(Joined(more), values) = SubSeq(text, 1, p + 1)
  BY <1>1, <1>2, <1>4, <1>6, ExpandKept
<1>8. more[1] = bufs[1] /\ Skeleton(text)[p + 1] = Skeleton(text)[p]
  <2>1. 1 \in 1..l
    BY <1>3
  <2>2. text \in Seq(Tokens)
    BY DEF IsStatement
  <2> QED
    BY <1>2, <1>3, <2>1, <2>2, SkeletonStep
<1>9. p + 1 >= Len(head) => Prefixed(text, head, more[1], values)
  <2>1. Len(head) \in Nat /\ Depth(text, Len(head)) = 0
    BY DEF IsStatement
  <2>2. p + 1 # Len(head)
    BY <1>2, <2>1
  <2>3. p + 1 >= Len(head) => p >= Len(head)
    BY <1>2, <2>1, <2>2
  <2> QED
    BY <1>1, <1>8, <2>3
<1>10. Len(more) = 1 + Depth(text, p + 1) /\ Len(more) - 1 <= n + 1 /\ n + 1 \in Nat
  <2>1. Depth(text, p) \in Int
    BY <1>2, DepthStep
  <2> QED
    BY <1>1, <1>2, <1>3, <2>1
<1> HIDE DEF more
<1> QED
  BY <1>1, <1>2, <1>3, <1>5, <1>7, <1>8, <1>9, <1>10 DEF Scanned, more

\* A token that is no parenthesis.
LEMMA ScannedToken ==
  ASSUME NEW text, NEW head, IsStatement(text, head), NEW bufs, NEW values, NEW n, NEW p,
         Scanned(text, head, bufs, values, n, p), p < Len(text), text[p + 1] \notin {Open, Close}
  PROVE  Scanned(text, head, Pushed(bufs, text[p + 1]), values, n, p + 1)
<1> DEFINE e == text[p + 1]
           more == Pushed(bufs, e)
           l == Len(bufs)
<1>1. /\ p \in 0..Len(text) /\ n \in Nat /\ bufs \in SomeTexts /\ AreTexts(values)
      /\ l = 1 + Depth(text, p) /\ l - 1 <= n
      /\ \A k \in 1..l :
           bufs[k] \in Seq(UpTo(IF k = l THEN n ELSE n - 1, values))
      /\ Expand(Joined(bufs), values) = SubSeq(text, 1, p)
      /\ Alike(bufs[1], Skeleton(text)[p])
      /\ p >= Len(head) => Prefixed(text, head, bufs[1], values)
  BY DEF Scanned
<1>2. /\ e \in Tokens /\ e \in SourceTokens /\ e.kind # "placeholder" /\ e # Close
      /\ p + 1 \in 0..Len(text) /\ p \in Nat
      /\ SubSeq(text, 1, p + 1) = Append(SubSeq(text, 1, p), e)
      /\ Depth(text, p + 1) = Depth(text, p)
  <2>1. Deeper(e) = 0
    BY DEF Deeper
  <2>2. Depth(text, p) \in Int
    BY <1>1, OneMore, DepthStep
  <2> QED
    BY <1>1, <2>1, <2>2, OneMore
<1> HIDE DEF e
<1>3. /\ more \in SomeTexts /\ Len(more) = l /\ l \in Nat \ {0}
      /\ \A k \in 1..l : k # l => more[k] = bufs[k]
      /\ more[l] = Append(bufs[l], e)
  BY <1>1, <1>2, PushedIs
<1>4. /\ \A k \in 1..Len(bufs) : bufs[k] \in Seq(UpTo(n, values))
      /\ Joined(bufs) = Marked(bufs, Open)
      /\ Joined(bufs) \in Seq(Tokens) /\ Known(Joined(bufs), values)
  BY <1>1, JoinedTypes
<1>5. Append(bufs[l], e) \in Seq(UpTo(n, values))
  <2> DEFINE U == UpTo(n, values)
  <2>1. e \in U
    BY <1>2 DEF UpTo
  <2>2. bufs[l] \in Seq(U)
    BY <1>1, <1>3
  <2> HIDE DEF U
  <2>3. Append(bufs[l], e) \in Seq(U)
    BY <2>1, <2>2
  <2> QED
    BY <2>3 DEF U
<1>6. \A k \in 1..Len(more) :
        more[k] \in Seq(UpTo(IF k = Len(more) THEN n ELSE n - 1, values))
  BY <1>1, <1>3, <1>5
<1>7. Joined(more) = Append(Joined(bufs), e)
  <2>1. more = Extended(bufs, <<e>>) /\ <<e>> \in Seq(Tokens)
    BY <1>1, <1>2, PushedExtended
  <2>2. Marked(Extended(bufs, <<e>>), Open) = Marked(bufs, Open) \o <<e>>
    BY <1>1, <2>1, MarkedExtended, TokenKinds
  <2>3. Joined(more) = Marked(more, Open)
    BY <1>3, JoinedIsMarked DEF SomeTexts
  <2>4. Joined(bufs) \o <<e>> = Append(Joined(bufs), e)
    BY <1>2, <1>4, Together
  <2> QED
    BY <1>4, <2>1, <2>2, <2>3, <2>4
<1>8. Expand(Joined(more), values) = SubSeq(text, 1, p + 1)
  BY <1>1, <1>2, <1>4, <1>7, ExpandKept
<1>9. /\ bufs[1] \in Seq(Tokens) /\ Skeleton(text)[p] \in Seq(Tokens)
      /\ l = 1 => /\ more[1] = Append(bufs[1], e)
                  /\ Skeleton(text)[p + 1] = Append(Skeleton(text)[p], e)
      /\ l # 1 => /\ more[1] = bufs[1]
                  /\ Skeleton(text)[p + 1] = Skeleton(text)[p]
  <2>1. 1 \in 1..l /\ bufs \in Seq(Seq(Tokens))
    BY <1>1, <1>3 DEF SomeTexts
  <2>2. bufs[1] \in Seq(Tokens)
    BY <2>1
  <2>3. text \in Seq(Tokens)
    BY DEF IsStatement
  <2>4. /\ Skeleton(text)[p] \in Seq(Tokens)
        /\ Skeleton(text)[p + 1] = IF Depth(text, p + 1) # 0 THEN Skeleton(text)[p]
                                   ELSE Append(Skeleton(text)[p], e)
    BY <1>2, <2>3, SkeletonStep DEF e
  <2>5. (l = 1) <=> Depth(text, p + 1) = 0
    <3>1. Depth(text, p) \in Int
      BY <1>2, DepthStep
    <3> QED
      BY <1>1, <1>2, <3>1
  <2> QED
    BY <1>3, <2>1, <2>2, <2>4, <2>5
<1>10. Alike(more[1], Skeleton(text)[p + 1])
  <2>1. LikeToken(e, e)
    BY DEF LikeToken
  <2>2. CASE l = 1
    BY <1>1, <1>2, <1>9, <2>1, <2>2, AlikeAppend
  <2>3. CASE l # 1
    BY <1>1, <1>9, <2>3
  <2> QED
    BY <2>2, <2>3
<1>11. Len(more) = 1 + Depth(text, p + 1)
  BY <1>1, <1>2, <1>3
<1>12. p + 1 >= Len(head) => Prefixed(text, head, more[1], values)
  <2>1. Len(head) \in Nat
    BY DEF IsStatement
  <2>2. CASE p + 1 = Len(head)
    <3> HIDE DEF more
    <3>1. Prefixed(text, head, more[1], values)
      BY <1>3, <1>8, <1>10, <1>11, <2>2, PrefixStarts
    <3> QED
      BY <3>1
  <2>3. CASE p >= Len(head)
    <3>1. Append(bufs[1], e) = bufs[1] \o <<e>> /\ <<e>> \in Seq(Tokens)
      <4> DEFINE a == bufs[1]
      <4>1. a \in Seq(Tokens)
        BY <1>9
      <4> HIDE DEF a
      <4>2. Append(a, e) = a \o <<e>>
        BY <1>2, <4>1
      <4> QED
        BY <1>2, <4>2 DEF a
    <3>2. Prefixed(text, head, bufs[1] \o <<e>>, values)
      BY <1>1, <2>3, <3>1, PrefixStays
    <3> QED
      BY <1>1, <1>9, <2>3, <3>1, <3>2
  <2> QED
    BY <1>2, <2>1, <2>2, <2>3
<1> HIDE DEF more
<1>13. Scanned(text, head, more, values, n, p + 1)
  BY <1>1, <1>2, <1>3, <1>6, <1>8, <1>10, <1>11, <1>12 DEF Scanned
<1> QED
  BY <1>13 DEF more, e

\* A parenthesis closes: a placeholder takes its place.
LEMMA ScannedClose ==
  ASSUME NEW text, NEW head, IsStatement(text, head), NEW bufs, NEW values, NEW n, NEW p,
         Scanned(text, head, bufs, values, n, p), p < Len(text), text[p + 1] = Close
  PROVE  Scanned(text, head, Closed(bufs, n),
                 Updated(values, {n}, Expand(Last(bufs), values)), n, p + 1)
<1> DEFINE left == Front(bufs)
           last == Last(bufs)
           group == <<Open, Placeholder(n), Close>>
           more == Extended(left, group)
           inside == Expand(last, values)
           new == Updated(values, {n}, inside)
           l == Len(bufs)
           r == Len(left)
<1>1. /\ p \in 0..Len(text) /\ n \in Nat /\ bufs \in SomeTexts /\ AreTexts(values)
      /\ l = 1 + Depth(text, p) /\ l - 1 <= n
      /\ \A k \in 1..l :
           bufs[k] \in Seq(UpTo(IF k = l THEN n ELSE n - 1, values))
      /\ Expand(Joined(bufs), values) = SubSeq(text, 1, p)
      /\ Alike(bufs[1], Skeleton(text)[p])
      /\ p >= Len(head) => Prefixed(text, head, bufs[1], values)
  BY DEF Scanned
<1>2. /\ p + 1 \in 0..Len(text) /\ p \in Nat
      /\ SubSeq(text, 1, p + 1) = Append(SubSeq(text, 1, p), Close)
      /\ Depth(text, p + 1) \in Nat /\ Depth(text, p + 1) = Depth(text, p) - 1
      /\ Depth(text, p) \in Nat \ {0}
  <2>1. Deeper(Close) = 0 - 1
    BY TokenKinds DEF Deeper
  <2>2. Depth(text, p) \in Int
    BY <1>1, OneMore, DepthStep
  <2>3. Depth(text, p + 1) \in Nat /\ Depth(text, p + 1) = Depth(text, p) + (0 - 1)
    BY <1>1, <2>1, OneMore
  <2> QED
    BY <1>1, <2>2, <2>3, OneMore
<1>3. /\ left \in Seq(Seq(Tokens)) /\ last \in Seq(Tokens)
      /\ l \in Nat \ {0} /\ r = l - 1 /\ r \in Nat \ {0} /\ n \in Nat \ {0}
      /\ \A k \in 1..r : left[k] = bufs[k] /\ k \in 1..l /\ k # l
      /\ last = bufs[l] /\ bufs = Append(left, last)
      /\ left \in SomeTexts
  <2>1. /\ left \in Seq(Seq(Tokens)) /\ last \in Seq(Tokens)
        /\ l \in Nat \ {0} /\ r = l - 1
        /\ \A k \in 1..r : left[k] = bufs[k]
        /\ last = bufs[l] /\ bufs = Append(left, last)
    BY <1>1, FrontAndLast
  <2>2. r \in Nat \ {0} /\ n \in Nat \ {0}
    BY <1>1, <1>2, <2>1
  <2>3. left # <<>>
    <3> HIDE DEF left
    <3> QED
      BY <2>1, <2>2
  <2>4. \A k \in 1..r : k \in 1..l /\ k # l
    BY <2>1
  <2> QED
    BY <2>1, <2>2, <2>3, <2>4 DEF SomeTexts
<1>4. /\ group \in Seq(Tokens) /\ Placeholder(n) \in Tokens /\ Open \in Tokens /\ Close \in Tokens
      /\ Placeholder(n).kind = "placeholder" /\ Placeholder(n).key = n
      /\ Open.kind # "placeholder" /\ Close.kind # "placeholder"
  BY <1>1, TokenTypes, TokenKinds
<1>5. Closed(bufs, n) = more
  BY DEF Closed, Extended
<1>6. /\ \A k \in 1..r : left[k] \in Seq(UpTo(n - 1, values))
      /\ last \in Seq(UpTo(n, values))
  <2>1. \A k \in 1..r : bufs[k] \in Seq(UpTo(n - 1, values))
    BY <1>1, <1>3
  <2>2. l \in 1..l
    BY <1>3
  <2>3. bufs[l] \in Seq(UpTo(n, values))
    BY <1>1, <2>2
  <2> QED
    BY <1>3, <2>1, <2>3
<1>types. left \in Seq(Seq(Tokens)) /\ last \in Seq(Tokens) /\ left # <<>>
  BY <1>3 DEF SomeTexts
<1>lengths. /\ l = 1 + Depth(text, p) /\ r = l - 1 /\ r \in Nat /\ r # 0 /\ l - 1 <= n
            /\ Depth(text, p) \in Nat /\ n \in Nat
  BY <1>1, <1>2, <1>3
<1> HIDE DEF left, last, more, group, l, r
<1>7. Known(last, values) /\ inside \in Seq(Tokens)
  <2>1. Known(last, values)
    BY <1>1, <1>6, UpToKnown
  <2> QED
    BY <1>3, <2>1, ExpandType
<1> HIDE DEF inside, new
<1>8. DOMAIN new = DOMAIN values \cup {n} /\ new[n] = inside /\ AreTexts(new)
  <2>1. \A key \in DOMAIN values : values[key] \in Seq(Tokens)
    BY <1>1 DEF AreTexts
  <2>2. DOMAIN new = DOMAIN values \cup {n}
    BY DEF new, Updated
  <2>3. \A key \in DOMAIN new : new[key] = IF key = n THEN inside ELSE values[key]
    BY DEF new, Updated
  <2>4. \A key \in DOMAIN new : new[key] \in Seq(Tokens)
    BY <1>7, <2>1, <2>2, <2>3
  <2> QED
    BY <2>2, <2>3, <2>4 DEF AreTexts
<1>9. /\ more \in SomeTexts /\ Len(more) = r
      /\ \A k \in 1..r : k # r => more[k] = left[k]
      /\ more[r] = left[r] \o group
  BY <1>3, <1>4, ExtendedIs DEF more, r
<1>10. /\ \A k \in 1..r : left[k] \in Seq(UpTo(n - 1, new))
       /\ left[r] \o group \in Seq(UpTo(n, new))
  <2> DEFINE U == UpTo(n - 1, values)
             V == UpTo(n - 1, new)
             W == UpTo(n, new)
  <2>1. U \subseteq V /\ V \subseteq W
    <3>1. n - 1 \in Int /\ n \in Int /\ n - 1 <= n
      BY <1>1
    <3>2. DOMAIN values \subseteq DOMAIN new
      BY <1>8
    <3> QED
      BY <3>1, <3>2, UpToMore
  <2>2. Open \in W /\ Close \in W /\ Placeholder(n) \in W
    <3>1. n \in 1..n /\ n \in DOMAIN new
      BY <1>3, <1>8
    <3> QED
      BY <1>4, <3>1 DEF UpTo
  <2>3. \A k \in 1..r : left[k] \in Seq(U)
    BY <1>6
  <2>4. r \in 1..r
    BY <1>3
  <2> HIDE DEF U, V, W
  <2>5. \A k \in 1..r : left[k] \in Seq(V)
    BY <2>1, <2>3
  <2>6. left[r] \in Seq(W)
    BY <2>1, <2>4, <2>5
  <2>7. group \in Seq(W)
    BY <2>2 DEF group
  <2>8. left[r] \o group \in Seq(W)
    <3> DEFINE a == left[r]
    <3> HIDE DEF a
    <3>1. a \in Seq(W)
      BY <2>6 DEF a
    <3>2. a \o group \in Seq(W)
      BY <2>7, <3>1
    <3> QED
      BY <3>2 DEF a
  <2> QED
    BY <2>5, <2>8 DEF V, W
<1>11. \A k \in 1..Len(more) :
         more[k] \in Seq(UpTo(IF k = Len(more) THEN n ELSE n - 1, new))
  BY <1>3, <1>9, <1>10
<1> DEFINE J == Joined(left)
           AJ == Append(J, Open)
           PJ == Append(AJ, Placeholder(n))
           X == Expand(J, values)
<1>12. /\ J = Marked(left, Open) /\ J \in Seq(UpTo(n - 1, values)) /\ J \in Seq(Tokens)
       /\ Known(J, values)
  <2>1. n - 1 \in Int /\ Len(left) = r
    BY <1>1 DEF r
  <2> QED
    BY <1>1, <1>3, <1>6, <2>1, JoinedUpTo
<1>13. Joined(more) = Append(PJ, Close)
  <2>1. Joined(more) = Marked(more, Open)
    BY <1>9, JoinedIsMarked DEF SomeTexts
  <2>2. Marked(Extended(left, group), Open) = Marked(left, Open) \o group
    BY <1>3, <1>4, MarkedExtended
  <2> HIDE DEF J
  <2>3. J \o group = Append(PJ, Close)
    BY <1>4, <1>12 DEF group
  <2> QED
    BY <1>12, <2>1, <2>2, <2>3 DEF more
<1>14. Joined(bufs) = AJ \o last
  <2>1. Joined(bufs) = Marked(bufs, Open)
    BY <1>1, JoinedIsMarked DEF SomeTexts
  <2>2. Open \in Tokens
    BY <1>4
  <2>3. Marked(Append(left, last), Open) = Marked(left, Open) \o (<<Open>> \o last)
    BY <1>types, <2>2, MarkedAppend
  <2>5. J \in Seq(Tokens)
    BY <1>12
  <2> HIDE DEF J
  <2>4. J \o (<<Open>> \o last) = AJ \o last
    BY <1>types, <2>2, <2>5
  <2> QED
    BY <1>3, <1>12, <2>1, <2>3, <2>4
<1>15. Expand(AJ \o last, values) = Append(X, Open) \o inside
  <2>1. Known(AJ, values) /\ Expand(AJ, values) = Append(X, Open)
    <3> HIDE DEF J
    <3> QED
      BY <1>4, <1>12, ExpandKept
  <2>2. Known(Joined(bufs), values)
    BY <1>1, JoinedTypes DEF l
  <2>3. AJ \in Seq(Tokens)
    <3> HIDE DEF J
    <3> QED
      BY <1>4, <1>12
  <2> HIDE DEF J, AJ, X
  <2>4. Known(AJ \o last, values)
    BY <1>14, <2>2
  <2>5. Expand(AJ \o last, values) = Expand(AJ, values) \o Expand(last, values)
    BY <1>types, <2>3, <2>4, ExpandConcat
  <2> QED
    BY <2>1, <2>5 DEF inside
<1>16. Expand(Append(PJ, Close), new) = Append(Append(X, Open) \o inside, Close)
  <2>1. Known(Joined(more), new) /\ Joined(more) \in Seq(Tokens)
    BY <1>1, <1>8, <1>9, <1>11, JoinedTypes
  <2>2. Expand(J, new) = X
    <3>1. {n} \cap (1..n - 1) = {} /\ n - 1 \in Int
      BY <1>1
    <3> HIDE DEF J
    <3> QED
      BY <1>12, <3>1, ExpandUpdated DEF new
  <2> HIDE DEF J, X
  <2>3. AJ \in Seq(Tokens) /\ PJ \in Seq(Tokens)
    BY <1>4, <1>12
  <2>4. Known(PJ, new)
    <3> HIDE DEF PJ
    <3>1. Known(Append(PJ, Close), new)
      BY <1>13, <2>1
    <3> QED
      BY <1>4, <2>3, <3>1, ExpandAppend
  <2>5. Known(AJ, new) /\ Expand(PJ, new) = Expand(AJ, new) \o Meant(Placeholder(n), new)
    <3> HIDE DEF AJ
    <3> QED
      BY <1>4, <2>3, <2>4, ExpandAppend
  <2>6. Meant(Placeholder(n), new) = inside
    BY <1>4, <1>8 DEF Meant
  <2>7. Known(J, new)
    BY <1>4, <1>12, <2>5, ExpandAppend
  <2>8. Expand(AJ, new) = Append(X, Open)
    BY <1>4, <1>12, <2>2, <2>7, ExpandKept
  <2>9. Expand(Append(PJ, Close), new) = Append(Expand(PJ, new), Close)
    <3> HIDE DEF PJ
    <3> QED
      BY <1>4, <2>3, <2>4, ExpandKept
  <2> QED
    BY <2>5, <2>6, <2>8, <2>9
<1>17. Expand(Joined(more), new) = SubSeq(text, 1, p + 1)
  BY <1>1, <1>2, <1>13, <1>14, <1>15, <1>16
<1> HIDE DEF J, AJ, PJ, X
<1>18. Len(more) = 1 + Depth(text, p + 1) /\ Len(more) - 1 <= n
  <2>1. Len(more) = r /\ Depth(text, p + 1) = Depth(text, p) - 1
    BY <1>2, <1>9
  <2> QED
    BY <1>lengths, <2>1
<1>19. /\ bufs[1] \in Seq(Tokens) /\ Skeleton(text)[p] \in Seq(Tokens)
       /\ bufs[1] \in Seq(UpTo(n - 1, values))
       /\ r = 1 => /\ more[1] = bufs[1] \o group
                   /\ Skeleton(text)[p + 1] = Skeleton(text)[p] \o <<Open, Placeholder(0), Close>>
       /\ r # 1 => /\ more[1] = bufs[1]
                   /\ Skeleton(text)[p + 1] = Skeleton(text)[p]
  <2>1. 1 \in 1..r /\ left[1] = bufs[1]
    BY <1>3
  <2>2. bufs[1] \in Seq(UpTo(n - 1, values))
    BY <1>6, <2>1
  <2>3. bufs[1] \in Seq(Tokens)
    <3>1. n - 1 \in Int
      BY <1>1
    <3> QED
      BY <1>1, <2>2, <3>1, UpToKnown
  <2>4. text \in Seq(Tokens)
    BY DEF IsStatement
  <2>5. /\ Skeleton(text)[p] \in Seq(Tokens)
        /\ Skeleton(text)[p + 1] = IF Depth(text, p + 1) # 0 THEN Skeleton(text)[p]
                                   ELSE Skeleton(text)[p] \o <<Open, Placeholder(0), Close>>
    BY <1>2, <2>4, SkeletonStep
  <2>6. (r = 1) <=> Depth(text, p + 1) = 0
    <3>1. Depth(text, p + 1) = Depth(text, p) - 1
      BY <1>2
    <3> QED
      BY <1>lengths, <3>1
  <2> QED
    BY <1>9, <2>1, <2>2, <2>3, <2>5, <2>6
<1>20. Alike(more[1], Skeleton(text)[p + 1])
  <2>1. CASE r = 1
    <3>1. Alike(group, <<Open, Placeholder(0), Close>>)
      <4>1. LikeToken(Open, Open) /\ LikeToken(Close, Close) /\ LikeToken(Placeholder(n), Placeholder(0))
        BY <1>1, TokenTypes DEF LikeToken, Hole
      <4>2. \A k \in 1..3 : k = 1 \/ k = 2 \/ k = 3
        OBVIOUS
      <4>3. \A k \in 1..3 : LikeToken(group[k], <<Open, Placeholder(0), Close>>[k])
        BY <4>1, <4>2 DEF group
      <4>4. Len(group) = 3 /\ Len(<<Open, Placeholder(0), Close>>) = 3
        BY DEF group
      <4> DEFINE other == <<Open, Placeholder(0), Close>>
      <4> HIDE DEF other
      <4>5. Alike(group, other)
        BY <4>3, <4>4 DEF Alike, other
      <4> QED
        BY <4>5 DEF other
    <3> DEFINE other == <<Open, Placeholder(0), Close>>
    <3> HIDE DEF other
    <3>2. other \in Seq(Tokens) /\ Alike(group, other)
      BY <3>1, GroupType DEF other
    <3>3. Alike(bufs[1] \o group, Skeleton(text)[p] \o other)
      BY <1>1, <1>4, <1>19, <3>2, AlikeConcat
    <3> QED
      BY <1>19, <2>1, <3>3 DEF other
  <2>2. CASE r # 1
    BY <1>1, <1>19, <2>2
  <2> QED
    BY <2>1, <2>2
<1>21. p + 1 >= Len(head) => Prefixed(text, head, more[1], new)
  <2>1. Len(head) \in Nat
    BY DEF IsStatement
  <2>2. CASE p + 1 = Len(head)
    BY <1>9, <1>17, <1>18, <1>20, <2>2, PrefixStarts
  <2>3. CASE p >= Len(head)
    <3>1. Prefixed(text, head, bufs[1], values)
      BY <1>1, <2>3
    <3>2. {n} \cap (1..n - 1) = {} /\ n - 1 \in Int
      BY <1>1
    <3>3. \A extra \in Seq(Tokens) :
            Prefixed(text, head, bufs[1] \o extra, Updated(values, {n}, inside))
      BY <1>1, <1>19, <3>1, <3>2, PrefixGrows
    <3>4. <<>> \in Seq(Tokens) /\ bufs[1] \o <<>> = bufs[1]
      BY <1>19, ConcatEmptySeq
    <3>5. Prefixed(text, head, bufs[1] \o group, new) /\ Prefixed(text, head, bufs[1], new)
      BY <1>4, <3>3, <3>4 DEF new
    <3> QED
      BY <1>19, <3>5
  <2> QED
    BY <1>2, <2>1, <2>2, <2>3
<1>22. Scanned(text, head, more, new, n, p + 1)
  BY <1>1, <1>2, <1>8, <1>9, <1>11, <1>17, <1>18, <1>20, <1>21 DEF Scanned
<1> QED
  BY <1>5, <1>22 DEF new, inside, last

\* The invariant of the loop of _break over the characters, for the variables.
ScanInv == Scanned(sql, Separated(selected), buffers, parens, i, pos)

\* What Django gives is a SELECT list with its FROM.
LEMMA GivenStatement ==
  ASSUME Given
  PROVE  IsStatement(sql, Separated(selected))
<1> DEFINE h == Separated(selected)
<1>1. /\ sql \in Seq(SourceTokens) /\ sql \in Seq(Tokens) /\ sql = h \o from
      /\ h \in Seq(Tokens) /\ from \in Seq(Tokens)
  BY GivenTypes
<1>2. Balanced(sql) /\ Balanced(h)
  BY WholeStatement
<1> HIDE DEF h
<1>3. Len(h) \in 0..Len(h \o from) /\ SubSeq(h \o from, 1, Len(h)) = h
  BY <1>1
<1>4. Depth(h \o from, Len(h)) = 0
  <2>1. Len(h) \in 0..Len(h)
    BY <1>1
  <2>2. Depth(h \o from, Len(h)) = Depth(h, Len(h))
    BY <1>1, <2>1, DepthConcat
  <2>3. Depth(h, Len(h)) = 0
    BY <1>1, <1>2, BalancedDepth
  <2> QED
    BY <2>2, <2>3
<1> QED
  BY <1>1, <1>2, <1>3, <1>4 DEF IsStatement, h

\* The loop begins with its invariant.
LEMMA ScanInit ==
  ASSUME RewritingInit
  PROVE  Given /\ ScanInv
<1>1. /\ Given /\ pos = 0 /\ buffers = << <<>> >> /\ parens = <<>> /\ i = 0
  BY DEF RewritingInit, Given
<1> DEFINE text == sql
           head == Separated(selected)
           bufs == << <<>> >>
           none == <<>>
<1>2. IsStatement(text, head)
  BY <1>1, GivenStatement
<1> HIDE DEF text, head
<1>3. /\ text \in Seq(Tokens) /\ 0 \in 0..Len(text) /\ Len(head) \in Nat
      /\ SubSeq(text, 1, 0) = <<>>
  BY <1>2 DEF IsStatement
<1>4. Depth(text, 0) = 0 /\ Skeleton(text)[0] = <<>>
  <2>1. IsSkeleton(Skeleton(text), text)
    BY <1>3, SkeletonExists
  <2> QED
    BY <2>1, DepthStep DEF IsSkeleton
<1>5. bufs \in SomeTexts /\ Len(bufs) = 1 /\ bufs[1] = <<>>
  <2>1. bufs \in Seq(Seq(Tokens)) /\ bufs # <<>>
    OBVIOUS
  <2> QED
    BY <2>1 DEF SomeTexts
<1>6. AreTexts(none)
  BY DEF AreTexts
<1>7. Joined(bufs) = <<>>
  <2>1. <<>> \in Seq(Tokens)
    OBVIOUS
  <2>2. Joined(bufs) = Marked(bufs, Open)
    BY <1>5, JoinedIsMarked DEF SomeTexts
  <2> QED
    BY <2>1, <2>2, MarkedOne
<1>8. Expand(Joined(bufs), none) = SubSeq(text, 1, 0)
  BY <1>3, <1>7, ExpandEmpty
<1>9. Alike(bufs[1], Skeleton(text)[0])
  BY <1>4, <1>5 DEF Alike
<1>10. \A k \in 1..Len(bufs) : bufs[k] \in Seq(UpTo(IF k = Len(bufs) THEN 0 ELSE 0 - 1, none))
  <2>1. \A k \in 1..Len(bufs) : bufs[k] = <<>>
    <3>1. \A k \in 1..1 : k = 1
      OBVIOUS
    <3> QED
      BY <1>5, <3>1
  <2>2. \A S : <<>> \in Seq(S)
    OBVIOUS
  <2> QED
    BY <2>1, <2>2
<1> HIDE DEF bufs, none
<1>11. 0 >= Len(head) => Prefixed(text, head, bufs[1], none)
  <2> SUFFICES ASSUME Len(head) = 0
               PROVE  Prefixed(text, head, bufs[1], none)
    BY <1>3
  <2>1. Len(bufs) = 1 + Depth(text, Len(head))
    BY <1>4, <1>5
  <2>2. Expand(Joined(bufs), none) = SubSeq(text, 1, Len(head))
    BY <1>8
  <2>3. Alike(bufs[1], Skeleton(text)[Len(head)])
    BY <1>9
  <2> QED
    BY <1>2, <1>5, <2>1, <2>2, <2>3, PrefixStarts
<1>12. Scanned(text, head, bufs, none, 0, 0)
  BY <1>3, <1>4, <1>5, <1>6, <1>8, <1>9, <1>10, <1>11 DEF Scanned
<1> QED
  BY <1>1, <1>12 DEF ScanInv, text, head, bufs, none

\* Each round keeps it.
LEMMA ScanKeeps ==
  ASSUME Given, ScanInv, Scan
  PROVE  Given' /\ ScanInv'
<1>1. /\ pos < Len(sql) /\ pos' = pos + 1
      /\ selected' = selected /\ from' = from /\ ordering' = ordering
  BY DEF Scan
<1>2. Given' /\ sql' = sql /\ Separated(selected)' = Separated(selected)
  BY <1>1 DEF Given, sql, Separated
<1> DEFINE text == sql
           head == Separated(selected)
<1>3. IsStatement(text, head)
  BY GivenStatement
<1>4. Scanned(text, head, buffers, parens, i, pos)
  BY DEF ScanInv
<1>5. pos < Len(text)
  BY <1>1
<1>6. Scanned(text, head, buffers', parens', i', pos + 1)
  <2>1. CASE text[pos + 1] = Open /\ ScanOpen
    <3> HIDE DEF text, head
    <3>1. Scanned(text, head, Append(buffers, <<>>), parens, i + 1, pos + 1)
      BY <1>3, <1>4, <1>5, <2>1, ScannedOpen
    <3> QED
      BY <2>1, <3>1 DEF ScanOpen
  <2>2. CASE text[pos + 1] = Close /\ ScanClose
    <3> HIDE DEF text, head
    <3>1. Scanned(text, head, Closed(buffers, i),
                  Updated(parens, {i}, Expand(Last(buffers), parens)), i, pos + 1)
      BY <1>3, <1>4, <1>5, <2>2, ScannedClose
    <3> QED
      BY <2>2, <3>1 DEF ScanClose
  <2>3. CASE /\ text[pos + 1] \notin {Open, Close}
             /\ buffers' = Pushed(buffers, text[pos + 1])
             /\ UNCHANGED <<parens, i>>
    <3> HIDE DEF text, head
    <3>1. Scanned(text, head, Pushed(buffers, text[pos + 1]), parens, i, pos + 1)
      BY <1>3, <1>4, <1>5, <2>3, ScannedToken
    <3> QED
      BY <2>3, <3>1
  <2> QED
    BY <2>1, <2>2, <2>3 DEF Scan
<1> QED
  BY <1>1, <1>2, <1>6 DEF ScanInv

-----------------------------------------------------------------------------
(* What the loop leaves: columns and the rest.                             *)

\* What follows the same text in the same whole is the same.
LEMMA SameTail ==
  ASSUME NEW S, NEW a \in Seq(S), NEW b \in Seq(S), NEW c \in Seq(S), a \o b = a \o c
  PROVE  b = c
<1>1. /\ Len(a \o b) = Len(a) + Len(b) /\ Len(a \o c) = Len(a) + Len(c)
      /\ Len(a) \in Nat /\ Len(b) \in Nat /\ Len(c) \in Nat
      /\ \A k \in 1..Len(b) : (a \o b)[Len(a) + k] = b[k]
      /\ \A k \in 1..Len(c) : (a \o c)[Len(a) + k] = c[k]
  OBVIOUS
<1>2. Len(b) = Len(c)
  BY <1>1
<1>3. \A k \in 1..Len(b) : b[k] = c[k]
  BY <1>1, <1>2
<1> QED
  BY <1>2, <1>3, SequenceIsFunction

\* The only buffer consists of the columns and what follows.
LEMMA ScanEnds ==
  ASSUME Given, ScanInv, pos = Len(sql)
  PROVE  /\ i \in Nat /\ AreTexts(parens) /\ Head(buffers) \in Seq(Tokens)
         /\ \E a, b \in Seq(UpTo(i, parens)) :
              /\ Head(buffers) = a \o b
              /\ Alike(a, Separated(Wholes)) /\ Alike(b, Whole(from))
              /\ Expand(b, parens) = from
<1> DEFINE text == sql
           head == Separated(selected)
           U == UpTo(i, parens)
           t == buffers[1]
           ws == Separated(Wholes)
           wf == Whole(from)
<1>1. Scanned(text, head, buffers, parens, i, pos) /\ pos = Len(text)
  BY DEF ScanInv
<1>2. /\ ws \in Seq(Tokens) /\ wf \in Seq(Tokens)
      /\ Whole(text) = ws \o wf /\ Skeleton(text)[Len(head)] = ws
      /\ Balanced(text) /\ text \in Seq(Tokens)
      /\ head \in Seq(Tokens) /\ from \in Seq(Tokens) /\ text = head \o from
  BY WholeStatement, GivenTypes
<1> HIDE DEF text, head, ws, wf
<1>3. /\ i \in Nat /\ buffers \in SomeTexts /\ AreTexts(parens)
      /\ Len(buffers) = 1 + Depth(text, pos)
      /\ \A k \in 1..Len(buffers) :
           buffers[k] \in Seq(UpTo(IF k = Len(buffers) THEN i ELSE i - 1, parens))
      /\ Expand(Joined(buffers), parens) = SubSeq(text, 1, pos)
      /\ Alike(t, Whole(text))
      /\ pos >= Len(head) => Prefixed(text, head, t, parens)
  BY <1>1 DEF Scanned, Whole
<1>4. Depth(text, pos) = 0 /\ Len(head) \in Nat /\ pos >= Len(head) /\ SubSeq(text, 1, pos) = text
  <2>1. Depth(text, Len(text)) = 0
    BY <1>2, BalancedDepth
  <2>2. Len(head) \in Nat /\ Len(head \o from) >= Len(head)
    BY <1>2
  <2>3. SubSeq(text, 1, Len(text)) = text
    BY <1>2
  <2> QED
    BY <1>1, <1>2, <2>1, <2>2, <2>3
<1>5. Len(buffers) = 1
  BY <1>3, <1>4
<1>6. t \in Seq(U) /\ Joined(buffers) = t
  <2>1. t \in Seq(U)
    <3>1. 1 \in 1..Len(buffers)
      BY <1>5
    <3> QED
      BY <1>3, <1>5, <3>1
  <2>2. t \in Seq(Tokens)
    BY <1>3, <2>1, UpToKnown
  <2>3. buffers = <<t>>
    <3> DEFINE one == <<t>>
    <3>1. one \in Seq(Seq(Tokens)) /\ Len(one) = 1 /\ one[1] = t
      BY <2>2
    <3>2. \A k \in 1..1 : k = 1
      OBVIOUS
    <3> HIDE DEF one
    <3>3. \A k \in 1..Len(buffers) : buffers[k] = one[k]
      BY <1>5, <3>1, <3>2
    <3>4. buffers \in Seq(Seq(Tokens))
      BY <1>3 DEF SomeTexts
    <3>5. buffers = one
      BY <1>5, <3>1, <3>3, <3>4, SameTexts
    <3> QED
      BY <3>5 DEF one
  <2>4. Joined(buffers) = Marked(buffers, Open)
    BY <1>3, JoinedIsMarked DEF SomeTexts
  <2>5. Marked(<<t>>, Open) = t
    <3> HIDE DEF t
    <3> QED
      BY <2>2, MarkedOne
  <2> QED
    BY <2>1, <2>3, <2>4, <2>5
<1>7. t \in Seq(Tokens) /\ Known(t, parens) /\ Expand(t, parens) = text
  <2> HIDE DEF t
  <2>1. t \in Seq(Tokens) /\ Known(t, parens)
    BY <1>3, <1>6, UpToKnown
  <2> QED
    BY <1>3, <1>4, <1>6, <2>1
<1>8. PICK a \in Seq(Tokens), b \in Seq(Tokens) :
        t = a \o b /\ Len(a) = Len(ws) /\ Expand(a, parens) = head
  <2>1. Prefixed(text, head, t, parens)
    BY <1>3, <1>4
  <2> QED
    BY <1>2, <2>1 DEF Prefixed
<1> HIDE DEF t
<1>9. a \in Seq(U) /\ b \in Seq(U)
  <2>1. /\ Len(a \o b) = Len(a) + Len(b) /\ Len(a) \in Nat /\ Len(b) \in Nat
        /\ \A k \in 1..Len(a) : (a \o b)[k] = a[k]
        /\ \A k \in 1..Len(b) : (a \o b)[Len(a) + k] = b[k]
    OBVIOUS
  <2> DEFINE ab == a \o b
  <2> HIDE DEF ab, U
  <2>2. ab \in Seq(U)
    BY <1>6, <1>8 DEF ab
  <2>3. \A k \in 1..Len(ab) : ab[k] \in U
    BY <2>2
  <2>4. \A k \in 1..Len(a) : a[k] \in U
    <3>1. \A k \in 1..Len(a) : k \in 1..Len(ab) /\ ab[k] = a[k]
      BY <2>1 DEF ab
    <3> QED
      BY <2>3, <3>1
  <2>5. \A k \in 1..Len(b) : b[k] \in U
    <3>1. \A k \in 1..Len(b) : Len(a) + k \in 1..Len(ab) /\ ab[Len(a) + k] = b[k]
      BY <2>1 DEF ab
    <3> QED
      BY <2>3, <3>1
  <2> QED
    BY <2>4, <2>5, SequenceOf
<1>10. Alike(a, ws) /\ Alike(b, wf)
  <2>1. Alike(t, ws \o wf)
    BY <1>2, <1>3
  <2>2. Alike(SubSeq(t, 1, Len(ws)), ws) /\ Alike(SubSeq(t, Len(ws) + 1, Len(t)), wf)
    BY <1>2, <1>7, <2>1, AlikeParts
  <2>3. SubSeq(a \o b, 1, Len(a)) = a
    OBVIOUS
  <2>4. SubSeq(a \o b, Len(a) + 1, Len(a \o b)) = b
    OBVIOUS
  <2> QED
    BY <1>8, <2>2, <2>3, <2>4
<1>11. Expand(b, parens) = from
  <2>1. Known(a \o b, parens)
    BY <1>7, <1>8
  <2>2. /\ Expand(a \o b, parens) = Expand(a, parens) \o Expand(b, parens)
        /\ Known(b, parens)
    BY <2>1, ExpandConcat
  <2>3. Expand(b, parens) \in Seq(Tokens)
    BY <2>2, ExpandType
  <2> DEFINE e == Expand(b, parens)
  <2> HIDE DEF e
  <2>4. head \o e = head \o from
    BY <1>2, <1>7, <1>8, <2>2 DEF e
  <2>5. e = from
    BY <1>2, <2>3, <2>4, SameTail DEF e
  <2> QED
    BY <2>5 DEF e
<1>12. Head(buffers) = t
  BY <1>3 DEF SomeTexts, t
<1> QED
  BY <1>3, <1>7, <1>8, <1>9, <1>10, <1>11, <1>12 DEF ws, wf

\* The keys of parameters are new ones.
LEMMA ParamKeys ==
  ASSUME NEW text \in Seq(Tokens), NEW n \in Nat, NEW k \in Places(text, Param)
  PROVE  ParamKey(text, k, n) \in Nat /\ ParamKey(text, k, n) > n
<1> DEFINE P == {m \in Places(text, Param) : m <= k}
<1>1. Places(text, Param) \subseteq 1..Len(text) /\ IsFiniteSet(1..Len(text))
  BY FS_Interval DEF Places
<1>2. IsFiniteSet(P)
  BY <1>1, FS_Subset
<1>3. k \in P
  BY <1>1
<1>4. Cardinality(P) \in Nat /\ Cardinality(P) # 0
  BY <1>2, <1>3, FS_CardinalityType, FS_EmptySet
<1> HIDE DEF P
<1>5. n + Cardinality(P) \in Nat /\ n + Cardinality(P) > n
  BY <1>4
<1> QED
  BY <1>5 DEF ParamKey, P

\* Where the text is broken.
LEMMA BreakAt ==
  ASSUME NEW text \in Seq(Tokens), NEW n \in Nat, n < Len(text), text[n + 1] = From,
         \A k \in 1..n : text[k] # From
  PROVE  Break(text) = <<SubSeq(text, 1, n), SubSeq(text, n + 1, Len(text))>>
<1> DEFINE P == Places(text, From)
           at == CHOOSE k \in P : \A m \in P : k <= m
<1>1. P \subseteq Nat /\ n + 1 \in P
  BY DEF Places
<1>2. \A m \in P : n + 1 <= m
  <2> SUFFICES ASSUME NEW m \in P
               PROVE  n + 1 <= m
    OBVIOUS
  <2>1. m \in 1..Len(text) /\ text[m] = From
    BY DEF Places
  <2>2. m \notin 1..n
    BY <2>1
  <2> QED
    BY <2>1, <2>2
<1>3. at \in P /\ \A m \in P : at <= m
  BY <1>1, <1>2
<1> HIDE DEF at
<1>4. at = n + 1
  BY <1>1, <1>2, <1>3
<1>5. (n + 1) - 1 = n
  OBVIOUS
<1> QED
  BY <1>4, <1>5 DEF Break, at

\* The keys of the placeholders for bare parameters.
ParamKeysIn(text, n) == {ParamKey(text, k, n) : k \in Places(text, Param)}

\* What becomes of the text from FROM on.
IsBroken(n, values, a, b, text, h, d, new) ==
  /\ n \in Nat /\ AreTexts(values) /\ text \in Seq(Tokens) /\ text = a \o b
  /\ a \in Seq(UpTo(n, values)) /\ b \in Seq(UpTo(n, values))
  /\ h = HideParams(text, n) /\ d = SubSeq(h, Len(a) + 1, Len(h))
  /\ new = Updated(values, ParamKeysIn(text, n), <<Param>>)

\* The rest of the statement is what follows the SELECT list, %% apart.
LEMMA RestIs ==
  ASSUME NEW n, NEW values, NEW a, NEW b, NEW text, NEW h, NEW d, NEW new,
         IsBroken(n, values, a, b, text, h, d, new)
  PROVE  /\ Expand(b, values) \in Seq(Tokens)
         /\ Percents \notin Range(Expand(b, values)) => RestOf(d, new) = Expand(b, values)
         /\ RestOf(d, new) \in Seq(Tokens)
         /\ \A x \in Range(RestOf(d, new)) : x.kind = "name" => x \in Range(Expand(b, values))
<1> USE DEF IsBroken
<1>types. /\ n \in Nat /\ AreTexts(values) /\ text \in Seq(Tokens) /\ text = a \o b
          /\ a \in Seq(UpTo(n, values)) /\ b \in Seq(UpTo(n, values))
  OBVIOUS
<1> DEFINE U == UpTo(n, values)
           keys == ParamKeysIn(text, n)
           d2 == [k \in DOMAIN d |-> IF d[k] = Percents THEN Percent ELSE d[k]]
<1>1. /\ a \in Seq(Tokens) /\ b \in Seq(Tokens) /\ Known(b, values)
      /\ \A k \in 1..Len(b) : b[k] \in U
      /\ Len(a) \in Nat /\ Len(b) \in Nat
  <2>1. a \in Seq(Tokens) /\ b \in Seq(Tokens) /\ Known(b, values)
    BY UpToKnown
  <2>2. \A k \in 1..Len(b) : b[k] \in U
    <3>1. b \in Seq(U)
      OBVIOUS
    <3> HIDE DEF U
    <3> QED
      BY <3>1
  <2> QED
    BY <2>1, <2>2
<1>2. /\ h \in Seq(Tokens) /\ Len(h) = Len(a) + Len(b)
      /\ \A k \in 1..Len(b) :
           /\ Len(a) + k \in 1..Len(text) /\ text[Len(a) + k] = b[k]
           /\ h[Len(a) + k] = IF b[k] = Param THEN Placeholder(ParamKey(text, Len(a) + k, n))
                              ELSE b[k]
  <2>1. h \in Seq(Tokens) /\ Len(h) = Len(text)
    BY AlikeHidden DEF Alike
  <2>2. /\ Len(text) = Len(a) + Len(b)
        /\ \A k \in 1..Len(b) : text[Len(a) + k] = b[k]
    BY <1>1
  <2>3. \A k \in 1..Len(b) : Len(a) + k \in 1..Len(text)
    BY <1>1, <2>2
  <2>4. \A k \in 1..Len(text) :
          h[k] = IF text[k] = Param THEN Placeholder(ParamKey(text, k, n)) ELSE text[k]
    BY DEF HideParams
  <2> QED
    BY <2>1, <2>2, <2>3, <2>4
<1>3. /\ d \in Seq(Tokens) /\ Len(d) = Len(b) /\ DOMAIN d = 1..Len(b)
      /\ \A k \in 1..Len(b) : d[k] = h[Len(a) + k]
  BY <1>1, <1>2
<1>4. \A key \in keys : key \in Nat /\ key > n
  BY ParamKeys DEF ParamKeysIn
<1> HIDE DEF U, keys
<1>5. /\ \A key \in keys : new[key] = <<Param>>
      /\ \A key \in DOMAIN values : key \in 1..n => new[key] = values[key]
  <2>1. \A key \in 1..n : key \notin keys
    BY <1>4
  <2>2. new = [key \in DOMAIN values \cup keys |-> IF key \in keys THEN <<Param>> ELSE values[key]]
    BY DEF Updated, keys
  <2> QED
    BY <2>1, <2>2
<1>6. /\ d2 \in Seq(Tokens) /\ Len(d2) = Len(b)
      /\ \A k \in 1..Len(b) : d2[k] = IF d[k] = Percents THEN Percent ELSE d[k]
  <2>1. Percent \in Tokens
    BY TokenKinds
  <2>2. \A k \in 1..Len(b) : d[k] \in Tokens
    BY <1>3
  <2>3. d2 = [k \in 1..Len(b) |-> IF d[k] = Percents THEN Percent ELSE d[k]]
    BY <1>3
  <2>4. \A k \in 1..Len(b) : d2[k] = IF d[k] = Percents THEN Percent ELSE d[k]
    BY <2>3
  <2>5. d2 = [k \in 1..Len(b) |-> d2[k]] /\ \A k \in 1..Len(b) : d2[k] \in Tokens
    BY <2>1, <2>2, <2>3
  <2> HIDE DEF d2
  <2>6. d2 \in Seq(Tokens) /\ Len(d2) = Len(b)
    BY <1>1, <2>5
  <2> QED
    BY <2>4, <2>6
<1> HIDE DEF d2
<1>7. ASSUME NEW k \in 1..Len(b)
      PROVE  /\ b[k] \in Tokens
             /\ Meant(b[k], values) \in Seq(Tokens)
             /\ b[k] # Percents => Meant(d2[k], new) = Meant(b[k], values)
             /\ b[k] = Percents => /\ Meant(d2[k], new) = <<Percent>>
                                   /\ Meant(b[k], values) = <<Percents>>
  <2>1. b[k] \in U /\ b[k] \in Tokens
    BY <1>1
  <2>2. Meant(b[k], values) \in Seq(Tokens)
    BY <1>1, <2>1 DEF Meant, Known
  <2>3. CASE b[k] = Param
    <3> DEFINE key == ParamKey(text, Len(a) + k, n)
    <3>1. key \in keys /\ key \in Nat
      <4>1. Len(a) + k \in Places(text, Param)
        BY <1>2, <2>3 DEF Places
      <4> QED
        BY <4>1, ParamKeys DEF keys, ParamKeysIn
    <3>2. d[k] = Placeholder(key)
      BY <1>2, <1>3, <2>3
    <3> HIDE DEF key
    <3>3. /\ Placeholder(key).kind = "placeholder" /\ Placeholder(key).key = key
          /\ Percents.kind = "percents" /\ Param.kind = "param"
      BY <3>1, TokenTypes, TokenKinds
    <3>4. d2[k] = Placeholder(key)
      BY <1>6, <3>2, <3>3
    <3>5. Meant(Placeholder(key), new) = <<Param>> /\ Meant(Param, values) = <<Param>>
      BY <1>5, <3>1, <3>3 DEF Meant
    <3>6. Param # Percents
      BY <3>3
    <3> QED
      BY <2>1, <2>2, <2>3, <3>4, <3>5, <3>6
  <2>4. CASE b[k] = Percents
    <3>1. Percents # Param /\ Percents.kind # "placeholder" /\ Percent.kind # "placeholder"
      BY TokenKinds
    <3>2. d2[k] = Percent
      BY <1>2, <1>3, <1>6, <2>4, <3>1
    <3> QED
      BY <2>1, <2>2, <2>4, <3>1, <3>2 DEF Meant
  <2>5. CASE b[k] \notin {Param, Percents}
    <3>1. d2[k] = b[k]
      BY <1>2, <1>3, <1>6, <2>5
    <3>2. b[k].kind = "placeholder" => new[b[k].key] = values[b[k].key]
      BY <1>5, <2>1 DEF U, UpTo
    <3> QED
      BY <2>1, <2>2, <2>5, <3>1, <3>2 DEF Meant
  <2> QED
    BY <2>3, <2>4, <2>5
<1>8. RestOf(d, new) = Expand(d2, new)
  BY DEF RestOf, d2
<1>9. Known(d2, new)
  <2> SUFFICES ASSUME NEW k \in DOMAIN d2, d2[k].kind = "placeholder"
               PROVE  new[d2[k].key] \in Seq(Tokens)
    BY DEF Known
  <2>1. k \in 1..Len(b)
    BY <1>6
  <2>2. Meant(d2[k], new) = new[d2[k].key]
    BY DEF Meant
  <2>3. b[k] # Percents
    <3>1. b[k] = Percents => d2[k] = Percent
      BY <1>2, <1>3, <1>6, <2>1, TokenKinds
    <3>2. Percent.kind # "placeholder"
      BY TokenKinds
    <3> QED
      BY <3>1, <3>2
  <2> QED
    BY <1>7, <2>1, <2>2, <2>3
<1>10. Expand(b, values) \in Seq(Tokens) /\ RestOf(d, new) \in Seq(Tokens)
  BY <1>1, <1>6, <1>8, <1>9, ExpandType
<1>11. /\ \A x : x \in Range(Expand(b, values)) <=> \E k \in DOMAIN b : x \in Range(Meant(b[k], values))
       /\ \A x : x \in Range(Expand(d2, new)) <=> \E k \in DOMAIN d2 : x \in Range(Meant(d2[k], new))
       /\ DOMAIN b = 1..Len(b) /\ DOMAIN d2 = 1..Len(b)
  <2>1. \A x : x \in Range(Expand(b, values)) <=> \E k \in DOMAIN b : x \in Range(Meant(b[k], values))
    BY <1>1, ExpandRange
  <2>2. \A x : x \in Range(Expand(d2, new)) <=> \E k \in DOMAIN d2 : x \in Range(Meant(d2[k], new))
    BY <1>6, <1>9, ExpandRange
  <2>3. DOMAIN b = 1..Len(b)
    BY <1>1
  <2>4. DOMAIN d2 = 1..Len(b)
    BY <1>6
  <2> QED
    BY <2>1, <2>2, <2>3, <2>4
<1>12. Percents \notin Range(Expand(b, values)) => RestOf(d, new) = Expand(b, values)
  <2> SUFFICES ASSUME Percents \notin Range(Expand(b, values))
               PROVE  RestOf(d, new) = Expand(b, values)
    OBVIOUS
  <2>1. \A k \in 1..Len(b) : b[k] # Percents
    <3> SUFFICES ASSUME NEW k \in 1..Len(b), b[k] = Percents
                 PROVE  FALSE
      OBVIOUS
    <3>1. Meant(b[k], values) = <<Percents>>
      BY <1>7
    <3>2. Percents \in Range(<<Percents>>)
      BY DEF Range
    <3> QED
      BY <1>11, <3>1, <3>2
  <2>2. \A k \in 1..Len(b) : Meant(d2[k], new) = Meant(b[k], values)
    BY <1>7, <2>1
  <2>3. Expand(d2, new) = Expand(b, values)
    <3>1. [k \in 1..Len(d2) |-> Meant(d2[k], new)] = [k \in 1..Len(b) |-> Meant(b[k], values)]
      BY <1>6, <2>2
    <3> QED
      BY <3>1 DEF Expand, Meant
  <2> QED
    BY <1>8, <2>3
<1>13. ASSUME NEW x \in Range(RestOf(d, new)), x.kind = "name"
       PROVE  x \in Range(Expand(b, values))
  <2>1. PICK k \in 1..Len(b) : x \in Range(Meant(d2[k], new))
    BY <1>8, <1>11
  <2>2. b[k] # Percents
    <3> SUFFICES ASSUME b[k] = Percents
                 PROVE  FALSE
      OBVIOUS
    <3>1. x \in Range(<<Percent>>)
      BY <1>7, <2>1
    <3>2. Range(<<Percent>>) = {Percent}
      BY DEF Range
    <3> QED
      BY <1>13, <3>1, <3>2, TokenKinds
  <2>3. x \in Range(Meant(b[k], values))
    BY <1>7, <2>1, <2>2
  <2> QED
    BY <1>11, <2>3
<1> QED
  BY <1>10, <1>12, <1>13

-----------------------------------------------------------------------------
(* Names.                                                                  *)

\* What can have been appended to a name.
AliasLists == Seq([what: {"seen", "order"}, n: Nat])

\* A name is its base, its case and what was appended to it.
LEMMA NameIs ==
  ASSUME NEW x \in Names
  PROVE  x = [base |-> x.base, upper |-> x.upper, suffix |-> x.suffix] /\ x.suffix \in AliasLists
BY DEF Names, AliasLists

\* An alias is the name with something appended.
LEMMA AliasedIs ==
  ASSUME NEW x \in Names, NEW what \in {"seen", "order"}, NEW n \in Nat
  PROVE  /\ Aliased(x, what, n) \in Names
         /\ Aliased(x, what, n).base = x.base
         /\ Aliased(x, what, n).suffix = Append(x.suffix, Alias(what, n))
         /\ Alias(what, n) \in [what: {"seen", "order"}, n: Nat]
<1> DEFINE a == Alias(what, n)
           s == Append(x.suffix, a)
<1>1. a \in [what: {"seen", "order"}, n: Nat]
  BY DEF Alias
<1>2. x.suffix \in AliasLists
  BY NameIs
<1>3. s \in AliasLists
  BY <1>1, <1>2 DEF AliasLists
<1> HIDE DEF s, a
<1>4. [x EXCEPT !.suffix = s] \in Names /\ [x EXCEPT !.suffix = s].base = x.base
        /\ [x EXCEPT !.suffix = s].suffix = s
  BY <1>3 DEF Names, AliasLists
<1> QED
  BY <1>1, <1>4 DEF Aliased, s, a

\* Folding a name changes its case only.
LEMMA FoldedIs ==
  ASSUME NEW x \in Names
  PROVE  /\ Folded(x) \in Names /\ Folded(x).upper = FALSE
         /\ Folded(x).base = x.base /\ Folded(x).suffix = x.suffix
BY DEF Folded, Names

\* Names are the same to the server if they differ in case only.
LEMMA SameIs ==
  ASSUME NEW x \in Names, NEW y \in Names
  PROVE  Same(x, y) <=> x.base = y.base /\ x.suffix = y.suffix
<1> DEFINE f == Folded(x)
           g == Folded(y)
<1>1. /\ f \in Names /\ f.upper = FALSE /\ f.base = x.base /\ f.suffix = x.suffix
      /\ g \in Names /\ g.upper = FALSE /\ g.base = y.base /\ g.suffix = y.suffix
  BY FoldedIs
<1> HIDE DEF f, g
<1>2. /\ f = [base |-> f.base, upper |-> f.upper, suffix |-> f.suffix]
      /\ g = [base |-> g.base, upper |-> g.upper, suffix |-> g.suffix]
  BY <1>1, NameIs
<1>3. f = g <=> x.base = y.base /\ x.suffix = y.suffix
  BY <1>1, <1>2
<1> QED
  BY <1>3 DEF Same, f, g

\* The earlier names that are the same.
Earlier(names, k) == {m \in 1..k - 1 : Folded(names[m]) = Folded(names[k])}

\* The earlier columns of a name are finitely many.
LEMMA EarlierFinite ==
  ASSUME NEW names, NEW k \in Nat
  PROVE  IsFiniteSet(Earlier(names, k)) /\ Cardinality(Earlier(names, k)) \in Nat
<1>1. Earlier(names, k) \subseteq 1..k - 1
  BY DEF Earlier
<1>2. IsFiniteSet(1..k - 1)
  <2>1. 1 \in Int /\ k - 1 \in Int
    OBVIOUS
  <2> QED
    BY <2>1, FS_Interval
<1> QED
  BY <1>1, <1>2, FS_Subset, FS_CardinalityType

\* The alias of a column is its name, or its name with their number.
LEMMA AliasOfIs ==
  ASSUME NEW names, NEW k \in Nat, names[k] \in Names
  PROVE  /\ AliasOf(names, k) \in Names
         /\ AliasOf(names, k).base = names[k].base
         /\ AliasOf(names, k).suffix =
              IF Earlier(names, k) = {} THEN names[k].suffix
              ELSE Append(names[k].suffix, Alias("seen", Cardinality(Earlier(names, k))))
         /\ Earlier(names, k) = {} => AliasOf(names, k) = names[k]
<1> DEFINE e == Earlier(names, k)
           c == Cardinality(e)
<1>1. AliasOf(names, k) = IF e = {} THEN names[k] ELSE Aliased(names[k], "seen", c)
  BY DEF AliasOf, Earlier
<1>2. c \in Nat
  BY EarlierFinite
<1> HIDE DEF c, e
<1>3. "seen" \in {"seen", "order"}
  OBVIOUS
<1>4. /\ Aliased(names[k], "seen", c) \in Names
      /\ Aliased(names[k], "seen", c).base = names[k].base
      /\ Aliased(names[k], "seen", c).suffix = Append(names[k].suffix, Alias("seen", c))
  BY <1>2, <1>3, AliasedIs
<1> QED
  BY <1>1, <1>4 DEF e, c

\* The k-th and an earlier name that does not look like an alias get different ones.
LEMMA AliasesDifferInOrder ==
  ASSUME NEW names, NEW m \in Nat \ {0}, NEW k \in Nat, m < k,
         names[m] \in Names, names[k] \in Names,
         names[m].suffix = <<>>, names[k].suffix = <<>>
  PROVE  ~ Same(AliasOf(names, m), AliasOf(names, k))
<1> SUFFICES ASSUME Same(AliasOf(names, m), AliasOf(names, k))
             PROVE  FALSE
  OBVIOUS
<1> DEFINE em == Earlier(names, m)
           ek == Earlier(names, k)
           cm == Cardinality(em)
           ck == Cardinality(ek)
<1>1. /\ AliasOf(names, m) \in Names /\ AliasOf(names, k) \in Names
      /\ AliasOf(names, m).base = names[m].base /\ AliasOf(names, k).base = names[k].base
      /\ AliasOf(names, m).suffix = IF em = {} THEN <<>> ELSE Append(<<>>, Alias("seen", cm))
      /\ AliasOf(names, k).suffix = IF ek = {} THEN <<>> ELSE Append(<<>>, Alias("seen", ck))
  BY AliasOfIs
<1>2. /\ names[m].base = names[k].base
      /\ (IF em = {} THEN <<>> ELSE Append(<<>>, Alias("seen", cm)))
           = (IF ek = {} THEN <<>> ELSE Append(<<>>, Alias("seen", ck)))
  BY <1>1, SameIs
<1>3. Same(names[m], names[k])
  BY <1>2, SameIs
<1>4. Folded(names[m]) = Folded(names[k])
  BY <1>3 DEF Same
<1>5. m \in ek /\ m \notin em
  <2>1. m \in 1..k - 1 /\ m \notin 1..m - 1
    OBVIOUS
  <2> QED
    BY <1>4, <2>1 DEF Earlier
<1>6. em \subseteq ek
  <2>1. 1..m - 1 \subseteq 1..k - 1
    OBVIOUS
  <2> QED
    BY <1>4, <2>1 DEF Earlier
<1>7. IsFiniteSet(em) /\ IsFiniteSet(ek) /\ cm \in Nat /\ ck \in Nat
  BY EarlierFinite
<1>8. cm + 1 <= ck
  <2>1. Cardinality(em \cup {m}) = cm + 1
    BY <1>5, <1>7, FS_AddElement
  <2>2. em \cup {m} \subseteq ek
    BY <1>5, <1>6
  <2>3. Cardinality(em \cup {m}) <= Cardinality(ek)
    BY <1>7, <2>2, FS_Subset
  <2> QED
    BY <2>1, <2>3
<1> HIDE DEF em, ek, cm, ck
<1>9. \A c : Append(<<>>, Alias("seen", c)) = <<Alias("seen", c)>>
  OBVIOUS
<1>10. em # {}
  <2>1. <<>> # <<Alias("seen", ck)>>
    OBVIOUS
  <2> QED
    BY <1>2, <1>5, <1>9, <2>1
<1>11. <<Alias("seen", cm)>> = <<Alias("seen", ck)>>
  BY <1>2, <1>5, <1>9, <1>10
<1>12. Alias("seen", cm) = Alias("seen", ck)
  BY <1>11
<1>13. cm = ck
  BY <1>12 DEF Alias
<1> QED
  BY <1>7, <1>8, <1>13

\* The aliases of two columns whose names have no suffix differ.
LEMMA AliasesDiffer ==
  ASSUME NEW names, NEW m \in Nat \ {0}, NEW k \in Nat \ {0}, m # k,
         names[m] \in Names, names[k] \in Names,
         names[m].suffix = <<>>, names[k].suffix = <<>>
  PROVE  ~ Same(AliasOf(names, m), AliasOf(names, k))
<1>1. CASE m < k
  BY <1>1, AliasesDifferInOrder
<1>2. CASE k < m
  <2>1. ~ Same(AliasOf(names, k), AliasOf(names, m))
    BY <1>2, AliasesDifferInOrder
  <2> QED
    BY <2>1 DEF Same
<1> QED
  BY <1>1, <1>2

-----------------------------------------------------------------------------
(* The columns and the rest.                                               *)

\* No column has a comma or a FROM outside parentheses.
LEMMA WholesAre ==
  ASSUME Given
  PROVE  /\ Wholes \in Seq(Seq(Tokens \ {Comma}))
         /\ \A k \in 1..Len(Separated(Wholes)) : Separated(Wholes)[k] # From
         /\ \A k \in 1..Len(selected) : Wholes[k] # <<>> /\ Last(Wholes[k]) = Last(selected[k])
<1>1. ASSUME NEW k \in 1..Len(selected)
      PROVE  /\ Wholes[k] \in Seq(Tokens) /\ Wholes[k] # <<>>
             /\ Last(Wholes[k]) = Last(selected[k])
             /\ \A j \in 1..Len(Wholes[k]) : Wholes[k][j] \notin {Comma, From}
  <2>1. selected[k] \in Seq(SourceTokens) /\ IsColumn(selected[k])
    BY GivenTypes
  <2>2. Wholes[k] = Whole(selected[k])
    BY DEF Wholes
  <2> QED
    BY <2>1, <2>2, WholeColumn
<1> DEFINE C == Tokens \ {Comma}
           F == Tokens \ {From}
<1>2. ASSUME NEW k \in 1..Len(selected)
      PROVE  Wholes[k] \in Seq(C) /\ Wholes[k] \in Seq(F)
  <2> DEFINE w == Wholes[k]
  <2>1. w \in Seq(Tokens) /\ \A j \in 1..Len(w) : w[j] \notin {Comma, From}
    BY <1>1
  <2> HIDE DEF w
  <2>2. \A j \in 1..Len(w) : w[j] \in C /\ w[j] \in F
    BY <2>1
  <2> HIDE DEF C, F
  <2>3. w \in Seq(C) /\ w \in Seq(F)
    BY <2>1, <2>2, SequenceOf
  <2> QED
    BY <2>3 DEF w
<1>3. Wholes \in Seq(Seq(Tokens)) /\ Len(Wholes) = Len(selected)
  BY WholeStatement
<1>4. Wholes \in Seq(Seq(C)) /\ Wholes \in Seq(Seq(F))
  <2> DEFINE A == Seq(C)
             B == Seq(F)
             Z == Seq(Tokens)
  <2>1. \A k \in 1..Len(Wholes) : Wholes[k] \in A /\ Wholes[k] \in B
    BY <1>2, <1>3
  <2>2. Wholes \in Seq(Z)
    BY <1>3
  <2> HIDE DEF A, B, Z
  <2>3. Wholes \in Seq(A) /\ Wholes \in Seq(B)
    BY <2>1, <2>2, SequenceOf
  <2> QED
    BY <2>3 DEF A, B
<1>5. Comma \in F
  BY TokenKinds
<1>6. Separated(Wholes) \in Seq(F)
  <2> HIDE DEF F
  <2> QED
    BY <1>4, <1>5, MarkedType, SeparatedIsMarked
<1> DEFINE s == Separated(Wholes)
<1> HIDE DEF s
<1>7. \A k \in 1..Len(s) : s[k] \in F
  <2> HIDE DEF F
  <2> QED
    BY <1>6 DEF s
<1> QED
  BY <1>1, <1>4, <1>7 DEF s

\* Where the text that the loop leaves is broken.
LEMMA BrokenAt ==
  ASSUME Given, NEW a \in Seq(Tokens), NEW b \in Seq(Tokens),
         Alike(a, Separated(Wholes)), Alike(b, Whole(from)), NEW n \in Nat,
         NEW h, h = HideParams(a \o b, n)
  PROVE  /\ Break(h) = <<SubSeq(h, 1, Len(a)), SubSeq(h, Len(a) + 1, Len(h))>>
         /\ SubSeq(h, 1, Len(a)) \in Seq(Tokens)
         /\ Alike(SubSeq(h, 1, Len(a)), Separated(Wholes))
<1> DEFINE ws == Separated(Wholes)
           wf == Whole(from)
           l == Len(a)
<1>1. /\ ws \in Seq(Tokens) /\ wf \in Seq(Tokens) /\ wf # <<>> /\ wf[1] = From
      /\ \A k \in 1..Len(ws) : ws[k] # From
  BY WholeStatement, WholesAre
<1> HIDE DEF ws, wf
<1>2. a \o b \in Seq(Tokens) /\ Len(a) = Len(ws) /\ l \in Nat
  BY DEF Alike, ws
<1>3. h \in Seq(Tokens) /\ Alike(h, a \o b)
  BY <1>2, AlikeHidden
<1>4. Alike(h, ws \o wf)
  <2>1. Alike(a \o b, ws \o wf)
    BY <1>1, AlikeConcat DEF ws, wf
  <2> QED
    BY <1>3, <2>1, AlikeTransitive
<1>5. Alike(SubSeq(h, 1, l), ws)
  BY <1>1, <1>2, <1>3, <1>4, AlikeParts
<1>6. /\ Len(ws \o wf) = l + Len(wf) /\ Len(wf) \in Nat \ {0}
      /\ \A k \in 1..l : (ws \o wf)[k] = ws[k]
      /\ (ws \o wf)[l + 1] = wf[1]
  <2>1. Len(wf) \in Nat \ {0}
    BY <1>1
  <2>2. /\ Len(ws \o wf) = Len(ws) + Len(wf)
        /\ \A k \in 1..Len(ws) : (ws \o wf)[k] = ws[k]
        /\ (ws \o wf)[Len(ws) + 1] = wf[1]
    BY <1>1, <2>1
  <2> QED
    BY <1>2, <2>1, <2>2
<1> DEFINE v == ws \o wf
<1> HIDE DEF v, l
<1>7. /\ Len(h) = l + Len(wf) /\ \A k \in 1..Len(h) : LikeToken(h[k], v[k])
      /\ \A k \in 1..l : v[k] # From
      /\ v[l + 1] = From /\ l \in Nat
  BY <1>1, <1>2, <1>4, <1>6 DEF Alike, v
<1>8. l < Len(h) /\ l + 1 \in 1..Len(h) /\ \A k \in 1..l : k \in 1..Len(h)
  BY <1>6, <1>7
<1>9. \A x, y : LikeToken(x, y) => (x = From <=> y = From)
  BY TokenKinds DEF LikeToken, Hole
<1>10. h[l + 1] = From /\ \A k \in 1..l : h[k] # From
  BY <1>7, <1>8, <1>9
<1>11. Break(h) = <<SubSeq(h, 1, l), SubSeq(h, l + 1, Len(h))>>
  BY <1>3, <1>7, <1>8, <1>10, BreakAt
<1>12. SubSeq(h, 1, l) \in Seq(Tokens)
  BY <1>3, <1>7, <1>8
<1> QED
  BY <1>5, <1>11, <1>12 DEF l, ws

-----------------------------------------------------------------------------
(* The columns of [AAAA].                                                  *)

\* Splitting the text in front of FROM gives the columns back, up to what stands in
\* parentheses, if all of them end with a name.
LEMMA ListIs ==
  ASSUME Given, NEW t \in Seq(Tokens), Alike(t, Separated(Wholes)),
         NEW list, list = Split(t), AllAreNamed(list)
  PROVE  /\ list \in Seq(Seq(Tokens)) /\ Len(list) = Len(selected)
         /\ \A k \in 1..Len(selected) :
              /\ list[k] \in Seq(Tokens) /\ list[k] # <<>> /\ Alike(list[k], Wholes[k])
              /\ Last(list[k]) = Last(selected[k])
              /\ Last(selected[k]) \in Tokens /\ Last(selected[k]).kind = "name"
<1>wholes. /\ Wholes \in Seq(Seq(Tokens \ {Comma}))
           /\ Wholes \in Seq(Seq(Tokens)) /\ Wholes # <<>> /\ Len(Wholes) = Len(selected)
           /\ Separated(Wholes) \in Seq(Tokens)
           /\ \A k \in 1..Len(selected) : Wholes[k] # <<>> /\ Last(Wholes[k]) = Last(selected[k])
  BY WholesAre, WholeStatement
<1>split. Split(Separated(Wholes)) = Wholes
  BY <1>wholes, SplitSeparated
<1>alike. AllAlike(list, Wholes)
  BY <1>wholes, <1>split, SplitAlike
<1>list. list \in Seq(Seq(Tokens)) /\ Len(list) = Len(selected)
  BY <1>alike, <1>wholes, SplitType DEF SomeTexts, AllAlike
<1>selected. selected \in Seq(Seq(Tokens)) /\ \A k \in 1..Len(selected) : selected[k] # <<>>
  BY GivenTypes
<1>named. \A k \in 1..Len(list) : Last(list[k]).kind = "name"
  BY <1>list DEF AllAreNamed
<1>each. ASSUME NEW k \in 1..Len(selected)
         PROVE  /\ list[k] \in Seq(Tokens) /\ list[k] # <<>> /\ Alike(list[k], Wholes[k])
                /\ Last(list[k]) = Last(selected[k])
                /\ Last(selected[k]) \in Tokens /\ Last(selected[k]).kind = "name"
  <2>text. list[k] \in Seq(Tokens) /\ Wholes[k] \in Seq(Tokens) /\ Alike(list[k], Wholes[k])
    BY <1>list, <1>wholes, <1>alike DEF AllAlike
  <2>length. Len(list[k]) = Len(Wholes[k]) /\ Len(list[k]) \in Nat \ {0} /\ list[k] # <<>>
    BY <2>text, <1>wholes DEF Alike
  <2>like. LikeToken(Last(list[k]), Last(Wholes[k]))
    BY <2>length, <2>text DEF Alike, Last
  <2>hole. ~ Hole(Last(list[k]))
    BY <1>named, <1>list DEF Hole
  <2>same. Last(list[k]) = Last(Wholes[k])
    BY <2>like, <2>hole DEF LikeToken
  <2>last. Last(list[k]) \in Tokens
    BY <2>text, <2>length DEF Last
  <2> QED
    BY <2>text, <2>length, <2>same, <2>last, <1>wholes, <1>named, <1>list
<1> QED
  BY <1>list, <1>each

-----------------------------------------------------------------------------
(* The invariant.                                                          *)

\* The names of the columns that Django selects.
SelectedNames == [k \in 1..Len(selected) |-> Last(selected[k]).name]

\* The k-th column that was selected is still there, up to what stands in parentheses.
IsSelected(k) ==
  /\ Last(selected[k]) \in Tokens /\ Last(selected[k]).kind = "name"
  /\ Inner(k).tokens # <<>> /\ Alike(Inner(k).tokens, Wholes[k])
  /\ Last(Inner(k).tokens) = Last(selected[k])
  /\ Inner(k).name = AliasOf(SelectedNames, k)
  /\ outer[k] = Inner(k).name

\* The columns end with those that Django selects, under their aliases.
ColumnsInv ==
  /\ columns \in Seq([tokens: Seq(Tokens), name: Names])
  /\ Len(columns) >= Len(selected)
  /\ \A k \in 1..Len(selected) : IsSelected(k)

\* How many columns _fix_slicing_order has added, and the n-th of them.
AddedColumns == Len(columns) - Len(selected)
\* The n-th of the columns that were added for ORDER BY.
Added(n) == columns[AddedColumns - n + 1]

\* Each of them is a column of ORDER BY in parentheses, under its own alias.
AddedInv ==
  \A n \in 1..AddedColumns : \E m \in 1..Len(newOrder) :
    Added(n) = [tokens |-> <<Open, ordering[m], Close>>,
                name   |-> Aliased(ordering[m].name, "order", n)]

\* The columns of the inner SELECT, ...
InnerTexts == [k \in 1..Len(columns) |-> columns[k].tokens]
\* ... and those among them that Django selects.
SelectedTexts == [k \in 1..Len(selected) |-> Inner(k).tokens]

\* What the added columns are made of.
Additions == {Open, Close, Comma} \cup {ordering[m] : m \in 1..Len(newOrder)}

\* The inner SELECT has additions before the columns of Django only.
InnerInv ==
  \E a \in Seq(Additions) : Separated(InnerTexts) = a \o Separated(SelectedTexts)

\* The rest of the statement is what Django wrote behind its columns.
RestInv ==
  /\ rest \in Seq(Tokens)
  /\ Percents \notin Range(from) => rest = from
  /\ \A x \in Range(rest) : x.kind = "name" => x \in Range(from)

\* The k-th name of the new ORDER BY is that of a column that was selected, or added.
IsOrdered(k) ==
  \/ FalseHit(ordering[k])
  \/ \E m \in 1..Len(selected) :
       Last(selected[m]) = ordering[k] /\ newOrder[k] = ordering[k].name
  \/ \E n \in 1..AddedColumns :
       newOrder[k] = Added(n).name /\ Added(n).tokens = <<Open, ordering[k], Close>>

\* The new ORDER BY is as long as the rounds that were made and orders alike.
OrderInv ==
  /\ newOrder \in Seq(Names)
  /\ Len(newOrder) <= Len(ordering)
  /\ step = "order" => Len(newOrder) < Len(ordering)
  /\ step \in {"done", "sent"} => Len(newOrder) = Len(ordering)
  /\ \A k \in 1..Len(newOrder) : IsOrdered(k)

\* What holds once the statement has been broken up.
RewrittenInv == ColumnsInv /\ AddedInv /\ InnerInv /\ RestInv /\ OrderInv

-----------------------------------------------------------------------------
\* The rest of _alias_columns establishes it.
LEMMA AliasKeeps ==
  ASSUME Given, ScanInv, newOrder = <<>>, AliasColumns
  PROVE  /\ Given' /\ newOrder' = <<>> /\ step' \in {"order", "failed"} /\ sent' = sent
         /\ step' = "order" => RewrittenInv'
<1> DEFINE text == Head(buffers)
           new  == Updated(parens, {ParamKey(text, k, i) : k \in Places(text, Param)}, <<Param>>)
           h    == HideParams(text, i)
           list == Split(Break(h)[1])
           names == [k \in DOMAIN list |-> Last(list[k]).name]
<1>kept. /\ selected' = selected /\ from' = from /\ ordering' = ordering /\ newOrder' = newOrder
         /\ sent' = sent /\ pos = Len(sql)
  BY DEF AliasColumns
<1>given. Given' /\ step' \in {"order", "failed"}
  BY <1>kept DEF Given, AliasColumns
<1> SUFFICES ASSUME step' = "order" PROVE RewrittenInv'
  BY <1>kept, <1>given
<1>does. /\ AllAreNamed(list)
         /\ outer' = [k \in DOMAIN list |-> AliasOf(names, k)]
         /\ columns' = [k \in DOMAIN list |-> [tokens |-> list[k], name |-> AliasOf(names, k)]]
         /\ rest' = RestOf(Break(h)[2], new)
  BY DEF AliasColumns
<1>scanned. /\ i \in Nat /\ AreTexts(parens) /\ text \in Seq(Tokens)
            /\ \E a, b \in Seq(UpTo(i, parens)) :
                 /\ text = a \o b
                 /\ Alike(a, Separated(Wholes)) /\ Alike(b, Whole(from))
                 /\ Expand(b, parens) = from
  BY <1>kept, ScanEnds
<1> PICK a \in Seq(UpTo(i, parens)), b \in Seq(UpTo(i, parens)) :
           /\ text = a \o b
           /\ Alike(a, Separated(Wholes)) /\ Alike(b, Whole(from))
           /\ Expand(b, parens) = from
  BY <1>scanned
<1>ab. a \in Seq(Tokens) /\ b \in Seq(Tokens)
  BY <1>scanned, UpToKnown
<1>broken. /\ Break(h) = <<SubSeq(h, 1, Len(a)), SubSeq(h, Len(a) + 1, Len(h))>>
           /\ SubSeq(h, 1, Len(a)) \in Seq(Tokens)
           /\ Alike(SubSeq(h, 1, Len(a)), Separated(Wholes))
  BY <1>ab, <1>scanned, BrokenAt
<1>parts. Break(h)[1] = SubSeq(h, 1, Len(a)) /\ Break(h)[2] = SubSeq(h, Len(a) + 1, Len(h))
  <2> HIDE DEF h
  <2> QED
    BY <1>broken
<1>rest. /\ Percents \notin Range(from) => rest' = from
         /\ rest' \in Seq(Tokens)
         /\ \A x \in Range(rest') : x.kind = "name" => x \in Range(from)
  <2> DEFINE d == SubSeq(h, Len(a) + 1, Len(h))
  <2>d. rest' = RestOf(d, new)
    BY <1>does, <1>parts
  <2>h. h = HideParams(text, i)
    OBVIOUS
  <2>new. new = Updated(parens, ParamKeysIn(text, i), <<Param>>)
    BY DEF ParamKeysIn
  <2> HIDE DEF text, h, new
  <2>eq. d = SubSeq(h, Len(a) + 1, Len(h))
    OBVIOUS
  <2> HIDE DEF d
  <2>broken. IsBroken(i, parens, a, b, text, h, d, new)
    BY <1>scanned, <2>h, <2>new, <2>eq DEF IsBroken
  <2>1. /\ Percents \notin Range(Expand(b, parens)) => RestOf(d, new) = Expand(b, parens)
        /\ RestOf(d, new) \in Seq(Tokens)
        /\ \A x \in Range(RestOf(d, new)) : x.kind = "name" => x \in Range(Expand(b, parens))
    BY <2>broken, RestIs
  <2> QED
    BY <2>1, <2>d, <1>scanned
<1>list. /\ list \in Seq(Seq(Tokens)) /\ Len(list) = Len(selected)
         /\ \A k \in 1..Len(selected) :
              /\ list[k] \in Seq(Tokens) /\ list[k] # <<>> /\ Alike(list[k], Wholes[k])
              /\ Last(list[k]) = Last(selected[k])
              /\ Last(selected[k]) \in Tokens /\ Last(selected[k]).kind = "name"
  <2>1. list = Split(SubSeq(h, 1, Len(a)))
    BY <1>parts
  <2> HIDE DEF list, h
  <2> QED
    BY <2>1, <1>broken, <1>does, ListIs
<1> HIDE DEF list, h, text, new
<1>names. names = SelectedNames /\ DOMAIN list = 1..Len(selected) /\ Len(selected) \in Nat
  BY <1>list DEF SelectedNames
<1> HIDE DEF names
<1>columns. /\ columns' = [k \in 1..Len(selected) |->
                             [tokens |-> list[k], name |-> AliasOf(SelectedNames, k)]]
            /\ outer' = [k \in 1..Len(selected) |-> AliasOf(SelectedNames, k)]
  BY <1>does, <1>names
<1>length. Len(columns') = Len(selected)
  BY <1>columns, <1>names
<1>typed. columns' \in Seq([tokens: Seq(Tokens), name: Names])
  <2>1. ASSUME NEW k \in 1..Len(selected)
        PROVE  [tokens |-> list[k], name |-> AliasOf(SelectedNames, k)]
                 \in [tokens: Seq(Tokens), name: Names]
    <3>1. SelectedNames[k] \in Names /\ k \in Nat
      BY <1>list, <1>names, TokenTypes DEF SelectedNames
    <3>2. AliasOf(SelectedNames, k) \in Names
      BY <3>1, AliasOfIs
    <3> QED
      BY <3>2, <1>list
  <2> QED
    BY <2>1, <1>columns, <1>names
<1>inner. \A k \in 1..Len(selected) :
            Inner(k)' = [tokens |-> list[k], name |-> AliasOf(SelectedNames, k)]
  BY <1>columns, <1>length, <1>kept, <1>names DEF Inner
<1>columnsinv. ColumnsInv'
  <2>1. ASSUME NEW k \in 1..Len(selected) PROVE IsSelected(k)'
    BY <1>inner, <1>columns, <1>list, <1>kept DEF IsSelected, Wholes, SelectedNames
  <2> QED
    BY <2>1, <1>typed, <1>length, <1>names, <1>kept DEF ColumnsInv
<1>none. AddedColumns' = 0
  BY <1>length, <1>kept, <1>names DEF AddedColumns
<1>added. AddedInv'
  BY <1>none DEF AddedInv
<1>innerinv. InnerInv'
  <2>1. InnerTexts' = [k \in 1..Len(selected) |-> list[k]]
    BY <1>columns, <1>length DEF InnerTexts
  <2>2. SelectedTexts' = [k \in 1..Len(selected) |-> list[k]]
    BY <1>inner, <1>kept DEF SelectedTexts
  <2>3. /\ InnerTexts' = list /\ SelectedTexts' = list
    BY <2>1, <2>2, <1>list, SequenceIsFunction
  <2>4. Separated(list) \in Seq(Tokens)
    BY <1>list, SeparatedIsMarked, MarkedType, TokenKinds
  <2>5. Separated(list) = <<>> \o Separated(list) /\ <<>> \in Seq(Additions')
    BY <2>4
  <2> QED
    BY <2>3, <2>5 DEF InnerInv
<1>restinv. RestInv'
  BY <1>rest, <1>kept DEF RestInv
<1>order. OrderInv'
  <2>1. newOrder' = <<>> /\ Len(newOrder') = 0 /\ newOrder' \in Seq(Names)
    BY <1>kept
  <2>2. ordering # <<>> /\ ordering \in Seq(SourceTokens)
    BY RewritingAssumption DEF Given
  <2>3. Len(ordering) \in Nat /\ 0 < Len(ordering)
    BY <2>2
  <2> QED
    BY <2>1, <2>3, <1>kept DEF OrderInv
<1> QED
  BY <1>columnsinv, <1>added, <1>innerinv, <1>restinv, <1>order DEF RewrittenInv

-----------------------------------------------------------------------------
(* _fix_slicing_order.                                                     *)

\* x stands in a column, outside of parentheses.
IsVisible(x) ==
  \E k \in DOMAIN selected : \E m \in DOMAIN selected[k] :
    selected[k][m] = x /\ Outside(selected[k], m)

\* The tokens of the columns that were selected, the names among them from there.
Visible == {x \in Tokens : x.kind = "name" => IsVisible(x)}

\* What a column of [AAAA] is.
LEMMA ColumnTypes ==
  ASSUME NEW list \in Seq([tokens: Seq(Tokens), name: Names])
  PROVE  /\ Len(list) \in Nat /\ DOMAIN list = 1..Len(list)
         /\ \A k \in 1..Len(list) : list[k].tokens \in Seq(Tokens) /\ list[k].name \in Names
<1> DEFINE C == [tokens: Seq(Tokens), name: Names]
<1>1. \A c \in C : c.tokens \in Seq(Tokens) /\ c.name \in Names
  OBVIOUS
<1>2. list \in Seq(C)
  OBVIOUS
<1> HIDE DEF C
<1>3. Len(list) \in Nat /\ DOMAIN list = 1..Len(list) /\ \A k \in 1..Len(list) : list[k] \in C
  BY <1>2
<1> QED
  BY <1>1, <1>3

\* The columns of Django as texts of the inner SELECT.
LEMMA SelectedTextsAre ==
  ASSUME Given, ColumnsInv
  PROVE  /\ SelectedTexts \in Seq(Seq(Visible)) /\ SelectedTexts \in Seq(Seq(Tokens))
         /\ SelectedTexts # <<>> /\ Len(SelectedTexts) = Len(selected)
         /\ Separated(SelectedTexts) \in Seq(Visible)
         /\ Separated(SelectedTexts) \in Seq(Tokens)
<1>given. /\ selected \in Seq(Seq(SourceTokens)) /\ selected # <<>> /\ Len(selected) \in Nat
          /\ \A k \in 1..Len(selected) : selected[k] \in Seq(SourceTokens) /\ IsColumn(selected[k])
  BY GivenTypes
<1>columns. /\ columns \in Seq([tokens: Seq(Tokens), name: Names]) /\ Len(columns) \in Nat
            /\ Len(columns) >= Len(selected)
            /\ \A k \in 1..Len(selected) : Alike(Inner(k).tokens, Wholes[k])
  BY DEF ColumnsInv, IsSelected
<1>inner. \A k \in 1..Len(selected) : Inner(k).tokens \in Seq(Tokens)
  <2>1. \A k \in 1..Len(columns) : columns[k].tokens \in Seq(Tokens)
    BY <1>columns, ColumnTypes
  <2>2. ASSUME NEW k \in 1..Len(selected) PROVE Len(columns) - Len(selected) + k \in 1..Len(columns)
    BY <1>columns, <1>given
  <2> QED
    BY <2>1, <2>2 DEF Inner
<1>visible. ASSUME NEW k \in 1..Len(selected) PROVE Inner(k).tokens \in Seq(Visible)
  <2> DEFINE t == Inner(k).tokens
  <2>1. t \in Seq(Tokens) /\ Alike(t, Whole(selected[k]))
    BY <1>inner, <1>columns DEF Wholes
  <2>2. \A p \in 1..Len(Whole(selected[k])) :
          \/ Whole(selected[k])[p] \in {Open, Close, Placeholder(0)}
          \/ \E m \in DOMAIN selected[k] : /\ selected[k][m] = Whole(selected[k])[p]
                                           /\ Outside(selected[k], m)
    BY <1>given, WholeColumn
  <2> HIDE DEF t
  <2>3. ASSUME NEW p \in 1..Len(t) PROVE t[p] \in Visible
    <3>1. t[p] \in Tokens
      BY <2>1
    <3>2. CASE t[p].kind = "name"
      <4>1. LikeToken(t[p], Whole(selected[k])[p]) /\ p \in 1..Len(Whole(selected[k]))
        BY <2>1 DEF Alike
      <4>2. t[p] = Whole(selected[k])[p]
        BY <4>1, <3>2 DEF LikeToken, Hole
      <4>3. t[p] \notin {Open, Close, Placeholder(0)}
        BY <3>2, TokenKinds, TokenTypes
      <4>4. \E m \in DOMAIN selected[k] : selected[k][m] = t[p] /\ Outside(selected[k], m)
        BY <4>1, <4>2, <4>3, <2>2
      <4>5. k \in DOMAIN selected
        BY <1>given
      <4> QED
        BY <4>4, <4>5, <3>1 DEF Visible, IsVisible
    <3> QED
      BY <3>1, <3>2 DEF Visible
  <2> QED
    BY <2>1, <2>3, SequenceOf DEF t
<1>texts. /\ SelectedTexts \in Seq(Seq(Visible)) /\ SelectedTexts \in Seq(Seq(Tokens))
          /\ Len(SelectedTexts) = Len(selected) /\ SelectedTexts # <<>>
  BY <1>inner, <1>visible, <1>given DEF SelectedTexts
<1>comma. Comma \in Visible /\ Comma \in Tokens
  BY TokenKinds DEF Visible
<1> QED
  BY <1>texts, <1>comma, SeparatedIsMarked, MarkedType

\* What the inner SELECT consists of.
LEMMA InnerSelectIs ==
  ASSUME Given, RewrittenInv
  PROVE  /\ InnerTexts \in Seq(Seq(Tokens)) /\ InnerTexts # <<>>
         /\ \E a \in Seq(Additions) :
              /\ Separated(InnerTexts) = a \o Separated(SelectedTexts)
              /\ InnerSelect = (a \o Separated(SelectedTexts)) \o rest
<1>columns. columns \in Seq([tokens: Seq(Tokens), name: Names]) /\ Len(columns) >= Len(selected)
  BY DEF RewrittenInv, ColumnsInv
<1>typed. /\ Len(columns) \in Nat /\ DOMAIN columns = 1..Len(columns)
          /\ \A k \in 1..Len(columns) : columns[k].tokens \in Seq(Tokens)
  BY <1>columns, ColumnTypes
<1>1. InnerSelect = Separated(InnerTexts) \o rest
  BY <1>typed DEF InnerSelect, InnerTexts
<1>2. selected # <<>> /\ Len(selected) \in Nat \ {0}
  BY GivenTypes
<1>3. Len(columns) \in Nat \ {0}
  BY <1>2, <1>columns, <1>typed
<1>4. InnerTexts \in Seq(Seq(Tokens)) /\ InnerTexts # <<>>
  BY <1>3, <1>typed DEF InnerTexts
<1> QED
  BY <1>1, <1>4 DEF RewrittenInv, InnerInv

\* A name of the ORDER BY that is found was selected, or is a false hit.
LEMMA FoundIs ==
  ASSUME Given, RewrittenInv, NEW m \in Nat, m = Len(newOrder) + 1, m <= Len(ordering),
         NEW k \in Places(InnerSelect, ordering[m])
  PROVE  FalseHit(ordering[m]) \/ \E j \in 1..Len(selected) : Last(selected[j]) = ordering[m]
<1> DEFINE x == ordering[m]
           t == Separated(SelectedTexts)
<1>ordering. /\ ordering \in Seq(SourceTokens) /\ m \in DOMAIN ordering /\ Len(ordering) \in Nat
             /\ \A p, q \in DOMAIN ordering : ordering[p] = ordering[q] => p = q
             /\ x.kind = "name"
  BY RewritingAssumption DEF Given
<1>texts. t \in Seq(Visible) /\ t \in Seq(Tokens) /\ rest \in Seq(Tokens)
          /\ \A y \in Range(rest) : y.kind = "name" => y \in Range(from)
  BY SelectedTextsAre DEF RewrittenInv, RestInv
<1> HIDE DEF t
<1>inner. \E a \in Seq(Additions) : InnerSelect = (a \o t) \o rest
  BY InnerSelectIs DEF t
<1> PICK a \in Seq(Additions) : InnerSelect = (a \o t) \o rest
  BY <1>inner
<1>place. k \in 1..Len((a \o t) \o rest) /\ ((a \o t) \o rest)[k] = x
  BY <1>texts DEF Places
<1> HIDE DEF x
<1>lengths. Len(a) \in Nat /\ Len(t) \in Nat /\ Len(rest) \in Nat /\ a \o t \in Seq(Additions \cup Tokens)
  BY <1>texts
<1>where. \/ k \in 1..Len(a) /\ a[k] = x
          \/ \E p \in 1..Len(t) : t[p] = x
          \/ \E p \in 1..Len(rest) : rest[p] = x
  <2>1. CASE k <= Len(a)
    BY <2>1, <1>place, <1>lengths, <1>texts
  <2>2. CASE Len(a) < k /\ k <= Len(a) + Len(t)
    <3>1. k - Len(a) \in 1..Len(t) /\ t[k - Len(a)] = x
      BY <2>2, <1>place, <1>lengths, <1>texts
    <3> QED
      BY <3>1
  <2>3. CASE Len(a) + Len(t) < k
    <3>1. k - (Len(a) + Len(t)) \in 1..Len(rest) /\ rest[k - (Len(a) + Len(t))] = x
      BY <2>3, <1>place, <1>lengths, <1>texts
    <3> QED
      BY <3>1
  <2> QED
    BY <2>1, <2>2, <2>3, <1>place, <1>lengths
<1>a. CASE k \in 1..Len(a) /\ a[k] = x
  <2>1. x \in Additions
    BY <1>a
  <2>2. x \notin {Open, Close, Comma}
    BY <1>ordering, TokenKinds
  <2>3. PICK q \in 1..Len(newOrder) : x = ordering[q]
    BY <2>1, <2>2 DEF Additions
  <2>4. Len(newOrder) \in Nat
    BY DEF RewrittenInv, OrderInv
  <2>5. q \in DOMAIN ordering /\ q # m
    BY <2>3, <2>4, <1>ordering
  <2> QED
    BY <2>3, <2>5, <1>ordering DEF x
<1>t. CASE \E p \in 1..Len(t) : t[p] = x
  <2>1. x \in Visible
    BY <1>t, <1>texts
  <2>2. IsVisible(x)
    BY <2>1, <1>ordering DEF Visible
  <2>3. DOMAIN selected = 1..Len(selected)
    BY GivenTypes
  <2> QED
    BY <2>2, <2>3 DEF IsVisible, FalseHit, x
<1>rest. CASE \E p \in 1..Len(rest) : rest[p] = x
  <2>1. x \in Range(rest)
    BY <1>rest, <1>texts DEF Range
  <2>2. x \in Range(from)
    BY <2>1, <1>texts, <1>ordering
  <2>3. DOMAIN selected = 1..Len(selected)
    BY GivenTypes
  <2> QED
    BY <2>2, <2>3 DEF FalseHit, x
<1> QED
  BY <1>where, <1>a, <1>t, <1>rest

\* One more name in the ORDER BY, of a column found or added, and what was looked at
\* before stays as it is.
LEMMA OneMoreOrdered ==
  ASSUME Given, RewrittenInv, step = "order",
         ordering' = ordering, NEW m \in Nat, m = Len(newOrder) + 1,
         NEW name \in Names, newOrder' = Append(newOrder, name),
         step' = (IF m = Len(ordering) THEN "done" ELSE "order"),
         \A k \in 1..Len(newOrder) : IsOrdered(k)', IsOrdered(m)'
  PROVE  OrderInv' /\ Additions \subseteq Additions' /\ Len(newOrder') = Len(newOrder) + 1
<1>1. /\ newOrder \in Seq(Names) /\ Len(newOrder) \in Nat /\ Len(newOrder) < Len(ordering)
  BY DEF RewrittenInv, OrderInv
<1>2. Len(ordering) \in Nat
  BY RewritingAssumption DEF Given
<1>3. /\ newOrder' \in Seq(Names) /\ Len(newOrder') = Len(newOrder) + 1
  BY <1>1
<1>4. \A k \in 1..Len(newOrder)' : IsOrdered(k)'
  <2>1. ASSUME NEW k \in 1..Len(newOrder') PROVE IsOrdered(k)'
    <3>1. k \in 1..Len(newOrder) \/ k = m
      BY <1>1, <1>3
    <3> QED
      BY <3>1
  <2> QED
    BY <2>1
<1>5. /\ Len(newOrder') <= Len(ordering)
      /\ step' = "order" => Len(newOrder') < Len(ordering)
      /\ step' \in {"done", "sent"} => Len(newOrder') = Len(ordering)
  BY <1>1, <1>2, <1>3
<1>6. OrderInv'
  BY <1>3, <1>4, <1>5 DEF OrderInv
<1>7. Additions \subseteq Additions'
  BY <1>1, <1>3 DEF Additions
<1> QED
  BY <1>3, <1>6, <1>7

\* A round of the loop that finds its column keeps the invariant.
LEMMA FoundKeeps ==
  ASSUME Given, RewrittenInv, FixSlicingOrder, NEW m \in Nat, m = Len(newOrder) + 1,
         InInnerSelect(m), columns' = columns, newOrder' = Append(newOrder, ordering[m].name)
  PROVE  RewrittenInv'
<1>kept. /\ selected' = selected /\ from' = from /\ ordering' = ordering /\ rest' = rest
         /\ outer' = outer /\ step = "order"
         /\ step' = (IF m = Len(ordering) THEN "done" ELSE "order")
  BY DEF FixSlicingOrder
<1>order. /\ newOrder \in Seq(Names) /\ Len(newOrder) \in Nat /\ m \in Nat /\ m <= Len(ordering)
          /\ \A k \in 1..Len(newOrder) : IsOrdered(k)
          /\ ordering \in Seq(SourceTokens) /\ Len(ordering) \in Nat
  BY <1>kept, RewritingAssumption DEF RewrittenInv, OrderInv, Given
<1>name. ordering[m].name \in Names
  <2>1. ordering[m] \in Tokens
    BY <1>order, SourceTypes
  <2> QED
    BY <2>1, TokenTypes
<1>new. /\ \A k \in 1..Len(newOrder) : newOrder'[k] = newOrder[k]
        /\ newOrder'[m] = ordering[m].name /\ Len(newOrder') = m
  BY <1>order
<1>same. /\ AddedColumns' = AddedColumns /\ \A n : Added(n)' = Added(n)
         /\ \A k : Inner(k)' = Inner(k) /\ \A x : FalseHit(x)' = FalseHit(x)
         /\ InnerTexts' = InnerTexts /\ SelectedTexts' = SelectedTexts
         /\ SelectedNames' = SelectedNames /\ Wholes' = Wholes
  BY <1>kept DEF AddedColumns, Added, Inner, FalseHit, InnerTexts, SelectedTexts, SelectedNames, Wholes
<1>before. ASSUME NEW k \in 1..Len(newOrder) PROVE IsOrdered(k)'
  <2>1. IsOrdered(k)
    BY <1>order
  <2> QED
    BY <2>1, <1>new, <1>same, <1>kept DEF IsOrdered
<1>found. IsOrdered(m)'
  <2>1. PICK k \in Places(InnerSelect, ordering[m]) : TRUE
    BY DEF InInnerSelect
  <2>2. FalseHit(ordering[m]) \/ \E j \in 1..Len(selected) : Last(selected[j]) = ordering[m]
    BY <2>1, <1>order, FoundIs
  <2> QED
    BY <2>2, <1>new, <1>same, <1>kept DEF IsOrdered
<1>orderinv. OrderInv' /\ Additions \subseteq Additions'
  BY <1>kept, <1>name, <1>before, <1>found, OneMoreOrdered
<1>columns. ColumnsInv'
  <2>1. ASSUME NEW k \in 1..Len(selected) PROVE IsSelected(k)'
    <3>1. IsSelected(k)
      BY DEF RewrittenInv, ColumnsInv
    <3> QED
      BY <3>1, <1>kept, <1>same DEF IsSelected
  <2> QED
    BY <2>1, <1>kept DEF RewrittenInv, ColumnsInv
<1>added. AddedInv'
  <2>1. ASSUME NEW n \in 1..AddedColumns
        PROVE  \E k \in 1..Len(newOrder') :
                 Added(n) = [tokens |-> <<Open, ordering[k], Close>>,
                             name   |-> Aliased(ordering[k].name, "order", n)]
    <3>1. PICK k \in 1..Len(newOrder) :
                 Added(n) = [tokens |-> <<Open, ordering[k], Close>>,
                             name   |-> Aliased(ordering[k].name, "order", n)]
      BY DEF RewrittenInv, AddedInv
    <3>2. k \in 1..Len(newOrder')
      BY <1>order, <1>new
    <3> QED
      BY <3>1, <3>2
  <2> QED
    BY <2>1, <1>same, <1>kept DEF AddedInv
<1>inner. InnerInv'
  <2>1. PICK a \in Seq(Additions) : Separated(InnerTexts) = a \o Separated(SelectedTexts)
    BY DEF RewrittenInv, InnerInv
  <2>2. a \in Seq(Additions')
    BY <1>orderinv
  <2> QED
    BY <2>1, <2>2, <1>same DEF InnerInv
<1>rest. RestInv'
  BY <1>kept DEF RewrittenInv, RestInv
<1> QED
  BY <1>orderinv, <1>columns, <1>added, <1>inner, <1>rest DEF RewrittenInv

\* A sequence with one element more in front.
LEMMA Prepended ==
  ASSUME NEW S, NEW tail \in Seq(S), NEW e \in S
  PROVE  /\ <<e>> \o tail \in Seq(S)
         /\ Len(<<e>> \o tail) = Len(tail) + 1 /\ (<<e>> \o tail)[1] = e
         /\ \A k \in 1..Len(tail) : (<<e>> \o tail)[k + 1] = tail[k]
<1> DEFINE list == <<e>> \o tail
<1>1. <<e>> \in Seq(S) /\ Len(<<e>>) = 1 /\ <<e>>[1] = e /\ Len(tail) \in Nat
  OBVIOUS
<1>2. list \in Seq(S) /\ Len(list) = 1 + Len(tail)
  BY <1>1
<1>3. list[1] = e
  BY <1>1
<1>4. ASSUME NEW k \in 1..Len(tail) PROVE list[k + 1] = tail[k]
  BY <1>1
<1> QED
  BY <1>1, <1>2, <1>3, <1>4

\* And so does one that puts its column in front of the others.
AddsColumn(m) ==
  /\ newOrder' = Append(newOrder, OrderAlias(m))
  /\ columns' = <<[tokens |-> <<Open, ordering[m], Close>>, name |-> OrderAlias(m)]>> \o columns

\* A round that adds a column keeps what holds of the statement.
LEMMA AddedKeeps ==
  ASSUME Given, RewrittenInv, FixSlicingOrder, NEW m \in Nat, m = Len(newOrder) + 1,
         AddsColumn(m)
  PROVE  RewrittenInv'
<1> DEFINE new == [tokens |-> <<Open, ordering[m], Close>>, name |-> OrderAlias(m)]
<1>kept. /\ selected' = selected /\ from' = from /\ ordering' = ordering /\ rest' = rest
         /\ outer' = outer /\ step = "order"
         /\ step' = (IF m = Len(ordering) THEN "done" ELSE "order")
  BY DEF FixSlicingOrder
<1>order. /\ newOrder \in Seq(Names) /\ Len(newOrder) \in Nat /\ m \in Nat /\ m <= Len(ordering)
          /\ \A k \in 1..Len(newOrder) : IsOrdered(k)
          /\ ordering \in Seq(SourceTokens) /\ Len(ordering) \in Nat
  BY <1>kept, RewritingAssumption DEF RewrittenInv, OrderInv, Given
<1>columns. /\ columns \in Seq([tokens: Seq(Tokens), name: Names]) /\ Len(columns) \in Nat
            /\ Len(selected) \in Nat \ {0} /\ Len(columns) >= Len(selected)
            /\ AddedColumns \in Nat /\ \A k \in 1..Len(selected) : IsSelected(k)
  BY GivenTypes DEF RewrittenInv, ColumnsInv, AddedColumns
<1>name. ordering[m] \in Tokens /\ ordering[m].name \in Names /\ OrderAlias(m) \in Names
  <2>1. ordering[m] \in Tokens
    BY <1>order, SourceTypes
  <2>2. ordering[m].name \in Names
    BY <2>1, TokenTypes
  <2>3. Len(columns) - Len(selected) + 1 \in Nat
    BY <1>columns
  <2> QED
    BY <2>1, <2>2, <2>3, AliasedIs DEF OrderAlias
<1>text. <<Open, ordering[m], Close>> \in Seq(Tokens)
  BY <1>name, TokenKinds
<1>new. new \in [tokens: Seq(Tokens), name: Names]
  BY <1>name, <1>text
<1>alias. new.tokens = <<Open, ordering[m], Close>> /\ new.name = OrderAlias(m)
          /\ OrderAlias(m) = Aliased(ordering[m].name, "order", AddedColumns + 1)
  BY DEF OrderAlias, AddedColumns
<1>front. columns' = <<new>> \o columns
  BY DEF AddsColumn
<1>appended. newOrder' = Append(newOrder, OrderAlias(m))
  BY DEF AddsColumn
<1> HIDE DEF new
<1>shift. /\ columns' \in Seq([tokens: Seq(Tokens), name: Names])
          /\ Len(columns') = Len(columns) + 1 /\ columns'[1] = new
          /\ \A k \in 1..Len(columns) : columns'[k + 1] = columns[k]
  <2> DEFINE C == [tokens: Seq(Tokens), name: Names]
  <2>1. columns \in Seq(C) /\ new \in C
    BY <1>columns, <1>new
  <2> HIDE DEF C
  <2>3. /\ columns' \in Seq(C)
        /\ Len(columns') = Len(columns) + 1 /\ columns'[1] = new
        /\ \A k \in 1..Len(columns) : columns'[k + 1] = columns[k]
    <3>1. /\ <<new>> \o columns \in Seq(C) /\ Len(<<new>> \o columns) = Len(columns) + 1
          /\ (<<new>> \o columns)[1] = new
          /\ \A k \in 1..Len(columns) : (<<new>> \o columns)[k + 1] = columns[k]
      BY <2>1, Prepended
    <3> QED
      BY <3>1, <1>front
  <2> QED
    BY <2>3 DEF C
<1>more. AddedColumns' = AddedColumns + 1 /\ \A n : n = AddedColumns + 1 => Added(n)' = new
  <2>1. AddedColumns' = AddedColumns + 1
    BY <1>shift, <1>kept, <1>columns DEF AddedColumns
  <2>2. \A n : n = AddedColumns' => Added(n)' = columns'[1]
    BY <2>1, <1>columns DEF Added
  <2> QED
    BY <2>1, <2>2, <1>shift
<1>same. /\ \A n \in 1..AddedColumns : Added(n)' = Added(n)
         /\ \A k \in 1..Len(selected) : Inner(k)' = Inner(k)
         /\ \A x : FalseHit(x)' = FalseHit(x)
         /\ SelectedTexts' = SelectedTexts
         /\ SelectedNames' = SelectedNames /\ Wholes' = Wholes
  <2>1. ASSUME NEW n \in 1..AddedColumns PROVE Added(n)' = Added(n)
    <3>1. AddedColumns - n + 1 \in 1..Len(columns)
      BY <1>columns DEF AddedColumns
    <3>2. AddedColumns' - n + 1 = AddedColumns - n + 1 + 1
      BY <1>more, <1>columns
    <3> QED
      BY <3>1, <3>2, <1>shift DEF Added
  <2>2. ASSUME NEW k \in 1..Len(selected) PROVE Inner(k)' = Inner(k)
    <3>1. /\ Len(columns) - Len(selected) + k \in 1..Len(columns)
          /\ Len(columns') - Len(selected') + k = Len(columns) - Len(selected) + k + 1
      BY <1>shift, <1>kept, <1>columns
    <3> QED
      BY <3>1, <1>shift DEF Inner
  <2>3. /\ \A x : FalseHit(x)' = FalseHit(x)
        /\ SelectedNames' = SelectedNames /\ Wholes' = Wholes
    BY <1>kept DEF FalseHit, SelectedNames, Wholes
  <2> QED
    BY <2>1, <2>2, <2>3, <1>kept DEF SelectedTexts
<1>grown. /\ \A k \in 1..Len(newOrder) : newOrder'[k] = newOrder[k]
          /\ newOrder'[m] = OrderAlias(m) /\ Len(newOrder') = m
  BY <1>order, <1>name, <1>appended
<1>before. ASSUME NEW k \in 1..Len(newOrder) PROVE IsOrdered(k)'
  <2>1. IsOrdered(k)
    BY <1>order
  <2>2. \A n \in 1..AddedColumns : n \in 1..AddedColumns'
    BY <1>more, <1>columns
  <2> QED
    BY <2>1, <2>2, <1>grown, <1>same, <1>kept DEF IsOrdered
<1>last. IsOrdered(m)'
  <2>1. PICK n : n = AddedColumns + 1
    OBVIOUS
  <2>2. n \in 1..AddedColumns' /\ Added(n)' = new
    BY <2>1, <1>more, <1>columns
  <2> QED
    BY <2>2, <1>grown, <1>alias, <1>kept DEF IsOrdered
<1>orderinv. OrderInv' /\ Additions \subseteq Additions'
  BY <1>kept, <1>appended, <1>name, <1>before, <1>last, OneMoreOrdered
<1>columnsinv. ColumnsInv'
  <2>1. ASSUME NEW k \in 1..Len(selected) PROVE IsSelected(k)'
    BY <1>columns, <1>kept, <1>same DEF IsSelected
  <2>2. Len(columns') >= Len(selected)
    BY <1>shift, <1>columns
  <2> QED
    BY <2>1, <2>2, <1>shift, <1>kept DEF ColumnsInv
<1>added. AddedInv'
  <2>1. ASSUME NEW n \in 1..AddedColumns'
        PROVE  \E k \in 1..Len(newOrder') :
                 Added(n)' = [tokens |-> <<Open, ordering[k], Close>>,
                              name   |-> Aliased(ordering[k].name, "order", n)]
    <3>1. CASE n \in 1..AddedColumns
      <4>1. PICK k \in 1..Len(newOrder) :
                   Added(n) = [tokens |-> <<Open, ordering[k], Close>>,
                               name   |-> Aliased(ordering[k].name, "order", n)]
        BY <3>1 DEF RewrittenInv, AddedInv
      <4>2. k \in 1..Len(newOrder')
        BY <1>order, <1>grown
      <4> QED
        BY <4>1, <4>2, <3>1, <1>same
    <3>2. CASE n = AddedColumns + 1
      <4>1. Added(n)' = new
        BY <3>2, <1>more
      <4>2. new = [tokens |-> <<Open, ordering[m], Close>>,
                   name   |-> Aliased(ordering[m].name, "order", n)]
        BY <3>2, <1>alias DEF new
      <4>3. m \in 1..Len(newOrder')
        BY <1>order, <1>grown
      <4> QED
        BY <4>1, <4>2, <4>3
    <3>3. n \in 1..AddedColumns \/ n = AddedColumns + 1
      BY <1>more, <1>columns
    <3> QED
      BY <3>1, <3>2, <3>3
  <2> QED
    BY <2>1, <1>kept DEF AddedInv
<1>inner. InnerInv'
  <2> DEFINE text == <<Open, ordering[m], Close>>
             t    == Separated(SelectedTexts)
  <2>1. PICK a \in Seq(Additions) : Separated(InnerTexts) = a \o t
    BY DEF RewrittenInv, InnerInv
  <2>2. InnerTexts \in Seq(Seq(Tokens)) /\ InnerTexts # <<>>
    BY InnerSelectIs
  <2>3. InnerTexts' = <<text>> \o InnerTexts
    <3>1. /\ Len(InnerTexts) = Len(columns) /\ Len(InnerTexts') = Len(columns) + 1
          /\ InnerTexts' = [k \in 1..Len(columns) + 1 |-> columns'[k].tokens]
      BY <1>shift, <1>columns DEF InnerTexts
    <3>2. columns' \in Seq([tokens: Seq(Tokens), name: Names])
      BY <1>shift
    <3>3. \A k \in 1..Len(columns) + 1 : columns'[k].tokens \in Seq(Tokens)
      BY <3>2, <1>shift, ColumnTypes
    <3>4. InnerTexts' \in Seq(Seq(Tokens))
      <4> DEFINE l == Len(columns) + 1
      <4>1. l \in Nat /\ \A k \in 1..l : columns'[k].tokens \in Seq(Tokens)
        BY <3>3, <1>columns
      <4>2. InnerTexts' = [k \in 1..l |-> columns'[k].tokens]
        BY <3>1
      <4> HIDE DEF l
      <4> QED
        BY <4>1, <4>2
    <3>5. <<text>> \in Seq(Seq(Tokens)) /\ Len(<<text>>) = 1 /\ <<text>>[1] = text
      BY <1>text
    <3>6. InnerTexts'[1] = text
      BY <3>1, <1>shift, <1>alias, <1>columns
    <3>7. ASSUME NEW k \in 1..Len(columns) PROVE InnerTexts'[k + 1] = InnerTexts[k]
      <4>1. k + 1 \in 1..Len(columns) + 1 /\ columns'[k + 1] = columns[k]
        BY <1>shift, <1>columns
      <4> QED
        BY <4>1, <3>1 DEF InnerTexts
    <3> DEFINE b == <<text>> \o InnerTexts
    <3>8. b \in Seq(Seq(Tokens)) /\ Len(b) = Len(columns) + 1 /\ b[1] = text
          /\ \A k \in 1..Len(columns) : b[k + 1] = InnerTexts[k]
      <4> HIDE DEF text
      <4> QED
        BY <3>5, <3>1, <2>2, <1>columns
    <3>9. ASSUME NEW k \in 1..Len(columns) + 1 PROVE InnerTexts'[k] = b[k]
      <4>1. k = 1 \/ k - 1 \in 1..Len(columns)
        BY <1>columns
      <4>2. CASE k = 1
        BY <4>2, <3>6, <3>8
      <4>3. CASE k - 1 \in 1..Len(columns)
        <5>1. k = (k - 1) + 1
          BY <1>columns
        <5> QED
          BY <5>1, <4>3, <3>7, <3>8
      <4> QED
        BY <4>1, <4>2, <4>3
    <3> HIDE DEF b
    <3>10. InnerTexts' = b
      BY <3>1, <3>4, <3>8, <3>9, SameTexts
    <3> QED
      BY <3>10 DEF b
  <2> HIDE DEF text
  <2>4. text \in Seq(Tokens)
    BY <1>text DEF text
  <2>5. Separated(InnerTexts') = text \o (<<Comma>> \o Separated(InnerTexts))
    BY <2>2, <2>3, <2>4, SeparatedIsMarked, MarkedPrepend, TokenKinds
  <2>6. t \in Seq(Tokens)
    BY SelectedTextsAre DEF RewrittenInv
  <2>7. a \in Seq(Additions') /\ text \in Seq(Additions') /\ Comma \in Additions'
    <3>1. a \in Seq(Additions')
      BY <1>orderinv
    <3>2. ordering[m] \in Additions' /\ {Open, Close, Comma} \subseteq Additions'
      BY <1>order, <1>grown, <1>kept DEF Additions
    <3> QED
      BY <3>1, <3>2 DEF text
  <2> DEFINE first == text \o (<<Comma>> \o a)
  <2>8. first \in Seq(Additions')
    BY <2>7
  <2> HIDE DEF t
  <2>9. Separated(InnerTexts') = first \o t
    <3>1. \E S : text \in Seq(S) /\ a \in Seq(S) /\ t \in Seq(S) /\ Comma \in S
      <4> DEFINE S == Tokens \cup Additions
      <4>1. text \in Seq(S) /\ a \in Seq(S) /\ t \in Seq(S) /\ Comma \in S
        BY <2>4, <2>6, TokenKinds
      <4> QED
        BY <4>1
    <3> PICK S : text \in Seq(S) /\ a \in Seq(S) /\ t \in Seq(S) /\ Comma \in S
      BY <3>1
    <3>2. <<Comma>> \in Seq(S)
      BY <3>1
    <3>3. <<Comma>> \o (a \o t) = (<<Comma>> \o a) \o t
      BY <3>2, Together
    <3>4. <<Comma>> \o a \in Seq(S)
      BY <3>2
    <3>5. text \o ((<<Comma>> \o a) \o t) = (text \o (<<Comma>> \o a)) \o t
      <4> DEFINE c == <<Comma>> \o a
      <4>1. c \in Seq(S)
        BY <3>4
      <4> HIDE DEF c
      <4>2. text \o (c \o t) = (text \o c) \o t
        BY <4>1, Together
      <4> QED
        BY <4>2 DEF c
    <3> QED
      BY <2>1, <2>5, <3>3, <3>5
  <2> QED
    BY <2>8, <2>9, <1>same DEF InnerInv, t
<1>rest. RestInv'
  BY <1>kept DEF RewrittenInv, RestInv
<1> QED
  BY <1>orderinv, <1>columnsinv, <1>added, <1>inner, <1>rest DEF RewrittenInv

-----------------------------------------------------------------------------
(* The inductive invariant.                                                *)

\* What the driver is given, and for which type of parameters.
Sent(type, utf8) ==
  [sql    |-> FormatSql(InnerSelect, Len(Params(type))),
   params |-> FormatParams(Params(type), utf8),
   utf8   |-> utf8]

\* The inductive invariant.
RewritingInv ==
  /\ Given
  /\ step \in {"scan", "order", "done", "sent", "failed"}
  /\ step = "scan" => ScanInv /\ newOrder = <<>>
  /\ Ended => RewrittenInv
  /\ step = "sent" => \E type \in Types, utf8 \in BOOLEAN : sent = Sent(type, utf8)

\* A statement that is not touched.
LEMMA RewrittenStays ==
  ASSUME RewrittenInv,
         selected' = selected, from' = from, ordering' = ordering, columns' = columns,
         outer' = outer, rest' = rest, newOrder' = newOrder,
         step' = "sent" => step \in {"done", "sent"}, step' = "order" => step = "order",
         step' = "done" => step = "done"
  PROVE  RewrittenInv'
<1>1. /\ AddedColumns' = AddedColumns /\ \A n : Added(n)' = Added(n)
      /\ \A k : Inner(k)' = Inner(k) /\ \A x : FalseHit(x)' = FalseHit(x)
      /\ InnerTexts' = InnerTexts /\ SelectedTexts' = SelectedTexts /\ Additions' = Additions
      /\ SelectedNames' = SelectedNames /\ Wholes' = Wholes
  BY DEF AddedColumns, Added, Inner, FalseHit, InnerTexts, SelectedTexts, SelectedNames, Wholes,
         Additions
<1>2. ColumnsInv' = ColumnsInv /\ RestInv' = RestInv /\ InnerInv' = InnerInv
  BY <1>1 DEF ColumnsInv, IsSelected, RestInv, InnerInv
<1>3. AddedInv' = AddedInv
  BY <1>1 DEF AddedInv
<1>4. \A k : IsOrdered(k)' = IsOrdered(k)
  BY <1>1 DEF IsOrdered
<1>5. OrderInv => OrderInv'
  BY <1>4 DEF OrderInv
<1> QED
  BY <1>2, <1>3, <1>5 DEF RewrittenInv

\* It holds when the compiler starts, ...
LEMMA RewritingStarts ==
  ASSUME RewritingInit
  PROVE  RewritingInv
<1>1. Given /\ ScanInv
  BY ScanInit
<1> QED
  BY <1>1 DEF RewritingInv, RewritingInit, Ended

\* ... and every step keeps it.
LEMMA RewritingStep ==
  ASSUME RewritingInv, [RewritingNext]_rewritingVars
  PROVE  RewritingInv'
<1>given. Given
  BY DEF RewritingInv
<1>1. CASE Scan
  <2>1. step = "scan" /\ step' = "scan" /\ newOrder' = newOrder
    BY <1>1 DEF Scan
  <2>2. ScanInv /\ newOrder = <<>>
    BY <2>1 DEF RewritingInv
  <2>3. Given' /\ ScanInv'
    BY <1>1, <1>given, <2>2, ScanKeeps
  <2> QED
    BY <2>1, <2>2, <2>3 DEF RewritingInv, Ended
<1>2. CASE ScanFails
  BY <1>2, <1>given DEF ScanFails, RewritingInv, Ended, Given
<1>3. CASE AliasColumns
  <2>1. ScanInv /\ newOrder = <<>>
    BY <1>3 DEF AliasColumns, RewritingInv
  <2>2. /\ Given' /\ step' \in {"order", "failed"}
        /\ step' = "order" => RewrittenInv'
    BY <1>3, <1>given, <2>1, AliasKeeps
  <2> QED
    BY <2>2 DEF RewritingInv, Ended
<1>4. CASE FixSlicingOrder
  <2>1. step = "order" /\ step' \in {"order", "done"} /\ RewrittenInv
    BY <1>4 DEF FixSlicingOrder, RewritingInv, Ended
  <2>2. Given'
    BY <1>4, <1>given DEF FixSlicingOrder, Given
  <2>3. RewrittenInv'
    <3>1. Len(newOrder) + 1 \in Nat
      BY <2>1 DEF RewrittenInv, OrderInv
    <3> PICK m \in Nat : m = Len(newOrder) + 1
      BY <3>1
    <3>2. \/ /\ InInnerSelect(m) /\ columns' = columns
             /\ newOrder' = Append(newOrder, ordering[m].name)
          \/ AddsColumn(m)
      BY <1>4 DEF FixSlicingOrder, AddsColumn
    <3>3. CASE /\ InInnerSelect(m) /\ columns' = columns
               /\ newOrder' = Append(newOrder, ordering[m].name)
      BY <3>3, <1>4, <1>given, <2>1, FoundKeeps
    <3>4. CASE AddsColumn(m)
      BY <3>4, <1>4, <1>given, <2>1, AddedKeeps
    <3> QED
      BY <3>2, <3>3, <3>4
  <2> QED
    BY <2>1, <2>2, <2>3 DEF RewritingInv, Ended
<1>5. ASSUME NEW type \in Types, NEW utf8 \in BOOLEAN, Execute(type, utf8)
      PROVE  RewritingInv'
  <2>1. /\ step = "done" /\ step' = "sent" /\ RewrittenInv
        /\ selected' = selected /\ from' = from /\ ordering' = ordering /\ columns' = columns
        /\ outer' = outer /\ rest' = rest /\ newOrder' = newOrder
    BY <1>5 DEF Execute, RewritingInv, Ended
  <2>2. RewrittenInv'
    BY <2>1, RewrittenStays
  <2>3. Given'
    BY <1>given, <2>1 DEF Given
  <2>4. sent' = Sent(type, utf8)'
    BY <1>5, <2>1 DEF Execute, Sent, InnerSelect, Params, sql
  <2> QED
    BY <2>1, <2>2, <2>3, <2>4 DEF RewritingInv, Ended
<1>6. CASE UNCHANGED rewritingVars
  <2>1. /\ step' = step /\ sent' = sent /\ pos' = pos /\ buffers' = buffers /\ parens' = parens
        /\ i' = i /\ selected' = selected /\ from' = from /\ ordering' = ordering
        /\ columns' = columns /\ outer' = outer /\ rest' = rest /\ newOrder' = newOrder
    BY <1>6 DEF rewritingVars
  <2>2. Given' /\ (ScanInv => ScanInv')
    BY <2>1, <1>given DEF Given, ScanInv, sql
  <2>3. RewrittenInv => RewrittenInv'
    BY <2>1, RewrittenStays
  <2>4. \A type, utf8 : Sent(type, utf8)' = Sent(type, utf8)
    BY <2>1 DEF Sent, InnerSelect, Params, sql
  <2> QED
    BY <2>1, <2>2, <2>3, <2>4 DEF RewritingInv, Ended
<1> QED
  BY <1>1, <1>2, <1>3, <1>4, <1>5, <1>6 DEF RewritingNext

-----------------------------------------------------------------------------
(* The properties.                                                         *)

\* It implies TextIsKept, ...
LEMMA TextIsKeptHolds ==
  ASSUME RewritingInv
  PROVE  TextIsKept
<1>1. step = "scan" => Expand(Joined(buffers), parens) = SubSeq(sql, 1, pos)
  BY DEF RewritingInv, ScanInv, Scanned
<1>2. Ended /\ Percents \notin Range(from) => rest = from
  BY DEF RewritingInv, RewrittenInv, RestInv
<1> QED
  BY <1>1, <1>2 DEF TextIsKept

\* The names of the columns.
LEMMA ColumnNames ==
  ASSUME Given, RewrittenInv, NoneLooksAliased
  PROVE  /\ Len(selected) \in Nat \ {0} /\ AddedColumns \in Nat
         /\ Len(columns) = AddedColumns + Len(selected) /\ DOMAIN columns = 1..Len(columns)
         /\ DOMAIN selected = 1..Len(selected)
         /\ \A k \in 1..Len(selected) :
              /\ SelectedNames[k] = Last(selected[k]).name
              /\ SelectedNames[k] \in Names /\ SelectedNames[k].suffix = <<>>
              /\ Inner(k) = columns[AddedColumns + k]
              /\ Inner(k).name = AliasOf(SelectedNames, k) /\ Inner(k).name \in Names
              /\ outer[k] = Inner(k).name
              /\ \/ Inner(k).name.suffix = <<>>
                 \/ \E n \in Nat : Inner(k).name.suffix = <<Alias("seen", n)>>
<1>selected. Len(selected) \in Nat \ {0} /\ DOMAIN selected = 1..Len(selected)
  BY GivenTypes
<1>columns. /\ columns \in Seq([tokens: Seq(Tokens), name: Names])
            /\ Len(columns) >= Len(selected) /\ \A k \in 1..Len(selected) : IsSelected(k)
  BY DEF RewrittenInv, ColumnsInv
<1>typed. Len(columns) \in Nat /\ DOMAIN columns = 1..Len(columns)
  BY <1>columns, ColumnTypes
<1>added. AddedColumns \in Nat /\ Len(columns) = AddedColumns + Len(selected)
  BY <1>selected, <1>columns, <1>typed DEF AddedColumns
<1>each. ASSUME NEW k \in 1..Len(selected)
         PROVE  /\ SelectedNames[k] = Last(selected[k]).name
                /\ SelectedNames[k] \in Names /\ SelectedNames[k].suffix = <<>>
                /\ Inner(k) = columns[AddedColumns + k]
                /\ Inner(k).name = AliasOf(SelectedNames, k) /\ Inner(k).name \in Names
                /\ outer[k] = Inner(k).name
                /\ \/ Inner(k).name.suffix = <<>>
                   \/ \E n \in Nat : Inner(k).name.suffix = <<Alias("seen", n)>>
  <2>1. /\ Last(selected[k]) \in Tokens /\ Inner(k).name = AliasOf(SelectedNames, k)
        /\ outer[k] = Inner(k).name
    BY <1>columns DEF IsSelected
  <2>2. SelectedNames[k] = Last(selected[k]).name /\ SelectedNames[k] \in Names
    BY <2>1, TokenTypes DEF SelectedNames
  <2>3. SelectedNames[k].suffix = <<>>
    BY <2>2, <1>selected DEF NoneLooksAliased, SourceNames
  <2>4. Inner(k) = columns[AddedColumns + k]
    BY DEF Inner, AddedColumns
  <2>5. /\ AliasOf(SelectedNames, k) \in Names
        /\ AliasOf(SelectedNames, k).suffix =
             IF Earlier(SelectedNames, k) = {} THEN SelectedNames[k].suffix
             ELSE Append(SelectedNames[k].suffix, Alias("seen", Cardinality(Earlier(SelectedNames, k))))
        /\ Cardinality(Earlier(SelectedNames, k)) \in Nat
    BY <2>2, <1>selected, AliasOfIs, EarlierFinite
  <2>6. \/ Inner(k).name.suffix = <<>>
        \/ \E n \in Nat : Inner(k).name.suffix = <<Alias("seen", n)>>
    BY <2>1, <2>3, <2>5
  <2> QED
    BY <2>1, <2>2, <2>3, <2>4, <2>5, <2>6
<1> QED
  BY <1>selected, <1>typed, <1>added, <1>each

\* Those of the added columns.
LEMMA AddedNames ==
  ASSUME Given, RewrittenInv, NEW n \in 1..AddedColumns, AddedColumns \in Nat
  PROVE  \E m \in 1..Len(newOrder) :
           /\ m \in 1..Len(ordering) /\ ordering[m] \in Tokens
           /\ Added(n).tokens = <<Open, ordering[m], Close>>
           /\ Added(n).name = Aliased(ordering[m].name, "order", n)
           /\ Added(n).name \in Names /\ ordering[m].name \in Names
           /\ Added(n).name.suffix = Append(ordering[m].name.suffix, Alias("order", n))
<1>1. PICK m \in 1..Len(newOrder) :
             Added(n) = [tokens |-> <<Open, ordering[m], Close>>,
                         name   |-> Aliased(ordering[m].name, "order", n)]
  BY DEF RewrittenInv, AddedInv
<1>2. m \in 1..Len(ordering) /\ ordering[m] \in Tokens
  <2>1. /\ ordering \in Seq(SourceTokens) /\ Len(ordering) \in Nat
        /\ Len(newOrder) \in Nat /\ Len(newOrder) <= Len(ordering)
    BY RewritingAssumption DEF RewrittenInv, OrderInv, Given
  <2> QED
    BY <2>1, SourceTypes
<1>3. ordering[m].name \in Names /\ n \in Nat
  BY <1>2, TokenTypes
<1>4. /\ Aliased(ordering[m].name, "order", n) \in Names
      /\ Aliased(ordering[m].name, "order", n).suffix
           = Append(ordering[m].name.suffix, Alias("order", n))
  BY <1>3, AliasedIs
<1>5. Added(n).tokens = <<Open, ordering[m], Close>>
      /\ Added(n).name = Aliased(ordering[m].name, "order", n)
  BY <1>1
<1> QED
  BY <1>2, <1>3, <1>4, <1>5

\* An added column has a name of its own: its last alias is "order" with its number.
LEMMA AddedApart ==
  ASSUME Given, RewrittenInv, NoneLooksAliased, NEW n \in 1..AddedColumns
  PROVE  /\ Added(n).name \in Names
         /\ \A k \in 1..Len(selected) : ~ Same(Added(n).name, Inner(k).name)
         /\ \A m \in 1..AddedColumns : m # n => ~ Same(Added(n).name, Added(m).name)
<1>names. /\ AddedColumns \in Nat
          /\ \A k \in 1..Len(selected) :
               /\ Inner(k).name \in Names
               /\ \/ Inner(k).name.suffix = <<>>
                  \/ \E j \in Nat : Inner(k).name.suffix = <<Alias("seen", j)>>
  BY ColumnNames
<1>ends. ASSUME NEW m \in 1..AddedColumns
         PROVE  /\ Added(m).name \in Names
                /\ \E s \in AliasLists : /\ Added(m).name.suffix = Append(s, Alias("order", m))
                                       /\ Alias("order", m) \in [what: {"seen", "order"}, n: Nat]
  <2>1. PICK j \in 1..Len(newOrder) :
               /\ Added(m).name \in Names /\ ordering[j].name \in Names
               /\ Added(m).name.suffix = Append(ordering[j].name.suffix, Alias("order", m))
    BY <1>names, AddedNames
  <2>2. ordering[j].name.suffix \in AliasLists
    BY <2>1, NameIs
  <2>3. Alias("order", m) \in [what: {"seen", "order"}, n: Nat]
    BY <1>names DEF Alias
  <2> QED
    BY <2>1, <2>2, <2>3
<1>apart. ASSUME NEW s \in AliasLists, NEW t \in AliasLists,
                 NEW e \in [what: {"seen", "order"}, n: Nat],
                 NEW f \in [what: {"seen", "order"}, n: Nat], e # f
          PROVE  Append(s, e) # Append(t, f) /\ Append(s, e) # <<>> /\ Append(s, e) # <<f>>
  <2> DEFINE A == [what: {"seen", "order"}, n: Nat]
  <2>1. s \in Seq(A) /\ t \in Seq(A) /\ e \in A /\ f \in A
    BY DEF AliasLists
  <2> HIDE DEF A
  <2>2. /\ Append(s, e)[Len(Append(s, e))] = e /\ Append(t, f)[Len(Append(t, f))] = f
        /\ Len(Append(s, e)) \in Nat \ {0} /\ <<f>>[Len(<<f>>)] = f
    BY <2>1
  <2>3. Append(s, e) # Append(t, f)
    BY <2>2, <1>apart
  <2>4. Append(s, e) # <<>>
    BY <2>1
  <2>5. Append(s, e) # <<f>>
    BY <2>2, <1>apart
  <2> QED
    BY <2>3, <2>4, <2>5
<1>inner. ASSUME NEW k \in 1..Len(selected)
          PROVE  ~ Same(Added(n).name, Inner(k).name)
  <2>1. PICK s \in AliasLists : /\ Added(n).name.suffix = Append(s, Alias("order", n))
                              /\ Alias("order", n) \in [what: {"seen", "order"}, n: Nat]
    BY <1>ends
  <2>2. CASE Inner(k).name.suffix = <<>>
    <3>1. Alias("seen", 0) \in [what: {"seen", "order"}, n: Nat] /\ Alias("seen", 0) # Alias("order", n)
      BY DEF Alias
    <3>2. Append(s, Alias("order", n)) # <<>>
      BY <2>1, <3>1, <1>apart
    <3> QED
      BY <3>2, <2>1, <2>2, <1>names, <1>ends, SameIs
  <2>3. CASE \E j \in Nat : Inner(k).name.suffix = <<Alias("seen", j)>>
    <3>1. PICK j \in Nat : Inner(k).name.suffix = <<Alias("seen", j)>>
      BY <2>3
    <3>2. Alias("seen", j) \in [what: {"seen", "order"}, n: Nat] /\ Alias("seen", j) # Alias("order", n)
      BY DEF Alias
    <3>3. Append(s, Alias("order", n)) # <<Alias("seen", j)>>
      BY <2>1, <3>2, <1>apart
    <3> QED
      BY <3>1, <3>3, <2>1, <1>names, <1>ends, SameIs
  <2> QED
    BY <2>2, <2>3, <1>names
<1>added. ASSUME NEW m \in 1..AddedColumns, m # n
          PROVE  ~ Same(Added(n).name, Added(m).name)
  <2>1. PICK s \in AliasLists : /\ Added(n).name.suffix = Append(s, Alias("order", n))
                              /\ Alias("order", n) \in [what: {"seen", "order"}, n: Nat]
    BY <1>ends
  <2>2. PICK t \in AliasLists : /\ Added(m).name.suffix = Append(t, Alias("order", m))
                              /\ Alias("order", m) \in [what: {"seen", "order"}, n: Nat]
    BY <1>ends
  <2>3. Alias("order", n) # Alias("order", m)
    BY <1>added DEF Alias
  <2>4. Append(s, Alias("order", n)) # Append(t, Alias("order", m))
    BY <2>1, <2>2, <2>3, <1>apart
  <2> QED
    BY <2>1, <2>2, <2>4, <1>ends, SameIs
<1> QED
  BY <1>ends, <1>inner, <1>added

\* So have all columns of [AAAA].
LEMMA NamesApart ==
  ASSUME Given, RewrittenInv, NoneLooksAliased
  PROVE  \A k, m \in 1..Len(columns) :
           /\ columns[k].name \in Names
           /\ k # m => ~ Same(columns[k].name, columns[m].name)
<1>names. /\ Len(selected) \in Nat \ {0} /\ AddedColumns \in Nat
          /\ Len(columns) = AddedColumns + Len(selected)
          /\ \A k \in 1..Len(selected) :
              /\ SelectedNames[k] \in Names /\ SelectedNames[k].suffix = <<>>
              /\ Inner(k) = columns[AddedColumns + k]
              /\ Inner(k).name = AliasOf(SelectedNames, k) /\ Inner(k).name \in Names
  BY ColumnNames
<1>which. ASSUME NEW k \in 1..Len(columns)
          PROVE  \/ AddedColumns - k + 1 \in 1..AddedColumns
                      /\ columns[k] = Added(AddedColumns - k + 1)
                 \/ k - AddedColumns \in 1..Len(selected)
                      /\ columns[k] = Inner(k - AddedColumns)
  <2>1. CASE k <= AddedColumns
    <3>1. /\ AddedColumns - k + 1 \in 1..AddedColumns
          /\ AddedColumns - (AddedColumns - k + 1) + 1 = k
      BY <2>1, <1>names
    <3> QED
      BY <3>1 DEF Added
  <2>2. CASE k > AddedColumns
    <3>1. k - AddedColumns \in 1..Len(selected) /\ AddedColumns + (k - AddedColumns) = k
      BY <2>2, <1>names
    <3> QED
      BY <3>1, <1>names
  <2> QED
    BY <2>1, <2>2, <1>names
<1>typed. ASSUME NEW k \in 1..Len(columns) PROVE columns[k].name \in Names
  BY <1>which, <1>names, AddedApart
<1>turned. ASSUME NEW k \in 1..Len(columns), NEW m \in 1..Len(columns)
           PROVE  Same(columns[k].name, columns[m].name) <=> Same(columns[m].name, columns[k].name)
  BY DEF Same
<1>selected. ASSUME NEW k \in 1..Len(selected), NEW m \in 1..Len(selected), k # m
             PROVE  ~ Same(Inner(k).name, Inner(m).name)
  <2>1. k \in Nat \ {0} /\ m \in Nat \ {0}
    BY <1>names
  <2> QED
    BY <2>1, <1>names, <1>selected, AliasesDiffer
<1>apart. ASSUME NEW k \in 1..Len(columns), NEW m \in 1..Len(columns), k # m
          PROVE  ~ Same(columns[k].name, columns[m].name)
  <2>1. CASE AddedColumns - k + 1 \in 1..AddedColumns
               /\ columns[k] = Added(AddedColumns - k + 1)
    <3>1. CASE AddedColumns - m + 1 \in 1..AddedColumns
                 /\ columns[m] = Added(AddedColumns - m + 1)
      <4>1. AddedColumns - m + 1 # AddedColumns - k + 1
        BY <1>apart, <1>names
      <4> QED
        BY <4>1, <2>1, <3>1, AddedApart
    <3>2. CASE m - AddedColumns \in 1..Len(selected) /\ columns[m] = Inner(m - AddedColumns)
      BY <2>1, <3>2, AddedApart
    <3> QED
      BY <3>1, <3>2, <1>which
  <2>2. CASE k - AddedColumns \in 1..Len(selected) /\ columns[k] = Inner(k - AddedColumns)
    <3>1. CASE AddedColumns - m + 1 \in 1..AddedColumns
                 /\ columns[m] = Added(AddedColumns - m + 1)
      BY <2>2, <3>1, <1>turned, AddedApart
    <3>2. CASE m - AddedColumns \in 1..Len(selected) /\ columns[m] = Inner(m - AddedColumns)
      <4>1. m - AddedColumns # k - AddedColumns
        BY <1>apart, <1>names
      <4> QED
        BY <4>1, <2>2, <3>2, <1>selected
    <3> QED
      BY <3>1, <3>2, <1>which
  <2> QED
    BY <2>1, <2>2, <1>which
<1> QED
  BY <1>typed, <1>apart

\* ... NamesDiffer, ...
LEMMA NamesDifferHolds ==
  ASSUME RewritingInv
  PROVE  NamesDiffer
<1> SUFFICES ASSUME step = "done", NoneLooksAliased
             PROVE  /\ \A k, m \in DOMAIN columns :
                         k # m => ~ Same(columns[k].name, columns[m].name)
                    /\ \A k \in DOMAIN selected : outer[k] = Inner(k).name
  BY DEF NamesDiffer
<1>1. Given /\ RewrittenInv
  BY DEF RewritingInv, Ended
<1>2. /\ DOMAIN columns = 1..Len(columns) /\ DOMAIN selected = 1..Len(selected)
      /\ \A k \in 1..Len(selected) : outer[k] = Inner(k).name
  BY <1>1, ColumnNames
<1> QED
  BY <1>1, <1>2, NamesApart

\* Where the k-th name of the new ORDER BY is found, if the old one is no false hit
\* and not shadowed: the first column that is what the old one names bears no alias.
LEMMA OrderedColumn ==
  ASSUME Given, RewrittenInv, NoneLooksAliased,
         NEW k \in 1..Len(newOrder), ~ FalseHit(ordering[k]), ~ Shadowed(ordering[k])
  PROVE  \E m \in 1..Len(columns) :
           columns[m].name = newOrder[k] /\ IsOf(columns[m], ordering[k])
<1>names. /\ Len(selected) \in Nat \ {0} /\ AddedColumns \in Nat
          /\ Len(columns) = AddedColumns + Len(selected)
          /\ DOMAIN selected = 1..Len(selected)
          /\ \A m \in 1..Len(selected) :
              /\ SelectedNames[m] = Last(selected[m]).name
              /\ SelectedNames[m] \in Names
              /\ Inner(m) = columns[AddedColumns + m]
              /\ Inner(m).name = AliasOf(SelectedNames, m)
  BY ColumnNames
<1>columns. /\ columns \in Seq([tokens: Seq(Tokens), name: Names])
            /\ \A m \in 1..Len(selected) : IsSelected(m)
  BY DEF RewrittenInv, ColumnsInv
<1>ordered. IsOrdered(k)
  BY DEF RewrittenInv, OrderInv
<1>selected. CASE \E m \in 1..Len(selected) :
                    Last(selected[m]) = ordering[k] /\ newOrder[k] = ordering[k].name
  <2> DEFINE found == {j \in 1..Len(selected) : Last(selected[j]) = ordering[k]}
  <2>0. newOrder[k] = ordering[k].name /\ found # {} /\ found \subseteq Nat
    BY <1>selected, <1>names
  <2>1. PICK m \in found : \A j \in found : m <= j
    BY <2>0, Least
  <2>first. /\ m \in 1..Len(selected) /\ Last(selected[m]) = ordering[k]
            /\ \A j \in 1..Len(selected) : j < m => Last(selected[j]) # ordering[k]
    BY <2>1, <1>names
  <2> HIDE DEF found
  <2>2. Earlier(SelectedNames, m) = {}
    <3>1. ASSUME NEW j \in 1..m - 1, Folded(SelectedNames[j]) = Folded(SelectedNames[m]) PROVE FALSE
      <4>1. j \in 1..Len(selected) /\ j < m
        BY <2>first, <1>names
      <4>2. \A l \in 1..j : Last(selected[l]) # ordering[k]
        <5>1. ASSUME NEW l \in 1..j PROVE l \in 1..Len(selected) /\ l < m
          BY <4>1, <1>names, <2>first
        <5> QED
          BY <5>1, <2>first
      <4>3. Same(Last(selected[j]).name, ordering[k].name)
        BY <3>1, <4>1, <2>first, <1>names DEF Same
      <4> QED
        BY <4>1, <4>2, <4>3, <2>first, <1>names DEF Shadowed
    <3> QED
      BY <3>1 DEF Earlier
  <2>3. Inner(m).name = newOrder[k]
    BY <2>0, <2>first, <2>2, <1>names, AliasOfIs
  <2>4. AddedColumns + m \in 1..Len(columns) /\ columns[AddedColumns + m].name = newOrder[k]
    BY <2>3, <2>first, <1>names
  <2>5. Last(columns[AddedColumns + m].tokens) = ordering[k]
    BY <2>first, <1>columns, <1>names DEF IsSelected
  <2> QED
    BY <2>4, <2>5 DEF IsOf
<1>added. CASE \E n \in 1..AddedColumns :
                 newOrder[k] = Added(n).name /\ Added(n).tokens = <<Open, ordering[k], Close>>
  <2>1. PICK n \in 1..AddedColumns :
               newOrder[k] = Added(n).name /\ Added(n).tokens = <<Open, ordering[k], Close>>
    BY <1>added
  <2> DEFINE m == AddedColumns - n + 1
  <2>2. m \in 1..Len(columns)
    BY <1>names
  <2>3. columns[m].name = newOrder[k] /\ columns[m].tokens = <<Open, ordering[k], Close>>
    BY <2>1 DEF Added
  <2> QED
    BY <2>2, <2>3 DEF IsOf
<1> QED
  BY <1>ordered, <1>selected, <1>added DEF IsOrdered

\* ... OrderIsKept, ...
LEMMA OrderIsKeptHolds ==
  ASSUME RewritingInv
  PROVE  OrderIsKept
<1> SUFFICES ASSUME step = "done", NoneLooksAliased,
                    NEW k \in DOMAIN ordering, ~ FalseHit(ordering[k]), ~ Shadowed(ordering[k])
             PROVE  \E m \in DOMAIN columns :
                      Denoted(newOrder[k]) = {m} /\ IsOf(columns[m], ordering[k])
  BY DEF OrderIsKept
<1>1. Given /\ RewrittenInv
  BY DEF RewritingInv, Ended
<1>2. k \in 1..Len(newOrder)
  <2>1. ordering \in Seq(SourceTokens) /\ Len(newOrder) = Len(ordering)
    BY <1>1, RewritingAssumption DEF Given, RewrittenInv, OrderInv
  <2> QED
    BY <2>1
<1>3. DOMAIN columns = 1..Len(columns)
  BY <1>1, ColumnNames
<1>4. PICK m \in 1..Len(columns) :
             columns[m].name = newOrder[k] /\ IsOf(columns[m], ordering[k])
  BY <1>1, <1>2, OrderedColumn
<1>5. \A j \in 1..Len(columns) : Same(columns[j].name, newOrder[k]) <=> j = m
  <2>1. Same(columns[m].name, newOrder[k])
    BY <1>4 DEF Same
  <2> QED
    BY <1>1, <1>4, <2>1, NamesApart
<1>6. Denoted(newOrder[k]) = {m}
  BY <1>3, <1>5 DEF Denoted
<1> QED
  BY <1>3, <1>4, <1>6

-----------------------------------------------------------------------------
(* What the driver is given.                                               *)

\* Columns without parentheses and parameters come out as they went in.
LEMMA PlainColumns ==
  ASSUME Given, RewrittenInv, ColumnsArePlain
  PROVE  SelectedTexts = selected
<1>given. /\ selected \in Seq(Seq(Tokens)) /\ Len(selected) \in Nat /\ DOMAIN selected = 1..Len(selected)
          /\ \A k \in 1..Len(selected) :
               selected[k] \in Seq(SourceTokens) /\ selected[k] \in Seq(Tokens) /\ Balanced(selected[k])
  BY GivenTypes
<1>texts. SelectedTexts \in Seq(Seq(Tokens)) /\ Len(SelectedTexts) = Len(selected)
  BY SelectedTextsAre DEF RewrittenInv
<1>each. ASSUME NEW k \in 1..Len(selected) PROVE SelectedTexts[k] = selected[k]
  <2> DEFINE t == SelectedTexts[k]
             s == selected[k]
  <2>1. t \in Seq(Tokens) /\ Alike(t, Whole(s))
    <3>1. SelectedTexts[k] = Inner(k).tokens
      BY DEF SelectedTexts
    <3>2. Alike(Inner(k).tokens, Wholes[k])
      BY DEF RewrittenInv, ColumnsInv, IsSelected
    <3> QED
      BY <3>1, <3>2, <1>texts DEF Wholes
  <2>2. /\ s \in Seq(SourceTokens) /\ s \in Seq(Tokens) /\ Balanced(s)
        /\ \A m \in 1..Len(s) : s[m] # Open /\ s[m] # Param
    <3>1. Range(s) \cap {Open, Param} = {} /\ s \in Seq(SourceTokens) /\ s \in Seq(Tokens) /\ Balanced(s)
      BY <1>given DEF ColumnsArePlain
    <3> HIDE DEF s
    <3>2. \A m \in 1..Len(s) : s[m] \in Range(s)
      BY <3>1 DEF Range
    <3> QED
      BY <3>1, <3>2
  <2> HIDE DEF t, s
  <2>3. Whole(s) = s
    BY <2>2, WholePlain
  <2>4. ASSUME NEW m \in 1..Len(s) PROVE ~ Hole(s[m])
    <3>1. s[m] \in SourceTokens /\ s[m] # Param
      BY <2>2
    <3>2. s[m].kind # "placeholder" /\ s[m].kind # "param"
      BY <3>1, SourceTypes, TokenKinds DEF SourceTokens
    <3> QED
      BY <3>2 DEF Hole
  <2>5. Len(t) = Len(s) /\ \A m \in 1..Len(t) : t[m] = s[m]
    BY <2>1, <2>3, <2>4 DEF Alike, LikeToken
  <2>6. t = s
    BY <2>1, <2>2, <2>5
  <2> QED
    BY <2>6 DEF t, s
<1> QED
  BY <1>given, <1>texts, <1>each, SameTexts

\* The tokens of a statement before it is formatted, and those without a parameter.
Formattable == {x \in Tokens : x.kind \notin {"percent", "placeholder", "question"}}
\* Tokens that no value is bound to.
Parameterless == {x \in Formattable : x # Param}

\* The inner SELECT is the old statement with columns in front of it.
LEMMA PlainInner ==
  ASSUME Given, RewrittenInv, ColumnsArePlain, Percents \notin Range(from)
  PROVE  /\ sql \in Seq(Formattable)
         /\ \E a \in Seq(Parameterless) : InnerSelect = a \o sql
<1>given. /\ from \in Seq(Tokens) /\ Separated(selected) \in Seq(Tokens)
          /\ sql = Separated(selected) \o from /\ sql \in Seq(SourceTokens)
  BY GivenTypes
<1>sql. sql \in Seq(Formattable)
  <2>1. SourceTokens \subseteq Formattable
    BY SourceTypes, TokenKinds DEF Formattable, SourceTokens
  <2> HIDE DEF sql
  <2> QED
    BY <2>1, <1>given
<1>rest. rest = from
  BY DEF RewrittenInv, RestInv
<1>texts. SelectedTexts = selected
  BY PlainColumns
<1>inner. \E a \in Seq(Additions) : InnerSelect = (a \o Separated(selected)) \o from
  BY <1>rest, <1>texts, InnerSelectIs
<1> PICK a \in Seq(Additions) : InnerSelect = (a \o Separated(selected)) \o from
  BY <1>inner
<1>additions. Additions \subseteq Parameterless
  <2>1. ASSUME NEW m \in 1..Len(newOrder) PROVE ordering[m] \in Tokens /\ ordering[m].kind = "name"
    <3>1. /\ ordering \in Seq(SourceTokens) /\ m \in DOMAIN ordering
          /\ \A k \in DOMAIN ordering : ordering[k].kind = "name"
      <4>1. /\ ordering \in Seq(SourceTokens) /\ \A k \in DOMAIN ordering : ordering[k].kind = "name"
        BY RewritingAssumption DEF Given
      <4>2. Len(newOrder) \in Nat /\ Len(newOrder) <= Len(ordering)
        BY DEF RewrittenInv, OrderInv
      <4> QED
        BY <4>1, <4>2
    <3> QED
      BY <3>1, SourceTypes
  <2> QED
    BY <2>1, TokenKinds DEF Additions, Parameterless, Formattable
<1>a. a \in Seq(Parameterless)
  BY <1>additions
<1>together. InnerSelect = a \o sql
  <2> DEFINE s == Separated(selected)
  <2>1. a \in Seq(Tokens) /\ s \in Seq(Tokens) /\ from \in Seq(Tokens)
    BY <1>a, <1>given DEF Parameterless, Formattable
  <2> HIDE DEF s
  <2>2. (a \o s) \o from = a \o (s \o from)
    BY <2>1, Together, TokenKinds
  <2> QED
    BY <2>2, <1>given DEF s
<1> QED
  BY <1>sql, <1>a, <1>together

\* A text in front that has no token of the kind does not change how many there are.
IsBehind(text, other, token, l, n) ==
  /\ \A k \in 1..l : text[k] # token
  /\ \A k \in 1..n : text[l + k] = other[k]

\* A token is counted the same behind a text that does not have it.
LEMMA AmongShifted ==
  ASSUME NEW text, NEW other, NEW token, NEW l \in Nat, NEW n \in Nat,
         IsBehind(text, other, token, l, n)
  PROVE  Among(text, token, l + n) = Among(other, token, n)
<1> DEFINE Good(m) == m <= n => Among(text, token, l + m) = Among(other, token, m)
<1>0. Good(0)
  <2>1. {m \in 1..l : text[m] = token} = {}
    BY DEF IsBehind
  <2>2. Among(text, token, l) = 0
    BY <2>1, FS_EmptySet DEF Among
  <2>3. Among(other, token, 0) = 0
    BY AmongStep
  <2> QED
    BY <2>2, <2>3
<1>1. ASSUME NEW m \in Nat, Good(m) PROVE Good(m + 1)
  <2> SUFFICES ASSUME m + 1 <= n
               PROVE  Among(text, token, l + (m + 1)) = Among(other, token, m + 1)
    OBVIOUS
  <2>1. Among(text, token, l + m) = Among(other, token, m)
    BY <1>1
  <2>2. text[(l + m) + 1] = other[m + 1]
    <3>1. m + 1 \in 1..n /\ (l + m) + 1 = l + (m + 1)
      OBVIOUS
    <3> QED
      BY <3>1 DEF IsBehind
  <2>3. Among(text, token, (l + m) + 1)
          = Among(text, token, l + m) + (IF text[(l + m) + 1] = token THEN 1 ELSE 0)
    <3>1. l + m \in Nat
      OBVIOUS
    <3> HIDE DEF Good
    <3> QED
      BY <3>1, AmongStep
  <2>4. Among(other, token, m + 1)
          = Among(other, token, m) + (IF other[m + 1] = token THEN 1 ELSE 0)
    BY AmongStep
  <2>5. (l + m) + 1 = l + (m + 1)
    OBVIOUS
  <2> QED
    BY <2>1, <2>2, <2>3, <2>4, <2>5
<1> DEFINE T == {m \in Nat : Good(m)}
<1> HIDE DEF Good
<1>2. 0 \in T /\ \A m \in Nat : m \in T => m + 1 \in T
  BY <1>0, <1>1
<1> HIDE DEF T
<1>3. \A m \in Nat : m \in T
  BY <1>2, Counting
<1> QED
  BY <1>3 DEF T, Good

\* Count counts in all of a text.
LEMMA CountIsAmong ==
  ASSUME NEW S, NEW text \in Seq(S), NEW token
  PROVE  Count(text, token) = Among(text, token, Len(text)) /\ Count(text, token) \in Nat
<1>1. DOMAIN text = 1..Len(text) /\ Len(text) \in Nat
  OBVIOUS
<1>2. Count(text, token) = Among(text, token, Len(text))
  BY <1>1, Zenon DEF Count, Places, Among
<1>3. Among(text, token, Len(text)) \in Nat
  BY <1>1, AmongStep
<1> QED
  BY <1>2, <1>3

\* A text without the token adds nothing to its number.
LEMMA CountBehind ==
  ASSUME NEW S, NEW head \in Seq(S), NEW tail \in Seq(S), NEW token,
         \A k \in 1..Len(head) : head[k] # token
  PROVE  Count(head \o tail, token) = Count(tail, token)
<1> DEFINE text == head \o tail
<1>1. /\ Len(head) \in Nat /\ Len(tail) \in Nat /\ text \in Seq(S)
      /\ Len(text) = Len(head) + Len(tail)
      /\ \A k \in 1..Len(head) : text[k] = head[k]
      /\ \A k \in 1..Len(tail) : text[Len(head) + k] = tail[k]
  OBVIOUS
<1> HIDE DEF text
<1>2. IsBehind(text, tail, token, Len(head), Len(tail))
  BY <1>1 DEF IsBehind
<1>3. Among(text, token, Len(head) + Len(tail)) = Among(tail, token, Len(tail))
  BY <1>1, <1>2, AmongShifted
<1>4. /\ Count(text, token) = Among(text, token, Len(text))
      /\ Count(tail, token) = Among(tail, token, Len(tail))
  BY <1>1, CountIsAmong
<1> QED
  BY <1>1, <1>3, <1>4 DEF text

\* What ends with the elements of f has it as a suffix.
LEMMA SuffixIs ==
  ASSUME NEW S, NEW f \in Seq(S), NEW g \in Seq(S), NEW n \in Nat, NEW l \in Nat,
         l = Len(f), Len(g) = n + l, \A k \in 1..l : g[n + k] = f[k]
  PROVE  IsSuffix(f, g)
<1> DEFINE rf == Reverse(f)
           rg == Reverse(g)
<1>1. rf = [k \in 1..l |-> f[(l - k) + 1]]
  BY DEF Reverse
<1>2. rg = [k \in 1..n + l |-> g[((n + l) - k) + 1]]
  BY DEF Reverse
<1>3. \A k \in 1..l : (l - k) + 1 \in 1..l /\ ((n + l) - k) + 1 = n + ((l - k) + 1)
  OBVIOUS
<1>4. \A k \in 1..n + l : ((n + l) - k) + 1 \in 1..n + l
  OBVIOUS
<1>5. rf \in Seq(S) /\ Len(rf) = l
  BY <1>1, <1>3
<1>6. rg \in Seq(S) /\ Len(rg) = n + l
  <2> DEFINE m == n + l
  <2>1. m \in Nat /\ \A k \in 1..m : g[(m - k) + 1] \in S
    BY <1>4
  <2>2. rg = [k \in 1..m |-> g[(m - k) + 1]]
    BY <1>2
  <2> HIDE DEF m, rg
  <2>3. rg \in Seq(S) /\ Len(rg) = m
    BY <2>1, <2>2
  <2> QED
    BY <2>3 DEF m
<1>7. ASSUME NEW k \in 1..l PROVE rg[k] = rf[k]
  <2>1. rf[k] = f[(l - k) + 1]
    BY <1>1
  <2>2. rg[k] = g[n + ((l - k) + 1)]
    BY <1>2, <1>3
  <2> QED
    BY <2>1, <2>2, <1>3
<1> HIDE DEF rf, rg
<1>8. SubSeq(rf, 1, l) = rf /\ SubSeq(rg, 1, l) = rf
  BY <1>5, <1>6, <1>7
<1>9. Len(rf) <= Len(rg)
  BY <1>5, <1>6
<1> QED
  BY <1>5, <1>8, <1>9 DEF IsSuffix, IsPrefix, rf, rg

\* What the % formatting does to each token of a text.
LEMMA FormattedIs ==
  ASSUME NEW text \in Seq(Formattable)
  PROVE  /\ Formatted(text) \in Seq(Tokens) /\ Len(Formatted(text)) = Len(text)
         /\ \A k \in 1..Len(text) :
              /\ Formatted(text)[k] = IF text[k] = Param THEN Question
                                      ELSE IF text[k] = Percents THEN Percent ELSE text[k]
              /\ Formatted(text)[k] = Question <=> text[k] = Param
<1>kinds. /\ Param # Percents /\ Percent # Question
          /\ Question \in Tokens /\ Percent \in Tokens /\ Question \notin Formattable
  BY TokenKinds DEF Formattable
<1>length. Len(text) \in Nat /\ DOMAIN text = 1..Len(text)
           /\ \A k \in 1..Len(text) : text[k] \in Formattable /\ text[k] \in Tokens
  BY DEF Formattable
<1>text. Formatted(text) =
           [k \in 1..Len(text) |-> IF text[k] = Param THEN Question
                                   ELSE IF text[k] = Percents THEN Percent ELSE text[k]]
  BY <1>length, <1>kinds DEF Formatted
<1> DEFINE f == Formatted(text)
<1>1. /\ f = [k \in 1..Len(text) |-> IF text[k] = Param THEN Question
                                     ELSE IF text[k] = Percents THEN Percent ELSE text[k]]
  BY <1>text
<1> HIDE DEF f
<1>2. f \in Seq(Tokens) /\ Len(f) = Len(text)
  BY <1>1, <1>length, <1>kinds
<1>3. \A k \in 1..Len(text) :
        /\ f[k] = IF text[k] = Param THEN Question
                  ELSE IF text[k] = Percents THEN Percent ELSE text[k]
        /\ f[k] = Question <=> text[k] = Param
  BY <1>1, <1>length, <1>kinds
<1> QED
  BY <1>2, <1>3 DEF f

\* Formatting makes a ? of every %s and nothing else, and keeps the order.
LEMMA FormattedBehind ==
  ASSUME NEW head \in Seq(Parameterless), NEW tail \in Seq(Formattable), NEW n,
         n = Count(tail, Param)
  PROVE  /\ CanFormat(head \o tail, n)
         /\ IsSuffix(Formatted(tail), Formatted(head \o tail))
         /\ Count(Formatted(head \o tail), Question) = n
<1> DEFINE text == head \o tail
           f    == Formatted(tail)
           g    == Formatted(text)
<1>head. head \in Seq(Formattable) /\ \A k \in 1..Len(head) : head[k] # Param
  BY DEF Parameterless
<1>lengths. /\ Len(head) \in Nat /\ Len(tail) \in Nat /\ text \in Seq(Formattable)
            /\ Len(text) = Len(head) + Len(tail)
            /\ \A k \in 1..Len(tail) : text[Len(head) + k] = tail[k]
  BY <1>head
<1>count. Count(text, Param) = n
  BY <1>head, CountBehind
<1> HIDE DEF text
<1>can. CanFormat(text, n)
  <2>1. \A k \in DOMAIN text : text[k] \in Formattable
    BY <1>lengths
  <2> QED
    BY <2>1, <1>count DEF CanFormat, Formattable
<1>f. /\ f \in Seq(Tokens) /\ Len(f) = Len(tail)
      /\ \A k \in 1..Len(tail) :
           f[k] = IF tail[k] = Param THEN Question
                  ELSE IF tail[k] = Percents THEN Percent ELSE tail[k]
  BY FormattedIs
<1>g. /\ g \in Seq(Tokens) /\ Len(g) = Len(text)
      /\ \A k \in 1..Len(text) :
           /\ g[k] = IF text[k] = Param THEN Question
                     ELSE IF text[k] = Percents THEN Percent ELSE text[k]
           /\ g[k] = Question <=> text[k] = Param
  BY <1>lengths, FormattedIs
<1> HIDE DEF f, g
<1>behind. ASSUME NEW k \in 1..Len(tail) PROVE g[Len(head) + k] = f[k]
  <2>1. Len(head) + k \in 1..Len(text)
    BY <1>lengths
  <2> QED
    BY <2>1, <1>f, <1>g, <1>lengths
<1>suffix. IsSuffix(f, g)
  BY <1>behind, <1>lengths, <1>f, <1>g, SuffixIs
<1>places. Count(g, Question) = n
  <2>1. DOMAIN g = 1..Len(text) /\ DOMAIN text = 1..Len(text)
    BY <1>g, <1>lengths
  <2>2. Places(g, Question) = Places(text, Param)
    BY <2>1, <1>g DEF Places
  <2> QED
    BY <2>2, <1>count DEF Count
<1> QED
  BY <1>can, <1>suffix, <1>places DEF text, f, g

\* ... and ParametersAreBound.
LEMMA ParametersAreBoundHolds ==
  ASSUME RewritingInv
  PROVE  ParametersAreBound
<1> SUFFICES ASSUME step = "sent", ColumnsArePlain, Percents \notin Range(from)
             PROVE  /\ IsSuffix(Formatted(sql), sent.sql)
                    /\ Count(sent.sql, Question) = Len(sent.params)
                    /\ \A k \in DOMAIN sent.params :
                         /\ sent.params[k].place = k
                         /\ sent.params[k].type # "bool"
                         /\ sent.params[k].type = "bytes" => sent.utf8
  BY DEF ParametersAreBound
<1>inv. /\ Given /\ RewrittenInv
        /\ \E type \in Types, utf8 \in BOOLEAN : sent = Sent(type, utf8)
  BY DEF RewritingInv, Ended
<1> PICK type \in Types, utf8 \in BOOLEAN : sent = Sent(type, utf8)
  BY <1>inv
<1> DEFINE n == Count(sql, Param)
           params == Params(type)
<1>sql. /\ sql \in Seq(Formattable)
        /\ \E a \in Seq(Parameterless) : InnerSelect = a \o sql
  BY <1>inv, PlainInner
<1> PICK a \in Seq(Parameterless) : InnerSelect = a \o sql
  BY <1>sql
<1>n. n \in Nat
  BY <1>sql, CountIsAmong
<1>params. /\ params = [k \in 1..n |-> [type |-> type, place |-> k]] /\ Len(params) = n
           /\ DOMAIN params = 1..n
  BY <1>n DEF Params
<1>sent. /\ sent.sql = FormatSql(InnerSelect, n)
         /\ sent.params = FormatParams(params, utf8) /\ sent.utf8 = utf8
  BY <1>params DEF Sent
<1>formatted. /\ CanFormat(InnerSelect, n)
              /\ IsSuffix(Formatted(sql), Formatted(InnerSelect))
              /\ Count(Formatted(InnerSelect), Question) = n
  <2> DEFINE s == sql
  <2>1. s \in Seq(Formattable) /\ n = Count(s, Param) /\ InnerSelect = a \o s
    BY <1>sql
  <2> HIDE DEF s, n
  <2> QED
    BY <2>1, FormattedBehind DEF s
<1>result. sent.sql = Formatted(InnerSelect)
  BY <1>sent, <1>formatted DEF FormatSql
<1> HIDE DEF n, params
<1>bound. /\ DOMAIN sent.params = 1..n /\ Len(sent.params) = n
          /\ \A k \in 1..n : sent.params[k] =
               CASE params[k].type = "bytes" /\ ~ utf8 -> [params[k] EXCEPT !.type = "text"]
                 [] params[k].type = "bool"            -> [params[k] EXCEPT !.type = "int"]
                 [] OTHER                              -> params[k]
  BY <1>sent, <1>params, <1>n DEF FormatParams
<1>each. ASSUME NEW k \in 1..n
         PROVE  /\ sent.params[k].place = k
                /\ sent.params[k].type # "bool"
                /\ sent.params[k].type = "bytes" => utf8
  <2>1. params[k] = [type |-> type, place |-> k]
    BY <1>params
  <2>2. sent.params[k] =
               CASE type = "bytes" /\ ~ utf8 -> [type |-> "text", place |-> k]
                 [] type = "bool"            -> [type |-> "int", place |-> k]
                 [] OTHER                    -> [type |-> type, place |-> k]
    BY <2>1, <1>bound
  <2>3. CASE type = "bytes" /\ ~ utf8
    BY <2>2, <2>3
  <2>4. CASE type = "bool"
    BY <2>2, <2>4
  <2>5. CASE type # "bool" /\ ~ (type = "bytes" /\ ~ utf8)
    BY <2>2, <2>5
  <2> QED
    BY <2>3, <2>4, <2>5
<1> QED
  BY <1>result, <1>formatted, <1>bound, <1>each, <1>sent

-----------------------------------------------------------------------------
(* The theorems.                                                           *)

\* What every step of the rewriting keeps.
THEOREM RewritingInvariant == RewritingSpec => []RewritingInv
BY RewritingStarts, RewritingStep, PTL DEF RewritingSpec

\* What the loop of _alias_columns has replaced it can put back at any moment, whatever
\* the columns and however deep the parentheses; and FROM and WHERE come out as they
\* went in unless there is a %%.
THEOREM TextIsKeptTheorem == RewritingSpec => []TextIsKept
BY RewritingInvariant, TextIsKeptHolds, PTL

\* No two columns of [AAAA] have the same name, however many of the same name there are
\* and however many are added, and the outer SELECT has the names of its own.
THEOREM NamesDifferTheorem == RewritingSpec => []NamesDiffer
BY RewritingInvariant, NamesDifferHolds, PTL

\* A name of the new ORDER BY stands for one column of [AAAA], the one the old name meant,
\* unless that is selected behind another of its name, or only mentioned (property
\* OrderIsKept).
THEOREM OrderIsKeptTheorem == RewritingSpec => []OrderIsKept
BY RewritingInvariant, OrderIsKeptHolds, PTL

\* The driver gets one ? for every %s, in a statement that ends with Django's, and the
\* parameters in their order, of types it can bind.
THEOREM ParametersAreBoundTheorem == RewritingSpec => []ParametersAreBound
BY RewritingInvariant, ParametersAreBoundHolds, PTL

-----------------------------------------------------------------------------
(* Lookups: what is escaped.                                               *)

\* The characters are those that are escaped, "]" and the letters.
LEMMA CharacterTypes ==
  /\ {"\\", "[", "%", "_", "]", "a", "A"} = Characters
  /\ <<"\\", "\\">> \in Seq(Characters) /\ <<"[", "[", "]">> \in Seq(Characters)
  /\ <<"[", "%", "]">> \in Seq(Characters) /\ <<"[", "_", "]">> \in Seq(Characters)
  /\ <<>> \in Seq(Characters) /\ \A c \in Characters : <<c>> \in Seq(Characters)
BY DEF Characters

\* What Replaced puts in the place of one character.
Instead(c, char, by) == IF c = char THEN by ELSE <<c>>

\* The pieces of Replaced are texts.
LEMMA PiecesType ==
  ASSUME NEW text \in Seq(Characters), NEW char, NEW by \in Seq(Characters)
  PROVE  /\ [k \in DOMAIN text |-> Instead(text[k], char, by)] \in Seq(Seq(Characters))
         /\ Len([k \in DOMAIN text |-> Instead(text[k], char, by)]) = Len(text)
         /\ \A c \in Characters : Instead(c, char, by) \in Seq(Characters)
<1>1. \A c \in Characters : Instead(c, char, by) \in Seq(Characters)
  BY CharacterTypes DEF Instead
<1>2. \A k \in 1..Len(text) : Instead(text[k], char, by) \in Seq(Characters)
  BY <1>1
<1>3. DOMAIN text = 1..Len(text) /\ Len(text) \in Nat
  BY LenProperties
<1>4. [k \in 1..Len(text) |-> Instead(text[k], char, by)] \in Seq(Seq(Characters))
  BY <1>2, <1>3
<1> QED
  BY <1>1, <1>3, <1>4

\* Replaced, as putting pieces together.
LEMMA ReplacedIs ==
  ASSUME NEW text, NEW char, NEW by
  PROVE  Replaced(text, char, by) = FlattenSeq([k \in DOMAIN text |-> Instead(text[k], char, by)])
BY DEF Replaced, Instead

\* Replacing gives a text.
LEMMA ReplacedType ==
  ASSUME NEW text \in Seq(Characters), NEW char, NEW by \in Seq(Characters)
  PROVE  Replaced(text, char, by) \in Seq(Characters)
BY ReplacedIs, PiecesType, FlattenType

\* In nothing, nothing is replaced.
LEMMA ReplacedEmpty ==
  ASSUME NEW char, NEW by
  PROVE  Replaced(<<>>, char, by) = <<>>
<1>1. [k \in DOMAIN <<>> |-> Instead(<<>>[k], char, by)] = <<>>
  OBVIOUS
<1> QED
  BY <1>1, ReplacedIs, FlattenEmpty

\* A character more is one piece more.
LEMMA ReplacedAppend ==
  ASSUME NEW text \in Seq(Characters), NEW e \in Characters, NEW char, NEW by \in Seq(Characters)
  PROVE  Replaced(Append(text, e), char, by) = Replaced(text, char, by) \o Instead(e, char, by)
<1> DEFINE Pieces(t) == [k \in DOMAIN t |-> Instead(t[k], char, by)]
           more == Append(text, e)
<1>1. /\ Len(text) \in Nat /\ DOMAIN text = 1..Len(text)
      /\ more \in Seq(Characters) /\ DOMAIN more = 1..Len(text) + 1 /\ more[Len(text) + 1] = e
      /\ \A k \in 1..Len(text) : more[k] = text[k]
  BY AppendProperties, LenProperties
<1> HIDE DEF more
<1>2. Pieces(text) \in Seq(Seq(Characters)) /\ Len(Pieces(text)) = Len(text)
  BY PiecesType
<1>3. Instead(e, char, by) \in Seq(Characters)
  BY PiecesType
<1>4. Pieces(more) = Append(Pieces(text), Instead(e, char, by))
  <2> DEFINE p == Pieces(text)
             d == Instead(e, char, by)
  <2>1. \A k \in 1..Len(text) : Pieces(more)[k] = p[k]
    BY <1>1
  <2>2. Pieces(more)[Len(text) + 1] = d /\ DOMAIN Pieces(more) = 1..Len(text) + 1
    BY <1>1
  <2>3. /\ DOMAIN Append(p, d) = 1..Len(text) + 1 /\ Append(p, d)[Len(text) + 1] = d
        /\ \A k \in 1..Len(text) : Append(p, d)[k] = p[k]
    <3> HIDE DEF p, d
    <3> QED
      BY <1>1, <1>2, <1>3, AppendProperties, LenProperties DEF p, d
  <2> DEFINE q == Pieces(more)
             r == Append(p, d)
  <2>4. \A k \in 1..Len(text) + 1 : q[k] = r[k]
    <3> HIDE DEF q, r, p, d
    <3>1. \A k \in 1..Len(text) + 1 : k \in 1..Len(text) \/ k = Len(text) + 1
      BY <1>1
    <3> QED
      BY <2>1, <2>2, <2>3, <3>1 DEF q, r
  <2>5. q = [k \in 1..Len(text) + 1 |-> q[k]] /\ r = [k \in 1..Len(text) + 1 |-> r[k]]
    <3>1. r \in Seq(Seq(Characters)) /\ Len(r) = Len(text) + 1
      BY <1>2, <1>3, AppendProperties
    <3>2. r = [k \in 1..Len(r) |-> r[k]]
      <4> HIDE DEF r
      <4> QED
        BY <3>1, SequenceIsFunction
    <3>3. q = [k \in 1..Len(text) + 1 |-> q[k]]
      BY <1>1
    <3> QED
      BY <3>1, <3>2, <3>3
  <2> HIDE DEF q, r
  <2> QED
    BY <2>4, <2>5 DEF q, r, p, d
<1>5. FlattenSeq(Pieces(more)) = FlattenSeq(Pieces(text)) \o Instead(e, char, by)
  <2> HIDE DEF Pieces
  <2> QED
    BY <1>2, <1>3, <1>4, FlattenAppend
<1> QED
  BY <1>5, ReplacedIs DEF more

\* Replacing a character in one text after the other.
LEMMA ReplacedConcat ==
  ASSUME NEW head \in Seq(Characters), NEW tail \in Seq(Characters), NEW char,
         NEW by \in Seq(Characters)
  PROVE  Replaced(head \o tail, char, by) = Replaced(head, char, by) \o Replaced(tail, char, by)
<1> DEFINE R(t) == Replaced(t, char, by)
           T == {t \in Seq(Characters) : R(head \o t) = R(head) \o R(t)}
<1>1. <<>> \in T
  <2>1. <<>> \in Seq(Characters) /\ head \o <<>> = head
    BY CharacterTypes, ConcatEmptySeq
  <2>2. R(head) \in Seq(Characters)
    BY ReplacedType
  <2>3. R(head) \o <<>> = R(head)
    BY <2>2, ConcatEmptySeq
  <2>4. R(<<>>) = <<>>
    BY ReplacedEmpty
  <2> HIDE DEF R
  <2> QED
    BY <2>1, <2>3, <2>4
<1>2. ASSUME NEW t \in Seq(Characters), NEW e \in Characters, t \in T
      PROVE  Append(t, e) \in T
  <2> DEFINE d == Instead(e, char, by)
  <2>1. head \o Append(t, e) = Append(head \o t, e) /\ head \o t \in Seq(Characters)
    BY Together, ConcatProperties
  <2>2. R(Append(head \o t, e)) = R(head \o t) \o d
    BY <2>1, ReplacedAppend
  <2>3. R(Append(t, e)) = R(t) \o d
    BY ReplacedAppend
  <2>4. R(head \o t) = R(head) \o R(t)
    BY <1>2
  <2>5. R(head) \in Seq(Characters) /\ R(t) \in Seq(Characters) /\ d \in Seq(Characters)
    BY ReplacedType, PiecesType
  <2>6. (R(head) \o R(t)) \o d = R(head) \o (R(t) \o d)
    <3> HIDE DEF R, d
    <3> QED
      BY <2>5
  <2>7. Append(t, e) \in Seq(Characters)
    BY AppendProperties
  <2> HIDE DEF R, d
  <2> QED
    BY <2>1, <2>2, <2>3, <2>4, <2>6, <2>7
<1>3. \A t \in Seq(Characters) : t \in T
  <2> HIDE DEF T
  <2> QED
    BY <1>1, <1>2, Appending
<1> QED
  BY <1>3

\* One character: it is replaced, or it stays.
LEMMA ReplacedOne ==
  ASSUME NEW e \in Characters, NEW char, NEW by \in Seq(Characters)
  PROVE  Replaced(<<e>>, char, by) = Instead(e, char, by)
<1>1. <<e>> = Append(<<>>, e) /\ <<>> \in Seq(Characters)
  OBVIOUS
<1>2. Instead(e, char, by) \in Seq(Characters)
  BY PiecesType
<1>3. Replaced(Append(<<>>, e), char, by) = Replaced(<<>>, char, by) \o Instead(e, char, by)
  BY <1>1, ReplacedAppend
<1>4. <<>> \o Instead(e, char, by) = Instead(e, char, by)
  BY <1>2, ConcatEmptySeq
<1> QED
  BY <1>1, <1>3, <1>4, ReplacedEmpty

\* What becomes of each character when a text is prepared: what one replacement puts in
\* is not what a later one looks for.
Escaped(c) ==
  CASE c = "\\" -> <<"\\", "\\">>
    [] c = "["  -> <<"[", "[", "]">>
    [] c = "%"  -> <<"[", "%", "]">>
    [] c = "_"  -> <<"[", "_", "]">>
    [] OTHER    -> <<c>>

\* An escaped character is a text.
LEMMA EscapedType ==
  ASSUME NEW c \in Characters
  PROVE  Escaped(c) \in Seq(Characters)
BY CharacterTypes DEF Escaped

\* Preparing gives a text.
LEMMA PreparedType ==
  ASSUME NEW x \in Seq(Characters)
  PROVE  prep_for_like_query(x) \in Seq(Characters)
BY ReplacedType, CharacterTypes DEF prep_for_like_query

\* Replacing, as a function: what it is of texts, of texts put together, and of one
\* character.
IsReplacing(f, char, by) ==
  /\ f \in [Seq(Characters) -> Seq(Characters)]
  /\ \A x, y \in Seq(Characters) : f[x \o y] = f[x] \o f[y]
  /\ \A c \in Characters : f[<<c>>] = Instead(c, char, by)

\* Replaced is such a function.
LEMMA Replacing ==
  ASSUME NEW char, NEW by \in Seq(Characters)
  PROVE  IsReplacing([x \in Seq(Characters) |-> Replaced(x, char, by)], char, by)
<1> DEFINE f == [x \in Seq(Characters) |-> Replaced(x, char, by)]
<1>1. f \in [Seq(Characters) -> Seq(Characters)]
  BY ReplacedType
<1>2. ASSUME NEW x \in Seq(Characters), NEW y \in Seq(Characters)
      PROVE  f[x \o y] = f[x] \o f[y]
  <2>1. x \o y \in Seq(Characters)
    BY ConcatProperties
  <2> QED
    BY <2>1, ReplacedConcat
<1>3. ASSUME NEW c \in Characters
      PROVE  f[<<c>>] = Instead(c, char, by)
  <2>1. <<c>> \in Seq(Characters)
    BY CharacterTypes
  <2>2. Replaced(<<c>>, char, by) = Instead(c, char, by)
    BY ReplacedOne
  <2> QED
    BY <2>1, <2>2
<1> QED
  BY <1>1, <1>2, <1>3 DEF IsReplacing

\* A function that keeps a text.
Keeps(f, x) == x \in Seq(Characters) /\ f[x] = x

\* A function that can be taken of the parts of a text.
Parted(f) == \A x, y \in Seq(Characters) : f[x \o y] = f[x] \o f[y]

\* It keeps two texts together if it keeps each.
LEMMA KeepsConcat ==
  ASSUME NEW f, Parted(f), NEW x, NEW y, Keeps(f, x), Keeps(f, y)
  PROVE  Keeps(f, x \o y)
BY ConcatProperties DEF Keeps, Parted

\* The four replacements, one after the other.
Preparing(f) ==
  /\ IsReplacing(f[1], "\\", <<"\\", "\\">>) /\ IsReplacing(f[2], "[", <<"[", "[", "]">>)
  /\ IsReplacing(f[3], "%", <<"[", "%", "]">>) /\ IsReplacing(f[4], "_", <<"[", "_", "]">>)
  /\ \A x \in Seq(Characters) : prep_for_like_query(x) = f[4][f[3][f[2][f[1][x]]]]

\* That is what prep_for_like_query is.
LEMMA PreparedIs == \E f : Preparing(f)
<1> DEFINE R(char, by) == [x \in Seq(Characters) |-> Replaced(x, char, by)]
           f1 == R("\\", <<"\\", "\\">>)
           f2 == R("[", <<"[", "[", "]">>)
           f3 == R("%", <<"[", "%", "]">>)
           f4 == R("_", <<"[", "_", "]">>)
<1>1. IsReplacing(f1, "\\", <<"\\", "\\">>)
  BY Replacing, CharacterTypes
<1>2. IsReplacing(f2, "[", <<"[", "[", "]">>)
  BY Replacing, CharacterTypes
<1>3. IsReplacing(f3, "%", <<"[", "%", "]">>)
  BY Replacing, CharacterTypes
<1>4. IsReplacing(f4, "_", <<"[", "_", "]">>)
  BY Replacing, CharacterTypes
<1>5. ASSUME NEW x \in Seq(Characters)
      PROVE  prep_for_like_query(x) = f4[f3[f2[f1[x]]]]
  <2> DEFINE x1 == Replaced(x, "\\", <<"\\", "\\">>)
             x2 == Replaced(x1, "[", <<"[", "[", "]">>)
             x3 == Replaced(x2, "%", <<"[", "%", "]">>)
  <2>1. x1 \in Seq(Characters)
    BY ReplacedType, CharacterTypes
  <2> HIDE DEF x1
  <2>2. x2 \in Seq(Characters)
    BY <2>1, ReplacedType, CharacterTypes
  <2> HIDE DEF x2
  <2>3. x3 \in Seq(Characters)
    BY <2>2, ReplacedType, CharacterTypes
  <2> HIDE DEF x3
  <2>4. f1[x] = x1 /\ f2[x1] = x2 /\ f3[x2] = x3
    BY <2>1, <2>2 DEF x1, x2, x3
  <2>5. f4[x3] = Replaced(x3, "_", <<"[", "_", "]">>)
    BY <2>3
  <2> QED
    BY <2>4, <2>5 DEF prep_for_like_query, x1, x2, x3
<1> HIDE DEF f1, f2, f3, f4
<1> DEFINE f == <<f1, f2, f3, f4>>
<1>6. f[1] = f1 /\ f[2] = f2 /\ f[3] = f3 /\ f[4] = f4
  OBVIOUS
<1> HIDE DEF f
<1>7. Preparing(f)
  BY <1>1, <1>2, <1>3, <1>4, <1>5, <1>6 DEF Preparing
<1> QED
  BY <1>7

\* Preparing one text after the other.
LEMMA PreparedConcat ==
  ASSUME NEW head \in Seq(Characters), NEW tail \in Seq(Characters)
  PROVE  prep_for_like_query(head \o tail) = prep_for_like_query(head) \o prep_for_like_query(tail)
<1>1. PICK f : Preparing(f)
  BY PreparedIs
<1> DEFINE f1 == f[1]
           f2 == f[2]
           f3 == f[3]
           f4 == f[4]
           a == f1[head]
           b == f1[tail]
           c == f2[a]
           d == f2[b]
           g == f3[c]
           h == f3[d]
<1>2. /\ \A x, y \in Seq(Characters) : f1[x \o y] = f1[x] \o f1[y] /\ f2[x \o y] = f2[x] \o f2[y]
      /\ \A x, y \in Seq(Characters) : f3[x \o y] = f3[x] \o f3[y] /\ f4[x \o y] = f4[x] \o f4[y]
      /\ f1 \in [Seq(Characters) -> Seq(Characters)] /\ f2 \in [Seq(Characters) -> Seq(Characters)]
      /\ f3 \in [Seq(Characters) -> Seq(Characters)] /\ f4 \in [Seq(Characters) -> Seq(Characters)]
      /\ \A x \in Seq(Characters) : prep_for_like_query(x) = f4[f3[f2[f1[x]]]]
  BY <1>1 DEF Preparing, IsReplacing
<1> HIDE DEF f1, f2, f3, f4
<1>3. /\ head \o tail \in Seq(Characters) /\ a \in Seq(Characters) /\ b \in Seq(Characters)
      /\ f1[head \o tail] = a \o b
  BY <1>2, ConcatProperties
<1> HIDE DEF a, b
<1>4. c \in Seq(Characters) /\ d \in Seq(Characters) /\ f2[a \o b] = c \o d
  BY <1>2, <1>3
<1> HIDE DEF c, d
<1>5. g \in Seq(Characters) /\ h \in Seq(Characters) /\ f3[c \o d] = g \o h
  BY <1>2, <1>4
<1> HIDE DEF g, h
<1>6. f4[g \o h] = f4[g] \o f4[h]
  BY <1>2, <1>5
<1>7. prep_for_like_query(head) = f4[g] /\ prep_for_like_query(tail) = f4[h]
  BY <1>2 DEF a, b, c, d, g, h
<1>8. prep_for_like_query(head \o tail) = f4[g \o h]
  <2>1. prep_for_like_query(head \o tail) = f4[f3[f2[f1[head \o tail]]]]
    BY <1>2, <1>3
  <2> QED
    BY <1>3, <1>4, <1>5, <2>1
<1> QED
  BY <1>6, <1>7, <1>8

\* Two elements, ...
LEMMA PairIs ==
  ASSUME NEW S, NEW a \in S, NEW b \in S
  PROVE  <<a, b>> = <<a>> \o <<b>> /\ <<a, b>> \in Seq(S)
<1>1. <<a, b>> = Append(<<a>>, b) /\ <<a>> \in Seq(S) /\ <<a, b>> \in Seq(S)
  OBVIOUS
<1> QED
  BY <1>1, AppendIsConcat

\* ... and three.
LEMMA TripleIs ==
  ASSUME NEW S, NEW a \in S, NEW b \in S, NEW c \in S
  PROVE  <<a, b, c>> = <<a>> \o <<b, c>>
OBVIOUS

\* One character, prepared.
LEMMA PreparedOne ==
  ASSUME NEW c \in Characters
  PROVE  prep_for_like_query(<<c>>) = Escaped(c)
<1>1. PICK f : Preparing(f)
  BY PreparedIs
<1> DEFINE f1 == f[1]
           f2 == f[2]
           f3 == f[3]
           f4 == f[4]
<1>2. /\ \A e \in Characters : f1[<<e>>] = IF e = "\\" THEN <<"\\", "\\">> ELSE <<e>>
      /\ \A e \in Characters : f2[<<e>>] = IF e = "[" THEN <<"[", "[", "]">> ELSE <<e>>
      /\ \A e \in Characters : f3[<<e>>] = IF e = "%" THEN <<"[", "%", "]">> ELSE <<e>>
      /\ \A e \in Characters : f4[<<e>>] = IF e = "_" THEN <<"[", "_", "]">> ELSE <<e>>
  BY <1>1 DEF Preparing, IsReplacing, Instead
<1>3. Parted(f2) /\ Parted(f3) /\ Parted(f4)
  BY <1>1, Zenon DEF Preparing, IsReplacing, Parted
<1>4. prep_for_like_query(<<c>>) = f4[f3[f2[f1[<<c>>]]]]
  BY <1>1, CharacterTypes DEF Preparing
<1> HIDE DEF f1, f2, f3, f4
<1>5. /\ "\\" \in Characters /\ "[" \in Characters /\ "%" \in Characters /\ "_" \in Characters
      /\ "]" \in Characters /\ \A e \in Characters : <<e>> \in Seq(Characters)
  BY CharacterTypes
<1>6. /\ <<"\\", "\\">> = <<"\\">> \o <<"\\">>
      /\ <<"[", "]">> = <<"[">> \o <<"]">> /\ <<"%", "]">> = <<"%">> \o <<"]">>
      /\ <<"[", "[", "]">> = <<"[">> \o <<"[", "]">>
      /\ <<"[", "%", "]">> = <<"[">> \o <<"%", "]">>
      /\ <<"[", "]">> \in Seq(Characters) /\ <<"%", "]">> \in Seq(Characters)
  <2>1. <<"\\", "\\">> = <<"\\">> \o <<"\\">>
    BY <1>5, PairIs, Zenon
  <2>2. <<"[", "]">> = <<"[">> \o <<"]">> /\ <<"[", "]">> \in Seq(Characters)
    BY <1>5, PairIs, Zenon
  <2>3. <<"%", "]">> = <<"%">> \o <<"]">> /\ <<"%", "]">> \in Seq(Characters)
    BY <1>5, PairIs, Zenon
  <2>4. <<"[", "[", "]">> = <<"[">> \o <<"[", "]">>
    BY <1>5, TripleIs, Zenon
  <2>5. <<"[", "%", "]">> = <<"[">> \o <<"%", "]">>
    BY <1>5, TripleIs, Zenon
  <2> QED
    BY <2>1, <2>2, <2>3, <2>4, <2>5, Zenon
<1>7. CASE c = "\\"
  <2> DEFINE x == <<"\\">>
             y == <<"\\", "\\">>
  <2>1. y = x \o x /\ Keeps(f2, x) /\ Keeps(f3, x) /\ Keeps(f4, x)
    BY <1>2, <1>5, <1>6 DEF Keeps
  <2>2. f1[<<c>>] = y
    BY <1>2, <1>7
  <2>3. Escaped(c) = y
    BY <1>7 DEF Escaped
  <2> HIDE DEF x, y
  <2>4. Keeps(f2, x \o x) /\ Keeps(f3, x \o x) /\ Keeps(f4, x \o x)
    BY <1>3, <2>1, KeepsConcat, Zenon
  <2> QED
    BY <1>4, <2>1, <2>2, <2>3, <2>4 DEF Keeps
<1>8. CASE c = "["
  <2> DEFINE x == <<"[">>
             y == <<"]">>
             z == <<"[", "]">>
             w == <<"[", "[", "]">>
  <2>1. z = x \o y /\ w = x \o z
    BY <1>5, <1>6
  <2>2. Keeps(f3, x) /\ Keeps(f4, x) /\ Keeps(f3, y) /\ Keeps(f4, y)
    BY <1>2, <1>5 DEF Keeps
  <2>3. f1[<<c>>] = x /\ f2[x] = w
    BY <1>2, <1>5, <1>8
  <2>4. Escaped(c) = w
    BY <1>8 DEF Escaped
  <2> HIDE DEF x, y, z, w
  <2>5. Keeps(f3, x \o y) /\ Keeps(f4, x \o y)
    BY <1>3, <2>2, KeepsConcat, Zenon
  <2>6. Keeps(f3, x \o z) /\ Keeps(f4, x \o z)
    BY <1>3, <2>1, <2>2, <2>5, KeepsConcat, Zenon
  <2> QED
    BY <1>4, <2>1, <2>3, <2>4, <2>6 DEF Keeps
<1>9. CASE c = "%"
  <2> DEFINE x == <<"[">>
             y == <<"]">>
             p == <<"%">>
             z == <<"%", "]">>
             w == <<"[", "%", "]">>
  <2>1. z = p \o y /\ w = x \o z
    BY <1>5, <1>6
  <2>2. Keeps(f4, x) /\ Keeps(f4, y) /\ Keeps(f4, p)
    BY <1>2, <1>5 DEF Keeps
  <2>3. f1[<<c>>] = p /\ f2[p] = p /\ f3[p] = w
    BY <1>2, <1>5, <1>9
  <2>4. Escaped(c) = w
    BY <1>9 DEF Escaped
  <2> HIDE DEF x, y, z, w, p
  <2>5. Keeps(f4, p \o y)
    BY <1>3, <2>2, KeepsConcat, Zenon
  <2>6. Keeps(f4, x \o z)
    BY <1>3, <2>1, <2>2, <2>5, KeepsConcat, Zenon
  <2> QED
    BY <1>4, <2>1, <2>3, <2>4, <2>6 DEF Keeps
<1>10. CASE c = "_"
  <2>1. /\ f1[<<c>>] = <<"_">> /\ f2[<<"_">>] = <<"_">> /\ f3[<<"_">>] = <<"_">>
        /\ f4[<<"_">>] = <<"[", "_", "]">>
    BY <1>2, <1>10
  <2> QED
    BY <1>4, <1>10, <2>1 DEF Escaped
<1>11. CASE c \notin {"\\", "[", "%", "_"}
  <2>1. f1[<<c>>] = <<c>> /\ f2[<<c>>] = <<c>> /\ f3[<<c>>] = <<c>> /\ f4[<<c>>] = <<c>>
    BY <1>2, <1>11
  <2> QED
    BY <1>4, <1>11, <2>1 DEF Escaped
<1> QED
  BY <1>7, <1>8, <1>9, <1>10, <1>11

\* A character more is its escape more.
LEMMA PreparedAppend ==
  ASSUME NEW x \in Seq(Characters), NEW c \in Characters
  PROVE  prep_for_like_query(Append(x, c)) = prep_for_like_query(x) \o Escaped(c)
<1>1. Append(x, c) = x \o <<c>> /\ <<c>> \in Seq(Characters)
  BY AppendIsConcat, CharacterTypes
<1> QED
  BY <1>1, PreparedConcat, PreparedOne

\* Nothing, prepared.
LEMMA PreparedEmpty == prep_for_like_query(<<>>) = <<>>
BY ReplacedEmpty DEF prep_for_like_query

-----------------------------------------------------------------------------
(* Lookups: what is equal.                                                 *)

\* UPPER() of one character.
Capital(c) == IF c = "a" THEN "A" ELSE c

\* The characters that a collation takes for equal.
SameChar(c, d, sensitive) == IF sensitive THEN c = d ELSE Capital(c) = Capital(d)

\* UPPER() goes character by character.
LEMMA UpperIs ==
  ASSUME NEW x \in Seq(Characters)
  PROVE  /\ Upper(x) \in Seq(Characters) /\ Len(Upper(x)) = Len(x)
         /\ \A k \in 1..Len(x) : Upper(x)[k] = Capital(x[k])
<1>1. \A c \in Characters : Capital(c) \in Characters
  BY DEF Capital, Characters
<1>2. DOMAIN x = 1..Len(x) /\ Len(x) \in Nat /\ \A k \in 1..Len(x) : x[k] \in Characters
  OBVIOUS
<1>3. Upper(x) = [k \in 1..Len(x) |-> Capital(x[k])]
  BY <1>2 DEF Upper, Capital
<1> HIDE DEF Capital
<1> QED
  BY <1>1, <1>2, <1>3

\* So does what a collation takes for equal.
LEMMA EqualIs ==
  ASSUME NEW x \in Seq(Characters), NEW y \in Seq(Characters), NEW sensitive \in BOOLEAN
  PROVE  Equal(x, y, sensitive)
           <=> Len(x) = Len(y) /\ \A k \in 1..Len(x) : SameChar(x[k], y[k], sensitive)
<1>1. x = y <=> Len(x) = Len(y) /\ \A k \in 1..Len(x) : x[k] = y[k]
  <2>1. x = [k \in 1..Len(x) |-> x[k]] /\ y = [k \in 1..Len(y) |-> y[k]]
    BY SequenceIsFunction
  <2> QED
    BY <2>1
<1>2. Upper(x) = Upper(y)
        <=> Len(x) = Len(y) /\ \A k \in 1..Len(x) : Capital(x[k]) = Capital(y[k])
  <2> DEFINE u == Upper(x)
             v == Upper(y)
  <2>1. /\ u \in Seq(Characters) /\ Len(u) = Len(x) /\ \A k \in 1..Len(x) : u[k] = Capital(x[k])
        /\ v \in Seq(Characters) /\ Len(v) = Len(y) /\ \A k \in 1..Len(y) : v[k] = Capital(y[k])
    BY UpperIs
  <2> HIDE DEF u, v
  <2>2. u = [k \in 1..Len(u) |-> u[k]] /\ v = [k \in 1..Len(v) |-> v[k]]
    BY <2>1, SequenceIsFunction
  <2>3. u = v <=> Len(x) = Len(y) /\ \A k \in 1..Len(x) : Capital(x[k]) = Capital(y[k])
    BY <2>1, <2>2
  <2> QED
    BY <2>3 DEF u, v
<1>3. CASE sensitive = TRUE
  BY <1>1, <1>3 DEF Equal, SameChar
<1>4. CASE sensitive = FALSE
  BY <1>2, <1>4 DEF Equal, SameChar
<1> QED
  BY <1>3, <1>4

\* Two characters are equal as texts of one character if they are the same.
LEMMA SameAsTexts ==
  ASSUME NEW c \in Characters, NEW d \in Characters, NEW sensitive \in BOOLEAN
  PROVE  Equal(<<c>>, <<d>>, sensitive) <=> SameChar(c, d, sensitive)
<1> DEFINE x == <<c>>
           y == <<d>>
<1>1. /\ x \in Seq(Characters) /\ Len(x) = 1 /\ x[1] = c
      /\ y \in Seq(Characters) /\ Len(y) = 1 /\ y[1] = d
  OBVIOUS
<1> HIDE DEF x, y
<1>2. \A k \in 1..Len(x) : k = 1
  BY <1>1
<1>3. Equal(x, y, sensitive) <=> SameChar(c, d, sensitive)
  <2>1. Equal(x, y, sensitive)
           <=> Len(x) = Len(y) /\ \A k \in 1..Len(x) : SameChar(x[k], y[k], sensitive)
    BY <1>1, EqualIs
  <2>2. (\A k \in 1..Len(x) : SameChar(x[k], y[k], sensitive)) <=> SameChar(c, d, sensitive)
    BY <1>1, <1>2
  <2> QED
    BY <1>1, <2>1, <2>2
<1> QED
  BY <1>3 DEF x, y

\* UPPER() of texts put together.
LEMMA UpperConcat ==
  ASSUME NEW x \in Seq(Characters), NEW y \in Seq(Characters)
  PROVE  Upper(x \o y) = Upper(x) \o Upper(y)
<1> DEFINE u == Upper(x)
           v == Upper(y)
           w == Upper(x \o y)
           z == x \o y
<1>1. /\ u \in Seq(Characters) /\ Len(u) = Len(x) /\ \A k \in 1..Len(x) : u[k] = Capital(x[k])
      /\ v \in Seq(Characters) /\ Len(v) = Len(y) /\ \A k \in 1..Len(y) : v[k] = Capital(y[k])
  BY UpperIs
<1>2. /\ z \in Seq(Characters) /\ Len(z) = Len(x) + Len(y)
      /\ \A k \in 1..Len(x) : z[k] = x[k]
      /\ \A k \in (Len(x) + 1)..(Len(x) + Len(y)) : z[k] = y[k - Len(x)]
      /\ Len(x) \in Nat /\ Len(y) \in Nat
  OBVIOUS
<1> HIDE DEF z
<1>3. w \in Seq(Characters) /\ Len(w) = Len(z) /\ \A k \in 1..Len(z) : w[k] = Capital(z[k])
  BY <1>2, UpperIs DEF z
<1> HIDE DEF u, v, w
<1> DEFINE t == u \o v
<1>4. /\ t \in Seq(Characters) /\ Len(t) = Len(x) + Len(y)
      /\ \A k \in 1..Len(x) : t[k] = u[k]
      /\ \A k \in (Len(x) + 1)..(Len(x) + Len(y)) : t[k] = v[k - Len(x)]
  <2>1. u \in Seq(Characters) /\ v \in Seq(Characters)
    BY <1>1
  <2>2. /\ t \in Seq(Characters) /\ Len(t) = Len(u) + Len(v)
        /\ \A k \in 1..Len(u) : t[k] = u[k]
        /\ \A k \in (Len(u) + 1)..(Len(u) + Len(v)) : t[k] = v[k - Len(u)]
    BY <2>1
  <2> HIDE DEF t
  <2> QED
    BY <1>1, <2>2
<1> HIDE DEF t
<1>5. w = [k \in 1..Len(w) |-> w[k]] /\ t = [k \in 1..Len(t) |-> t[k]]
  BY <1>3, <1>4, SequenceIsFunction
<1>6. ASSUME NEW k \in 1..Len(z)
      PROVE  w[k] = t[k]
  <2>1. CASE k <= Len(x)
    BY <1>1, <1>2, <1>3, <1>4, <2>1
  <2>2. CASE k > Len(x)
    <3>1. k \in (Len(x) + 1)..(Len(x) + Len(y)) /\ k - Len(x) \in 1..Len(y)
      BY <1>2, <2>2
    <3> QED
      BY <1>1, <1>2, <1>3, <1>4, <3>1
  <2> QED
    BY <1>2, <2>1, <2>2
<1>7. w = t
  BY <1>2, <1>3, <1>4, <1>5, <1>6
<1> QED
  BY <1>7 DEF t, u, v, w, z

\* UPPER() of one character more.
LEMMA UpperOne ==
  ASSUME NEW c \in Characters
  PROVE  Capital(c) \in Characters /\ Upper(<<c>>) = <<Capital(c)>>
<1>1. Capital(c) \in Characters
  BY DEF Capital, Characters
<1> DEFINE x == <<c>>
           y == <<Capital(c)>>
           u == Upper(x)
<1>2. x \in Seq(Characters) /\ Len(x) = 1 /\ x[1] = c
  OBVIOUS
<1>3. y \in Seq(Characters) /\ Len(y) = 1 /\ y[1] = Capital(c)
  BY <1>1
<1> HIDE DEF x, y
<1>4. u \in Seq(Characters) /\ Len(u) = 1 /\ u[1] = Capital(c)
  BY <1>2, UpperIs
<1> HIDE DEF u
<1>5. u = [k \in 1..Len(u) |-> u[k]] /\ y = [k \in 1..Len(y) |-> y[k]]
  BY <1>3, <1>4, SequenceIsFunction
<1>6. \A k \in 1..1 : k = 1
  OBVIOUS
<1>7. u = y
  BY <1>3, <1>4, <1>5, <1>6
<1> QED
  BY <1>1, <1>7 DEF u, x, y

\* A text that is prepared and then made upper case could as well be made upper case
\* first: neither the brackets nor the escapes are letters.
LEMMA PreparedUpper ==
  ASSUME NEW x \in Seq(Characters)
  PROVE  Upper(prep_for_like_query(x)) = prep_for_like_query(Upper(x))
<1> DEFINE P(t) == prep_for_like_query(t)
           T == {t \in Seq(Characters) : Upper(P(t)) = P(Upper(t))}
<1>1. <<>> \in T
  <2>1. Upper(<<>>) = <<>>
    BY DEF Upper
  <2> QED
    BY <2>1, PreparedEmpty
<1>2. ASSUME NEW c \in Characters
      PROVE  Upper(Escaped(c)) = Escaped(Capital(c))
  <2>1. /\ Escaped(c) \in Seq(Characters) /\ Capital(c) \in Characters
        /\ Escaped(Capital(c)) \in Seq(Characters)
    BY EscapedType, UpperOne
  <2>2. CASE c \in {"\\", "[", "%", "_"}
    <3>1. Capital(c) = c
      BY <2>2 DEF Capital
    <3> DEFINE e == Escaped(c)
               u == Upper(e)
    <3>2. \A k \in 1..Len(e) : Capital(e[k]) = e[k]
      <4>1. CASE c = "\\"
        <5>1. Len(e) = 2 /\ e[1] = "\\" /\ e[2] = "\\"
          BY <4>1 DEF Escaped
        <5> HIDE DEF e
        <5>2. \A k \in 1..Len(e) : k = 1 \/ k = 2
          BY <5>1
        <5> QED
          BY <5>1, <5>2 DEF Capital
      <4>2. CASE c # "\\"
        <5>1. e = <<"[", c, "]">>
          BY <2>2, <4>2 DEF Escaped
        <5>2. Len(e) = 3 /\ e[1] = "[" /\ e[2] = c /\ e[3] = "]"
          BY <5>1
        <5> HIDE DEF e
        <5>3. \A k \in 1..Len(e) : k = 1 \/ k = 2 \/ k = 3
          BY <5>2
        <5> QED
          BY <3>1, <5>2, <5>3 DEF Capital
      <4> QED
        BY <4>1, <4>2
    <3>3. u \in Seq(Characters) /\ Len(u) = Len(e) /\ \A k \in 1..Len(e) : u[k] = Capital(e[k])
      BY <2>1, UpperIs
    <3>4. u = [k \in 1..Len(u) |-> u[k]] /\ e = [k \in 1..Len(e) |-> e[k]]
      BY <2>1, <3>3, SequenceIsFunction
    <3> HIDE DEF u, e
    <3>5. u = e
      BY <3>2, <3>3, <3>4
    <3> QED
      BY <3>1, <3>5 DEF u, e
  <2>3. CASE c \notin {"\\", "[", "%", "_"}
    <3>1. Escaped(c) = <<c>>
      BY <2>3 DEF Escaped
    <3>2. Escaped(Capital(c)) = <<Capital(c)>>
      BY <2>3 DEF Escaped, Capital
    <3> QED
      BY <3>1, <3>2, UpperOne
  <2> QED
    BY <2>2, <2>3
<1>3. ASSUME NEW t \in Seq(Characters), NEW c \in Characters, t \in T
      PROVE  Append(t, c) \in T
  <2>1. Append(t, c) \in Seq(Characters) /\ Append(t, c) = t \o <<c>> /\ <<c>> \in Seq(Characters)
    BY AppendProperties, AppendIsConcat
  <2>2. Capital(c) \in Characters /\ Upper(<<c>>) = <<Capital(c)>> /\ Upper(t) \in Seq(Characters)
    BY UpperOne, UpperIs
  <2>3. Upper(Append(t, c)) = Upper(t) \o <<Capital(c)>>
    BY <2>1, <2>2, UpperConcat
  <2>4. Upper(Append(t, c)) = Append(Upper(t), Capital(c))
    BY <2>2, <2>3, AppendIsConcat
  <2>5. P(Append(Upper(t), Capital(c))) = P(Upper(t)) \o Escaped(Capital(c))
    BY <2>2, PreparedAppend
  <2>6. P(Append(t, c)) = P(t) \o Escaped(c)
    BY PreparedAppend
  <2>7. P(t) \in Seq(Characters) /\ Escaped(c) \in Seq(Characters)
    BY PreparedType, EscapedType
  <2>8. Upper(P(t) \o Escaped(c)) = Upper(P(t)) \o Upper(Escaped(c))
    BY <2>7, UpperConcat
  <2>9. Upper(P(t)) = P(Upper(t))
    BY <1>3
  <2> HIDE DEF P
  <2> QED
    BY <1>2, <2>1, <2>4, <2>5, <2>6, <2>8, <2>9
<1>4. \A t \in Seq(Characters) : t \in T
  <2> HIDE DEF T
  <2> QED
    BY <1>1, <1>3, Appending
<1> QED
  BY <1>4

-----------------------------------------------------------------------------
(* Lookups: what LIKE reads.                                               *)

\* How far a pattern has been read.
Readings(text) ==
  [mode: {"plain", "escape", "set"}, places: SUBSET (0..Len(text)), chars: SUBSET Characters]

\* The reading with nothing begun.
Come(places) == [mode |-> "plain", places |-> places, chars |-> {}]

\* A function that reads a pattern character by character.
Reads(r, pattern, text, sensitive) ==
  /\ r[0] = Come({0})
  /\ \A n \in 1..Len(pattern) : r[n] = ReadNext(r[n - 1], pattern[n], text, sensitive)

\* The places that are reached are places of the text.
LEMMA BeyondType ==
  ASSUME NEW text \in Seq(Characters), NEW places, NEW chars, NEW sensitive
  PROVE  Beyond(places, chars, text, sensitive) \in SUBSET (0..Len(text))
<1>1. DOMAIN text = 1..Len(text) /\ Len(text) \in Nat
  OBVIOUS
<1> QED
  BY <1>1 DEF Beyond

\* Reading one character more.
LEMMA ReadNextType ==
  ASSUME NEW text \in Seq(Characters), NEW sofar \in Readings(text), NEW c \in Characters,
         NEW sensitive
  PROVE  ReadNext(sofar, c, text, sensitive) \in Readings(text)
<1> DEFINE B(chars) == Beyond(sofar.places, chars, text, sensitive)
<1>1. \A chars \in SUBSET Characters : B(chars) \in SUBSET (0..Len(text))
  BY BeyondType
<1>2. {n \in 0..Len(text) : \E m \in sofar.places : m <= n} \in SUBSET (0..Len(text))
  OBVIOUS
<1>3. /\ sofar.mode \in {"plain", "escape", "set"} /\ sofar.places \in SUBSET (0..Len(text))
      /\ sofar.chars \in SUBSET Characters
      /\ sofar = [mode |-> sofar.mode, places |-> sofar.places, chars |-> sofar.chars]
  BY DEF Readings
<1>4. {c} \in SUBSET Characters /\ sofar.chars \cup {c} \in SUBSET Characters
  BY <1>3
<1>5. \A places \in SUBSET (0..Len(text)) : Come(places) \in Readings(text)
  BY DEF Come, Readings
<1>6. /\ Come(B({c})) \in Readings(text) /\ Come(B(sofar.chars)) \in Readings(text)
      /\ Come(B(Characters)) \in Readings(text)
      /\ Come({n \in 0..Len(text) : \E m \in sofar.places : m <= n}) \in Readings(text)
  BY <1>1, <1>2, <1>3, <1>4, <1>5
<1>7. /\ [sofar EXCEPT !.mode = "escape"] \in Readings(text)
      /\ [sofar EXCEPT !.mode = "set"] \in Readings(text)
      /\ [sofar EXCEPT !.chars = @ \cup {c}] \in Readings(text)
  BY <1>3, <1>4 DEF Readings
<1> QED
  BY <1>6, <1>7 DEF ReadNext, Come

\* The function Like reads a pattern with.
IsRead(r, pattern, text, sensitive) ==
  r = [n \in 0..Len(pattern) |->
         IF n = 0 THEN [mode |-> "plain", places |-> {0}, chars |-> {}]
         ELSE ReadNext(r[n - 1], pattern[n], text, sensitive)]

\* Like, with that function named.
LEMMA LikeDef ==
  ASSUME NEW pattern, NEW text, NEW sensitive
  PROVE  LET whole == (CHOOSE r : IsRead(r, pattern, text, sensitive))[Len(pattern)]
         IN  Like(pattern, text, sensitive)
               <=> whole.mode = "plain" /\ Len(text) \in whole.places
BY DEF Like, IsRead

\* The function exists, and Like is what it comes to.
LEMMA LikeReads ==
  ASSUME NEW pattern \in Seq(Characters), NEW text \in Seq(Characters), NEW sensitive
  PROVE  \E r : /\ Reads(r, pattern, text, sensitive)
                /\ Like(pattern, text, sensitive)
                     <=> r[Len(pattern)].mode = "plain" /\ Len(text) \in r[Len(pattern)].places
<1> DEFINE l == Len(pattern)
           S == Readings(text)
           base == Come({0})
           G == [n \in Nat |-> [s \in S |->
                   IF n + 1 \in 1..l THEN ReadNext(s, pattern[n + 1], text, sensitive) ELSE s]]
<1>1. l \in Nat /\ \A n \in 1..l : pattern[n] \in Characters
  OBVIOUS
<1>2. base \in S
  <2>1. {0} \in SUBSET (0..Len(text))
    OBVIOUS
  <2> QED
    BY <2>1 DEF Come, Readings
<1>3. G \in [Nat -> [S -> S]]
  <2> HIDE DEF S
  <2>1. \A n \in Nat, s \in S : n + 1 \in 1..l => ReadNext(s, pattern[n + 1], text, sensitive) \in S
    BY <1>1, ReadNextType DEF S
  <2> QED
    BY <2>1
<1>4. PICK f : f \in [Nat -> S] /\ f[0] = base /\ \A n \in Nat : f[n + 1] = G[n][f[n]]
  <2> HIDE DEF S, G, base
  <2>1. \E f : IsDefinedBy(f, S, base, G)
    BY <1>2, <1>3, Recursion
  <2> QED
    BY <2>1 DEF IsDefinedBy
<1>5. \A n \in Nat : n < l => f[n + 1] = ReadNext(f[n], pattern[n + 1], text, sensitive)
  <2> SUFFICES ASSUME NEW n \in Nat, n < l
               PROVE  f[n + 1] = ReadNext(f[n], pattern[n + 1], text, sensitive)
    OBVIOUS
  <2> HIDE DEF S
  <2>1. f[n] \in S /\ n + 1 \in 1..l
    BY <1>1, <1>4
  <2>2. G[n][f[n]] = ReadNext(f[n], pattern[n + 1], text, sensitive)
    BY <2>1
  <2> HIDE DEF G
  <2> QED
    BY <1>4, <2>2
<1> HIDE DEF G, S, base
<1> DEFINE p == [n \in 0..l |-> f[n]]
<1>6. IsRead(p, pattern, text, sensitive)
  <2>1. ASSUME NEW n \in 0..l
        PROVE  f[n] = IF n = 0 THEN base ELSE ReadNext(p[n - 1], pattern[n], text, sensitive)
    <3>1. CASE n = 0
      BY <1>4, <3>1
    <3>2. CASE n # 0
      <4>1. n - 1 \in Nat /\ n - 1 < l /\ (n - 1) + 1 = n /\ n - 1 \in 0..l
        BY <1>1, <3>2
      <4>2. f[n] = ReadNext(f[n - 1], pattern[n], text, sensitive)
        BY <1>5, <4>1
      <4>3. p[n - 1] = f[n - 1]
        BY <4>1
      <4> HIDE DEF p
      <4> QED
        BY <3>2, <4>2, <4>3
    <3> QED
      BY <3>1, <3>2
  <2> QED
    BY <2>1 DEF IsRead, base, Come
<1> DEFINE r == CHOOSE g : IsRead(g, pattern, text, sensitive)
<1>7. IsRead(r, pattern, text, sensitive)
  BY <1>6
<1> HIDE DEF r
<1>8. Reads(r, pattern, text, sensitive)
  <2>1. 0 \in 0..l /\ \A n \in 1..l : n \in 0..l /\ n # 0
    BY <1>1
  <2>2. \A n \in 0..l : r[n] = IF n = 0 THEN [mode |-> "plain", places |-> {0}, chars |-> {}]
                               ELSE ReadNext(r[n - 1], pattern[n], text, sensitive)
    <3> DEFINE q == [n \in 0..l |->
                       IF n = 0 THEN [mode |-> "plain", places |-> {0}, chars |-> {}]
                       ELSE ReadNext(r[n - 1], pattern[n], text, sensitive)]
    <3>1. r = q
      BY <1>7 DEF IsRead
    <3>2. \A n \in 0..l : q[n] = IF n = 0 THEN [mode |-> "plain", places |-> {0}, chars |-> {}]
                                 ELSE ReadNext(r[n - 1], pattern[n], text, sensitive)
      OBVIOUS
    <3> HIDE DEF q
    <3> QED
      BY <3>1, <3>2
  <2> QED
    BY <2>1, <2>2 DEF Reads, Come
<1>9. Like(pattern, text, sensitive)
        <=> r[l].mode = "plain" /\ Len(text) \in r[l].places
  BY LikeDef DEF r
<1> QED
  BY <1>8, <1>9

\* A text is found at a place.
Matches(text, m, x, sensitive) ==
  m + Len(x) <= Len(text) /\ \A k \in 1..Len(x) : SameChar(x[k], text[m + k], sensitive)

\* The places that are just behind a text, when it starts at one of the given places.
Behind(places, x, text, sensitive) ==
  {n \in 0..Len(text) : n - Len(x) \in places /\ Matches(text, n - Len(x), x, sensitive)}

\* One character is one place further.
LEMMA BeyondIs ==
  ASSUME NEW text \in Seq(Characters), NEW places, NEW c \in Characters,
         NEW sensitive \in BOOLEAN
  PROVE  Beyond(places, {c}, text, sensitive)
           = {n \in 1..Len(text) : n - 1 \in places /\ SameChar(c, text[n], sensitive)}
<1>1. DOMAIN text = 1..Len(text) /\ \A n \in 1..Len(text) : text[n] \in Characters
  OBVIOUS
<1>2. \A n \in 1..Len(text) :
        (\E d \in {c} : Equal(<<d>>, <<text[n]>>, sensitive)) <=> SameChar(c, text[n], sensitive)
  BY <1>1, SameAsTexts
<1> QED
  BY <1>1, <1>2 DEF Beyond

\* A text that is one character longer is one place further.
LEMMA BehindAppend ==
  ASSUME NEW text \in Seq(Characters), NEW places \in SUBSET (0..Len(text)),
         NEW x \in Seq(Characters), NEW c \in Characters, NEW sensitive \in BOOLEAN
  PROVE  Behind(places, Append(x, c), text, sensitive)
           = Beyond(Behind(places, x, text, sensitive), {c}, text, sensitive)
<1> DEFINE y == Append(x, c)
           l == Len(x)
           N == Len(text)
<1>1. /\ l \in Nat /\ N \in Nat /\ Len(y) = l + 1 /\ y[l + 1] = c
      /\ \A k \in 1..l : y[k] = x[k]
  OBVIOUS
<1> HIDE DEF y, l, N
<1>2. ASSUME NEW n \in 0..N, n - (l + 1) \in places
      PROVE  Matches(text, n - (l + 1), y, sensitive)
               <=> Matches(text, (n - 1) - l, x, sensitive) /\ SameChar(c, text[n], sensitive)
  <2>1. n - (l + 1) = (n - 1) - l /\ n - (l + 1) \in Nat /\ n - 1 \in Nat
    BY <1>1, <1>2 DEF N
  <2>2. Matches(text, n - (l + 1), y, sensitive)
          <=> \A k \in 1..(l + 1) : SameChar(y[k], text[(n - (l + 1)) + k], sensitive)
    BY <1>1, <2>1 DEF Matches, N
  <2>3. Matches(text, (n - 1) - l, x, sensitive)
          <=> \A k \in 1..l : SameChar(x[k], text[((n - 1) - l) + k], sensitive)
    BY <1>1, <2>1 DEF Matches, N, l
  <2>4. \A k \in 1..(l + 1) : k \in 1..l \/ k = l + 1
    BY <1>1
  <2>5. l + 1 \in 1..(l + 1) /\ (n - (l + 1)) + (l + 1) = n /\ \A k \in 1..l : k \in 1..(l + 1)
    BY <1>1
  <2> QED
    BY <1>1, <2>1, <2>2, <2>3, <2>4, <2>5
<1> DEFINE P == Behind(places, x, text, sensitive)
<1>3. P = {n \in 0..N : n - l \in places /\ Matches(text, n - l, x, sensitive)}
  BY DEF Behind, N, l
<1>4. Behind(places, y, text, sensitive)
        = {n \in 0..N : n - (l + 1) \in places /\ Matches(text, n - (l + 1), y, sensitive)}
  BY <1>1 DEF Behind, N
<1>5. Beyond(P, {c}, text, sensitive)
        = {n \in 1..N : n - 1 \in P /\ SameChar(c, text[n], sensitive)}
  BY BeyondIs DEF N
<1>6. ASSUME NEW n \in 0..N, n - (l + 1) \in places
      PROVE  n \in 1..N /\ n - 1 \in 0..N /\ (n - 1) - l \in places
  <2>1. n - (l + 1) \in 0..N
    BY <1>6 DEF N
  <2> QED
    BY <1>1, <1>6, <2>1
<1>7. ASSUME NEW n \in 1..N
      PROVE  n \in 0..N /\ n - 1 \in 0..N /\ (n - 1) - l = n - (l + 1)
  BY <1>1
<1> HIDE DEF P
<1>8. {n \in 1..N : n - 1 \in P /\ SameChar(c, text[n], sensitive)}
        = {n \in 0..N : n - (l + 1) \in places /\ Matches(text, n - (l + 1), y, sensitive)}
  <2>1. ASSUME NEW n \in 1..N, n - 1 \in P, SameChar(c, text[n], sensitive)
        PROVE  n \in 0..N /\ n - (l + 1) \in places /\ Matches(text, n - (l + 1), y, sensitive)
    BY <1>2, <1>3, <1>7, <2>1
  <2>2. ASSUME NEW n \in 0..N, n - (l + 1) \in places, Matches(text, n - (l + 1), y, sensitive)
        PROVE  n \in 1..N /\ n - 1 \in P /\ SameChar(c, text[n], sensitive)
    BY <1>2, <1>3, <1>6, <2>2
  <2> QED
    BY <2>1, <2>2
<1> QED
  BY <1>4, <1>5, <1>8 DEF P, y

\* Nothing is found everywhere.
LEMMA BehindEmpty ==
  ASSUME NEW text \in Seq(Characters), NEW places \in SUBSET (0..Len(text)),
         NEW sensitive \in BOOLEAN
  PROVE  Behind(places, <<>>, text, sensitive) = places
<1> DEFINE e == <<>>
<1>1. Len(e) = 0 /\ Len(text) \in Nat
  OBVIOUS
<1> HIDE DEF e
<1>2. \A n \in 0..Len(text) : n - Len(e) = n /\ Matches(text, n - Len(e), e, sensitive)
  BY <1>1 DEF Matches
<1>3. Behind(places, e, text, sensitive) = places
  BY <1>1, <1>2 DEF Behind
<1> QED
  BY <1>3 DEF e

\* A pattern goes on with a text behind a place.
GoesOn(pattern, k, q) ==
  k + Len(q) <= Len(pattern) /\ \A j \in 1..Len(q) : pattern[k + j] = q[j]

\* What has been escaped is read as the one character.
LEMMA ReadEscaped ==
  ASSUME NEW text \in Seq(Characters), NEW pattern \in Seq(Characters), NEW sensitive,
         NEW r, Reads(r, pattern, text, sensitive), NEW k \in Nat, NEW places,
         r[k] = Come(places), NEW c \in Characters, GoesOn(pattern, k, Escaped(c))
  PROVE  r[k + Len(Escaped(c))] = Come(Beyond(places, {c}, text, sensitive))
<1> DEFINE e == Escaped(c)
           Reading(s, d) == ReadNext(s, d, text, sensitive)
           B == Beyond(places, {c}, text, sensitive)
<1>1. ASSUME NEW j \in 1..Len(e)
      PROVE  r[k + j] = Reading(r[k + j - 1], e[j])
  <2>1. e \in Seq(Characters) /\ Len(e) \in Nat /\ Len(pattern) \in Nat
    BY EscapedType
  <2> HIDE DEF e
  <2>2. k + Len(e) <= Len(pattern) /\ pattern[k + j] = e[j]
    BY DEF GoesOn, e
  <2>3. k + j \in 1..Len(pattern)
    BY <2>1, <2>2
  <2> QED
    BY <2>2, <2>3 DEF Reads
<1>2. CASE c = "\\"
  <2>1. e = <<c, c>>
    BY <1>2 DEF Escaped
  <2>2. Len(e) = 2 /\ e[1] = c /\ e[2] = c
    BY <2>1
  <2>3. 1 \in 1..2 /\ 2 \in 1..2 /\ k + 1 - 1 = k /\ k + 2 - 1 = k + 1
    OBVIOUS
  <2> HIDE DEF e
  <2>4. r[k + 1] = Reading(r[k], c) /\ r[k + 2] = Reading(r[k + 1], c)
    BY <1>1, <2>2, <2>3
  <2>5. Reading(Come(places), c) = [mode |-> "escape", places |-> places, chars |-> {}]
    BY <1>2 DEF ReadNext, Come
  <2>6. Reading([mode |-> "escape", places |-> places, chars |-> {}], c) = Come(B)
    BY DEF ReadNext, Come
  <2> QED
    BY <2>2, <2>4, <2>5, <2>6 DEF e
<1>3. CASE c \in {"[", "%", "_"}
  <2>1. e = <<"[", c, "]">>
    BY <1>3 DEF Escaped
  <2>2. Len(e) = 3 /\ e[1] = "[" /\ e[2] = c /\ e[3] = "]"
    BY <2>1
  <2>3. 1 \in 1..3 /\ 2 \in 1..3 /\ 3 \in 1..3
        /\ k + 1 - 1 = k /\ k + 2 - 1 = k + 1 /\ k + 3 - 1 = k + 2
    OBVIOUS
  <2> HIDE DEF e
  <2>4. r[k + 1] = Reading(r[k], "[") /\ r[k + 2] = Reading(r[k + 1], c) /\ r[k + 3] = Reading(r[k + 2], "]")
    BY <1>1, <2>2, <2>3
  <2>5. Reading(Come(places), "[") = [mode |-> "set", places |-> places, chars |-> {}]
    BY DEF ReadNext, Come
  <2>6. Reading([mode |-> "set", places |-> places, chars |-> {}], c)
          = [mode |-> "set", places |-> places, chars |-> {c}]
    BY <1>3 DEF ReadNext
  <2>7. Reading([mode |-> "set", places |-> places, chars |-> {c}], "]") = Come(B)
    BY DEF ReadNext, Come
  <2> QED
    BY <2>2, <2>4, <2>5, <2>6, <2>7 DEF e
<1>4. CASE c \notin {"\\", "[", "%", "_"}
  <2>1. e = <<c>>
    BY <1>4 DEF Escaped
  <2>2. Len(e) = 1 /\ e[1] = c
    BY <2>1
  <2>3. 1 \in 1..1 /\ k + 1 - 1 = k
    OBVIOUS
  <2> HIDE DEF e
  <2>4. r[k + 1] = Reading(r[k], c)
    BY <1>1, <2>2, <2>3
  <2>5. Reading(Come(places), c) = Come(B)
    BY <1>4 DEF ReadNext, Come
  <2> QED
    BY <2>2, <2>4, <2>5 DEF e
<1> QED
  BY <1>2, <1>3, <1>4

\* What has been prepared is read as the text.
LEMMA ReadPrepared ==
  ASSUME NEW text \in Seq(Characters), NEW pattern \in Seq(Characters),
         NEW sensitive \in BOOLEAN, NEW r, Reads(r, pattern, text, sensitive), NEW k \in Nat,
         NEW places \in SUBSET (0..Len(text)), r[k] = Come(places),
         NEW x \in Seq(Characters), GoesOn(pattern, k, prep_for_like_query(x))
  PROVE  r[k + Len(prep_for_like_query(x))] = Come(Behind(places, x, text, sensitive))
<1> DEFINE P(t) == prep_for_like_query(t)
           B(t) == Behind(places, t, text, sensitive)
           Good(t) == GoesOn(pattern, k, P(t)) => r[k + Len(P(t))] = Come(B(t))
           T == {t \in Seq(Characters) : Good(t)}
<1>1. <<>> \in T
  <2>1. P(<<>>) = <<>> /\ Len(<<>>) = 0 /\ k + 0 = k
    BY PreparedEmpty
  <2>2. B(<<>>) = places
    BY BehindEmpty
  <2>3. r[k + Len(P(<<>>))] = Come(B(<<>>))
    <3> HIDE DEF P, B
    <3> QED
      BY <2>1, <2>2
  <2> QED
    BY <2>3
<1>2. ASSUME NEW t \in Seq(Characters), NEW c \in Characters, t \in T
      PROVE  Append(t, c) \in T
  <2> DEFINE u == Append(t, c)
             p == P(t)
             q == P(u)
             e == Escaped(c)
  <2>1. u \in Seq(Characters)
    BY AppendProperties
  <2>2. q = p \o e
    BY PreparedAppend
  <2>3. p \in Seq(Characters) /\ e \in Seq(Characters) /\ Len(pattern) \in Nat
    BY PreparedType, EscapedType
  <2>4. Good(t)
    BY <1>2
  <2> SUFFICES ASSUME GoesOn(pattern, k, q)
               PROVE  r[k + Len(q)] = Come(B(u))
    BY <2>1
  <2> HIDE DEF p, e, q
  <2>5. /\ Len(p) \in Nat /\ Len(e) \in Nat /\ Len(q) = Len(p) + Len(e)
        /\ \A j \in 1..Len(p) : q[j] = p[j]
        /\ \A j \in 1..Len(e) : q[Len(p) + j] = e[j]
    BY <2>2, <2>3
  <2>6. GoesOn(pattern, k, p)
    BY <2>3, <2>5 DEF GoesOn
  <2>7. GoesOn(pattern, k + Len(p), e)
    <3>1. (k + Len(p)) + Len(e) <= Len(pattern)
      BY <2>3, <2>5 DEF GoesOn
    <3>2. ASSUME NEW j \in 1..Len(e)
          PROVE  pattern[(k + Len(p)) + j] = e[j]
      <4>1. Len(p) + j \in 1..Len(q) /\ k + (Len(p) + j) = (k + Len(p)) + j
        BY <2>5
      <4>2. pattern[k + (Len(p) + j)] = q[Len(p) + j]
        BY <4>1 DEF GoesOn
      <4> QED
        BY <2>5, <4>1, <4>2
    <3> QED
      BY <3>1, <3>2 DEF GoesOn
  <2>8. r[k + Len(p)] = Come(B(t))
    BY <2>4, <2>6 DEF p
  <2>9. B(t) \in SUBSET (0..Len(text))
    BY DEF Behind
  <2>10. r[(k + Len(p)) + Len(e)] = Come(Beyond(B(t), {c}, text, sensitive))
    <3> DEFINE n == k + Len(p)
    <3>1. n \in Nat
      BY <2>5
    <3>2. r[n] = Come(B(t)) /\ GoesOn(pattern, n, Escaped(c))
      BY <2>7, <2>8 DEF e
    <3> HIDE DEF n, B
    <3>3. r[n + Len(Escaped(c))] = Come(Beyond(B(t), {c}, text, sensitive))
      BY <3>1, <3>2, ReadEscaped
    <3> QED
      BY <3>3 DEF n, e
  <2>11. B(u) = Beyond(B(t), {c}, text, sensitive)
    BY BehindAppend
  <2>12. (k + Len(p)) + Len(e) = k + Len(q)
    BY <2>5
  <2> HIDE DEF B, u
  <2> QED
    BY <2>10, <2>11, <2>12
<1>3. \A t \in Seq(Characters) : t \in T
  <2> HIDE DEF T
  <2> QED
    BY <1>1, <1>2, Appending
<1> QED
  BY <1>3

\* The % in front of or behind a text.
PercentSign(is) == IF is THEN <<"%">> ELSE <<>>

\* A pattern that has been prepared, with a % in front or behind, is found where the text
\* is, and nowhere else.
IsFound(x, text, sensitive, before, behind) ==
  Like(PercentSign(before) \o prep_for_like_query(x) \o PercentSign(behind), text, sensitive)
    <=> \E m \in 0..Len(text) :
          /\ Matches(text, m, x, sensitive)
          /\ ~ before => m = 0
          /\ ~ behind => m + Len(x) = Len(text)

\* So it is: no character of the text is read as a wildcard.
LEMMA LikePrepared ==
  ASSUME NEW text \in Seq(Characters), NEW x \in Seq(Characters), NEW sensitive \in BOOLEAN,
         NEW before \in BOOLEAN, NEW behind \in BOOLEAN
  PROVE  IsFound(x, text, sensitive, before, behind)
<1> DEFINE p == prep_for_like_query(x)
           b == PercentSign(before)
           e == PercentSign(behind)
           pattern == b \o p \o e
           N == Len(text)
           first == IF before THEN 0..N ELSE {0}
           found == Behind(first, x, text, sensitive)
           last == IF behind THEN {n \in 0..N : \E m \in found : m <= n} ELSE found
<1>1. p \in Seq(Characters) /\ b \in Seq(Characters) /\ e \in Seq(Characters)
  BY PreparedType, CharacterTypes DEF PercentSign
<1>2. /\ Len(b) = IF before THEN 1 ELSE 0
      /\ before => b[1] = "%"
      /\ Len(e) = IF behind THEN 1 ELSE 0
      /\ behind => e[1] = "%"
  BY DEF PercentSign
<1> HIDE DEF p, b, e
<1>3. /\ pattern \in Seq(Characters) /\ Len(pattern) = Len(b) + Len(p) + Len(e)
      /\ \A j \in 1..Len(b) : pattern[j] = b[j]
      /\ \A j \in 1..Len(p) : pattern[Len(b) + j] = p[j]
      /\ \A j \in 1..Len(e) : pattern[Len(b) + Len(p) + j] = e[j]
      /\ Len(b) \in Nat /\ Len(p) \in Nat /\ Len(e) \in Nat
  <2> DEFINE h == b \o p
  <2>1. /\ h \in Seq(Characters) /\ Len(h) = Len(b) + Len(p)
        /\ \A j \in 1..Len(b) : h[j] = b[j]
        /\ \A j \in 1..Len(p) : h[Len(b) + j] = p[j]
        /\ Len(b) \in Nat /\ Len(p) \in Nat /\ Len(e) \in Nat
    BY <1>1
  <2> HIDE DEF h
  <2> DEFINE w == h \o e
  <2>2. /\ w \in Seq(Characters) /\ Len(w) = Len(h) + Len(e)
        /\ \A j \in 1..Len(h) : w[j] = h[j]
        /\ \A j \in 1..Len(e) : w[Len(h) + j] = e[j]
    <3>1. h \in Seq(Characters) /\ e \in Seq(Characters)
      BY <1>1, <2>1
    <3> QED
      BY <3>1
  <2> HIDE DEF w
  <2>3. /\ \A j \in 1..Len(b) : j \in 1..Len(h)
        /\ \A j \in 1..Len(p) : Len(b) + j \in 1..Len(h)
    BY <2>1
  <2>4. /\ w \in Seq(Characters) /\ Len(w) = Len(b) + Len(p) + Len(e)
        /\ \A j \in 1..Len(b) : w[j] = b[j]
        /\ \A j \in 1..Len(p) : w[Len(b) + j] = p[j]
        /\ \A j \in 1..Len(e) : w[Len(b) + Len(p) + j] = e[j]
    BY <2>1, <2>2, <2>3
  <2>5. pattern = w
    BY DEF w, h
  <2> HIDE DEF pattern
  <2> QED
    BY <2>1, <2>4, <2>5
<1> HIDE DEF pattern
<1>4. PICK r : /\ Reads(r, pattern, text, sensitive)
               /\ Like(pattern, text, sensitive)
                    <=> r[Len(pattern)].mode = "plain" /\ N \in r[Len(pattern)].places
  BY <1>3, LikeReads
<1>5. N \in Nat
  OBVIOUS
<1>6. r[Len(b)] = Come(first) /\ first \in SUBSET (0..N)
  <2>1. r[0] = Come({0})
    BY <1>4 DEF Reads
  <2>2. CASE before
    <3>1. Len(b) = 1 /\ 1 \in 1..Len(pattern) /\ 1 \in 1..Len(b)
      BY <1>2, <1>3, <2>2
    <3>2. pattern[1] = "%"
      BY <1>2, <1>3, <2>2, <3>1
    <3>3. r[1] = ReadNext(Come({0}), "%", text, sensitive)
      <4>1. r[1] = ReadNext(r[1 - 1], pattern[1], text, sensitive)
        BY <1>4, <3>1 DEF Reads
      <4> QED
        BY <2>1, <3>2, <4>1
    <3>4. ReadNext(Come({0}), "%", text, sensitive)
            = Come({n \in 0..N : \E m \in {0} : m <= n})
      BY DEF ReadNext, Come
    <3>5. {n \in 0..N : \E m \in {0} : m <= n} = 0..N
      BY <1>5
    <3> QED
      BY <2>2, <3>1, <3>3, <3>4, <3>5
  <2>3. CASE ~ before
    BY <1>2, <1>5, <2>1, <2>3
  <2> QED
    BY <2>2, <2>3
<1>7. r[Len(b) + Len(p)] = Come(found)
  <2>1. GoesOn(pattern, Len(b), p)
    BY <1>3 DEF GoesOn
  <2> HIDE DEF first
  <2> QED
    BY <1>3, <1>4, <1>6, <2>1, ReadPrepared DEF p
<1>8. r[Len(pattern)] = Come(last)
  <2>1. CASE behind
    <3> DEFINE n == Len(b) + Len(p)
    <3>1. Len(pattern) = n + 1 /\ 1 \in 1..Len(e) /\ n + 1 \in 1..Len(pattern) /\ (n + 1) - 1 = n
      BY <1>2, <1>3, <2>1
    <3>2. pattern[n + 1] = "%"
      BY <1>2, <1>3, <2>1, <3>1
    <3>3. r[n] = Come(found)
      BY <1>7
    <3> HIDE DEF n, found
    <3>4. r[n + 1] = ReadNext(Come(found), "%", text, sensitive)
      <4>1. r[n + 1] = ReadNext(r[(n + 1) - 1], pattern[n + 1], text, sensitive)
        BY <1>4, <3>1 DEF Reads
      <4> QED
        BY <3>1, <3>2, <3>3, <4>1
    <3>5. ReadNext(Come(found), "%", text, sensitive)
            = Come({m \in 0..N : \E k \in found : k <= m})
      BY DEF ReadNext, Come
    <3> QED
      BY <2>1, <3>1, <3>4, <3>5
  <2>2. CASE ~ behind
    <3>1. Len(pattern) = Len(b) + Len(p)
      BY <1>2, <1>3, <2>2
    <3> HIDE DEF found
    <3> QED
      BY <1>7, <2>2, <3>1
  <2> QED
    BY <2>1, <2>2
<1>9. Like(pattern, text, sensitive) <=> N \in last
  <2> HIDE DEF last
  <2> QED
    BY <1>4, <1>8 DEF Come
<1>10. ASSUME NEW n \in 0..N
       PROVE  n \in found <=> \E m \in 0..N : /\ Matches(text, m, x, sensitive)
                                              /\ ~ before => m = 0
                                              /\ m + Len(x) = n
  <2>1. Len(x) \in Nat
    OBVIOUS
  <2>2. n \in found <=> n - Len(x) \in first /\ Matches(text, n - Len(x), x, sensitive)
    BY DEF Behind
  <2>3. ASSUME n - Len(x) \in first, Matches(text, n - Len(x), x, sensitive)
        PROVE  \E m \in 0..N : /\ Matches(text, m, x, sensitive)
                               /\ ~ before => m = 0
                               /\ m + Len(x) = n
    <3> DEFINE m == n - Len(x)
    <3>1. m \in 0..N /\ (~ before => m = 0) /\ m + Len(x) = n
      BY <1>5, <2>1, <2>3
    <3> HIDE DEF first
    <3> QED
      BY <2>3, <3>1
  <2>4. ASSUME NEW m \in 0..N, Matches(text, m, x, sensitive), ~ before => m = 0,
               m + Len(x) = n
        PROVE  n - Len(x) \in first /\ Matches(text, n - Len(x), x, sensitive)
    <3>1. n - Len(x) = m
      BY <1>5, <2>1, <2>4
    <3> QED
      BY <2>4, <3>1
  <2> HIDE DEF found, first
  <2> QED
    BY <2>2, <2>3, <2>4
<1>11. N \in last <=> \E m \in 0..N : /\ Matches(text, m, x, sensitive)
                                      /\ ~ before => m = 0
                                      /\ ~ behind => m + Len(x) = N
  <2>1. found \in SUBSET (0..N) /\ N \in 0..N /\ \A n \in 0..N : n <= N
    BY <1>5 DEF Behind
  <2>2. \A m \in 0..N : Matches(text, m, x, sensitive) => m + Len(x) \in 0..N
    BY <1>5 DEF Matches
  <2> HIDE DEF found, first
  <2>3. CASE behind
    <3>1. N \in last <=> \E n \in found : TRUE
      BY <2>1, <2>3
    <3> QED
      BY <1>10, <2>1, <2>2, <2>3, <3>1
  <2>4. CASE ~ behind
    BY <1>10, <2>1, <2>4
  <2> QED
    BY <2>3, <2>4
<1> QED
  BY <1>9, <1>11 DEF IsFound, pattern, b, p, e

-----------------------------------------------------------------------------
(* Lookups: what is found.                                                 *)

\* A collation takes the same characters for the same, whichever comes first.
LEMMA SameSymmetric ==
  ASSUME NEW c, NEW d, NEW sensitive \in BOOLEAN
  PROVE  SameChar(c, d, sensitive) <=> SameChar(d, c, sensitive)
BY DEF SameChar

\* Where everything is upper case, no collation tells more than the letters do.
LEMMA MatchesUpper ==
  ASSUME NEW text \in Seq(Characters), NEW x \in Seq(Characters), NEW m \in Nat,
         NEW sensitive \in BOOLEAN
  PROVE  Matches(Upper(text), m, Upper(x), sensitive) <=> Matches(text, m, x, FALSE)
<1> DEFINE u == Upper(text)
           v == Upper(x)
<1>1. /\ Len(u) = Len(text) /\ \A k \in 1..Len(text) : u[k] = Capital(text[k])
      /\ Len(v) = Len(x) /\ \A k \in 1..Len(x) : v[k] = Capital(x[k])
      /\ Len(text) \in Nat /\ Len(x) \in Nat
  BY UpperIs
<1> HIDE DEF u, v
<1>2. ASSUME NEW c, NEW d
      PROVE  SameChar(Capital(c), Capital(d), sensitive) <=> SameChar(c, d, FALSE)
  BY DEF SameChar, Capital
<1>3. ASSUME m + Len(x) <= Len(text), NEW k \in 1..Len(x)
      PROVE  SameChar(v[k], u[m + k], sensitive) <=> SameChar(x[k], text[m + k], FALSE)
  <2>1. m + k \in 1..Len(text)
    BY <1>1, <1>3
  <2>2. v[k] = Capital(x[k]) /\ u[m + k] = Capital(text[m + k])
    BY <1>1, <2>1
  <2> QED
    BY <1>2, <2>2
<1>4. Matches(u, m, v, sensitive) <=> Matches(text, m, x, FALSE)
  BY <1>1, <1>3 DEF Matches
<1> QED
  BY <1>4 DEF u, v

\* A part of a text is equal to another text if that is found where the part begins.
LEMMA PartIs ==
  ASSUME NEW text \in Seq(Characters), NEW x \in Seq(Characters), NEW m \in Nat,
         m + Len(x) <= Len(text), NEW sensitive \in BOOLEAN
  PROVE  Equal(SubSeq(text, m + 1, m + Len(x)), x, sensitive) <=> Matches(text, m, x, sensitive)
<1> DEFINE s == SubSeq(text, m + 1, m + Len(x))
<1>1. /\ s \in Seq(Characters) /\ Len(s) = Len(x)
      /\ \A k \in 1..Len(x) : s[k] = text[m + k]
  OBVIOUS
<1> HIDE DEF s
<1>2. Equal(s, x, sensitive)
        <=> Len(s) = Len(x) /\ \A k \in 1..Len(s) : SameChar(s[k], x[k], sensitive)
  BY <1>1, EqualIs
<1>3. Equal(s, x, sensitive) <=> Matches(text, m, x, sensitive)
  BY <1>1, <1>2, SameSymmetric DEF Matches
<1> QED
  BY <1>3 DEF s

\* What a lookup promises, by the places where the text is found.
LEMMA PromisedIs ==
  ASSUME NEW lookup \in Patterned, NEW x \in Seq(Characters), NEW text \in Seq(Characters),
         NEW sensitive \in BOOLEAN
  PROVE  Promised(lookup, x, text, sensitive)
           <=> \E m \in 0..Len(text) :
                 /\ Matches(text, m, x, sensitive /\ lookup \notin Insensitive)
                 /\ lookup \in {"startswith", "istartswith"} => m = 0
                 /\ lookup \in {"endswith", "iendswith"} => m + Len(x) = Len(text)
<1> DEFINE s == sensitive /\ lookup \notin Insensitive
           n == Len(x)
           N == Len(text)
           Is(part) == Equal(part, x, s)
           At(m) == Matches(text, m, x, s)
<1>1. n \in Nat /\ N \in Nat /\ s \in BOOLEAN
  OBVIOUS
<1>2. ASSUME NEW m \in Nat, m + n <= N
      PROVE  Is(SubSeq(text, m + 1, m + n)) <=> At(m)
  <2> HIDE DEF s
  <2> QED
    BY <1>1, <1>2, PartIs
<1>3. \A m \in 0..N : At(m) => m + n <= N
  BY DEF Matches
<1>4. lookup \notin {"exact", "iexact"}
  BY DEF Patterned
<1> HIDE DEF s
<1>5. CASE lookup \in {"contains", "icontains"}
  <2>1. Promised(lookup, x, text, sensitive)
          <=> \E k \in 0..(N - n) : Is(SubSeq(text, k + 1, k + n))
    BY <1>5 DEF Promised, s
  <2>2. \A k \in 0..(N - n) : k \in Nat /\ k + n <= N /\ k \in 0..N
    BY <1>1
  <2>3. \A m \in 0..N : At(m) => m \in 0..(N - n)
    BY <1>1, <1>3
  <2> HIDE DEF Is, At, n, N
  <2>4. Promised(lookup, x, text, sensitive) <=> \E m \in 0..N : At(m)
    <3>1. ASSUME NEW k \in 0..(N - n), Is(SubSeq(text, k + 1, k + n))
          PROVE  \E m \in 0..N : At(m)
      BY <1>2, <2>2, <3>1
    <3>2. ASSUME NEW m \in 0..N, At(m)
          PROVE  \E k \in 0..(N - n) : Is(SubSeq(text, k + 1, k + n))
      <4>1. m \in 0..(N - n) /\ m \in Nat /\ m + n <= N
        BY <2>2, <2>3, <3>2
      <4>2. Is(SubSeq(text, m + 1, m + n))
        BY <1>2, <3>2, <4>1
      <4> QED
        BY <4>1, <4>2
    <3> QED
      BY <2>1, <3>1, <3>2
  <2> QED
    BY <1>5, <2>4 DEF At, N, s
<1>6. CASE lookup \in {"startswith", "istartswith"}
  <2>1. Promised(lookup, x, text, sensitive) <=> n <= N /\ Is(SubSeq(text, 1, n))
    BY <1>6 DEF Promised, s
  <2>2. n <= N => (Is(SubSeq(text, 1, n)) <=> At(0))
    <3>1. 0 \in Nat /\ 0 + n = n /\ 0 + 1 = 1
      BY <1>1
    <3>2. n <= N => (Is(SubSeq(text, 0 + 1, 0 + n)) <=> At(0))
      BY <1>2, <3>1
    <3> HIDE DEF At, n, N
    <3> QED
      BY <3>1, <3>2
  <2>3. 0 \in 0..N /\ (At(0) => n <= N)
    BY <1>1, <1>3
  <2> HIDE DEF Is, At
  <2>4. Promised(lookup, x, text, sensitive) <=> \E m \in 0..N : At(m) /\ m = 0
    BY <2>1, <2>2, <2>3
  <2> QED
    BY <1>6, <2>4 DEF At, N, s
<1>7. CASE lookup \in {"endswith", "iendswith"}
  <2>1. Promised(lookup, x, text, sensitive) <=> n <= N /\ Is(SubSeq(text, (N - n) + 1, N))
    BY <1>4, <1>7 DEF Promised, After, s
  <2>2. n <= N => N - n \in 0..N /\ (N - n) + n = N
    BY <1>1
  <2>3. n <= N => (Is(SubSeq(text, (N - n) + 1, N)) <=> At(N - n))
    <3> SUFFICES ASSUME n <= N
                 PROVE  Is(SubSeq(text, (N - n) + 1, N)) <=> At(N - n)
      OBVIOUS
    <3> DEFINE d == N - n
    <3>1. d \in Nat /\ d + n = N
      BY <1>1
    <3> HIDE DEF d
    <3>2. Is(SubSeq(text, d + 1, d + n)) <=> At(d)
      BY <1>1, <1>2, <3>1
    <3> HIDE DEF At, n, N
    <3> QED
      BY <3>1, <3>2 DEF d
  <2>4. \A m \in 0..N : m + n = N => m = N - n /\ n <= N
    BY <1>1
  <2> HIDE DEF Is, At
  <2>5. Promised(lookup, x, text, sensitive) <=> \E m \in 0..N : At(m) /\ m + n = N
    BY <2>1, <2>2, <2>3, <2>4
  <2> QED
    BY <1>7, <2>5 DEF At, N, n, s
<1> QED
  BY <1>5, <1>6, <1>7 DEF Patterned

\* The operand of a lookup with patterns.
LEMMA OperandIs ==
  ASSUME NEW lookup \in Patterned, NEW x \in Seq(Characters)
  PROVE  Operand(lookup, x)
           = PercentSign(lookup \notin {"startswith", "istartswith"})
               \o prep_for_like_query(x) \o PercentSign(lookup \notin {"endswith", "iendswith"})
<1>1. lookup \in {"contains", "icontains", "endswith", "iendswith"}
        <=> lookup \notin {"startswith", "istartswith"}
  BY DEF Patterned
<1>2. lookup \in {"contains", "icontains", "startswith", "istartswith"}
        <=> lookup \notin {"endswith", "iendswith"}
  BY DEF Patterned
<1> QED
  BY <1>1, <1>2 DEF Operand, PercentSign

\* UPPER() of such an operand is that of the text in upper case.
LEMMA OperandUpper ==
  ASSUME NEW lookup \in Patterned, NEW x \in Seq(Characters)
  PROVE  Upper(Operand(lookup, x)) = Operand(lookup, Upper(x))
<1> DEFINE b == PercentSign(lookup \notin {"startswith", "istartswith"})
           e == PercentSign(lookup \notin {"endswith", "iendswith"})
           p == prep_for_like_query(x)
<1>1. b \in Seq(Characters) /\ e \in Seq(Characters) /\ p \in Seq(Characters)
  BY CharacterTypes, PreparedType DEF PercentSign
<1>2. Upper(b) = b /\ Upper(e) = e
  <2>1. Upper(<<>>) = <<>>
    BY DEF Upper
  <2>2. "%" \in Characters /\ Capital("%") = "%"
    BY DEF Characters, Capital
  <2>3. Upper(<<"%">>) = <<"%">>
    BY <2>2, UpperOne
  <2> QED
    BY <2>1, <2>3 DEF PercentSign
<1>3. Upper(p) = prep_for_like_query(Upper(x)) /\ Upper(x) \in Seq(Characters)
  BY PreparedUpper, UpperIs
<1> HIDE DEF b, e, p
<1>4. b \o p \in Seq(Characters)
  BY <1>1
<1>5. Upper(b \o p \o e) = Upper(b \o p) \o Upper(e)
  BY <1>1, <1>4, UpperConcat
<1>6. Upper(b \o p) = Upper(b) \o Upper(p)
  BY <1>1, UpperConcat
<1>7. Operand(lookup, x) = b \o p \o e
  BY OperandIs DEF b, p, e
<1>8. Operand(lookup, Upper(x)) = b \o prep_for_like_query(Upper(x)) \o e
  BY <1>3, OperandIs DEF b, e
<1> QED
  BY <1>2, <1>3, <1>5, <1>6, <1>7, <1>8

\* A lookup with a pattern finds what it promises.
LEMMA PatternFinds ==
  ASSUME NEW lookup \in Patterned, NEW x \in Seq(Characters), NEW text \in Seq(Characters),
         NEW sensitive \in BOOLEAN
  PROVE  Operates(lookup, Operand(lookup, x), text, sensitive)
           <=> Promised(lookup, x, text, sensitive)
<1> DEFINE N == Len(text)
           up == lookup \in Insensitive
           y == IF up THEN Upper(x) ELSE x
           t == IF up THEN Upper(text) ELSE text
           s == sensitive /\ lookup \notin Insensitive
           before == lookup \notin {"startswith", "istartswith"}
           behind == lookup \notin {"endswith", "iendswith"}
<1>1. y \in Seq(Characters) /\ t \in Seq(Characters) /\ Len(t) = N /\ Len(y) = Len(x)
  BY UpperIs
<1>2. Operates(lookup, Operand(lookup, x), text, sensitive)
        <=> Like(Operand(lookup, y), t, sensitive)
  BY OperandUpper DEF Operates, lookup_cast
<1> HIDE DEF y, t
<1>3. Operand(lookup, y) = PercentSign(before) \o prep_for_like_query(y) \o PercentSign(behind)
  BY <1>1, OperandIs
<1>4. PICK f \in BOOLEAN, b \in BOOLEAN : f = before /\ b = behind
  OBVIOUS
<1>5. Like(Operand(lookup, y), t, sensitive)
        <=> \E m \in 0..N : /\ Matches(t, m, y, sensitive)
                            /\ ~ before => m = 0
                            /\ ~ behind => m + Len(x) = N
  <2> HIDE DEF before, behind
  <2>1. Like(PercentSign(f) \o prep_for_like_query(y) \o PercentSign(b), t, sensitive)
          <=> \E m \in 0..Len(t) : /\ Matches(t, m, y, sensitive)
                                   /\ ~ f => m = 0
                                   /\ ~ b => m + Len(y) = Len(t)
    <3>1. IsFound(y, t, sensitive, f, b)
      BY <1>1, LikePrepared
    <3> QED
      BY <3>1 DEF IsFound
  <2> QED
    BY <1>1, <1>3, <1>4, <2>1
<1>6. \A m \in 0..N : Matches(t, m, y, sensitive) <=> Matches(text, m, x, s)
  <2>1. \A m \in 0..N : m \in Nat
    OBVIOUS
  <2>2. CASE up
    <3>1. y = Upper(x) /\ t = Upper(text) /\ (s <=> FALSE)
      BY <2>2 DEF y, t
    <3>2. \A m \in 0..N : Matches(Upper(text), m, Upper(x), sensitive) <=> Matches(text, m, x, FALSE)
      BY <2>1, MatchesUpper
    <3>3. s = FALSE
      BY <3>1
    <3> HIDE DEF s
    <3> QED
      BY <3>1, <3>2, <3>3
  <2>3. CASE ~ up
    <3>1. y = x /\ t = text /\ s = sensitive
      BY <2>3 DEF y, t
    <3> HIDE DEF s
    <3> QED
      BY <3>1
  <2> QED
    BY <2>2, <2>3
<1> QED
  BY <1>2, <1>5, <1>6, PromisedIs

\* An exact lookup finds what it promises.
LEMMA ExactFinds ==
  ASSUME NEW lookup \in {"exact", "iexact"}, NEW x \in Seq(Characters),
         NEW text \in Seq(Characters), NEW sensitive \in BOOLEAN
  PROVE  Operates(lookup, Operand(lookup, x), text, sensitive)
           <=> Promised(lookup, x, text, sensitive)
<1>1. lookup \notin Patterned /\ (lookup \in Insensitive <=> lookup = "iexact")
  BY DEF Patterned, Insensitive
<1>2. Operand(lookup, x) = x
  <2>1. Operand(lookup, x) = <<>> \o x \o <<>>
    BY <1>1 DEF Operand
  <2>2. <<>> \o x = x /\ x \o <<>> = x
    BY ConcatEmptySeq
  <2> QED
    BY <2>1, <2>2
<1>3. \A a, b : Equal(a, b, FALSE) <=> Upper(a) = Upper(b)
  BY DEF Equal
<1>4. \A a, b : Equal(a, b, TRUE) <=> a = b
  BY DEF Equal
<1>5. CASE lookup = "iexact"
  <2> DEFINE u == Upper(x)
             v == Upper(text)
  <2>1. Operates(lookup, x, text, sensitive) <=> Equal(u, v, sensitive)
    BY <1>1, <1>5 DEF Operates, lookup_cast
  <2>2. Promised(lookup, x, text, sensitive) <=> v = u
    BY <1>1, <1>3, <1>5 DEF Promised
  <2>3. Upper(u) = u /\ Upper(v) = v
    <3>1. ASSUME NEW z \in Seq(Characters)
          PROVE  Upper(Upper(z)) = Upper(z)
      <4> DEFINE w == Upper(z)
                 q == Upper(w)
      <4>1. w \in Seq(Characters) /\ \A k \in 1..Len(w) : w[k] = Capital(z[k])
        BY UpperIs
      <4> HIDE DEF w
      <4>2. q \in Seq(Characters) /\ Len(q) = Len(w) /\ \A k \in 1..Len(w) : q[k] = Capital(w[k])
        BY <4>1, UpperIs
      <4>3. \A c : Capital(Capital(c)) = Capital(c)
        BY DEF Capital
      <4> HIDE DEF q
      <4>4. w = [k \in 1..Len(w) |-> w[k]] /\ q = [k \in 1..Len(q) |-> q[k]]
        BY <4>1, <4>2, SequenceIsFunction
      <4>5. \A k \in 1..Len(w) : q[k] = w[k]
        BY <4>1, <4>2, <4>3
      <4>6. q = w
        BY <4>2, <4>4, <4>5
      <4> QED
        BY <4>6 DEF q, w
    <3> QED
      BY <3>1
  <2>4. Equal(u, v, sensitive) <=> u = v
    <3> HIDE DEF u, v
    <3>1. CASE sensitive = TRUE
      BY <1>4, <3>1
    <3>2. CASE sensitive = FALSE
      BY <1>3, <2>3, <3>2
    <3> QED
      BY <3>1, <3>2
  <2> HIDE DEF u, v
  <2> QED
    BY <1>2, <2>1, <2>2, <2>4
<1>6. CASE lookup = "exact"
  <2>1. Operates(lookup, x, text, sensitive) <=> Equal(x, text, sensitive)
    BY <1>1, <1>6 DEF Operates, lookup_cast
  <2>2. Promised(lookup, x, text, sensitive) <=> Equal(text, x, sensitive)
    BY <1>1, <1>6 DEF Promised
  <2>3. Equal(x, text, sensitive) <=> Equal(text, x, sensitive)
    BY DEF Equal
  <2> QED
    BY <1>2, <2>1, <2>2, <2>3
<1> QED
  BY <1>5, <1>6

\* What a lookup operates and what it promises are true or false.
LEMMA FindsType ==
  ASSUME NEW lookup \in AllLookups, NEW parameter, NEW x, NEW text, NEW sensitive
  PROVE  /\ Operates(lookup, parameter, text, sensitive) \in BOOLEAN
         /\ Promised(lookup, x, text, sensitive) \in BOOLEAN
<1>1. \A p, t, s : Equal(p, t, s) \in BOOLEAN /\ Like(p, t, s) \in BOOLEAN
  BY DEF Equal, Like
<1>2. Operates(lookup, parameter, text, sensitive) \in BOOLEAN
  BY <1>1 DEF Operates
<1>3. Promised(lookup, x, text, sensitive) \in BOOLEAN
  BY <1>1 DEF Promised
<1> QED
  BY <1>2, <1>3

\* Any text, looked up in any way, is found where it is.
LEMMA LookupFinds ==
  ASSUME NEW lookup \in AllLookups, NEW x \in Seq(Characters), NEW text \in Seq(Characters),
         NEW sensitive \in BOOLEAN
  PROVE  Operates(lookup, Operand(lookup, x), text, sensitive)
           = Promised(lookup, x, text, sensitive)
<1>1. Operates(lookup, Operand(lookup, x), text, sensitive)
        <=> Promised(lookup, x, text, sensitive)
  BY PatternFinds, ExactFinds DEF AllLookups
<1> QED
  BY <1>1, FindsType

-----------------------------------------------------------------------------
(* Names and moments.                                                      *)

\* A name without the quotes is read as it is, whether quoted once or twice.
LEMMA NameIsRead ==
  ASSUME NEW S, NEW name \in Seq(S), NEW left \in S, NEW right \in S, left \notin ToSet(name)
  PROVE  /\ quote_name(quote_name(name, left, right), left, right) = quote_name(name, left, right)
         /\ ReadName(quote_name(name, left, right), left, right) = <<name>>
<1> DEFINE q == <<left>> \o name \o <<right>>
           n == Len(name)
<1>1. name # <<>> => Head(name) # left
  <2>1. name # <<>> => 1 \in DOMAIN name /\ Head(name) = name[1]
    OBVIOUS
  <2> QED
    BY <2>1 DEF ToSet
<1>2. quote_name(name, left, right) = q
  BY <1>1 DEF quote_name
<1>3. /\ n \in Nat /\ q \in Seq(S) /\ Len(q) = n + 2 /\ q[1] = left /\ q[n + 2] = right
      /\ \A k \in 1..n : q[k + 1] = name[k]
  <2> DEFINE h == <<left>> \o name
  <2>1. /\ n \in Nat /\ h \in Seq(S) /\ Len(h) = n + 1 /\ h[1] = left
        /\ \A k \in 1..n : h[k + 1] = name[k]
    OBVIOUS
  <2> HIDE DEF h
  <2>2. h \o <<right>> = Append(h, right)
    BY <2>1, AppendIsConcat
  <2> DEFINE a == Append(h, right)
  <2>3. /\ a \in Seq(S) /\ Len(a) = n + 2 /\ a[n + 2] = right
        /\ \A k \in 1..(n + 1) : a[k] = h[k]
    <3>1. h \in Seq(S) /\ Len(h) = n + 1 /\ n \in Nat
      BY <2>1
    <3> HIDE DEF n
    <3> QED
      BY <3>1
  <2> HIDE DEF a, n
  <2>4. 1 \in 1..(n + 1) /\ \A k \in 1..n : k + 1 \in 1..(n + 1)
    BY <2>1
  <2>5. /\ n \in Nat /\ a \in Seq(S) /\ Len(a) = n + 2 /\ a[1] = left /\ a[n + 2] = right
        /\ \A k \in 1..n : a[k + 1] = name[k]
    BY <2>1, <2>3, <2>4
  <2>6. q = a
    BY <2>2 DEF h, a
  <2> HIDE DEF q
  <2> QED
    BY <2>5, <2>6
<1> HIDE DEF q
<1>4. q # <<>> /\ Head(q) = left /\ Last(q) = right
  <2>1. Len(q) = n + 2 /\ q[1] = left /\ q[Len(q)] = right /\ q \in Seq(S)
    BY <1>3
  <2>2. q # <<>> /\ Head(q) = q[1]
    BY <1>3, <2>1
  <2> QED
    BY <2>1, <2>2 DEF Last
<1>5. quote_name(q, left, right) = q
  BY <1>4 DEF quote_name
<1>6. SubSeq(q, 2, Len(q) - 1) = name
  <2> DEFINE s == SubSeq(q, 2, Len(q) - 1)
  <2>1. s \in Seq(S) /\ Len(s) = n /\ \A k \in 1..n : s[k] = name[k]
    BY <1>3
  <2> HIDE DEF s
  <2>2. s = [k \in 1..Len(s) |-> s[k]] /\ name = [k \in 1..n |-> name[k]]
    BY <2>1, SequenceIsFunction
  <2>3. s = name
    BY <2>1, <2>2
  <2> QED
    BY <2>3 DEF s
<1>7. ReadName(q, left, right) = <<name>>
  <2>1. Len(q) >= 2
    BY <1>3
  <2> QED
    BY <1>4, <1>6, <2>1, Zenon DEF ReadName
<1> QED
  BY <1>2, <1>5, <1>7

\* So every name that is bound arrives.
LEMMA NamesArrive ==
  ASSUME NEW v, v.name \in Named, LookupsAssumption
  PROVE  NameArrives(v)
<1> DEFINE left == left_sql_quote(v.server, v.option)
           right == right_sql_quote(v.server, v.option)
           Quote(n) == quote_name(n, left, right)
           S == STRING \cup {left, right}
<1> HIDE DEF left, right
<1>1. v.name \in Seq(STRING)
  BY DEF LookupsAssumption
<1>2. v.name \in Seq(S) /\ left \in S /\ right \in S
  <2>1. \A k \in 1..Len(v.name) : v.name[k] \in S
    BY <1>1
  <2> HIDE DEF S
  <2>2. v.name \in Seq(S)
    BY <1>1, <2>1, SequenceOf
  <2> QED
    BY <2>2 DEF S
<1>3. ASSUME {left, right} \cap ToSet(v.name) = {}
      PROVE  \A quoted \in {Quote(v.name), Quote(Quote(v.name))} :
               ReadName(quoted, left, right) = <<v.name>>
  <2>1. left \notin ToSet(v.name)
    BY <1>3
  <2>2. /\ Quote(Quote(v.name)) = Quote(v.name)
        /\ ReadName(Quote(v.name), left, right) = <<v.name>>
    <3> HIDE DEF S
    <3> QED
      BY <1>2, <2>1, NameIsRead
  <2> HIDE DEF Quote
  <2> QED
    BY <2>2
<1> QED
  BY <1>3 DEF NameArrives, left, right

\* A moment, field by field.
Fields(wall, micro, zoned, ahead) ==
  [wall |-> wall, micro |-> micro, zoned |-> zoned, ahead |-> ahead]

\* A moment at another time of the clock.
SetWall(m, to) == [m EXCEPT !.wall = to]

\* A moment with or without microseconds.
SetMicro(m, to) == [m EXCEPT !.micro = to]

\* A moment with or without a zone.
SetZoned(m, to) == [m EXCEPT !.zoned = to]

\* A moment with its zone elsewhere.
SetAhead(m, to) == [m EXCEPT !.ahead = to]

\* The others stay.
LEMMA FieldsChange ==
  ASSUME NEW w, NEW m, NEW z, NEW a, NEW b
  PROVE  /\ SetWall(Fields(w, m, z, a), b) = Fields(b, m, z, a)
         /\ SetMicro(Fields(w, m, z, a), b) = Fields(w, b, z, a)
         /\ SetZoned(Fields(w, m, z, a), b) = Fields(w, m, b, a)
         /\ SetAhead(Fields(w, m, z, a), b) = Fields(w, m, z, b)
BY DEF Fields, SetWall, SetMicro, SetZoned, SetAhead

\* What the conversions change.
LEMMA ConversionsChange ==
  ASSUME NEW v, NEW useTz \in BOOLEAN
  PROVE  /\ adapt_datetimefield_value(v, useTz)
              = SetMicro(IF useTz /\ v.zoned THEN SetAhead(SetWall(v, v.wall - v.ahead), 0) ELSE v,
                         FALSE)
         /\ InColumn(v) = SetAhead(SetZoned(v, FALSE), 0)
         /\ format_result(v, useTz) = SetZoned(v, useTz)
BY DEF adapt_datetimefield_value, InColumn, format_result, SetWall, SetMicro, SetZoned, SetAhead

\* The same, with a name for FALSE.
LEMMA ConversionsAre ==
  ASSUME NEW v, NEW useTz \in BOOLEAN, NEW no, no = FALSE
  PROVE  /\ useTz /\ v.zoned =>
              adapt_datetimefield_value(v, useTz)
                = SetMicro(SetAhead(SetWall(v, v.wall - v.ahead), 0), no)
         /\ ~ (useTz /\ v.zoned) => adapt_datetimefield_value(v, useTz) = SetMicro(v, no)
         /\ InColumn(v) = SetAhead(SetZoned(v, no), 0)
         /\ format_result(v, useTz) = SetZoned(v, useTz)
         /\ [v EXCEPT !.micro = FALSE] = SetMicro(v, no)
<1>1. [v EXCEPT !.micro = FALSE] = SetMicro(v, no)
  BY DEF SetMicro
<1> QED
  BY <1>1, ConversionsChange

\* Every moment that is bound comes back.
LEMMA MomentsComeBack ==
  ASSUME NEW v, v \in Moments, NEW useTz \in BOOLEAN, LookupsAssumption
  PROVE  MomentComesBack(v, useTz)
<1>1. v \in Moment
  BY DEF LookupsAssumption
<1>2. PICK no : no = FALSE
  OBVIOUS
<1>3. \A p, q, r, s : LET f == Fields(p, q, r, s) IN
        f.wall = p /\ f.micro = q /\ f.zoned = r /\ f.ahead = s
  BY DEF Fields
<1>4. PICK w \in Int, u \in BOOLEAN, z \in BOOLEAN, a \in Int :
        v = Fields(w, u, z, a) /\ (z \/ a = 0)
  <2>1. v.zoned \/ v.ahead = 0
    BY DEF LookupsAssumption
  <2>2. /\ v.wall \in Int /\ v.micro \in BOOLEAN /\ v.zoned \in BOOLEAN /\ v.ahead \in Int
        /\ v = Fields(v.wall, v.micro, v.zoned, v.ahead)
    BY <1>1 DEF Moment, Fields
  <2> QED
    BY <2>1, <2>2
<1>5. v.wall = w /\ v.micro = u /\ v.zoned = z /\ v.ahead = a
  BY <1>3, <1>4
<1> DEFINE given == adapt_datetimefield_value(v, useTz)
           back == format_result(InColumn(given), useTz)
<1>6. back = SetZoned(SetAhead(SetZoned(given, no), 0), useTz)
  <2> HIDE DEF given
  <2>1. InColumn(given) = SetAhead(SetZoned(given, no), 0)
    BY <1>2, ConversionsAre, Zenon
  <2> DEFINE c == InColumn(given)
  <2> HIDE DEF c
  <2>2. format_result(c, useTz) = SetZoned(c, useTz)
    BY <1>2, ConversionsAre, Zenon
  <2> QED
    BY <2>1, <2>2 DEF c
<1>7. ASSUME NEW p, NEW q, NEW r, NEW s, given = Fields(p, q, r, s)
      PROVE  back = Fields(p, q, useTz, 0)
  <2>1. SetZoned(Fields(p, q, r, s), no) = Fields(p, q, no, s)
    BY FieldsChange
  <2>2. SetAhead(Fields(p, q, no, s), 0) = Fields(p, q, no, 0)
    BY FieldsChange
  <2>3. SetZoned(Fields(p, q, no, 0), useTz) = Fields(p, q, useTz, 0)
    BY FieldsChange
  <2> HIDE DEF given, back
  <2> QED
    BY <1>6, <1>7, <2>1, <2>2, <2>3, Zenon
<1>8. CASE useTz /\ v.zoned
  <2> DEFINE d == w - a
  <2>1. given = SetMicro(SetAhead(SetWall(v, d), 0), no)
    BY <1>2, <1>5, <1>8, ConversionsAre
  <2>2. d + 0 = w - a /\ d \in Int
    OBVIOUS
  <2> HIDE DEF d, given
  <2>3. SetWall(Fields(w, u, z, a), d) = Fields(d, u, z, a)
    BY FieldsChange
  <2>4. SetAhead(Fields(d, u, z, a), 0) = Fields(d, u, z, 0)
    BY FieldsChange
  <2>5. SetMicro(Fields(d, u, z, 0), no) = Fields(d, no, z, 0)
    BY FieldsChange
  <2>6. given = Fields(d, no, z, 0)
    BY <1>4, <2>1, <2>3, <2>4, <2>5, Zenon
  <2>7. back = Fields(d, no, useTz, 0)
    BY <1>7, <2>6, Zenon
  <2> HIDE DEF back
  <2>8. back.zoned = useTz /\ back.wall = d /\ back.ahead = 0
    BY <1>3, <2>7
  <2>9. useTz = TRUE
    BY <1>8
  <2>10. Instant(back) = Instant(v)
    BY <1>5, <2>2, <2>8 DEF Instant, d
  <2>11. back.zoned
    BY <2>8, <2>9
  <2> QED
    BY <1>8, <2>10, <2>11 DEF MomentComesBack, back, given
<1>9. CASE ~ useTz /\ ~ v.zoned
  <2>1. given = SetMicro(v, no) /\ [v EXCEPT !.micro = FALSE] = SetMicro(v, no)
    BY <1>2, <1>9, ConversionsAre
  <2>2. SetMicro(Fields(w, u, z, a), no) = Fields(w, no, z, a)
    BY FieldsChange
  <2>3. z = useTz /\ a = 0
    BY <1>4, <1>5, <1>9
  <2> HIDE DEF given
  <2>4. given = Fields(w, no, z, a)
    BY <1>4, <2>1, <2>2, Zenon
  <2>5. back = Fields(w, no, useTz, 0)
    BY <1>7, <2>4, Zenon
  <2> HIDE DEF back
  <2>6. back = [v EXCEPT !.micro = FALSE]
    BY <2>1, <2>3, <2>4, <2>5, Zenon
  <2> QED
    BY <1>9, <2>6, Zenon DEF MomentComesBack, back, given
<1> QED
  BY <1>8, <1>9 DEF MomentComesBack

-----------------------------------------------------------------------------
(* Decimals.                                                               *)

\* Multiplying keeps an order.
LEMMA Multiplying ==
  ASSUME NEW a \in Nat, NEW b \in Nat, NEW c \in Nat, a <= b
  PROVE  a * c <= b * c /\ a * c \in Nat /\ b * c \in Nat
OBVIOUS

\* A product with something positive keeps a strict order.
LEMMA Cancelling ==
  ASSUME NEW a \in Int, NEW b \in Int, NEW c \in Nat, a * c < b * c
  PROVE  a < b
OBVIOUS

\* Division leaves a remainder that is smaller.
LEMMA Dividing ==
  ASSUME NEW a \in Nat, NEW b \in Nat \ {0}
  PROVE  /\ a \div b \in Nat /\ a % b \in 0..(b - 1)
         /\ a = b * (a \div b) + (a % b)
OBVIOUS

\* What Rounded gives is at most half a unit away.
LEMMA RoundedIs ==
  ASSUME NEW n \in Nat, NEW by \in Nat \ {0}
  PROVE  /\ Rounded(n, by) \in Nat
         /\ 2 * (Rounded(n, by) * by) <= 2 * n + by
         /\ 2 * n <= 2 * (Rounded(n, by) * by) + by
<1> DEFINE q == n \div by
           r == n % by
<1>1. q \in Nat /\ r \in 0..(by - 1) /\ n = by * q + r
  BY Dividing
<1>2. \/ Rounded(n, by) = q /\ 2 * r <= by
      \/ Rounded(n, by) = q + 1 /\ 2 * r >= by
  <2> HIDE DEF q
  <2> DEFINE odd == q % 2 = 1
  <2>1. Rounded(n, by) = IF 2 * r > by \/ (2 * r = by /\ odd) THEN q + 1 ELSE q
    BY DEF Rounded, q
  <2> HIDE DEF r, odd
  <2> QED
    BY <1>1, <2>1
<1> HIDE DEF q, r
<1>3. q * by = by * q /\ (q + 1) * by = by * q + by /\ by * q \in Nat
  BY <1>1
<1> DEFINE p == by * q
<1> HIDE DEF p
<1>4. n = p + r /\ q * by = p /\ (q + 1) * by = p + by /\ p \in Nat
  BY <1>1, <1>3 DEF p
<1>5. CASE Rounded(n, by) = q /\ 2 * r <= by
  <2>1. Rounded(n, by) * by = p
    BY <1>4, <1>5
  <2> QED
    BY <1>1, <1>4, <1>5, <2>1
<1>6. CASE Rounded(n, by) = q + 1 /\ 2 * r >= by
  <2>1. Rounded(n, by) * by = p + by
    BY <1>4, <1>6
  <2> QED
    BY <1>1, <1>4, <1>6, <2>1
<1> QED
  BY <1>2, <1>5, <1>6

\* The function that Power is taken from.
Powers(f, base, n) == f = [m \in 0..n |-> IF m = 0 THEN 1 ELSE base * f[m - 1]]

\* Power, with that function named.
LEMMA PowerDef ==
  ASSUME NEW base, NEW n
  PROVE  Power(base, n) = (CHOOSE f : Powers(f, base, n))[n]
BY DEF Power, Powers

\* Powers of a base, one after the other.
LEMMA PowerIs ==
  ASSUME NEW base \in Nat
  PROVE  /\ Power(base, 0) = 1
         /\ \A n \in Nat : Power(base, n) \in Nat /\ Power(base, n + 1) = base * Power(base, n)
<1> DEFINE G == [n \in Nat |-> [s \in Nat |-> base * s]]
<1>1. G \in [Nat -> [Nat -> Nat]]
  OBVIOUS
<1>2. PICK f : f \in [Nat -> Nat] /\ f[0] = 1 /\ \A n \in Nat : f[n + 1] = base * f[n]
  <2>1. \A n \in Nat, s \in Nat : G[n][s] = base * s
    OBVIOUS
  <2> HIDE DEF G
  <2>2. \E f : IsDefinedBy(f, Nat, 1, G)
    BY <1>1, Recursion
  <2>3. PICK f : IsDefinedBy(f, Nat, 1, G)
    BY <2>2
  <2>4. \A n \in Nat : f[n] \in Nat /\ f[n + 1] = G[n][f[n]]
    BY <2>3 DEF IsDefinedBy
  <2>5. \A n \in Nat : f[n + 1] = base * f[n]
    BY <2>1, <2>4
  <2> QED
    BY <2>3, <2>5 DEF IsDefinedBy
<1> HIDE DEF G
<1>3. ASSUME NEW n \in Nat
      PROVE  Power(base, n) = f[n]
  <2> DEFINE p == [m \in 0..n |-> f[m]]
             c == CHOOSE g : Powers(g, base, n)
             T == {m \in Nat : m <= n => c[m] = f[m]}
  <2>1. Powers(p, base, n)
    <3>1. ASSUME NEW m \in 0..n
          PROVE  f[m] = IF m = 0 THEN 1 ELSE base * p[m - 1]
      <4>1. CASE m = 0
        BY <1>2, <4>1
      <4>2. CASE m # 0
        <5>1. m - 1 \in Nat /\ (m - 1) + 1 = m /\ m - 1 \in 0..n
          BY <4>2
        <5>2. f[m] = base * f[m - 1] /\ p[m - 1] = f[m - 1]
          BY <1>2, <5>1
        <5> HIDE DEF p
        <5> QED
          BY <4>2, <5>2
      <4> QED
        BY <4>1, <4>2
    <3> QED
      BY <3>1 DEF Powers
  <2>2. Powers(c, base, n)
    <3> HIDE DEF p
    <3> QED
      BY <2>1
  <2> HIDE DEF c
  <2>3. \A m \in 0..n : c[m] = IF m = 0 THEN 1 ELSE base * c[m - 1]
    <3> DEFINE d == [m \in 0..n |-> IF m = 0 THEN 1 ELSE base * c[m - 1]]
    <3>1. c = d
      BY <2>2 DEF Powers
    <3>2. \A m \in 0..n : d[m] = IF m = 0 THEN 1 ELSE base * c[m - 1]
      OBVIOUS
    <3> HIDE DEF d
    <3> QED
      BY <3>1, <3>2
  <2>4. 0 \in T
    BY <1>2, <2>3
  <2>5. ASSUME NEW m \in Nat, m \in T
        PROVE  m + 1 \in T
    <3> SUFFICES ASSUME m + 1 <= n
                 PROVE  c[m + 1] = f[m + 1]
      OBVIOUS
    <3>1. m + 1 \in 0..n /\ m + 1 # 0 /\ (m + 1) - 1 = m /\ m <= n
      OBVIOUS
    <3>2. c[m + 1] = base * c[m]
      BY <2>3, <3>1
    <3>3. c[m] = f[m]
      BY <2>5, <3>1
    <3> QED
      BY <1>2, <3>2, <3>3
  <2>6. n \in T
    <3> HIDE DEF T
    <3> QED
      BY <2>4, <2>5, Counting
  <2>7. c[n] = f[n]
    BY <2>6
  <2> QED
    BY <2>7, PowerDef DEF c
<1>4. 0 \in Nat /\ \A n \in Nat : n + 1 \in Nat
  OBVIOUS
<1> QED
  BY <1>2, <1>3, <1>4

\* Powers multiply.
LEMMA PowerPlus ==
  ASSUME NEW base \in Nat, NEW m \in Nat
  PROVE  \A n \in Nat : Power(base, m + n) = Power(base, m) * Power(base, n)
<1> DEFINE P(k) == Power(base, k)
           T == {n \in Nat : P(m + n) = P(m) * P(n)}
<1>1. P(0) = 1 /\ \A n \in Nat : P(n) \in Nat /\ P(n + 1) = base * P(n)
  BY PowerIs
<1> HIDE DEF P
<1>2. 0 \in T
  <2>1. m + 0 = m /\ P(m) * 1 = P(m)
    BY <1>1
  <2> QED
    BY <1>1, <2>1
<1>3. ASSUME NEW n \in Nat, n \in T
      PROVE  n + 1 \in T
  <2>1. m + (n + 1) = (m + n) + 1 /\ m + n \in Nat
    OBVIOUS
  <2>2. P(m + (n + 1)) = base * P(m + n) /\ P(n + 1) = base * P(n) /\ P(m + n) = P(m) * P(n)
    BY <1>1, <1>3, <2>1
  <2>3. ASSUME NEW a \in Nat, NEW b \in Nat
        PROVE  base * (a * b) = a * (base * b)
    OBVIOUS
  <2>4. base * (P(m) * P(n)) = P(m) * (base * P(n))
    BY <1>1, <2>3
  <2> QED
    BY <2>2, <2>4
<1>4. \A n \in Nat : n \in T
  <2> HIDE DEF T
  <2> QED
    BY <1>2, <1>3, Counting
<1> QED
  BY <1>4 DEF P

\* Powers do not decrease.
LEMMA PowerGrows ==
  ASSUME NEW base \in Nat \ {0}
  PROVE  /\ \A n \in Nat : Power(base, n) \in Nat \ {0}
         /\ \A m, n \in Nat : m <= n => Power(base, m) <= Power(base, n)
<1> DEFINE P(k) == Power(base, k)
           T == {n \in Nat : P(n) \in Nat \ {0}}
<1>1. P(0) = 1 /\ \A n \in Nat : P(n) \in Nat /\ P(n + 1) = base * P(n)
  BY PowerIs
<1>2. \A m, n \in Nat : P(m + n) = P(m) * P(n)
  BY PowerPlus
<1> HIDE DEF P
<1>3. 0 \in T
  BY <1>1
<1>4. ASSUME NEW n \in Nat, n \in T
      PROVE  n + 1 \in T
  <2>1. ASSUME NEW a \in Nat \ {0}
        PROVE  base * a \in Nat \ {0}
    OBVIOUS
  <2> QED
    BY <1>1, <1>4, <2>1
<1>5. \A n \in Nat : P(n) \in Nat \ {0}
  <2>1. \A n \in Nat : n \in T
    <3> HIDE DEF T
    <3> QED
      BY <1>3, <1>4, Counting
  <2> QED
    BY <2>1
<1>6. ASSUME NEW m \in Nat, NEW n \in Nat, m <= n
      PROVE  P(m) <= P(n)
  <2> DEFINE d == n - m
  <2>1. d \in Nat /\ m + d = n
    BY <1>6
  <2> HIDE DEF d
  <2>2. P(n) = P(m) * P(d)
    BY <1>2, <2>1
  <2>3. ASSUME NEW a \in Nat \ {0}, NEW b \in Nat \ {0}
        PROVE  a <= a * b
    OBVIOUS
  <2> QED
    BY <1>5, <2>1, <2>2, <2>3
<1> QED
  BY <1>5, <1>6 DEF P

\* A quotient is at least a number if the dividend is at least that many divisors, and
\* below one if it is below that many.
LEMMA Quotient ==
  ASSUME NEW a \in Nat, NEW b \in Nat \ {0}, NEW c \in Nat
  PROVE  (a \div b >= c <=> a >= b * c) /\ (a \div b < c <=> a < b * c)
<1> DEFINE q == a \div b
           r == a % b
<1>1. q \in Nat /\ r \in 0..(b - 1) /\ a = b * q + r
  BY Dividing
<1> HIDE DEF q, r
<1>2. CASE q >= c
  <2>1. c * b <= q * b
    BY <1>1, <1>2, Multiplying
  <2>2. b * c <= b * q /\ b * c \in Nat /\ b * q \in Nat
    BY <1>1, <2>1
  <2> QED
    BY <1>1, <1>2, <2>2 DEF q
<1>3. CASE q < c
  <2>1. q + 1 <= c
    BY <1>1, <1>3
  <2>2. (q + 1) * b <= c * b
    BY <1>1, <2>1, Multiplying
  <2>3. b * q + b <= b * c /\ b * c \in Nat /\ b * q \in Nat
    BY <1>1, <2>2
  <2> QED
    BY <1>1, <1>3, <2>3 DEF q
<1> QED
  BY <1>1, <1>2, <1>3

\* A number scaled by a power of two, and divided.
Scaled(n, places, k) == (n * Power(2, k)) \div Power(10, places)

\* Some power of two brings it to the size of a mantissa.
LEMMA ScaleExists ==
  ASSUME NEW n \in Nat \ {0}, NEW places \in Nat, Mantissa \in Nat \ {0},
         n < Power(2, Mantissa), Power(10, places) <= Power(2, Mantissa)
  PROVE  \E k \in 0..(3 * Mantissa) :
           Scaled(n, places, k) \in Power(2, Mantissa - 1)..(Power(2, Mantissa) - 1)
<1> DEFINE m == Mantissa
<1>1. m \in Nat \ {0}
  OBVIOUS
<1>2. PICK P \in Nat \ {0} : P = Power(10, places)
  BY PowerGrows
<1>3. PICK W \in [Nat -> Nat \ {0}] : \A k \in Nat : W[k] = Power(2, k)
  <2> DEFINE f == [k \in Nat |-> Power(2, k)]
  <2>1. \A k \in Nat : Power(2, k) \in Nat \ {0}
    <3>1. 2 \in Nat \ {0}
      OBVIOUS
    <3> QED
      BY <3>1, PowerGrows
  <2>2. f \in [Nat -> Nat \ {0}]
    BY <2>1
  <2> QED
    BY <2>2
<1>4. /\ \A k \in Nat : W[k + 1] = 2 * W[k]
      /\ \A j, k \in Nat : W[j + k] = W[j] * W[k]
      /\ W[0] = 1
  <2>1. \A k \in Nat : Power(2, k + 1) = 2 * Power(2, k) /\ Power(2, 0) = 1
    BY PowerIs
  <2>2. \A j, k \in Nat : Power(2, j + k) = Power(2, j) * Power(2, k)
    BY PowerPlus
  <2>3. \A j, k \in Nat : j + k \in Nat /\ k + 1 \in Nat /\ 0 \in Nat
    OBVIOUS
  <2>4. \A k \in Nat : W[k + 1] = 2 * W[k]
    BY <1>3, <2>1, <2>3, Zenon
  <2>5. ASSUME NEW j \in Nat, NEW k \in Nat
        PROVE  W[j + k] = W[j] * W[k]
    <3>1. W[j + k] = Power(2, j + k)
      BY <1>3, <2>3, Zenon
    <3>2. W[j] = Power(2, j) /\ W[k] = Power(2, k)
      BY <1>3, Zenon
    <3> QED
      BY <2>2, <3>1, <3>2, Zenon
  <2>6. W[0] = 1
    BY <1>3, <2>1, <2>3, Zenon
  <2> QED
    BY <2>4, <2>5, <2>6
<1>5. PICK H \in Nat \ {0} : H = W[m - 1] /\ W[m] = 2 * H
  <2>1. m - 1 \in Nat /\ (m - 1) + 1 = m
    BY <1>1
  <2> HIDE DEF m
  <2>2. W[m - 1] \in Nat \ {0}
    BY <2>1
  <2>3. W[(m - 1) + 1] = 2 * W[m - 1]
    BY <1>4, <2>1, Zenon
  <2>4. W[m] = 2 * W[m - 1]
    BY <2>1, <2>3
  <2> QED
    BY <2>2, <2>4, Zenon
<1>6. n < W[m] /\ P <= W[m] /\ m \in Nat
  BY <1>1, <1>2, <1>3
<1> HIDE DEF m
<1> DEFINE T == {k \in 0..(3 * m) : n * W[k] >= P * H}
<1>7. 3 * m \in T
  <2>1. 3 * m = m + (m + m) /\ m + m \in Nat /\ 3 * m \in Nat
    BY <1>1
  <2>2. W[3 * m] = W[m] * (W[m] * W[m])
    BY <1>1, <1>4, <2>1
  <2>3. ASSUME NEW a \in Nat \ {0}, NEW b \in Nat, NEW c \in Nat, b <= a, c <= a
        PROVE  n * (a * (a * a)) >= b * c
    <3>1. b * c <= a * c /\ b * c \in Nat /\ a * c \in Nat
      BY <2>3, Multiplying
    <3>2. c * a <= a * a /\ a * a \in Nat
      BY <2>3, Multiplying
    <3>3. a * c = c * a
      OBVIOUS
    <3> DEFINE d == a * a
    <3>4. d \in Nat \ {0}
      OBVIOUS
    <3> HIDE DEF d
    <3>5. d <= a * d
      BY <3>4
    <3> DEFINE e == a * d
    <3>6. e \in Nat
      BY <3>4
    <3> HIDE DEF e
    <3>7. e <= n * e
      BY <3>6
    <3>8. b * c <= d
      BY <3>1, <3>2, <3>3 DEF d
    <3>9. b * c <= n * e
      <4>1. d \in Int /\ e \in Int /\ n * e \in Int /\ b * c \in Int /\ d <= e
        BY <3>1, <3>4, <3>5, <3>6 DEF e
      <4> QED
        BY <3>7, <3>8, <4>1
    <3> QED
      BY <3>9 DEF d, e
  <2>4. H <= W[m]
    BY <1>5
  <2>5. n * (W[m] * (W[m] * W[m])) >= P * H
    BY <1>1, <1>4, <1>5, <1>6, <2>3, <2>4
  <2> QED
    BY <2>1, <2>2, <2>5
<1>8. T \subseteq Nat /\ T # {}
  BY <1>7
<1>9. PICK k \in T : \A j \in T : k <= j
  <2> HIDE DEF T
  <2> QED
    BY <1>8, Least
<1>10. k \in 0..(3 * m) /\ k \in Nat /\ n * W[k] >= P * H
  BY <1>9
<1>11. n * W[k] < P * (2 * H) /\ n * W[k] \in Nat
  <2>1. ASSUME NEW w \in Nat \ {0}
        PROVE  n * w \in Nat /\ P * w \in Nat /\ n * (2 * w) = 2 * (n * w) /\ 2 * w \in Nat \ {0}
    OBVIOUS
  <2>2. ASSUME NEW w \in Nat \ {0}
        PROVE  P * (2 * w) = 2 * (P * w) /\ w <= P * w
    OBVIOUS
  <2>3. CASE k = 0
    <3>1. n * W[k] = n
      BY <1>4, <2>3
    <3>2. 2 * H \in Nat \ {0}
      BY <2>1
    <3>3. 2 * H <= P * (2 * H) /\ P * (2 * H) \in Nat
      BY <2>1, <2>2, <3>2
    <3>4. n < 2 * H
      BY <1>5, <1>6
    <3> QED
      BY <3>1, <3>2, <3>3, <3>4
  <2>4. CASE k # 0
    <3> DEFINE j == k - 1
    <3>1. j \in 0..(3 * m) /\ j \in Nat /\ j + 1 = k /\ ~ (k <= j)
      BY <1>6, <1>10, <2>4
    <3> HIDE DEF j
    <3>2. PICK w \in Nat \ {0} : w = W[j]
      BY <3>1
    <3>3. ~ (n * w >= P * H)
      BY <1>9, <3>1, <3>2
    <3>4. n * w \in Nat /\ P * H \in Nat /\ n * (2 * w) = 2 * (n * w)
      BY <2>1
    <3>5. P * (2 * H) = 2 * (P * H)
      BY <2>2
    <3>6. W[j + 1] = 2 * W[j]
      BY <1>4, <3>1, Zenon
    <3>7. W[k] = 2 * w
      BY <3>1, <3>2, <3>6, Zenon
    <3> DEFINE x == n * w
               y == P * H
    <3>8. x \in Nat /\ y \in Nat /\ ~ (x >= y)
      BY <3>3, <3>4
    <3> HIDE DEF x, y
    <3>9. 2 * x < 2 * y /\ 2 * x \in Nat
      BY <3>8
    <3>10. n * W[k] = 2 * x /\ P * (2 * H) = 2 * y
      BY <3>4, <3>5, <3>7, Zenon DEF x, y
    <3> HIDE DEF x, y
    <3> QED
      BY <3>9, <3>10, Zenon
  <2> QED
    BY <2>3, <2>4
<1> DEFINE a == n * W[k]
           S == a \div P
<1>12. S >= H /\ S < 2 * H /\ S \in Nat
  <2> HIDE DEF a
  <2>1. a \in Nat /\ a >= P * H /\ a < P * (2 * H) /\ 2 * H \in Nat
    BY <1>5, <1>10, <1>11 DEF a
  <2>2. S >= H
    BY <1>4, <1>5, <2>1, Quotient
  <2>3. S < 2 * H
    BY <1>4, <2>1, Quotient
  <2>4. S \in Nat
    BY <1>4, <2>1, Dividing
  <2> QED
    BY <2>2, <2>3, <2>4
<1> HIDE DEF S
<1>13. S \in H..(W[m] - 1)
  BY <1>5, <1>12
<1>14. Scaled(n, places, k) = S
  BY <1>2, <1>3, <1>10 DEF S, a, Scaled
<1>15. H = Power(2, Mantissa - 1) /\ W[m] = Power(2, Mantissa)
  <2>1. m - 1 \in Nat /\ m \in Nat
    BY <1>1
  <2> QED
    BY <1>3, <1>5, <2>1 DEF m
<1> QED
  BY <1>10, <1>13, <1>14, <1>15 DEF m

\* What a float and its ten-fold print leave of a value: less than half of the digit that
\* is rounded away.
LEMMA PrintIsNear ==
  ASSUME NEW q \in Nat, NEW P \in Nat \ {0}, NEW S \in Nat \ {0}, NEW M \in Nat, NEW t \in Nat,
         2 * (M * P) <= 2 * (q * S) + P, 2 * (q * S) <= 2 * (M * P) + P,
         2 * (t * S) <= 2 * (M * (10 * P)) + S, 2 * (M * (10 * P)) <= 2 * (t * S) + S,
         10 * P < 9 * S
  PROVE  InDecimalColumn(t) = q
<1>1. M * (10 * P) = 10 * (M * P) /\ M * P \in Nat /\ q * S \in Nat /\ t * S \in Nat
  OBVIOUS
<1> DEFINE mp == M * P
           qs == q * S
           ts == t * S
           mq == M * (10 * P)
<1>2. /\ mp \in Nat /\ qs \in Nat /\ ts \in Nat /\ mq = 10 * mp
      /\ 2 * mp <= 2 * qs + P /\ 2 * qs <= 2 * mp + P
      /\ 2 * ts <= 2 * mq + S /\ 2 * mq <= 2 * ts + S
  BY <1>1
<1> HIDE DEF mp, qs, ts, mq
<1>3. 2 * ts < 20 * qs + 10 * S /\ 20 * qs < 2 * ts + 10 * S
  BY <1>2
<1>4. /\ (2 * t) * S = 2 * ts /\ (20 * q + 10) * S = 20 * qs + 10 * S
      /\ (20 * q) * S = 20 * qs /\ (2 * t + 10) * S = 2 * ts + 10 * S
  <2>1. /\ (2 * t) * S = 2 * (t * S) /\ (20 * q + 10) * S = 20 * (q * S) + 10 * S
        /\ (20 * q) * S = 20 * (q * S) /\ (2 * t + 10) * S = 2 * (t * S) + 10 * S
    OBVIOUS
  <2> QED
    BY <2>1 DEF ts, qs
<1>5. 2 * t < 20 * q + 10
  <2>1. 2 * t \in Int /\ 20 * q + 10 \in Int /\ (2 * t) * S < (20 * q + 10) * S
    BY <1>3, <1>4
  <2> QED
    BY <2>1, Cancelling
<1>6. 20 * q < 2 * t + 10
  <2>1. 20 * q \in Int /\ 2 * t + 10 \in Int /\ (20 * q) * S < (2 * t + 10) * S
    BY <1>3, <1>4
  <2> QED
    BY <2>1, Cancelling
<1>7. t + 5 \in (10 * q)..(10 * q + 9)
  BY <1>5, <1>6
<1>8. (t + 5) \div 10 = q
  BY <1>7
<1> QED
  BY <1>8 DEF InDecimalColumn

\* A value that has few enough digits comes back from its float.
LEMMA FloatIsKept ==
  ASSUME NEW q \in Nat, NEW digits \in Nat, NEW places \in Nat, places <= digits,
         Mantissa \in Nat \ {0}, q < Power(10, digits),
         20 * Power(10, digits) <= 9 * Power(2, Mantissa)
  PROVE  InDecimalColumn(ThroughFloat(q, places, places + 1)) = q
<1>1. CASE q = 0
  <2>1. ThroughFloat(q, places, places + 1) = 0
    BY <1>1 DEF ThroughFloat
  <2>2. (0 + 5) \div 10 = 0
    OBVIOUS
  <2> QED
    BY <1>1, <2>1, <2>2 DEF InDecimalColumn
<1>2. CASE q # 0
  <2>1. PICK P \in Nat \ {0}, D \in Nat \ {0} :
          P = Power(10, places) /\ D = Power(10, digits) /\ P <= D
    <3>1. 10 \in Nat \ {0}
      OBVIOUS
    <3>2. /\ Power(10, places) \in Nat \ {0} /\ Power(10, digits) \in Nat \ {0}
          /\ Power(10, places) <= Power(10, digits)
      BY <3>1, PowerGrows
    <3> QED
      BY <3>2
  <2>2. PICK H \in Nat \ {0} : H = Power(2, Mantissa - 1) /\ Power(2, Mantissa) = 2 * H
    <3>1. Mantissa - 1 \in Nat /\ (Mantissa - 1) + 1 = Mantissa /\ 2 \in Nat \ {0}
      OBVIOUS
    <3>2. Power(2, Mantissa - 1) \in Nat \ {0}
      BY <3>1, PowerGrows
    <3>3. Power(2, (Mantissa - 1) + 1) = 2 * Power(2, Mantissa - 1)
      BY <3>1, PowerIs
    <3> QED
      BY <3>1, <3>2, <3>3
  <2>3. q < D /\ 20 * D <= 9 * (2 * H)
    BY <2>1, <2>2
  <2>4. 10 * D <= 9 * H /\ D <= 2 * H /\ P <= 2 * H /\ q < 2 * H
    BY <2>1, <2>3
  <2> DEFINE s == CHOOSE k \in 0..(3 * Mantissa) :
                    Scaled(q, places, k) \in Power(2, Mantissa - 1)..(Power(2, Mantissa) - 1)
  <2>5. \E k \in 0..(3 * Mantissa) :
          Scaled(q, places, k) \in Power(2, Mantissa - 1)..(Power(2, Mantissa) - 1)
    <3>1. q \in Nat \ {0} /\ q < Power(2, Mantissa) /\ Power(10, places) <= Power(2, Mantissa)
      BY <1>2, <2>1, <2>2, <2>4
    <3> QED
      BY <3>1, ScaleExists
  <2>6. /\ s \in 0..(3 * Mantissa)
        /\ Scaled(q, places, s) \in Power(2, Mantissa - 1)..(Power(2, Mantissa) - 1)
    BY <2>5
  <2>7. ThroughFloat(q, places, places + 1)
          = Rounded(Rounded(q * Power(2, s), Power(10, places)) * Power(10, places + 1), Power(2, s))
    BY <1>2 DEF ThroughFloat, Scaled
  <2> HIDE DEF s
  <2>8. PICK S \in Nat \ {0} : S = Power(2, s)
    <3>1. 2 \in Nat \ {0} /\ s \in Nat
      BY <2>6
    <3> QED
      BY <3>1, PowerGrows
  <2>9. Power(10, places + 1) = 10 * P
    BY <2>1, PowerIs
  <2>10. q * S >= P * H
    <3>1. (q * S) \div P >= H
      BY <2>1, <2>2, <2>6, <2>8 DEF Scaled
    <3>2. q * S \in Nat
      OBVIOUS
    <3> QED
      BY <3>1, <3>2, Quotient
  <2>11. 10 * P < 9 * S
    <3>1. /\ (10 * P) * D = P * (10 * D) /\ P * (9 * H) = 9 * (P * H)
          /\ 9 * (q * S) = q * (9 * S) /\ D * (9 * S) = (9 * S) * D
          /\ (10 * D) * P = P * (10 * D) /\ (9 * H) * P = P * (9 * H)
      OBVIOUS
    <3>2. (10 * D) * P <= (9 * H) * P
      BY <2>4, Multiplying
    <3>3. q * (9 * S) < D * (9 * S)
      <4>1. ASSUME NEW c \in Nat \ {0}
            PROVE  q * c < D * c
        BY <2>3
      <4>2. 9 * S \in Nat \ {0}
        OBVIOUS
      <4> QED
        BY <4>1, <4>2
    <3>4. P * H \in Nat /\ q * S \in Nat /\ 9 * (P * H) <= 9 * (q * S)
      BY <2>10
    <3>5. (10 * P) * D \in Nat /\ (9 * S) * D \in Nat
      OBVIOUS
    <3> DEFINE u == (10 * P) * D
               v == (9 * S) * D
               x == 9 * (P * H)
               y == 9 * (q * S)
    <3>6. u <= x /\ x <= y /\ y < v /\ u \in Nat /\ v \in Nat /\ x \in Nat /\ y \in Nat
      BY <3>1, <3>2, <3>3, <3>4, <3>5
    <3> HIDE DEF u, v, x, y
    <3>7. u < v
      BY <3>6
    <3>8. (10 * P) * D < (9 * S) * D /\ 10 * P \in Int /\ 9 * S \in Int
      BY <3>7 DEF u, v
    <3> QED
      BY <3>8, Cancelling
  <2> DEFINE M == Rounded(q * S, P)
             t == Rounded(M * (10 * P), S)
  <2>12. M \in Nat /\ 2 * (M * P) <= 2 * (q * S) + P /\ 2 * (q * S) <= 2 * (M * P) + P
    <3>1. q * S \in Nat
      OBVIOUS
    <3> QED
      BY <3>1, RoundedIs
  <2> HIDE DEF M
  <2>13. /\ t \in Nat /\ 2 * (t * S) <= 2 * (M * (10 * P)) + S
         /\ 2 * (M * (10 * P)) <= 2 * (t * S) + S
    <3>1. M * (10 * P) \in Nat
      BY <2>12
    <3> QED
      BY <3>1, RoundedIs
  <2>14. ThroughFloat(q, places, places + 1) = t
    BY <2>1, <2>7, <2>8, <2>9 DEF M
  <2> HIDE DEF t
  <2>15. InDecimalColumn(t) = q
    BY <2>11, <2>12, <2>13, PrintIsNear
  <2> QED
    BY <2>14, <2>15
<1> QED
  BY <1>1, <1>2

\* Every decimal that is bound is stored as the nearest one.
LEMMA DecimalsAreKept ==
  ASSUME NEW v, v.n \in Nat, v.digits \in Nat, v.places \in Nat, v.places <= v.digits,
         Mantissa \in Nat \ {0}
  PROVE  DecimalIsKept(v)
<1> DEFINE q == Rounded(v.n, 10)
           few == 20 * Power(10, v.digits) <= 9 * Power(2, Mantissa)
<1>1. q \in Nat
  BY RoundedIs
<1> HIDE DEF q
<1>2. ASSUME few, NEW text \in ToSet(adapt_decimalfield_value(v.n, v.digits, v.places))
      PROVE  InDecimalColumn(text) = q
  <2> DEFINE kept == ThroughFloat(q, v.places, v.places + 1)
  <2>1. adapt_decimalfield_value(v.n, v.digits, v.places)
          = IF q >= Power(10, v.digits) THEN <<>> ELSE <<kept>>
    BY DEF adapt_decimalfield_value, q
  <2> HIDE DEF kept
  <2>2. ToSet(<<>>) = {} /\ ToSet(<<kept>>) = {kept}
    BY DEF ToSet
  <2>3. ~ (q >= Power(10, v.digits)) /\ text = kept
    BY <1>2, <2>1, <2>2
  <2>4. Power(10, v.digits) \in Nat
    BY PowerIs
  <2>5. q < Power(10, v.digits)
    BY <1>1, <2>3, <2>4
  <2>6. InDecimalColumn(kept) = q
    BY <1>1, <1>2, <2>5, FloatIsKept DEF kept
  <2> QED
    BY <2>3, <2>6
<1> QED
  BY <1>2 DEF DecimalIsKept, q

-----------------------------------------------------------------------------
(* What is bound arrives.                                                  *)

\* Nothing is bound, or one of the values.
Bound == value \in Values \cup {NoValue}

\* What a value of each kind is.
LEMMA KindIs ==
  ASSUME NEW v \in Values \cup {NoValue}, LookupsAssumption
  PROVE  /\ v.kind = "lookup" => /\ v.lookup \in AllLookups /\ v.text \in Seq(Characters)
                                 /\ v.sensitive \in BOOLEAN
         /\ v.kind = "name" => v.name \in Named
         /\ v.kind = "moment" => v.moment \in Moments /\ v.useTz \in BOOLEAN
         /\ v.kind = "decimal" => /\ v.n \in Nat /\ v.digits \in Nat /\ v.places \in Nat
                                  /\ v.places <= v.digits
<1> DEFINE Top == Power(10, MaxDigits + 1) + 9
           L == [kind: {"lookup"}, lookup: AllLookups, text: Written, sensitive: BOOLEAN]
           N == [kind: {"name"}, server: {"mssql", "db2", "openedge"}, option: {None, "'"}, name: Named]
           M == [kind: {"moment"}, moment: Moments, useTz: BOOLEAN]
           D == {d \in [kind: {"decimal"}, n: 0..Top, digits: 1..MaxDigits, places: 0..MaxDigits] :
                   d.places <= d.digits}
<1>1. v \in L \/ v \in N \/ v \in M \/ v \in D \/ v = NoValue
  BY DEF Values
<1>2. v = NoValue => v.kind = "nothing"
  BY DEF NoValue
<1>3. v \in L => /\ v.kind = "lookup" /\ v.lookup \in AllLookups /\ v.text \in Written
                 /\ v.sensitive \in BOOLEAN
  OBVIOUS
<1>4. v \in N => v.kind = "name" /\ v.name \in Named
  OBVIOUS
<1>5. v \in M => v.kind = "moment" /\ v.moment \in Moments /\ v.useTz \in BOOLEAN
  OBVIOUS
<1>6. v \in D => /\ v.kind = "decimal" /\ v.n \in 0..Top /\ v.digits \in 1..MaxDigits
                 /\ v.places \in 0..MaxDigits /\ v.places <= v.digits
  <2> HIDE DEF Top
  <2> QED
    OBVIOUS
<1> HIDE DEF L, N, M, D, Top
<1>7. v \in D => v.n \in Nat /\ v.digits \in Nat /\ v.places \in Nat
  BY <1>6
<1>8. v.text \in Written => v.text \in Seq(Characters)
  BY DEF LookupsAssumption
<1> QED
  BY <1>1, <1>2, <1>3, <1>4, <1>5, <1>6, <1>7, <1>8

\* Nothing else is ever bound.
LEMMA BoundIsKept == LookupsSpec => []Bound
<1>1. LookupsInit => Bound
  BY DEF LookupsInit, Bound
<1>2. Bound /\ [LookupsNext]_value => Bound'
  BY DEF Bound, LookupsNext, Bind
<1> QED
  BY <1>1, <1>2, PTL DEF LookupsSpec

\* A lookup finds a text if and only if the text is what Django promises of the lookup, for
\* all texts and both collations (prep_for_like_query, the operators and lookup_cast).
THEOREM LikeFindsTextTheorem == LookupsSpec => []LikeFindsText
<1>1. Bound => LikeFindsText
  <2> SUFFICES ASSUME Bound, value.kind = "lookup", NEW text \in Stored
               PROVE  Operates(value.lookup, Operand(value.lookup, value.text), text, value.sensitive)
                        = Promised(value.lookup, value.text, text, value.sensitive)
    BY DEF LikeFindsText
  <2>1. /\ value.lookup \in AllLookups /\ value.text \in Seq(Characters)
        /\ value.sensitive \in BOOLEAN
    BY LookupsAssumption, KindIs DEF Bound
  <2>2. text \in Seq(Characters)
    BY LookupsAssumption DEF LookupsAssumption
  <2> QED
    BY <2>1, <2>2, LookupFinds
<1> QED
  BY <1>1, BoundIsKept, PTL

\* Names, moments and decimals mean to the server what they meant before, for all names and
\* moments, and for all decimals whose digits are those of a float or less (quote_name, adapt_datetimefield_value, adapt_decimalfield_value).
THEOREM ValuesArriveTheorem == LookupsSpec => []ValuesArrive
<1>1. Bound => ValuesArrive
  <2> SUFFICES ASSUME Bound
               PROVE  ValuesArrive
    OBVIOUS
  <2>1. PICK v : v = value
    OBVIOUS
  <2>2. /\ v.kind = "name" => v.name \in Named
        /\ v.kind = "moment" => v.moment \in Moments /\ v.useTz \in BOOLEAN
        /\ v.kind = "decimal" => /\ v.n \in Nat /\ v.digits \in Nat /\ v.places \in Nat
                                 /\ v.places <= v.digits
    BY <2>1, LookupsAssumption, KindIs DEF Bound
  <2>3. v.kind = "name" => NameArrives(v)
    BY <2>2, LookupsAssumption, NamesArrive
  <2>4. v.kind = "moment" => MomentComesBack(v.moment, v.useTz)
    BY <2>2, LookupsAssumption, MomentsComeBack
  <2>5. v.kind = "decimal" => DecimalIsKept(v)
    <3>1. Mantissa \in Nat \ {0}
      BY LookupsAssumption DEF LookupsAssumption
    <3> QED
      BY <2>2, <3>1, DecimalsAreKept
  <2> QED
    BY <2>1, <2>3, <2>4, <2>5 DEF ValuesArrive
<1> QED
  BY <1>1, BoundIsKept, PTL

=============================================================================
