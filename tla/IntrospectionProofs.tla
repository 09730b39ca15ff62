------------------------ MODULE IntrospectionProofs ------------------------
(***************************************************************************)
(* Proofs about Introspection: types, relations and their errors.          *)
(*                                                                         *)
(* What get_relations has collected must stay true while migrations come   *)
(* in between: the columns it knows (Indexed), the rows it has read        *)
(* (TypeOK) and what it has found (Sound) are what the catalogue says now. *)
(* As long as none has come, nothing is missing either (Complete).         *)
(***************************************************************************)
EXTENDS Introspection, TLAPS

-----------------------------------------------------------------------------
(* Names and places, in a given catalogue.                                 *)

ReferredIn(c, k) == CHOOSE l \in c.constraints : l.name = k.refers

PlacesIn(c, name) == {j - 1 : j \in DOMAIN TableOf(c, name).columns}

NameAt(c, name, p) == TableOf(c, name).columns[p + 1].name

ColumnNames(c, name) == {col.name : col \in RangeOf(TableOf(c, name).columns)}

\* An entry of get_relations says what is in the catalogue.
Sound(c, name, p, entry) ==
  /\ p \in PlacesIn(c, name)
  /\ \E k \in ForeignKeys(c, name) :
       /\ NameAt(c, name, p) \in RangeOf(k.columns)
       /\ entry.table = ReferredIn(c, k).table
       /\ entry.place \in PlacesIn(c, ReferredIn(c, k).table)
       /\ NameAt(c, ReferredIn(c, k).table, entry.place) \in RangeOf(ReferredIn(c, k).columns)

\* RelationsAreRight, of a given catalogue.
RightIn(c, of, name, value, moved) ==
  of = "relations" =>
    \A p \in PlacesIn(c, name) \cup DOMAIN value :
      /\ p \in DOMAIN value => Sound(c, name, p, value[p])
      /\ ~ moved =>
           \A k \in ForeignKeys(c, name) :
             /\ {l \in ForeignKeys(c, name) : NameAt(c, name, p) \in RangeOf(l.columns)} = {k}
             /\ Len(k.columns) = 1
             => /\ p \in DOMAIN value
                /\ value[p].table = ReferredIn(c, k).table
                /\ NameAt(c, value[p].table, value[p].place) = ReferredIn(c, k).columns[1]

\* KeyColumnsAreRight, IndexesAreRight and ColumnsAreRight, of a given catalogue.
KeyColumnsIn(c, name, value) ==
  /\ \A row \in value : \E k \in ForeignKeys(c, name) :
       /\ row[1] \in RangeOf(k.columns)
       /\ row[2] = ReferredIn(c, k).table
       /\ row[3] \in RangeOf(ReferredIn(c, k).columns)
  /\ \A k \in ForeignKeys(c, name) : ReferredIn(c, k).kind = PrimaryKey =>
       \A i \in DOMAIN k.columns :
         <<k.columns[i], ReferredIn(c, k).table, ReferredIn(c, k).columns[i]>> \in value

SingleIn(c, name) == {x \in c.indexes : x.table = name /\ Len(x.keys) = 1}

IncludedIn(c, name, n) == \E x \in SingleIn(c, name) : \E column \in x.included : Lower[column] = n

IndexesIn(c, name, value) ==
  /\ \A x \in SingleIn(c, name) : Lower[x.keys[1]] \in DOMAIN value
  /\ \A n \in DOMAIN value : IncludedIn(c, name, n) \/
       \E x \in SingleIn(c, name) :
         Lower[x.keys[1]] = n /\ value[n] = [unique |-> x.unique, primary |-> x.primary]

ColumnsIn(c, of, name, value) ==
  /\ of = "key columns" => KeyColumnsIn(c, name, value)
  /\ of = "indexes" => IndexesIn(c, name, value)

\* The index has places of columns, ...
Indexed(c, name, index) ==
  \A n \in DOMAIN index : index[n] \in PlacesIn(c, name) /\ NameAt(c, name, index[n]) = n

\* ... and all of them.
AllIndexed(c, name, index) == \A p \in PlacesIn(c, name) : NameAt(c, name, p) \in DOMAIN index

\* A column that is a foreign key of its own is found or will be.
Complete(c, name, rows, found) ==
  \A k \in ForeignKeys(c, name), p \in PlacesIn(c, name) :
    NameAt(c, name, p) \in RangeOf(k.columns) /\ Len(k.columns) = 1 =>
      p \in DOMAIN found \/ \E row \in rows : row[1] = NameAt(c, name, p)

\* NoCall, or a record of all fields.
IsCall ==
  call = NoCall \/
    call = [pending |-> TRUE, table |-> call.table, joined |-> call.joined,
            moved |-> call.moved, index |-> call.index, rows |-> call.rows,
            found |-> call.found]

Collected ==
  call.pending =>
    /\ Indexed(catalogue, call.table, call.index)
    /\ \A p \in DOMAIN call.found : Sound(catalogue, call.table, p, call.found[p])
    /\ ~ call.moved =>
         /\ AllIndexed(catalogue, call.table, call.index)
         /\ call.joined => Complete(catalogue, call.table, call.rows, call.found)

IInv ==
  TypeOK /\ IsCall /\ Collected /\ RelationsAreRight /\ OnlyMigrationsRaise /\ ColumnsAreRight

-----------------------------------------------------------------------------
(* One catalogue.                                                          *)

LEMMA TableFacts ==
  ASSUME NEW c, WellFormed(c), NEW name \in TableNames(c)
  PROVE  /\ TableOf(c, name) \in c.tables
         /\ TableOf(c, name).name = name
         /\ \A t \in c.tables : t.name = name => t = TableOf(c, name)
<1>1. PICK t \in c.tables : t.name = name
  BY DEF TableNames
<1>2. TableOf(c, name) \in c.tables /\ TableOf(c, name).name = name
  BY <1>1, Zenon DEF TableOf
<1> QED
  BY <1>2 DEF WellFormed

LEMMA ColumnFacts ==
  ASSUME NEW c, WellFormed(c), NEW name \in TableNames(c)
  PROVE  /\ PlacesIn(c, name) \subseteq Nat
         /\ {NameAt(c, name, p) : p \in PlacesIn(c, name)} = ColumnNames(c, name)
         /\ ColumnNames(c, name) \subseteq Names
         /\ \A p, q \in PlacesIn(c, name) : NameAt(c, name, p) = NameAt(c, name, q) => p = q
         /\ \A n, m \in ColumnNames(c, name) : Lower[n] = Lower[m] => n = m
<1> DEFINE columns == TableOf(c, name).columns
<1>1. /\ columns \in Seq([name: Names, type: STRING, size: Nat, identity: BOOLEAN])
      /\ \A i, j \in DOMAIN columns :
           Lower[columns[i].name] = Lower[columns[j].name] => i = j
  BY TableFacts DEF WellFormed
<1>2. PlacesIn(c, name) = {j - 1 : j \in DOMAIN columns}
  BY DEF PlacesIn
<1>3. \A p : NameAt(c, name, p) = columns[p + 1].name
  BY DEF NameAt
<1>4. ColumnNames(c, name) = {columns[j].name : j \in DOMAIN columns}
  BY DEF ColumnNames, RangeOf
<1> HIDE DEF columns
<1>5. DOMAIN columns = 1..Len(columns) /\ Len(columns) \in Nat
  BY <1>1
<1> DEFINE Record == [name: Names, type: STRING, size: Nat, identity: BOOLEAN]
<1>6. \A j \in DOMAIN columns : columns[j].name \in Names
  <2>1. columns \in Seq(Record)
    BY <1>1
  <2>2. \A col \in Record : col.name \in Names
    OBVIOUS
  <2> HIDE DEF Record
  <2> QED
    BY <2>1, <2>2
<1>7. PlacesIn(c, name) \subseteq Nat
  BY <1>2, <1>5
<1>8. \A p \in PlacesIn(c, name) : p + 1 \in DOMAIN columns
  BY <1>2, <1>5
<1>9. \A j \in DOMAIN columns : j - 1 \in PlacesIn(c, name) /\ (j - 1) + 1 = j
  BY <1>2, <1>5
<1>10. {NameAt(c, name, p) : p \in PlacesIn(c, name)} \subseteq ColumnNames(c, name)
  BY <1>3, <1>4, <1>8
<1>11. \A j \in DOMAIN columns : columns[j].name = NameAt(c, name, j - 1)
  BY <1>3, <1>9
<1>12. ColumnNames(c, name) \subseteq {NameAt(c, name, p) : p \in PlacesIn(c, name)}
  BY <1>4, <1>9, <1>11
<1>13. ASSUME NEW p \in PlacesIn(c, name), NEW q \in PlacesIn(c, name),
              NameAt(c, name, p) = NameAt(c, name, q)
       PROVE  p = q
  <2>1. p + 1 = q + 1
    BY <1>1, <1>3, <1>8, <1>13
  <2> QED
    BY <2>1, <1>7
<1>14. \A n, m \in ColumnNames(c, name) : Lower[n] = Lower[m] => n = m
  BY <1>1, <1>4
<1> QED
  BY <1>4, <1>6, <1>7, <1>10, <1>12, <1>13, <1>14

LEMMA IndexFacts ==
  ASSUME NEW c, WellFormed(c), NEW name \in TableNames(c)
  PROVE  /\ DOMAIN NameToIndex(c, name) = ColumnNames(c, name)
         /\ Indexed(c, name, NameToIndex(c, name))
         /\ AllIndexed(c, name, NameToIndex(c, name))
<1> DEFINE columns == TableOf(c, name).columns
           d       == Description(c, name, FALSE)
           index   == NameToIndex(c, name)
<1>1. /\ DOMAIN d = DOMAIN columns
      /\ \A j \in DOMAIN columns : d[j].name = columns[j].name
  BY DEF Description, Described
<1>2. /\ DOMAIN index = {d[j].name : j \in DOMAIN d}
      /\ \A n \in DOMAIN index : index[n] = (CHOOSE j \in DOMAIN d : d[j].name = n) - 1
  BY DEF NameToIndex
<1>3. DOMAIN index = ColumnNames(c, name)
  <2>1. ColumnNames(c, name) = {columns[j].name : j \in DOMAIN columns}
    BY DEF ColumnNames, RangeOf
  <2> HIDE DEF columns, d, index
  <2> QED
    BY <2>1, <1>1, <1>2
<1>4. ASSUME NEW n \in DOMAIN index
      PROVE  index[n] \in PlacesIn(c, name) /\ NameAt(c, name, index[n]) = n
  <2> DEFINE j == CHOOSE j \in DOMAIN d : d[j].name = n
  <2>1. j \in DOMAIN d /\ d[j].name = n
    BY <1>2
  <2>2. j \in DOMAIN columns /\ columns[j].name = n
    BY <2>1, <1>1
  <2>3. index[n] = j - 1
    BY <1>2
  <2> HIDE DEF j
  <2>4. columns \in Seq([name: Names, type: STRING, size: Nat, identity: BOOLEAN])
    BY TableFacts DEF WellFormed
  <2>5. j \in Nat
    BY <2>2, <2>4
  <2>6. (j - 1) + 1 = j
    BY <2>5
  <2> QED
    BY <2>2, <2>3, <2>6 DEF PlacesIn, NameAt
<1>5. AllIndexed(c, name, index)
  BY <1>3, ColumnFacts DEF AllIndexed
<1> QED
  BY <1>3, <1>4, <1>5 DEF Indexed

LEMMA ReferredFacts ==
  ASSUME NEW c, WellFormed(c), NEW k \in c.constraints, k.kind = ForeignKey
  PROVE  /\ ReferredIn(c, k) \in c.constraints
         /\ ReferredIn(c, k).name = k.refers
         /\ Len(ReferredIn(c, k).columns) = Len(k.columns)
         /\ ReferredIn(c, k).table \in TableNames(c)
         /\ RangeOf(ReferredIn(c, k).columns) \subseteq ColumnNames(c, ReferredIn(c, k).table)
         /\ \A l \in c.constraints : l.name = k.refers => l = ReferredIn(c, k)
<1>1. PICK l \in c.constraints : l.name = k.refers /\ Len(l.columns) = Len(k.columns)
  BY DEF WellFormed
<1>2. ReferredIn(c, k) \in c.constraints /\ ReferredIn(c, k).name = k.refers
  BY <1>1, Zenon DEF ReferredIn
<1>3. \A m \in c.constraints : m.name = k.refers => m = ReferredIn(c, k)
  BY <1>2 DEF WellFormed
<1>4. /\ ReferredIn(c, k).table \in TableNames(c)
      /\ RangeOf(ReferredIn(c, k).columns) \subseteq ColumnNames(c, ReferredIn(c, k).table)
  BY <1>2, Zenon DEF WellFormed, ColumnNames
<1> QED
  BY <1>1, <1>2, <1>3, <1>4

\* What CONSTRAINT_COLUMN_USAGE has of a constraint.
LEMMA UsageFacts ==
  ASSUME NEW c, WellFormed(c), NEW m \in c.constraints
  PROVE  /\ \A u \in ColumnUsage(c) : u.constraint = m.name => u.column \in RangeOf(m.columns)
         /\ \A n \in RangeOf(m.columns) :
              [constraint |-> m.name, column |-> n] \in ColumnUsage(c)
<1>1. ASSUME NEW u \in ColumnUsage(c), u.constraint = m.name
      PROVE  u.column \in RangeOf(m.columns)
  <2>1. PICK l \in c.constraints :
          u \in {[constraint |-> l.name, column |-> n] : n \in RangeOf(l.columns)}
    BY DEF ColumnUsage
  <2>2. PICK n \in RangeOf(l.columns) : u = [constraint |-> l.name, column |-> n]
    BY <2>1
  <2>3. l.name = m.name
    BY <1>1, <2>2
  <2>4. l = m
    BY <2>3 DEF WellFormed
  <2> QED
    BY <2>2, <2>4
<1>2. ASSUME NEW n \in RangeOf(m.columns)
      PROVE  [constraint |-> m.name, column |-> n] \in ColumnUsage(c)
  <2>1. [constraint |-> m.name, column |-> n]
          \in {[constraint |-> m.name, column |-> a] : a \in RangeOf(m.columns)}
    OBVIOUS
  <2> QED
    BY <2>1, Zenon DEF ColumnUsage
<1> QED
  BY <1>1, <1>2

\* A row of the join of a foreign key with the constraint it refers to.
IsRow(c, k, row) ==
  \E a \in RangeOf(k.columns), b \in RangeOf(ReferredIn(c, k).columns) :
    row = <<a, ReferredIn(c, k).table, b>>

LEMMA JoinFacts ==
  ASSUME NEW c, WellFormed(c), NEW k \in c.constraints, k.kind = ForeignKey, NEW row
  PROVE  IsRow(c, k, row)
           <=> \E e \in {u \in ColumnUsage(c) : u.constraint = k.name},
                 d \in {u \in ColumnUsage(c) : u.constraint = k.refers} :
                 row = <<e.column, ReferredIn(c, k).table, d.column>>
<1>1. ReferredIn(c, k) \in c.constraints /\ ReferredIn(c, k).name = k.refers
  BY ReferredFacts
<1>2. ASSUME NEW a \in RangeOf(k.columns), NEW b \in RangeOf(ReferredIn(c, k).columns)
      PROVE  \E e \in {u \in ColumnUsage(c) : u.constraint = k.name},
                d \in {u \in ColumnUsage(c) : u.constraint = k.refers} :
               e.column = a /\ d.column = b
  <2>1. /\ [constraint |-> k.name, column |-> a] \in ColumnUsage(c)
        /\ [constraint |-> k.refers, column |-> b] \in ColumnUsage(c)
    BY <1>1, UsageFacts
  <2> QED
    BY <2>1
<1>3. ASSUME NEW e \in {u \in ColumnUsage(c) : u.constraint = k.name},
             NEW d \in {u \in ColumnUsage(c) : u.constraint = k.refers}
      PROVE  e.column \in RangeOf(k.columns) /\ d.column \in RangeOf(ReferredIn(c, k).columns)
  BY <1>1, UsageFacts
<1>4. ASSUME IsRow(c, k, row)
      PROVE  \E e \in {u \in ColumnUsage(c) : u.constraint = k.name},
                d \in {u \in ColumnUsage(c) : u.constraint = k.refers} :
               row = <<e.column, ReferredIn(c, k).table, d.column>>
  BY <1>2, <1>4 DEF IsRow
<1>5. ASSUME NEW e \in {u \in ColumnUsage(c) : u.constraint = k.name},
             NEW d \in {u \in ColumnUsage(c) : u.constraint = k.refers},
             row = <<e.column, ReferredIn(c, k).table, d.column>>
      PROVE  IsRow(c, k, row)
  BY <1>3, <1>5 DEF IsRow
<1> QED
  BY <1>4, <1>5

\* The rows of the joins: each column of a foreign key with each column it refers to.
LEMMA RowFacts ==
  ASSUME NEW c, WellFormed(c), NEW name, NEW row
  PROVE  /\ row \in RelationRows(c, name)
              <=> \E k \in ForeignKeys(c, name) : IsRow(c, k, row)
         /\ row \in KeyColumnRows(c, name)
              <=> \E k \in ForeignKeys(c, name) :
                    ReferredIn(c, k).kind = PrimaryKey /\ IsRow(c, k, row)
<1> DEFINE Of(k)     == {u \in ColumnUsage(c) : u.constraint = k.name}
           On(k)     == {u \in ColumnUsage(c) : u.constraint = k.refers}
           Any(k)    == {m \in c.constraints : m.name = k.refers}
           Primary(k) == {m \in c.constraints : m.name = k.refers /\ m.kind = PrimaryKey}
           Joined(k, ls) == {<<e.column, l.table, d.column>> : e \in Of(k), l \in ls, d \in On(k)}
<1>1. RelationRows(c, name) = UNION {Joined(k, Any(k)) : k \in ForeignKeys(c, name)}
  BY DEF RelationRows
<1>2. KeyColumnRows(c, name) = UNION {Joined(k, Primary(k)) : k \in ForeignKeys(c, name)}
  BY DEF KeyColumnRows
<1>3. ASSUME NEW k \in ForeignKeys(c, name)
      PROVE  /\ Any(k) = {ReferredIn(c, k)}
             /\ Primary(k) = IF ReferredIn(c, k).kind = PrimaryKey THEN {ReferredIn(c, k)} ELSE {}
  BY ReferredFacts DEF ForeignKeys
<1>4. ASSUME NEW k \in ForeignKeys(c, name)
      PROVE  IsRow(c, k, row)
               <=> \E e \in Of(k), d \in On(k) : row = <<e.column, ReferredIn(c, k).table, d.column>>
  BY JoinFacts DEF ForeignKeys
<1> HIDE DEF Of, On, Any, Primary
<1>5. ASSUME NEW k \in ForeignKeys(c, name)
      PROVE  /\ row \in Joined(k, Any(k)) <=> IsRow(c, k, row)
             /\ row \in Joined(k, Primary(k))
                  <=> ReferredIn(c, k).kind = PrimaryKey /\ IsRow(c, k, row)
  BY <1>3, <1>4
<1> HIDE DEF Joined
<1> QED
  BY <1>1, <1>2, <1>5

-----------------------------------------------------------------------------
(* A migration.                                                            *)

LEMMA TablesStay ==
  ASSUME NEW c, WellFormed(c), NEW d, WellFormed(d), Extends(c, d), NEW name \in TableNames(c)
  PROVE  /\ name \in TableNames(d)
         /\ PlacesIn(c, name) \subseteq PlacesIn(d, name)
         /\ \A p \in PlacesIn(c, name) : NameAt(d, name, p) = NameAt(c, name, p)
<1> DEFINE t == TableOf(c, name)
           u == TableOf(d, name)
<1>1. t \in c.tables /\ t.name = name
  BY TableFacts
<1>2. PICK v \in d.tables :
        /\ v.name = name
        /\ Len(t.columns) <= Len(v.columns)
        /\ SubSeq(v.columns, 1, Len(t.columns)) = t.columns
  BY <1>1 DEF Extends
<1>3. name \in TableNames(d)
  BY <1>2 DEF TableNames
<1>4. v = u
  BY <1>2, <1>3, TableFacts
<1>5. /\ t.columns \in Seq([name: Names, type: STRING, size: Nat, identity: BOOLEAN])
      /\ u.columns \in Seq([name: Names, type: STRING, size: Nat, identity: BOOLEAN])
  BY <1>1, <1>2, <1>4 DEF WellFormed
<1> HIDE DEF t, u
<1>6. \A j \in DOMAIN t.columns : j \in Nat /\ j \in DOMAIN u.columns /\ u.columns[j] = t.columns[j]
  BY <1>2, <1>4, <1>5
<1>7. PlacesIn(c, name) \subseteq PlacesIn(d, name)
  BY <1>6 DEF PlacesIn, t, u
<1>8. ASSUME NEW p \in PlacesIn(c, name)
      PROVE  NameAt(d, name, p) = NameAt(c, name, p)
  <2>1. PICK j \in DOMAIN t.columns : p = j - 1
    BY DEF PlacesIn, t
  <2>2. p + 1 = j
    BY <2>1, <1>6
  <2> QED
    BY <2>2, <1>6 DEF NameAt, t, u
<1> QED
  BY <1>3, <1>7, <1>8

LEMMA KeysStay ==
  ASSUME NEW c, WellFormed(c), NEW d, WellFormed(d), Extends(c, d), NEW name
  PROVE  /\ ForeignKeys(c, name) \subseteq ForeignKeys(d, name)
         /\ \A k \in ForeignKeys(c, name) : ReferredIn(d, k) = ReferredIn(c, k)
<1>1. c.constraints \subseteq d.constraints
  BY DEF Extends
<1>2. ForeignKeys(c, name) \subseteq ForeignKeys(d, name)
  BY <1>1 DEF ForeignKeys
<1>3. ASSUME NEW k \in ForeignKeys(c, name)
      PROVE  ReferredIn(d, k) = ReferredIn(c, k)
  <2>1. k \in c.constraints /\ k \in d.constraints /\ k.kind = ForeignKey
    BY <1>1 DEF ForeignKeys
  <2>2. ReferredIn(c, k) \in d.constraints /\ ReferredIn(c, k).name = k.refers
    BY <1>1, <2>1, ReferredFacts
  <2> QED
    BY <2>1, <2>2, ReferredFacts
<1> QED
  BY <1>2, <1>3

LEMMA RowsStay ==
  ASSUME NEW c, WellFormed(c), NEW d, WellFormed(d), Extends(c, d), NEW name
  PROVE  RelationRows(c, name) \subseteq RelationRows(d, name)
<1> SUFFICES ASSUME NEW row \in RelationRows(c, name)
             PROVE  row \in RelationRows(d, name)
  OBVIOUS
<1>1. PICK k \in ForeignKeys(c, name) : IsRow(c, k, row)
  BY RowFacts
<1>2. k \in ForeignKeys(d, name) /\ ReferredIn(d, k) = ReferredIn(c, k)
  BY KeysStay
<1>3. IsRow(d, k, row)
  BY <1>1, <1>2 DEF IsRow
<1> QED
  BY <1>2, <1>3, RowFacts

LEMMA SoundStays ==
  ASSUME NEW c, WellFormed(c), NEW d, WellFormed(d), Extends(c, d), NEW name \in TableNames(c),
         NEW p, NEW entry, Sound(c, name, p, entry)
  PROVE  Sound(d, name, p, entry)
<1>1. PICK k \in ForeignKeys(c, name) :
        /\ NameAt(c, name, p) \in RangeOf(k.columns)
        /\ entry.table = ReferredIn(c, k).table
        /\ entry.place \in PlacesIn(c, ReferredIn(c, k).table)
        /\ NameAt(c, ReferredIn(c, k).table, entry.place) \in RangeOf(ReferredIn(c, k).columns)
  BY DEF Sound
<1>2. k \in ForeignKeys(d, name) /\ ReferredIn(d, k) = ReferredIn(c, k)
  BY KeysStay
<1>3. p \in PlacesIn(d, name) /\ NameAt(d, name, p) = NameAt(c, name, p)
  BY TablesStay DEF Sound
<1>4. ReferredIn(c, k).table \in TableNames(c)
  BY ReferredFacts DEF ForeignKeys
<1>5. /\ entry.place \in PlacesIn(d, ReferredIn(c, k).table)
      /\ NameAt(d, ReferredIn(c, k).table, entry.place)
           = NameAt(c, ReferredIn(c, k).table, entry.place)
  BY <1>1, <1>4, TablesStay
<1> QED
  BY <1>1, <1>2, <1>3, <1>5 DEF Sound

-----------------------------------------------------------------------------
(* The steps of get_relations.                                             *)

LEMMA CatalogueFacts ==
  ASSUME NEW c \in Catalogues
  PROVE  WellFormed(c)
BY IntrospectionAssumption DEF IntrospectionAssumption

\* The columns of foreign keys are columns of the table.
LEMMA KeyColumns ==
  ASSUME NEW c, WellFormed(c), NEW name \in TableNames(c), NEW k \in ForeignKeys(c, name)
  PROVE  RangeOf(k.columns) \subseteq ColumnNames(c, name)
<1>1. k \in c.constraints /\ k.table = name
  BY DEF ForeignKeys
<1> QED
  BY <1>1, Zenon DEF WellFormed, ColumnNames

\* What the join returns has every foreign key of one column.
LEMMA AllRows ==
  ASSUME NEW c, WellFormed(c), NEW name \in TableNames(c), NEW found
  PROVE  Complete(c, name, RelationRows(c, name), found)
<1> SUFFICES ASSUME NEW k \in ForeignKeys(c, name), NEW p \in PlacesIn(c, name),
                    NameAt(c, name, p) \in RangeOf(k.columns), Len(k.columns) = 1
             PROVE  \E row \in RelationRows(c, name) : row[1] = NameAt(c, name, p)
  BY DEF Complete
<1>1. k \in c.constraints /\ k.kind = ForeignKey
  BY DEF ForeignKeys
<1>2. ReferredIn(c, k) \in c.constraints /\ Len(ReferredIn(c, k).columns) = 1
  BY <1>1, ReferredFacts
<1>3. ReferredIn(c, k).columns \in Seq(Names)
  BY <1>2 DEF WellFormed
<1>4. ReferredIn(c, k).columns[1] \in RangeOf(ReferredIn(c, k).columns)
  BY <1>2, <1>3 DEF RangeOf
<1> DEFINE row == <<NameAt(c, name, p), ReferredIn(c, k).table, ReferredIn(c, k).columns[1]>>
<1>5. IsRow(c, k, row)
  BY <1>4 DEF IsRow
<1>6. row \in RelationRows(c, name) /\ row[1] = NameAt(c, name, p)
  BY <1>5, RowFacts
<1> QED
  BY <1>6

\* A row that is resolved becomes an entry that says what the catalogue says.
LEMMA ResolvedIsSound ==
  ASSUME NEW c, WellFormed(c), NEW name \in TableNames(c), NEW row \in RelationRows(c, name),
         NEW place \in PlacesIn(c, name), NameAt(c, name, place) = row[1]
  PROVE  Sound(c, name, place,
               [place |-> NameToIndex(c, row[2])[row[3]], table |-> row[2]])
<1>0. PICK k \in ForeignKeys(c, name) : IsRow(c, k, row)
  BY RowFacts
<1>1. PICK a \in RangeOf(k.columns), b \in RangeOf(ReferredIn(c, k).columns) :
        row = <<a, ReferredIn(c, k).table, b>>
  BY <1>0 DEF IsRow
<1> DEFINE other == ReferredIn(c, k).table
<1>2. other \in TableNames(c) /\ b \in ColumnNames(c, other)
  BY ReferredFacts DEF ForeignKeys
<1>3. row[1] = a /\ row[2] = other /\ row[3] = b
  BY <1>1
<1>4. /\ NameToIndex(c, other)[b] \in PlacesIn(c, other)
      /\ NameAt(c, other, NameToIndex(c, other)[b]) = b
  BY <1>2, IndexFacts DEF Indexed
<1> QED
  BY <1>3, <1>4 DEF Sound

-----------------------------------------------------------------------------
(* Key columns and indexes.                                                *)

LEMMA KeyColumnsRight ==
  ASSUME NEW c, WellFormed(c), NEW name \in TableNames(c)
  PROVE  KeyColumnsIn(c, name, KeyColumnRows(c, name))
<1>1. ASSUME NEW row \in KeyColumnRows(c, name)
      PROVE  \E k \in ForeignKeys(c, name) :
               /\ row[1] \in RangeOf(k.columns)
               /\ row[2] = ReferredIn(c, k).table
               /\ row[3] \in RangeOf(ReferredIn(c, k).columns)
  <2>1. PICK k \in ForeignKeys(c, name) : IsRow(c, k, row)
    BY RowFacts
  <2>2. PICK a \in RangeOf(k.columns), b \in RangeOf(ReferredIn(c, k).columns) :
          row = <<a, ReferredIn(c, k).table, b>>
    BY <2>1 DEF IsRow
  <2> QED
    BY <2>2
<1>2. ASSUME NEW k \in ForeignKeys(c, name), ReferredIn(c, k).kind = PrimaryKey,
             NEW i \in DOMAIN k.columns
      PROVE  <<k.columns[i], ReferredIn(c, k).table, ReferredIn(c, k).columns[i]>>
               \in KeyColumnRows(c, name)
  <2> DEFINE l == ReferredIn(c, k)
  <2>1. l \in c.constraints /\ Len(l.columns) = Len(k.columns) /\ k \in c.constraints
    BY ReferredFacts DEF ForeignKeys
  <2>2. k.columns \in Seq(Names) /\ l.columns \in Seq(Names)
    BY <2>1 DEF WellFormed
  <2> HIDE DEF l
  <2>3. i \in DOMAIN l.columns
    BY <2>1, <2>2
  <2>4. k.columns[i] \in RangeOf(k.columns) /\ l.columns[i] \in RangeOf(l.columns)
    BY <2>3 DEF RangeOf
  <2>5. IsRow(c, k, <<k.columns[i], l.table, l.columns[i]>>)
    BY <2>4 DEF IsRow, l
  <2> QED
    BY <1>2, <2>5, RowFacts DEF l
<1> QED
  BY <1>1, <1>2 DEF KeyColumnsIn

\* Whichever of several rows the dictionary keeps.
LEMMA IndexesRight ==
  ASSUME NEW c, WellFormed(c), NEW name \in TableNames(c), NEW value,
         DOMAIN value = {Lower[r.column] : r \in IndexRows(c, name)},
         \A n \in DOMAIN value : \E r \in IndexRows(c, name) :
           Lower[r.column] = n /\ value[n] = [unique |-> r.unique, primary |-> r.primary]
  PROVE  IndexesIn(c, name, value)
<1> DEFINE Rows(y) == {[column |-> n, unique |-> y.unique, primary |-> y.primary] :
                         n \in RangeOf(y.keys) \cup y.included}
<1>1. IndexRows(c, name) = UNION {Rows(y) : y \in SingleIn(c, name)}
  BY DEF IndexRows, SingleIn
<1>2. ASSUME NEW x \in SingleIn(c, name)
      PROVE  RangeOf(x.keys) = {x.keys[1]}
  <2>1. x.keys \in Seq(Names) /\ Len(x.keys) = 1
    BY DEF SingleIn, WellFormed
  <2> QED
    BY <2>1 DEF RangeOf
<1>3. ASSUME NEW x \in SingleIn(c, name)
      PROVE  Lower[x.keys[1]] \in DOMAIN value
  <2>1. [column |-> x.keys[1], unique |-> x.unique, primary |-> x.primary] \in Rows(x)
    BY <1>2
  <2> HIDE DEF Rows
  <2>2. PICK r \in IndexRows(c, name) : r.column = x.keys[1]
    BY <1>1, <2>1
  <2> QED
    BY <2>2
<1>4. ASSUME NEW n \in DOMAIN value
      PROVE  IncludedIn(c, name, n) \/
               \E x \in SingleIn(c, name) :
                 Lower[x.keys[1]] = n /\ value[n] = [unique |-> x.unique, primary |-> x.primary]
  <2>1. PICK r \in IndexRows(c, name) :
          Lower[r.column] = n /\ value[n] = [unique |-> r.unique, primary |-> r.primary]
    OBVIOUS
  <2>2. PICK x \in SingleIn(c, name) : r \in Rows(x)
    <3> HIDE DEF Rows
    <3> QED
      BY <1>1
  <2>3. PICK m \in RangeOf(x.keys) \cup x.included :
          r = [column |-> m, unique |-> x.unique, primary |-> x.primary]
    BY <2>2
  <2>4. Lower[m] = n /\ value[n] = [unique |-> x.unique, primary |-> x.primary]
    BY <2>1, <2>3
  <2>5. CASE m \in x.included
    BY <2>4, <2>5 DEF IncludedIn
  <2>6. CASE m \in RangeOf(x.keys)
    BY <1>2, <2>4, <2>6
  <2> QED
    BY <2>5, <2>6
<1> QED
  BY <1>3, <1>4 DEF IndexesIn

-----------------------------------------------------------------------------
(* The invariant.                                                          *)

LEMMA Rightness ==
  /\ RelationsAreRight
       <=> RightIn(catalogue, answer.of, answer.table, answer.value, answer.moved)
  /\ RelationsAreRight'
       <=> RightIn(catalogue', answer'.of, answer'.table, answer'.value, answer'.moved)
BY DEF RelationsAreRight, RightIn, Sound, Places, PlacesIn, KeysOn, ColumnAt, NameAt,
       Referred, ReferredIn

LEMMA Columnness ==
  /\ ColumnsAreRight <=> ColumnsIn(catalogue, answer.of, answer.table, answer.value)
  /\ ColumnsAreRight' <=> ColumnsIn(catalogue', answer'.of, answer'.table, answer'.value)
<1>1. /\ KeyColumnsAreRight <=> KeyColumnsIn(catalogue, answer.table, answer.value)
      /\ KeyColumnsAreRight' <=> KeyColumnsIn(catalogue', answer'.table, answer'.value)
  BY DEF KeyColumnsAreRight, KeyColumnsIn, Referred, ReferredIn
<1>2. /\ IndexesAreRight <=> IndexesIn(catalogue, answer.table, answer.value)
      /\ IndexesAreRight' <=> IndexesIn(catalogue', answer'.table, answer'.value)
  BY DEF IndexesAreRight, IndexesIn, SingleIndexes, SingleIn, IsIncluded, IncludedIn
<1> QED
  BY <1>1, <1>2 DEF ColumnsAreRight, ColumnsIn

LEMMA InitInv == Init => IInv
<1> SUFFICES ASSUME Init PROVE IInv
  OBVIOUS
<1>1. ~ call.pending /\ answer.of = "nothing"
  BY DEF Init, NoCall, NoAnswer
<1> QED
  BY <1>1 DEF Init, IInv, TypeOK, IsCall, Collected, RelationsAreRight, OnlyMigrationsRaise,
                ColumnsAreRight

\* Calls that ask once.
LEMMA AnswersInv ==
  ASSUME IInv, NEW of \in {"tables", "description", "key columns", "indexes"}, NEW name, NEW value,
         answer' = Answer(of, name, value), UNCHANGED <<catalogue, call>>,
         ColumnsIn(catalogue, of, name, value)
  PROVE  IInv'
<1>1. answer'.of = of /\ answer'.table = name /\ answer'.value = value
  BY DEF Answer
<1>2. TypeOK'
  BY <1>1 DEF IInv, TypeOK
<1>3. IsCall' /\ Collected'
  BY DEF IInv, IsCall, Collected
<1>4. ColumnsAreRight'
  BY <1>1, Columnness
<1> QED
  BY <1>1, <1>2, <1>3, <1>4 DEF IInv, RelationsAreRight, OnlyMigrationsRaise

LEMMA GetKeyColumnsInv ==
  ASSUME IInv, NEW name \in TableNames(catalogue), GetKeyColumns(name)
  PROVE  IInv'
<1>1. WellFormed(catalogue)
  BY CatalogueFacts DEF IInv, TypeOK
<1>2. ColumnsIn(catalogue, "key columns", name, KeyColumnRows(catalogue, name))
  BY <1>1, KeyColumnsRight DEF ColumnsIn
<1> QED
  BY <1>2, AnswersInv DEF GetKeyColumns

LEMMA GetIndexesInv ==
  ASSUME IInv, NEW name \in TableNames(catalogue), GetIndexes(name)
  PROVE  IInv'
<1>1. WellFormed(catalogue)
  BY CatalogueFacts DEF IInv, TypeOK
<1> DEFINE rows == IndexRows(catalogue, name)
           keys == {Lower[r.column] : r \in rows}
<1>2. PICK indexes \in [keys -> {[unique |-> r.unique, primary |-> r.primary] : r \in rows}] :
        /\ \A n \in keys : \E r \in rows :
             Lower[r.column] = n /\ indexes[n] = [unique |-> r.unique, primary |-> r.primary]
        /\ answer' = Answer("indexes", name, indexes)
  BY Zenon DEF GetIndexes
<1>3. DOMAIN indexes = keys
  OBVIOUS
<1>4. ColumnsIn(catalogue, "indexes", name, indexes)
  BY <1>1, <1>2, <1>3, IndexesRight DEF ColumnsIn
<1> QED
  BY <1>2, <1>4, AnswersInv DEF GetIndexes

\* A pending call has all its fields.
LEMMA PendingCall ==
  ASSUME IsCall, call.pending
  PROVE  call = [pending |-> TRUE, table |-> call.table, joined |-> call.joined,
                 moved |-> call.moved, index |-> call.index, rows |-> call.rows,
                 found |-> call.found]
<1>1. call # NoCall
  BY DEF NoCall
<1> QED
  BY <1>1 DEF IsCall

LEMMA GetRelationsInv ==
  ASSUME IInv, NEW name \in TableNames(catalogue), GetRelations(name)
  PROVE  IInv'
<1>1. /\ call'.pending /\ ~ call'.joined /\ call'.table = name
      /\ call'.index = NameToIndex(catalogue, name) /\ call'.rows = {} /\ call'.found = <<>>
      /\ IsCall'
  BY DEF GetRelations, IsCall
<1>2. catalogue' = catalogue /\ answer'.of = "nothing"
  BY DEF GetRelations, NoAnswer
<1>3. WellFormed(catalogue)
  BY CatalogueFacts DEF IInv, TypeOK
<1>4. DOMAIN call'.found = {}
  BY <1>1
<1>5. TypeOK'
  BY <1>1, <1>2, <1>4 DEF IInv, TypeOK
<1>6. Collected'
  BY <1>1, <1>2, <1>3, <1>4, IndexFacts DEF Collected
<1> QED
  BY <1>1, <1>2, <1>5, <1>6 DEF IInv, RelationsAreRight, OnlyMigrationsRaise, ColumnsAreRight

LEMMA ReadRelationsInv ==
  ASSUME IInv, ReadRelations
  PROVE  IInv'
<1>1. /\ call'.pending /\ call'.joined /\ call'.table = call.table
      /\ call'.moved = call.moved /\ call'.index = call.index /\ call'.found = call.found
      /\ call'.rows = RelationRows(catalogue, call.table)
      /\ IsCall'
  <2>1. call' = [pending |-> TRUE, table |-> call.table, joined |-> TRUE,
                 moved |-> call.moved, index |-> call.index,
                 rows |-> RelationRows(catalogue, call.table), found |-> call.found]
    BY PendingCall DEF IInv, ReadRelations
  <2> QED
    BY <2>1 DEF IsCall
<1>2. catalogue' = catalogue /\ answer' = answer /\ call.pending
  BY DEF ReadRelations
<1>3. WellFormed(catalogue) /\ call.table \in TableNames(catalogue)
  BY <1>2, CatalogueFacts DEF IInv, TypeOK
<1>4. TypeOK'
  BY <1>1, <1>2 DEF IInv, TypeOK
<1>5. Complete(catalogue, call.table, RelationRows(catalogue, call.table), call.found)
  BY <1>3, AllRows
<1>6. Collected'
  BY <1>1, <1>2, <1>5 DEF IInv, Collected
<1>7. RelationsAreRight' /\ OnlyMigrationsRaise' /\ ColumnsAreRight'
  BY <1>2, Rightness, Columnness DEF IInv, OnlyMigrationsRaise
<1> QED
  BY <1>1, <1>4, <1>6, <1>7 DEF IInv

LEMMA ResolveRelationInv ==
  ASSUME IInv, call.pending, NEW row \in call.rows, ResolveRelation(row)
  PROVE  IInv'
<1> DEFINE name  == call.table
           place == call.index[row[1]]
           entry == [place |-> NameToIndex(catalogue, row[2])[row[3]], table |-> row[2]]
           found == [p \in DOMAIN call.found \cup {place} |->
                       IF p = place THEN entry ELSE call.found[p]]
<1>1. call' = [pending |-> TRUE, table |-> call.table, joined |-> call.joined,
               moved |-> call.moved, index |-> call.index,
               rows |-> call.rows \ {row}, found |-> found]
  BY PendingCall DEF IInv, ResolveRelation, Resolve
<1>2. /\ catalogue' = catalogue /\ answer' = answer
      /\ row[1] \in DOMAIN call.index
  BY DEF ResolveRelation
<1>3. /\ WellFormed(catalogue) /\ name \in TableNames(catalogue)
      /\ row \in RelationRows(catalogue, name)
  BY CatalogueFacts DEF IInv, TypeOK
<1>4. place \in PlacesIn(catalogue, name) /\ NameAt(catalogue, name, place) = row[1]
  BY <1>2 DEF IInv, Collected, Indexed
<1>5. Sound(catalogue, name, place, entry)
  BY <1>3, <1>4, ResolvedIsSound
<1>6. /\ DOMAIN found = DOMAIN call.found \cup {place}
      /\ found[place] = entry
      /\ \A p \in DOMAIN call.found : p = place \/ found[p] = call.found[p]
  OBVIOUS
<1> HIDE DEF entry, found
<1>7. \A p \in DOMAIN found : Sound(catalogue, name, p, found[p])
  BY <1>5, <1>6 DEF IInv, Collected
<1>8. DOMAIN found \subseteq {j - 1 : j \in DOMAIN TableOf(catalogue, name).columns}
  BY <1>4, <1>6 DEF IInv, TypeOK, PlacesIn
<1>9. TypeOK'
  BY <1>1, <1>2, <1>8 DEF IInv, TypeOK
<1>10. ASSUME Complete(catalogue, name, call.rows, call.found)
       PROVE  Complete(catalogue, name, call.rows \ {row}, found)
  <2> SUFFICES ASSUME NEW k \in ForeignKeys(catalogue, name), NEW p \in PlacesIn(catalogue, name),
                      NameAt(catalogue, name, p) \in RangeOf(k.columns), Len(k.columns) = 1
               PROVE  \/ p \in DOMAIN found
                      \/ \E other \in call.rows \ {row} : other[1] = NameAt(catalogue, name, p)
    BY DEF Complete
  <2>1. CASE p \in DOMAIN call.found
    BY <2>1, <1>6
  <2>2. CASE \E other \in call.rows : other[1] = NameAt(catalogue, name, p)
    <3>1. CASE row[1] = NameAt(catalogue, name, p)
      BY <3>1, <1>3, <1>4, <1>6, ColumnFacts
    <3>2. CASE row[1] # NameAt(catalogue, name, p)
      BY <2>2, <3>2
    <3> QED
      BY <3>1, <3>2
  <2> QED
    BY <2>1, <2>2, <1>10 DEF Complete
<1>11. Collected'
  BY <1>1, <1>2, <1>7, <1>10 DEF IInv, Collected
<1>12. RelationsAreRight' /\ OnlyMigrationsRaise' /\ ColumnsAreRight'
  BY <1>2, Rightness, Columnness DEF IInv, OnlyMigrationsRaise
<1> QED
  BY <1>1, <1>9, <1>11, <1>12 DEF IInv, IsCall

\* Before any migration the index has the columns of all keys.
LEMMA MissColumnInv ==
  ASSUME IInv, call.pending, NEW row \in call.rows, MissColumn(row)
  PROVE  IInv'
<1>1. /\ ~ call'.pending /\ call' = NoCall /\ catalogue' = catalogue
      /\ answer'.of = "KeyError" /\ answer'.moved = call.moved
      /\ row[1] \notin DOMAIN call.index
  BY DEF MissColumn, Answer, NoCall
<1>2. /\ WellFormed(catalogue) /\ call.table \in TableNames(catalogue)
      /\ row \in RelationRows(catalogue, call.table)
  BY CatalogueFacts DEF IInv, TypeOK
<1>3. row[1] \in ColumnNames(catalogue, call.table)
  <2>1. PICK k \in ForeignKeys(catalogue, call.table) : row[1] \in RangeOf(k.columns)
    BY <1>2, RowFacts DEF IsRow
  <2> QED
    BY <2>1, <1>2, KeyColumns
<1>4. PICK p \in PlacesIn(catalogue, call.table) : NameAt(catalogue, call.table, p) = row[1]
  BY <1>2, <1>3, ColumnFacts
<1>5. call.moved
  BY <1>1, <1>4 DEF IInv, Collected, AllIndexed
<1>6. TypeOK'
  BY <1>1 DEF IInv, TypeOK
<1> QED
  BY <1>1, <1>5, <1>6 DEF IInv, IsCall, Collected, RelationsAreRight, OnlyMigrationsRaise,
                ColumnsAreRight

LEMMA ReturnRelationsInv ==
  ASSUME IInv, ReturnRelations
  PROVE  IInv'
<1> DEFINE name == call.table
<1>1. /\ ~ call'.pending /\ call' = NoCall /\ catalogue' = catalogue
      /\ answer'.of = "relations" /\ answer'.moved = call.moved
      /\ answer'.table = name /\ answer'.value = call.found
      /\ call.pending /\ call.joined /\ call.rows = {}
  BY DEF ReturnRelations, Answer, NoCall
<1>2. WellFormed(catalogue) /\ name \in TableNames(catalogue)
  BY <1>1, CatalogueFacts DEF IInv, TypeOK
<1>3. \A p \in DOMAIN call.found : Sound(catalogue, name, p, call.found[p])
  BY <1>1 DEF IInv, Collected
<1>4. ASSUME ~ call.moved, NEW p, NEW k \in ForeignKeys(catalogue, name),
             p \in PlacesIn(catalogue, name), Len(k.columns) = 1,
             {l \in ForeignKeys(catalogue, name) : NameAt(catalogue, name, p) \in RangeOf(l.columns)}
               = {k}
      PROVE  /\ p \in DOMAIN call.found
             /\ call.found[p].table = ReferredIn(catalogue, k).table
             /\ NameAt(catalogue, call.found[p].table, call.found[p].place)
                  = ReferredIn(catalogue, k).columns[1]
  <2> DEFINE referred == ReferredIn(catalogue, k)
  <2>1. NameAt(catalogue, name, p) \in RangeOf(k.columns)
    BY <1>4
  <2>2. p \in DOMAIN call.found
    BY <1>1, <1>4, <2>1 DEF IInv, Collected, Complete
  <2>3. /\ call.found[p].table = referred.table
        /\ NameAt(catalogue, referred.table, call.found[p].place) \in RangeOf(referred.columns)
    BY <1>3, <1>4, <2>2 DEF Sound
  <2>4. referred \in catalogue.constraints /\ Len(referred.columns) = 1
    BY <1>2, <1>4, ReferredFacts DEF ForeignKeys
  <2>5. referred.columns \in Seq(Names)
    BY <1>2, <2>4 DEF WellFormed
  <2>6. RangeOf(referred.columns) = {referred.columns[1]}
    BY <2>4, <2>5 DEF RangeOf
  <2> QED
    BY <2>2, <2>3, <2>6
<1>5. RelationsAreRight'
  <2>1. \A p \in DOMAIN call.found : p \in PlacesIn(catalogue, name)
    BY <1>3 DEF Sound
  <2>2. RightIn(catalogue, "relations", name, call.found, call.moved)
    BY <1>3, <1>4, <2>1 DEF RightIn
  <2> QED
    BY <1>1, <2>2, Rightness
<1>6. TypeOK'
  BY <1>1 DEF IInv, TypeOK
<1> QED
  BY <1>1, <1>5, <1>6 DEF IInv, IsCall, Collected, OnlyMigrationsRaise, ColumnsAreRight

LEMMA MigrateInv ==
  ASSUME IInv, Migrate
  PROVE  IInv'
<1>1. PICK d \in Catalogues : Extends(catalogue, d) /\ catalogue' = d
  BY DEF Migrate
<1>2. answer'.of = "nothing"
  BY DEF Migrate, NoAnswer
<1>3. WellFormed(catalogue) /\ WellFormed(d)
  BY CatalogueFacts DEF IInv, TypeOK
<1>4. CASE ~ call.pending
  <2>1. call' = call
    BY <1>4 DEF Migrate
  <2> QED
    BY <1>1, <1>2, <1>4, <2>1
      DEF IInv, TypeOK, IsCall, Collected, RelationsAreRight, OnlyMigrationsRaise,
                ColumnsAreRight
<1>5. CASE call.pending
  <2> DEFINE name == call.table
  <2>1. call' = [pending |-> TRUE, table |-> call.table, joined |-> call.joined,
                 moved |-> TRUE, index |-> call.index, rows |-> call.rows,
                 found |-> call.found]
    BY <1>5, PendingCall DEF IInv, Migrate
  <2>2. name \in TableNames(catalogue)
    BY <1>5 DEF IInv, TypeOK
  <2>3. /\ name \in TableNames(d)
        /\ PlacesIn(catalogue, name) \subseteq PlacesIn(d, name)
        /\ \A p \in PlacesIn(catalogue, name) : NameAt(d, name, p) = NameAt(catalogue, name, p)
    BY <1>1, <1>3, <2>2, TablesStay
  <2>4. RelationRows(catalogue, name) \subseteq RelationRows(d, name)
    BY <1>1, <1>3, RowsStay
  <2>5. TypeOK'
    BY <1>1, <1>2, <1>5, <2>1, <2>3, <2>4 DEF IInv, TypeOK, PlacesIn
  <2>6. Indexed(d, name, call.index)
    BY <1>5, <2>3 DEF IInv, Collected, Indexed
  <2>7. \A p \in DOMAIN call.found : Sound(d, name, p, call.found[p])
    BY <1>1, <1>3, <1>5, <2>2, SoundStays DEF IInv, Collected
  <2>8. Collected'
    BY <1>1, <2>1, <2>6, <2>7 DEF Collected
  <2> QED
    BY <1>2, <2>1, <2>5, <2>8 DEF IInv, IsCall, RelationsAreRight, OnlyMigrationsRaise,
                                           ColumnsAreRight
<1> QED
  BY <1>4, <1>5

LEMMA StutterInv ==
  ASSUME IInv, UNCHANGED vars
  PROVE  IInv'
<1>1. catalogue' = catalogue /\ call' = call /\ answer' = answer
  BY DEF vars
<1> QED
  BY <1>1, Rightness, Columnness DEF IInv, TypeOK, IsCall, Collected, OnlyMigrationsRaise

-----------------------------------------------------------------------------
(* Theorems.                                                               *)

\* What a get_relations under way has collected is what the catalogue says, and complete
\* until a migration comes: an inductive invariant of Introspection.
THEOREM Invariance == Spec => []IInv
<1>1. IInv /\ [Next]_vars => IInv'
  <2> SUFFICES ASSUME IInv, [Next]_vars PROVE IInv'
    OBVIOUS
  <2>1. CASE GetTableList
    BY <2>1, AnswersInv DEF GetTableList, ColumnsIn
  <2>2. CASE \E name \in TableNames(catalogue) : GetTableDescription(name)
    BY <2>2, AnswersInv DEF GetTableDescription, ColumnsIn
  <2>3. CASE \E name \in TableNames(catalogue) : GetKeyColumns(name)
    BY <2>3, GetKeyColumnsInv
  <2>4. CASE \E name \in TableNames(catalogue) : GetIndexes(name)
    BY <2>4, GetIndexesInv
  <2>5. CASE \E name \in TableNames(catalogue) : GetRelations(name)
    BY <2>5, GetRelationsInv
  <2>6. CASE ReadRelations
    BY <2>6, ReadRelationsInv
  <2>7. CASE \E row \in (IF call.pending THEN call.rows ELSE {}) :
               ResolveRelation(row) \/ MissColumn(row)
    BY <2>7, ResolveRelationInv, MissColumnInv
  <2>8. CASE ReturnRelations
    BY <2>8, ReturnRelationsInv
  <2>9. CASE Migrate
    BY <2>9, MigrateInv
  <2>10. CASE UNCHANGED vars
    BY <2>10, StutterInv
  <2> QED
    BY <2>1, <2>2, <2>3, <2>4, <2>5, <2>6, <2>7, <2>8, <2>9, <2>10 DEF Next
<1> QED
  BY InitInv, <1>1, PTL DEF Spec

\* Introspection keeps its variables in their types, for all catalogues.
THEOREM TypeCorrect == Spec => []TypeOK
<1>1. IInv => TypeOK
  BY DEF IInv
<1> QED
  BY <1>1, Invariance, PTL

\* What get_relations returns is what the catalogue says, even if migrations came in
\* between, and complete if none did: for all catalogues, keys of several columns included.
THEOREM Relations == Spec => []RelationsAreRight
<1>1. IInv => RelationsAreRight
  BY DEF IInv
<1> QED
  BY <1>1, Invariance, PTL

\* get_relations raises KeyError only if a migration came between its queries.
THEOREM NoOtherErrors == Spec => []OnlyMigrationsRaise
<1>1. IInv => OnlyMigrationsRaise
  BY DEF IInv
<1> QED
  BY <1>1, Invariance, PTL

\* Every row of get_key_columns is about one foreign key, those to primary keys are there in
\* full, and get_indexes has what indexes of one column are on, for every catalogue, included
\* columns and keys to UNIQUE excepted (property ColumnsAreRight).
THEOREM Columns == Spec => []ColumnsAreRight
<1>1. IInv => ColumnsAreRight
  BY DEF IInv
<1> QED
  BY <1>1, Invariance, PTL
=============================================================================
