--------------------------- MODULE Introspection ---------------------------
(***************************************************************************)
(* What DatabaseIntrospection reads from the catalogue of a database:      *)
(* tables, descriptions, relations, key columns and indexes.               *)
(*                                                                         *)
(* A catalogue is what the server knows; the views that the queries join   *)
(* are operators on it.  get_relations asks the server several times, with *)
(* one cursor, and migrations may come in between.  Migrations only add:   *)
(* the columns that a table has keep their places.                         *)
(***************************************************************************)
EXTENDS Naturals, Sequences, FiniteSets

CONSTANTS
  Catalogues,      \* the states of the database
  LimitTableList,  \* OPTIONS['limit_table_list']
  Lower            \* the lower case form of each name

VARIABLES
  catalogue,  \* tables, constraints and indexes
  call,       \* a get_relations that has not returned
  answer      \* what the last call has returned, until the next migration

vars == <<catalogue, call, answer>>

-----------------------------------------------------------------------------
(* The catalogue.                                                          *)

PrimaryKey == "PRIMARY KEY"
Unique     == "UNIQUE"
ForeignKey == "FOREIGN KEY"

Names    == DOMAIN Lower
NoRefers == "none"

RangeOf(s) == {s[i] : i \in DOMAIN s}

TableNames(c)     == {t.name : t \in c.tables}
TableOf(c, name)  == CHOOSE t \in c.tables : t.name = name
ForeignKeys(c, t) == {k \in c.constraints : k.kind = ForeignKey /\ k.table = t}

\* Tables and constraints have names of their own, in all schemas, columns in their table,
\* whatever their case; and a foreign key refers to as many columns of a primary key or
\* UNIQUE as it has.
WellFormed(c) ==
  LET Among(t) == {col.name : col \in RangeOf(TableOf(c, t).columns)} IN
  /\ \A t, u \in c.tables : t.name = u.name => t = u
  /\ \A t \in c.tables :
       /\ t.columns \in Seq([name: Names, type: STRING, size: Nat, identity: BOOLEAN])
       /\ \A i, j \in DOMAIN t.columns :
            Lower[t.columns[i].name] = Lower[t.columns[j].name] => i = j
  /\ \A k, l \in c.constraints : k.name = l.name => k = l
  /\ \A k \in c.constraints :
       /\ k.columns \in Seq(Names)
       /\ k.table \in TableNames(c) /\ RangeOf(k.columns) \subseteq Among(k.table)
       /\ k.kind = ForeignKey =>
            \E l \in c.constraints :
              /\ l.name = k.refers
              /\ l.kind \in {PrimaryKey, Unique}
              /\ Len(l.columns) = Len(k.columns)
  /\ \A x \in c.indexes :
       /\ x.keys \in Seq(Names)
       /\ x.table \in TableNames(c) /\ RangeOf(x.keys) \cup x.included \subseteq Among(x.table)

IntrospectionAssumption ==
  /\ LimitTableList \in BOOLEAN
  /\ \A c \in Catalogues : WellFormed(c)

ASSUME IntrospectionAssumption

\* A migration has made d out of c.
Extends(c, d) ==
  /\ c # d
  /\ c.constraints \subseteq d.constraints
  /\ c.indexes \subseteq d.indexes
  /\ \A t \in c.tables : \E u \in d.tables :
       /\ u.name = t.name /\ u.schema = t.schema
       /\ Len(t.columns) <= Len(u.columns)
       /\ SubSeq(u.columns, 1, Len(t.columns)) = t.columns

\* INFORMATION_SCHEMA.CONSTRAINT_COLUMN_USAGE: the columns each constraint is on.
\* For a foreign key these are the columns that refer.
ColumnUsage(c) ==
  UNION {{[constraint |-> k.name, column |-> n] : n \in RangeOf(k.columns)} :
           k \in c.constraints}

-----------------------------------------------------------------------------
(* Tables and their descriptions.                                          *)

TableList(c) ==
  {Lower[t.name] : t \in {u \in c.tables : LimitTableList => u.schema = "dbo"}}

\* OBJECT_ID of a name without a schema finds tables of dbo only.
IsAutoField(t, column) == t.schema = "dbo" /\ column.identity

Described(t, column, identityCheck) ==
  [name |-> column.name,
   type |-> IF identityCheck /\ IsAutoField(t, column) THEN "auto"
            ELSE IF column.type = "nvarchar" /\ column.size < 4000 THEN "nchar"
            ELSE column.type]

Description(c, name, identityCheck) ==
  LET t == TableOf(c, name)
  IN  [i \in DOMAIN t.columns |-> Described(t, t.columns[i], identityCheck)]

\* Faulty: places are counted from 1, as the server does.
NameToIndexFromOne(c, name) ==
  LET d == Description(c, name, FALSE)
  IN  [n \in {d[i].name : i \in DOMAIN d} |-> CHOOSE i \in DOMAIN d : d[i].name = n]

\* _name_to_index
NameToIndex(c, name) ==
  LET d == Description(c, name, FALSE)
  IN  [n \in {d[i].name : i \in DOMAIN d} |-> (CHOOSE i \in DOMAIN d : d[i].name = n) - 1]

-----------------------------------------------------------------------------
(* Relations, key columns and indexes: what the queries select.            *)

\* Faulty: without the condition on a.TABLE_NAME.
RelationRowsOfAllTables(c, name) ==
  UNION {{<<e.column, l.table, d.column>> :
            e \in {u \in ColumnUsage(c) : u.constraint = k.name},
            l \in {m \in c.constraints : m.name = k.refers},
            d \in {u \in ColumnUsage(c) : u.constraint = k.refers}} :
           k \in {m \in c.constraints : m.kind = ForeignKey}}

\* The join of get_relations: e is on the foreign key k, d and l on what k refers to.
RelationRows(c, name) ==
  UNION {{<<e.column, l.table, d.column>> :
            e \in {u \in ColumnUsage(c) : u.constraint = k.name},
            l \in {m \in c.constraints : m.name = k.refers},
            d \in {u \in ColumnUsage(c) : u.constraint = k.refers}} :
           k \in ForeignKeys(c, name)}

\* Faulty: the condition on the table is on pk.TABLE_NAME.
KeyColumnRowsOfReferred(c, name) ==
  UNION {{<<e.column, l.table, d.column>> :
            e \in {u \in ColumnUsage(c) : u.constraint = k.name},
            l \in {m \in c.constraints : m.name = k.refers /\ m.table = name},
            d \in {u \in ColumnUsage(c) : u.constraint = k.refers}} :
           k \in {m \in c.constraints : m.kind = ForeignKey}}

\* The join of get_key_columns: KEY_COLUMN_USAGE has the same columns.
KeyColumnRows(c, name) ==
  UNION {{<<e.column, l.table, d.column>> :
            e \in {u \in ColumnUsage(c) : u.constraint = k.name},
            l \in {m \in c.constraints : m.name = k.refers /\ m.kind = PrimaryKey},
            d \in {u \in ColumnUsage(c) : u.constraint = k.refers}} :
           k \in ForeignKeys(c, name)}

\* Faulty: keys of several columns are left in.
IndexRowsOfAllKeys(c, name) ==
  UNION {{[column |-> n, unique |-> x.unique, primary |-> x.primary] :
            n \in RangeOf(x.keys) \cup x.included} :
           x \in {y \in c.indexes : y.table = name}}

\* The query of get_indexes: sys.index_columns has included columns, too.
IndexRows(c, name) ==
  UNION {{[column |-> n, unique |-> x.unique, primary |-> x.primary] :
            n \in RangeOf(x.keys) \cup x.included} :
           x \in {y \in c.indexes : y.table = name /\ Len(y.keys) = 1}}

-----------------------------------------------------------------------------
(* Calls.                                                                  *)

NoCall   == [pending |-> FALSE]
NoAnswer == [of |-> "nothing"]

Answer(of, name, value) == [of |-> of, table |-> name, value |-> value, moved |-> FALSE]

Idle == ~ call.pending

GetTableList ==
  /\ Idle
  /\ answer' = Answer("tables", "", TableList(catalogue))
  /\ UNCHANGED <<catalogue, call>>

GetTableDescription(name) ==
  /\ Idle
  /\ answer' = Answer("description", name, Description(catalogue, name, TRUE))
  /\ UNCHANGED <<catalogue, call>>

GetKeyColumns(name) ==
  /\ Idle
  /\ answer' = Answer("key columns", name, KeyColumnRows(catalogue, name))
  /\ UNCHANGED <<catalogue, call>>

\* The dictionary keeps the last of several rows with one name; there is no order.
GetIndexes(name) ==
  LET rows == IndexRows(catalogue, name)
      keys == {Lower[r.column] : r \in rows}
  IN  /\ Idle
      /\ \E indexes \in [keys -> {[unique |-> r.unique, primary |-> r.primary] : r \in rows}] :
           /\ \A n \in keys : \E r \in rows :
                Lower[r.column] = n /\ indexes[n] = [unique |-> r.unique, primary |-> r.primary]
           /\ answer' = Answer("indexes", name, indexes)
      /\ UNCHANGED <<catalogue, call>>

\* get_relations asks for the columns of the table ...
GetRelations(name) ==
  /\ Idle
  /\ call' = [pending |-> TRUE, table |-> name, joined |-> FALSE, moved |-> FALSE,
              index |-> NameToIndex(catalogue, name), rows |-> {}, found |-> <<>>]
  /\ answer' = NoAnswer
  /\ UNCHANGED catalogue

\* ... for its foreign keys ...
ReadRelations ==
  /\ call.pending /\ ~ call.joined
  /\ call' = [call EXCEPT !.joined = TRUE, !.rows = RelationRows(catalogue, call.table)]
  /\ UNCHANGED <<catalogue, answer>>

\* ... and, row by row, for the columns of the table each refers to.  A later row
\* of the same column replaces an earlier one.
Resolve(row) ==
  LET place == call.index[row[1]]
      entry == [place |-> NameToIndex(catalogue, row[2])[row[3]], table |-> row[2]]
  IN  [p \in DOMAIN call.found \cup {place} |-> IF p = place THEN entry ELSE call.found[p]]

\* Faulty: the cursor is read while the queries for the other tables use it.
ResolveAndLoseRows(row) ==
  /\ row[1] \in DOMAIN call.index
  /\ call' = [call EXCEPT !.rows = {}, !.found = Resolve(row)]
  /\ UNCHANGED <<catalogue, answer>>

ResolveRelation(row) ==
  /\ row[1] \in DOMAIN call.index
  /\ call' = [call EXCEPT !.rows = @ \ {row}, !.found = Resolve(row)]
  /\ UNCHANGED <<catalogue, answer>>

\* table_index[item[0]] raises KeyError if the column is new.
MissColumn(row) ==
  /\ row[1] \notin DOMAIN call.index
  /\ answer' = [Answer("KeyError", call.table, row[1]) EXCEPT !.moved = call.moved]
  /\ call' = NoCall
  /\ UNCHANGED catalogue

ReturnRelations ==
  /\ call.pending /\ call.joined
  /\ call.rows = {}
  /\ answer' = [Answer("relations", call.table, call.found) EXCEPT !.moved = call.moved]
  /\ call' = NoCall
  /\ UNCHANGED catalogue

Migrate ==
  /\ \E c \in Catalogues : Extends(catalogue, c) /\ catalogue' = c
  /\ call' = IF call.pending THEN [call EXCEPT !.moved = TRUE] ELSE call
  /\ answer' = NoAnswer

Init ==
  /\ catalogue \in Catalogues
  /\ call = NoCall
  /\ answer = NoAnswer

Next ==
  \/ GetTableList
  \/ \E name \in TableNames(catalogue) :
       \/ GetTableDescription(name)
       \/ GetKeyColumns(name)
       \/ GetIndexes(name)
       \/ GetRelations(name)
  \/ ReadRelations
  \/ \E row \in (IF call.pending THEN call.rows ELSE {}) :
       ResolveRelation(row) \/ MissColumn(row)
  \/ ReturnRelations
  \/ Migrate

Spec == Init /\ [][Next]_vars

-----------------------------------------------------------------------------
(* Properties                                                              *)

\* A call under way is about a table that is there, and knows rows and places of it.
TypeOK ==
  /\ catalogue \in Catalogues
  /\ call.pending =>
       /\ call.table \in TableNames(catalogue)
       /\ call.rows \subseteq RelationRows(catalogue, call.table)
       /\ DOMAIN call.found \subseteq {i - 1 : i \in DOMAIN TableOf(catalogue, call.table).columns}
  /\ answer.of \in {"nothing", "tables", "description", "key columns", "indexes",
                    "relations", "KeyError"}

\* What a foreign key refers to, and the keys a column is in.
Referred(k) == CHOOSE l \in catalogue.constraints : l.name = k.refers

KeysOn(name, column) ==
  {k \in ForeignKeys(catalogue, name) : column \in RangeOf(k.columns)}

ColumnAt(name, place) == TableOf(catalogue, name).columns[place + 1].name

Places(name) == {i - 1 : i \in DOMAIN TableOf(catalogue, name).columns}

\* get_relations has every column that is a foreign key of its own, under its place,
\* with the place of what it refers to, and no column that is in none
\* (tests/django20/introspection/tests.py:107-117), whatever keys of several columns there
\* are.  If migrations come between its queries, it still reports nothing that is not there.
RelationsAreRight ==
  answer.of = "relations" =>
    \A p \in Places(answer.table) \cup DOMAIN answer.value :
      /\ p \in DOMAIN answer.value =>
           /\ p \in Places(answer.table)
           /\ \E k \in KeysOn(answer.table, ColumnAt(answer.table, p)) :
                /\ answer.value[p].table = Referred(k).table
                /\ answer.value[p].place \in Places(Referred(k).table)
                /\ ColumnAt(Referred(k).table, answer.value[p].place)
                     \in RangeOf(Referred(k).columns)
      /\ ~ answer.moved =>
           \A k \in ForeignKeys(catalogue, answer.table) :
             KeysOn(answer.table, ColumnAt(answer.table, p)) = {k} /\ Len(k.columns) = 1 =>
               /\ p \in DOMAIN answer.value
               /\ answer.value[p].table = Referred(k).table
               /\ ColumnAt(answer.value[p].table, answer.value[p].place) = Referred(k).columns[1]

\* It raises KeyError only if one of them has.
OnlyMigrationsRaise == answer.of = "KeyError" => answer.moved

\* Every row of get_key_columns is about columns of one foreign key of the table; and each
\* key that refers to a primary key is there in full, every column with the one it refers
\* to (the doc string of get_key_columns).  Of a key of several columns there are other
\* pairs besides, and nothing is promised for keys that refer to UNIQUE: KeyColumnsPair.
KeyColumnsAreRight ==
  /\ \A row \in answer.value : \E k \in ForeignKeys(catalogue, answer.table) :
       /\ row[1] \in RangeOf(k.columns)
       /\ row[2] = Referred(k).table
       /\ row[3] \in RangeOf(Referred(k).columns)
  /\ \A k \in ForeignKeys(catalogue, answer.table) : Referred(k).kind = PrimaryKey =>
       \A i \in DOMAIN k.columns :
         <<k.columns[i], Referred(k).table, Referred(k).columns[i]>> \in answer.value

SingleIndexes == {x \in catalogue.indexes : x.table = answer.table /\ Len(x.keys) = 1}

IsIncluded(n) == \E x \in SingleIndexes : \E column \in x.included : Lower[column] = n

\* get_indexes has every column that has an index of its own, and says of it what one of
\* these indexes is; of other columns it has only those that such an index includes,
\* which IndexesAreOfKeys is about (tests/django20/introspection/tests.py:133-146).
IndexesAreRight ==
  /\ \A x \in SingleIndexes : Lower[x.keys[1]] \in DOMAIN answer.value
  /\ \A n \in DOMAIN answer.value : IsIncluded(n) \/
       \E x \in SingleIndexes :
         /\ Lower[x.keys[1]] = n
         /\ answer.value[n] = [unique |-> x.unique, primary |-> x.primary]

\* What get_key_columns and get_indexes say is so, and what they have to say is said,
\* whatever other tables, and keys and indexes of several columns, there are; included
\* columns and keys that refer to UNIQUE excepted.
ColumnsAreRight ==
  /\ answer.of = "key columns" => KeyColumnsAreRight
  /\ answer.of = "indexes" => IndexesAreRight

-----------------------------------------------------------------------------
(* What a doc string or a test says and the code does not do               *)

\* introspection.py:221-225: (column, table, referenced column) for all key columns.
KeyColumnsPair ==
  answer.of = "key columns" =>
    answer.value =
      UNION {{<<k.columns[i], Referred(k).table, Referred(k).columns[i]>> :
                i \in DOMAIN k.columns} : k \in ForeignKeys(catalogue, answer.table)}

\* tests/django20/introspection/tests.py:138-146: columns of larger indexes are not
\* included.
IndexesAreOfKeys ==
  answer.of = "indexes" =>
    \A n \in DOMAIN answer.value : \E x \in catalogue.indexes :
      x.table = answer.table /\ Len(x.keys) = 1 /\ Lower[x.keys[1]] = n
=============================================================================
