-------------------------- MODULE MCIntrospection --------------------------
(***************************************************************************)
(* Databases with the tables of introspection/models.py: reporters,        *)
(* articles that refer to reporters and articles, and notes in a schema of *)
(* their own.  Foreign keys, indexes and the last columns of article may   *)
(* be there or not.                                                        *)
(***************************************************************************)
EXTENDS Introspection

Lowered ==
  [n \in {"reporter", "article", "note", "id", "Code", "first", "last", "reporter_id",
          "code", "response_to", "article_id"} |-> IF n = "Code" THEN "code" ELSE n]

Column(name, type, size, identity) ==
  [name |-> name, type |-> type, size |-> size, identity |-> identity]
Id         == Column("id", "int", 4, TRUE)
Int(name)  == Column(name, "int", 4, FALSE)
Text(name) == Column(name, "nvarchar", IF name = "Code" THEN 4000 ELSE 30, FALSE)

Articles == <<Id, Int("reporter_id"), Text("code"), Text("first"), Text("last"),
              Int("response_to")>>

AllTables(n) ==
  {[schema |-> "dbo", name |-> "reporter",
    columns |-> <<Id, Text("first"), Text("last"), Text("Code")>>],
   [schema |-> "dbo", name |-> "article", columns |-> SubSeq(Articles, 1, n)],
   [schema |-> "other", name |-> "note", columns |-> <<Int("article_id"), Id>>]}

Constraint(name, kind, table, columns, refers) ==
  [name |-> name, kind |-> kind, table |-> table, columns |-> columns, refers |-> refers]

Keys ==
  {Constraint("pk_reporter", PrimaryKey, "reporter", <<"id">>, NoRefers),
   Constraint("uq_code", Unique, "reporter", <<"Code">>, NoRefers),
   Constraint("uq_name", Unique, "reporter", <<"first", "last">>, NoRefers),
   Constraint("pk_article", PrimaryKey, "article", <<"id">>, NoRefers),
   Constraint("pk_note", PrimaryKey, "note", <<"article_id", "id">>, NoRefers)}

References ==
  {Constraint("fk_reporter", ForeignKey, "article", <<"reporter_id">>, "pk_reporter"),
   Constraint("fk_same", ForeignKey, "article", <<"reporter_id">>, "pk_article"),
   Constraint("fk_code", ForeignKey, "article", <<"code">>, "uq_code"),
   Constraint("fk_name", ForeignKey, "article", <<"first", "last">>, "uq_name"),
   Constraint("fk_response", ForeignKey, "article", <<"response_to">>, "pk_article"),
   Constraint("fk_note", ForeignKey, "note", <<"article_id">>, "pk_article")}

\* One that refers to a primary key of two columns, and one that shares a column with it.
ReferencesOfTwo ==
  {Constraint("fk_two", ForeignKey, "article", <<"first", "last">>, "pk_note"),
   Constraint("fk_last", ForeignKey, "article", <<"last">>, "uq_code")}

Index(table, keys, included, unique, primary) ==
  [table |-> table, keys |-> keys, included |-> included, unique |-> unique,
   primary |-> primary]

KeyIndexes ==
  {Index("reporter", <<"id">>, {}, TRUE, TRUE), Index("article", <<"id">>, {}, TRUE, TRUE),
   Index("reporter", <<"first", "last">>, {}, TRUE, FALSE)}

OtherIndexes ==
  {Index("article", <<"reporter_id">>, {}, FALSE, FALSE),
   Index("article", <<"reporter_id">>, {}, TRUE, FALSE),
   Index("article", <<"first", "last">>, {"code"}, TRUE, FALSE),
   Index("article", <<"code">>, {"response_to"}, FALSE, FALSE)}

\* How many columns article has.
Sizes == {2, 5, 6}

Present(n) == {Articles[i].name : i \in 1..n}

Catalogue(n, references, indexes) ==
  [tables |-> AllTables(n), constraints |-> Keys \cup references,
   indexes |-> KeyIndexes \cup indexes]

SomeReferences ==
  UNION {{Catalogue(n, refs, {}) :
            refs \in {r \in SUBSET References : \A k \in r :
                       k.table = "article" => RangeOf(k.columns) \subseteq Present(n)}} :
           n \in Sizes}

SomeIndexes ==
  {Catalogue(6, ReferencesOfTwo, x) : x \in SUBSET OtherIndexes}

SomeCatalogues == SomeReferences \cup SomeIndexes
=============================================================================
