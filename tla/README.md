# A verification of django-pyodbc in TLA+

django-pyodbc is a Django database backend for Microsoft SQL Server (2000 to 2012 and
Azure), with some support for IBM DB2 and Progress OpenEdge, on top of the pyodbc driver.
This directory holds TLA+ modules translated from the source in `django_pyodbc/`, the TLC
configurations that check them on small instances, and theorems about them that the TLA+
proof system (TLAPS) has checked. Paths such as `base.py:341` are relative to
`django_pyodbc/`. Django, pyodbc, the drivers and the servers are not part of the
repository; what the backend relies on is modelled from the way the backend uses it and
marked external in `PROJECT.json`.

Contents: 1 inventory, 2 modules and how they correspond to the code, 3 runs and bounds,
4 fairness, 5 proofs, 6 what is only model-checked, 7 disagreements between the code and
its documentation, 8 what is not modelled, 9 plan.


## 1. Inventory

| Part | Source | State | Operations | Modules |
|---|---|---|---|---|
| Connection life cycle | `base.py:181-404`, `operations.py:80-147` | `connection`, `ops._ss_ver`, `driver_supports_utf8`, two features, the class-level `data_types` | `_cursor`, `sql_server_ver`, `get_new_connection`, Django's `connect` and `close` | `Connection` |
| Transactions | `base.py:217-247, 336-354, 479-494`, `operations.py:313-331` | Django's attributes of the wrapper, the session's mode, the server's transaction | `_set_autocommit`, SQL of savepoints, `execute`, `Atomic.__enter__` and `__exit__` | `AtomicStore`, `Transactions` |
| Slicing | `compiler.py:207-344` | the marks of a query | `as_sql`, `_select_top` | `Slicing` |
| Rewriting of SELECT | `compiler.py:96-111, 346-468`, `base.py:447-494` | buffers, placeholders, names seen | `_alias_columns`, `_break`, `_fix_slicing_order`, `execute` with `format_sql` and `format_params` | `Statements`, `Rewriting` |
| Inserts | `compiler.py:486-561`, `operations.py:240-276` | `return_id`, a batch of statements, identity counters | `as_sql`, `_fix_insert`, `fetch_returned_insert_id`, `last_insert_id` | `Identity`, `Inserts` |
| Flush and constraint checks | `operations.py:333-388`, `base.py:406-425` | a list of statements, identity counters, enforced constraints | `sql_flush`, `check_constraints`, `_execute_foreach` | `Identity`, `Flush` |
| Cursors | `base.py:371-378, 428-571` | rows pending on the session | `execute`, `executemany`, the fetch methods, `format_results` | `Cursors` |
| Introspection | `introspection.py` | none of its own; it reads the catalogue several times | `get_table_list`, `get_table_description`, `get_relations`, `get_indexes`, `get_key_columns` | `Introspection` |
| Test databases | `creation.py:109-185`, `operations.py:149-156` | `settings_dict['NAME']` and `['TEST']`, the session, its mode | `_create_test_db`, `_destroy_test_db`, `on_azure_sql_db` | `Settings`, `TestDatabase` |
| Settings | `base.py:217-334`, `client.py:51-90` | none | `_get_connection_string`, `get_connection_params`, `runshell` | `Settings` |
| Values and names | `operations.py:94-122, 278-293, 420-486`, `base.py:140-166, 515-533` | none | lookups, `quote_name`, `adapt_datetimefield_value`, `adapt_decimalfield_value` | `Lookups` |
| The rest | `ss_loaddata.py`, `aggregates.py`, `compat.py`, `metadata.py` | none | see section 8 | - |

How the parts interact. Django calls the wrapper (`cursor`, `connect`, `atomic`), the
compilers and `DatabaseOperations`. `_cursor` calls `connection_created` receivers and
`ops.sql_server_ver`, and both call `cursor()` again. The wrappers of all threads share
one dictionary, `DatabaseCreation.data_types`. The compilers read `ops.sql_server_ver`,
`ops.is_db2` and `features.can_return_id_from_insert`, which `_cursor` sets. All of them
share tables with other sessions of the server. `DatabaseCreation` changes the `NAME` in
the dictionary of settings that `_cursor` and `connect()` read when they open a session.

What is hard here:

- *Re-entrancy*: `_cursor` and `sql_server_ver` call each other in the middle of
  initialising a session.
- *Two ways to open a session*: `_cursor` opens one itself, Django's `connect()` another,
  and they leave different things undone.
- *A mirrored state*: Django's idea of the transaction and the server's are kept in step
  only by SQL that this backend composes.
- *Other sessions*: they insert and delete between the statements of a batch, between two
  slices, and between counting rows and resetting a counter, and they migrate between the
  queries of one introspection.
- *Failures half-way*: any driver call may raise; what was done so far remains.
- *Settings that change under a session*: a session is open to the database that `NAME`
  had, and `_destroy_test_db` alters and drops what it is connected to.
- *Text*: statements are taken apart and put together again by looking for parentheses,
  commas and names, and pass up to three rounds of `%` formatting; values are escaped,
  rounded and moved between zones more than once on their way.

What makes each part correct: no nested call opens or initialises a session twice, and
who opened it returns only when it is ready (connection); blocks are atomic and Django
knows whether one is open (transactions); every slice is the slice it was asked for, in
an order that ORDER BY allows, and together they are the table (slicing); rewritten SQL
means what it meant, and its parameters meet their places (rewriting); the id returned is
the id of the row (inserts); no id 0, no foreign key in the way of a DELETE and none left
off, and what was checked stays valid (flush and checks); production is never altered by a test run (test databases); explicit
settings lead those who read them to one place (settings); a lookup finds what it says,
and values come back as they were (values); no statement meets a
busy session, and rows arrive complete and in order (cursors); what is reported of a
database is there (introspection). `PROJECT.json` lists the
hazards, each with its line and the properties that would catch it.


## 2. Modules

Every module has one action per operation (per critical step where others come in
between), and `Faulty` variants of single definitions, which are the bugs that each
property was tried against: every property of every run is violated when the definition
is replaced by its variant.

**Connection.** A wrapper is one DATABASES entry in one thread. Its pending calls are a
stack of labels (`"start"`, `"signal"`, `"setdate"`, ...), newest first, so that a
re-entrant call is a push, and a return a pop. `CursorConnect` is the branch that opens a
session (`base.py:341-352`), `SendSignal` and `ReceiverQuery` the receivers,
`SetDate`, `VersionCached`, `VersionRead`, `VersionAnswer`, `Adapt` and `InspectDriver` the
rest of `_cursor` with the property it reads; `EnsureConnection` and `ConnectDone` are
Django's `connect()`, `Fail` the exception that any driver call or receiver may raise, with
the whole stack unwound. `textField` is the shared dictionary. The constant `Settings`
gives each wrapper its backend, server release, driver and OPTIONS.

**Transactions**, over **AtomicStore**. `django` holds the attributes that Django's
`Atomic` reads and writes, `session` and `driverCommits` the session, `active`,
`uncommitted`, `saved` and `committed` the server: SQL Server with implicit transactions,
where `COMMIT TRANSACTION name` ignores the name. `program` says what the program under
way does: whether the autocommit option is set, whether it uses cursors before blocks, so
that `_cursor` opens sessions, whether it writes outside every block on a session that is
open, and whether its inner blocks have savepoints; it never changes, and the properties say which programs they hold for. `Enter`, `Exit`, `Work`, `CursorOpens`,
`Close` and `Break` are the program and the network. A statement writes a row of its own,
so that what is stored identifies the statements that had an effect. `AtomicStore` is what
a program may rely on: a write outside every block is stored at once, those of blocks
together when the outermost one ends well, and an inner block that ends badly dooms the
ones around it, so that nothing of them is stored. `BlocksAreAtomic` says that `Transactions` implements it under the
refinement mapping at the end of the module.

**Slicing.** A query is its marks; `Form` is which SQL `as_sql` builds, `RowNumber` and
`TopInTop` what that SQL selects, with ties in any order of the server's choice.
A reader pages through a table in one of three ways, perhaps while rows are deleted.

**Statements** has the tokens of SQL and what `CursorWrapper.execute` makes of a statement
and its parameters (`FormatSql`, `FormatParams`): `%` formatting, whose errors are
swallowed.

**Rewriting.** SQL is a sequence of tokens. `Scan` is one turn of the loop of
`_alias_columns`, `AliasColumns` the rest of it, `FixSlicingOrder` one round of the loop
of `_fix_slicing_order`. Orderings are columns; their direction, and the ordering by
primary key where there is none, do not matter here (the latter is in `Slicing`).
`Execute` hands the result to the driver. `RewritingAssumption` says what Django writes:
columns whose parentheses match and whose commas and subqueries stand in them
(`IsColumn`), a FROM clause behind them, and an ORDER BY that names nothing twice.

**Identity** is the identity column of SQL Server (`NextId`, `Generate`, `Lose`,
`DeleteRow`), used by the two modules that depend on it. **Inserts** follows the calls of
several sessions: `FixInsert` composes the batch, the server takes it statement by
statement, and `Finish` gets the id. No version of Django that `base.py:85-97` accepts has
the attribute `has_auto_field` on which `_fix_insert` makes IDENTITY_INSERT and DEFAULT
VALUES depend (`compiler.py:513-537`), so that the batch is the INSERT alone or the INSERT
with the OUTPUT clause, and the server refuses an id of the row's own (`IsRefused`).
**Flush** counts (`Count`), composes (`List`) and
lets the server run the list, in Django's transaction or, where `_cursor` has opened the
session with the autocommit option (`base.py:344-345`), each statement for itself
(`autocommit`), with `Fail` at any statement and
`StoreRow` and `RemoveRow` of others at any moment at which the server does not lock the
table. `Begin` takes any of `Orders`, all tables or some, and `CheckConstraints` with
`Validate` is `check_constraints`, table after table, while the others go on; only for
a list of tables, since without one it raises before it reaches the server.

**Settings** has the three readings of an entry of DATABASES: `ConnectionString`
(`_get_connection_string`), `ConnectParams` (`get_connection_params` and what pyodbc
makes of them) and `ShellArgs` (`runshell`), each a record of what it names. **TestDatabase**
opens its sessions by them. Its phases are the lines of `_create_test_db` and
`_destroy_test_db` between calls of the driver; `plan` is what the entry and the server
decide, `Use`, `Switch` and `Migrate` are Django's part, `Visit` somebody else's session.
`Fail` is an exception at any call, `Restart` the next process, which reads the settings
file again and finds the server as it was left.

**Lookups** has the text that lookups and quoted names become, the adapted moments and
decimals, and, as external operators, what reads them: the server's LIKE (`Like`, which
reads the pattern from left to right and keeps the set of places of the text it may have
come to), quoted identifiers, a float of `Mantissa` bits and a decimal column. `Bind` takes
one value of any kind; the properties relate what is sent to what was meant.

**Cursors.** Querysets (`Evaluate`) and raw cursors on one session. `pending` says that
the session is still busy with a result. `ChunkedReads` is the decision of
`base.py:371-378`, `Multiple` what the driver and the server can do.

**Introspection.** A catalogue is a set of tables, constraints and indexes, and the views
that the queries join are operators on it (`ColumnUsage`); `RelationRows`,
`KeyColumnRows` and `IndexRows` are the queries. `get_relations` asks once for the columns
of the table (`GetRelations`), once for its foreign keys (`ReadRelations`), and once for
each row for the columns of the table that it refers to (`ResolveRelation`, `MissColumn`
where the dictionary raises `KeyError`); `Migrate` may come in between. The others ask
once per answer. Rows have no order, and a dictionary keeps the last row of a key.

The state, the initial predicate and the next-state relation of Rewriting have names of
their own (`rewritingVars`, `RewritingInit`, `RewritingNext`), as have those of Lookups,
because `QueryProofs` extends both together with `Slicing`.

**MCConnection, MCTransactions, MCSlicing, MCInserts, MCFlush, MCCursors, MCRewriting,
MCIntrospection, MCTestDatabase** give the constants their values. MCRewriting checks
`Rewriting` and `Lookups` together: a state either rewrites a statement or binds a value.


## 3. Runs

| Run | Properties | What it shows |
|---|---|---|
| `connection` | TypeOK, SafeReentrancy, AdaptedBeforeDecoded, OpenerReturnsReady, ReadyIsStable, CallsEnd | two wrappers, SQL Server 2000 through FreeTDS and 2008 through the native client, both ways of opening, failures everywhere |
| `connection_connect` | CursorsOnDatedSession, violated | a session that `connect()` opens is never initialised |
| `transactions` | TypeOK, NoBlockLeftOpen, BlocksAreAtomic, KeptIsStored, PlainFailureIsGone | all sixteen kinds of program, blocks three deep, writes in them and outside, statements fail, sessions break, `close()` in a block |
| `transactions_release` | FailedBlockIsGone, violated | leaving an inner block with a savepoint commits the outer block |
| `slicing` | TypeOK, PagesAreExact, PageIsSlice, PagingEnds | tables of up to four rows, orderings with and without ties, all servers |
| `rewriting` | TextIsKept, NamesDiffer, OrderIsKept, ParametersAreBound, LikeFindsText, ValuesArrive | up to three columns, some of one name, six WHERE clauses, orderings of up to two columns, parameters of four types; and lookups, names, moments and decimals |
| `rewriting_columns` | ColumnsAreKept, violated | a column with parentheses keeps its placeholder |
| `inserts` | TypeOK, OwnId, NoIdOnlyIfGone | two sessions, a column that has room for three ids, four installations |
| `flush` | TypeOK, IdsArePositive, KeysAreSwitched, CheckedHold | a table and one that refers to it, flushed and checked together, the former alone, or none, in a transaction and without one |
| `cursors` | TypeOK, NeverBusy, RowsInOrder, ReadersEnd | two cursors, results of up to three rows in chunks of two, five installations |
| `introspection` | RelationsAreRight, OnlyMigrationsRaise, ColumnsAreRight | three tables in two schemas with any of six foreign keys, or two others and any of four indexes, and every migration between them |
| `databases` | TypeOK, ProductionIsKept, SessionFollowsSettings, KeysGoWithTables, ReadersAgree | any number of test runs one after the other, failures everywhere, a visitor, 1024 entries of DATABASES, each with 8 plans and 3 states of the server |

The bounds, and why they are enough to meet what is interesting:

- `Wrappers`: two wrappers are one that writes the shared dictionary and one that relies
  on it. Nesting needs no bound; that it ends at four calls is a property.
- `Writes` = 3, `MaxDepth` = 3: a write in each of three nested blocks; an inner block
  with a block around it and one inside it. Names of savepoints are places in
  `savepoint_ids`, so that `MaxDepth` bounds them.
- `Rows` = 4, `PageSize` = 2, `MaxPages` = 4: a full page, a page that ends at the end of
  the table, a page that ends behind it, an empty page, and rows in front of and behind
  the marks to be deleted. `MaxPages` bounds the counter `fetched`.
- Rewriting: lists of two columns of any kind or three of one name (the alias counts
  names seen before, so three is the first list with two aliases), parentheses nested two
  deep beside each other, since a placeholder is numbered by the last one opened.
- `MaxId` = 3: the largest id of the column's type. Two inserts race, a third one follows,
  and the fourth one finds the column exhausted.
- Flush: two tables are a foreign key; `MaxId` = 3 leaves room for rows before and after
  RESEED. A row of the table that refers refers to some row of the other.
- Test databases: two foreign keys, so that a failure can come between them; the three
  databases are all that any name in the settings can be.
- Lookups: lookups of two and columns of three of the characters that mean something to
  LIKE and of a letter in both cases, so that what is escaped stands next to what is not;
  moments in five zones; `Mantissa` = 8 and `MaxDigits` = 2 are to each other
  as 53 bits to 15 digits: all decimals of two digits and one more are tried.
- Cursors: `MaxRows` = 3 and `Chunk` = 2 give empty, full and partial chunks, and results
  that end with a full chunk.
- Introspection: the foreign keys refer to primary keys of one column and of two, to
  UNIQUE of one and of two, and to the table itself, and some of them share a column; the indexes are of one and of two
  columns, with and without included ones, two of them on the same column. The table that
  refers has two, five or six columns, so that a migration may add the column of a key
  after `get_relations` has read the columns.

`CHECK_DEADLOCK FALSE` is set for `slicing` and `rewriting` alone: a reader that is done
and a statement that is rewritten do nothing more.

What holds only in some circumstances is restricted where it is stated, never in silence:

- Slicing runs orderings of one column, and `rest` and `loop` only on servers with
  ROW_NUMBER; section 7 has what happens beyond that.
- `BlocksAreAtomic` speaks of programs without savepoints inside blocks that enter a block
  before they use a cursor and write in blocks alone (`Promised`); `NoBlockLeftOpen` and
  `KeptIsStored` of those that enter a block before they use a cursor,
  `PlainFailureIsGone` of those without savepoints inside blocks. Section 7 has what
  becomes of the others, of what is written outside blocks among it.
- `KeysAreSwitched` says of a flush that fails that the keys are on again if it runs in a
  transaction; without one, see section 7.
- `OrderIsKept` leaves out two kinds of column in an ORDER BY: one that is selected behind
  another of the same name (`Shadowed`), and one that is not selected but occurs in FROM,
  WHERE or an expression that is (`FalseHit`). For both the code takes something else;
  section 7. Other lists with repeated names are not left out.
- `NoIdOnlyIfGone` leaves out SQL Server without the OUTPUT clause, where `last_insert_id`
  always fails; section 7.
- `TextIsKept` and `ParametersAreBound` leave out statements with a `%%`, and the latter
  columns with parentheses or parameters; section 7.
- Introspection takes names of tables and constraints for unique in all schemas, since the
  queries join by name alone, names of columns of one table for different in whatever
  case, and migrations for additions (`WellFormed`, `Extends`).
  `RelationsAreRight` wants to find the columns with a single key, of one column;
  `ColumnsAreRight` promises nothing for keys that refer to UNIQUE, lets a key of several
  columns have more pairs than its own, and lets columns be there that an index of one
  column only includes. Section 7 has these three.
- `KeysGoWithTables` and the mode of sessions in `SessionFollowsSettings` speak of entries
  without the autocommit option; with it each DROP CONSTRAINT is stored at once.
- `ReadersAgree` speaks of entries that name their user, and a driver and a server or a
  data source (`Explicit`): each reading has defaults of its own. It compares `dbshell` only
  where PORT is not set, and its database only with `osql`; `dbshell` with OPTIONS of its own
  (`shellUser`) is left out, as is `extra_params`, which is appended to the string as it is
  and which `runshell` does not read. Section 7.
- `ValuesArrive`: names without a closing quote, moments with a zone where USE_TZ is on and
  without one where it is off, and decimals that a float can tell apart.
- `NeverBusy` speaks of a program that does not ask for `iterator()`, which reads in
  chunks whatever the backend says about itself.


## 4. Fairness

Safety is checked and proved for specifications without fairness. Three runs use
`FairSpec`:

- `Connection`: weak fairness of the steps of a pending call, per wrapper. A driver call
  returns or raises, a receiver returns or raises, and Python goes on with the next line.
  Nothing obliges a program to make a call. (`CallsEnd`)
- `Slicing`: weak fairness of `Read`. A loop over slices goes on until it is told that
  there is no more. (`PagingEnds`)
- `Cursors`: weak fairness of `Fetch`. A list that is being built is built to the end.
  Abandoning a queryset stays possible, and new statements are never forced.
  (`ReadersEnd`)

No run assumes strong fairness.


## 5. Proofs

All theorems are for every value of the constants that satisfies the assumption named in
the module (`SettingsAssumption`, `TransactionsAssumption`, ...). The modules
`ConnectionProofs`, `TransactionsProofs`, `QueryProofs` (Slicing, Rewriting and Lookups),
`InsertsProofs`, `FlushProofs`, `CursorsProofs`, `TestDatabaseProofs` and
`IntrospectionProofs` hold them.
Each proves that an invariant is inductive, action by action, and derives the properties.

- **Connection.** `SafeReentrancy` alone is not inductive: it must be known which call may
  stand above which. `Inv` says so for every wrapper (`Linked`, `Frames`), together with
  what a pending call knows: that the session it opened is there, that the date was set
  before the version was read, that the cached version is the server's, and that
  decoding was decided after adapting (`Cached`, `Decoded`). From it follow
  `TypeCorrect`, `Reentrancy`, `Adapted`, `OpenerReady` and `ReadyStable`. The last two
  are action properties.
- **Transactions.** `TypeInv` bounds the names of savepoints by the depth of blocks.
  `Tracked` relates Django's attributes to the open blocks in spite of every failure, for
  `NoBlockOpen`. `Pending` says that what a block has written and kept is either
  uncommitted or committed already (the release of a savepoint may have come too early,
  but loses nothing), for `KeptStored`. `Unnamed` says that without savepoints for inner
  blocks no name is ever used, so that the outermost COMMIT or ROLLBACK is the only one;
  with it each step is a step of `AtomicStore` or a stuttering step, which is `Atomic`. The
  hard steps are those that leave a block: an inner one that ends badly must leave the mark
  `needs_rollback`, and with the mark nothing but a rollback ends the outermost one.
  `FailureGone` is about sessions that `_cursor` may have opened, where `Tracked` fails:
  `Followed` says how `savepoint_ids` then fit the open blocks (only the outermost can have
  a savepoint), and `Apart` that nothing of an open block is stored or in what a savepoint
  goes back to. All are theorems about all programs, since the properties themselves speak
  of those that use no cursor outside blocks, or no savepoints inside them, which is what
  the disagreements of section 7 make necessary.
- **Slicing.** The rows read so far are those of rank up to the low mark (`ReadUpToLow`);
  deleting rows moves the others down only. From it: `Exact` and `Slices`, for every table,
  ordering and page size. It needs that ranks in a finite table are a bijection, proved in
  the module. `Supported` is the hypothesis: any reader of a server with ROW_NUMBER, and,
  without it, Django's Paginator on a table that stays and in orderings of one column.
  These are the situations of the run, and section 7 shows that the others go wrong. For
  a server without ROW_NUMBER the two TOPs may order ties differently, and a single order
  has to be found in which the rows are the slice: `TopInTopIsSlice` puts, among equals,
  first what the outer TOP leaves out, then what it takes, then what the inner one left
  out, and `FirstOnesAre` and `LeadersAreFirst` count them. That the inner TOP is full, which
  this needs, is where the Paginator's count comes in.
- **Rewriting.** For every list of columns, every FROM clause and every ordering that
  `RewritingAssumption` allows, of any length and any depth of parentheses.
  `RewritingInv` has a part for each phase.
  - During the loop (`ScanInv`): the buffers, with their placeholders expanded and the
    open parentheses between them, are the text read so far. Its hard part is that an
    outer parenthesis takes over the key of the last one inside it (`compiler.py:413`
    reads `i` after the inner ones have counted): the invariant says that only the
    innermost open buffer can have the newest key, so that what `Updated` overwrites has
    been expanded before. The second half says that the first buffer is the `Skeleton`
    of that text, which has one placeholder for what stands in parentheses, but for the
    keys (`Alike`).
  - When the loop has ended, the commas and the FROM of the skeleton are those between
    the columns and behind them, because a column has its own in parentheses; so `Break`
    and `Split` give one piece for each column (`Wholes`, `WholeConcat`, `SplitAppend`),
    whose last token is its name (`ColumnsInv`), and what follows expands to the
    FROM clause (`RestInv`).
  - During `_fix_slicing_order`: each column that was added is one of the ORDER BY
    under an alias with its own number (`AddedInv`), all additions stand before the
    columns of Django (`InnerInv`), and each name of the new ORDER BY is that of a column
    that was found or added (`OrderInv`).

  From these follow all four properties of the run that are about Rewriting:
  `TextIsKeptTheorem`, `NamesDifferTheorem`, `OrderIsKeptTheorem`,
  `ParametersAreBoundTheorem`. Much of this is induction over sequences. The theorems of
  the library that take a predicate cannot be instantiated here, but the fact that every
  set of numbers has a least element can be cited: `Least`, `Counting` and `Appending`
  state induction of sets, `Recursion` that a function defined step by step exists, and with
  them the lemmas on `FlattenSeq`, `Expand`, `Skeleton` and `Split` are proved.
- **Lookups.** For every text, name and moment, and every decimal. The invariant (`Bound`)
  only says which kind of value is bound; the work is in the operators.
  - `LikeFindsTextTheorem`: each `str.replace` goes character by character, so the nesting
    of the four does (`PreparedIs`, `PreparedAppend`), and no escape is escaped again. LIKE,
    having read the escape of one character, has come to the places behind that character
    and nowhere else; so, by induction over the text, what has been prepared leads from
    where it may begin to the places behind an occurrence (`IsFound`). The two `%` around
    it turn this into what Django promises of each lookup (`PatternFinds`). `UPPER()` goes
    through it because it goes character by character too (`PreparedUpper`).
  - `ValuesArriveTheorem`: a name that is quoted is not quoted again, a moment is a sum of
    its fields, and a decimal is printed next to itself. For the latter: the scale that a
    float needs exists (`ScaleExists`), rounding is off by half a unit (`RoundedIs`), and if
    the float is off by less than nine twentieths of the last digit, the digit printed in
    addition decides nothing (`PrintIsNear`). This is where the condition of
    `DecimalIsKept` comes from; a weaker one, that a mantissa has twice as many values as
    the digits have, holds in small instances and for 53 bits, and is wrong in general (104
    bits, 31 digits, 3 of them behind the point).
- **Inserts.** The invariant follows each call through its batch: before the INSERT
  nothing is stored (`Wait`), after it the table variable and the session's last id are
  those of the stored row and no INSERT is left (`Kept`), and in the end the reply is its
  id (`Replied`). Steps of others change none of that: `OwnIds`. For `LostIds`: a call that
  has stored its row can fail in `Finish` alone, by way of `last_insert_id`; on DB2 that
  takes a table without rows, so that its own is not there either.
- **Flush.** `CountersSafe`: a start of 0 is recorded only for tables whose counter was
  used, and a used counter stays used, whatever others do before RESEED. From it
  `PositiveIds`. `KeysInv` says where in the list the statements are that are still to run:
  while a DELETE is among them every foreign key has been switched off, and each that is off
  has its CHECK still to come; from it `SwitchedKeys`. Between flushes it says that keys are
  on only of sessions with a transaction, since without one a failure leaves them off. So
  `CheckedStayValid` cannot rest on it: what it needs is that `check_constraints` itself has
  switched on the keys of the tables it has been through (`Valid`). They were valid then,
  and while they are on others cannot violate them.
- **Test databases.** Which database may be altered hangs on what `NAME` was when the
  session was opened. `Place` says for each phase which name the settings have, that only
  the tests' database can have keys about to be dropped, be the target of DROP, or be in
  single-user mode. With `SessionFollowsSettings` it is inductive, action by action:
  `ProductionKept`, `SessionsFollow`, `KeysStay`, for any number of runs, failures and
  entries. `Readings` is a fact about every entry, of the two ways to open a session
  (`OpenersAgree`) and of `dbshell` without PORT (`ShellFollows`), carried along.
- **Introspection.** What a `get_relations` under way has collected must stay true when a
  migration comes: the places it knows (`Indexed`), the rows it has read (they are rows of
  the join still) and the entries it has made (`Sound`). Migrations add only, so each is
  kept (`TablesStay`, `KeysStay`, `RowsStay`). Until one comes the index has all columns
  (`AllIndexed`) and no key is missing (`Complete`). From these, and the lemma on what the
  joins return (`RowFacts`), `Relations` and `NoOtherErrors`; `Columns` is a fact about
  every well-formed catalogue. `WellFormed` is the assumption they rest on.
- **Cursors.** What a reader has got is the beginning of the result (`Delivered`), and a
  session without MARS has results pending only for a reader that nothing runs beside
  (`Polite`). From it `NobodyIsBusy` and `Ordered`.


## 6. Only model-checked

- Liveness: `CallsEnd`, `PagingEnds`, `ReadersEnd`. TLAPS has no rules for `ENABLED` here.
- The violations of section 7, Slicing beyond `Supported` among them.


## 7. Known disagreements

Where the code does something else than a comment, a document or a test of the repository
says. The first three are runs that are expected to be violated.

1. *Sessions opened by `connect()`* (run `connection_connect`). Only a session that
   `_cursor` opens is initialised (`base.py:341-365`); one that Django's `connect()` opens
   has neither DATEFORMAT nor DATEFIRST, against the comment of `base.py:357-360`.
2. *Releasing a savepoint* (run `transactions_release`). `COMMIT TRANSACTION sid`
   (`operations.py:325`) commits everything; `base.py:561-563` says that savepoint commits
   are ignored, and `tests/django20/transactions/tests.py:91-98` expects the outer block's
   rollback to have an effect.
3. *Columns with parentheses in a slice* (run `rewriting_columns`). `_re_col_placeholder`
   (`compiler.py:100`) looks for `{_placeholder_1}`, but the placeholders are
   `%(_placeholder_1)s`: `COUNT([u].[x]) AS [n]` becomes `COUNT(%(_placeholder_1)s) AS [n]`.

The others can be seen by changing the constants of a configuration and adding the
property named:

| Constants | Property | What happens |
|---|---|---|
| Connection: `Openers = {"cursor"}`, `Failures = TRUE` | CursorsOnDatedSession | a failure between opening and SET DATEFORMAT leaves a session that later calls use as it is |
| Connection: `Openers` both, `modern` | AutocommitHonoured | the autocommit option counts if `_cursor` opens the session (`base.py:345`) and is dropped if `connect()` does (`base.py:228`); `README.rst:106-108` describes only the former |
| Connection: `legacy` and `modern` | TextFieldOfServer | the wrapper of a SQL Server 2000 makes TextField `ntext` for all wrappers (`base.py:367`) |
| Connection: `bare` | EncodingHasDefault | without OPTIONS there is no attribute `encoding` (`base.py:190, 404`) |
| Slicing: `Situations <- OldPaginator` | PageIsSlice | without ROW_NUMBER a slice that reaches beyond the end has rows in front of its low mark (`compiler.py:288`), with `OldLoop`; with `AllOrders` an ORDER BY of two columns is cut to its last (`compiler.py:290`) |
| Slicing: `Situations <- OldRest` | OffsetWithoutLimit | without ROW_NUMBER an offset without a limit raises TypeError |
| Transactions: `Programs` with `cursors`, without `savepoints` | BlocksCanBeEntered | after `_cursor` has opened the session, Django takes it for one inside a transaction and begins a block by SAVE TRANSACTION |
| Transactions: the same | KeptIsStored without its condition | on such a session `atomic(savepoint=False)`, which `save()` uses, does not commit |
| Transactions: `Programs` with `outside` alone | OutsideIsStored | what is written outside every block stays uncommitted until something commits or rolls back, since `_set_autocommit` does nothing (`base.py:246-247`); `tests/django20/transactions/tests.py:394-404` and `tests/django20/transactions_regress/tests.py:338-343` say that the default is to store it at once |
| Transactions: `Programs` without `savepoints`, `Faults = TRUE` | BrokenIsRefused | this backend's cursors do not look at `needs_rollback` |
| Inserts: as in the run | StoredIsReturned | `SELECT py(IDENT_CURRENT(...` (`operations.py:267`) fails after the row is stored |
| Flush: as in the run | KeysAreSwitched without `~ autocommit` in its third part | with OPTIONS['autocommit'] on a session that the `cursor()` of `sql_flush` has opened (`base.py:344-345`, `operations.py:346`) each NOCHECK and DELETE is stored at once: a flush that fails leaves foreign keys off and tables half emptied |
| Flush: `Tables = {parent}`, `Orders <- Single`, `ForeignKeys <- NoKeys` | CountersAreReset | a table that was emptied before starts at 2 (`operations.py:354`) |
| Rewriting: as in the run | PercentsAreKept | a `%%` in parentheses, as in `(F('x') % 2)`, makes `buf % parens` raise (`compiler.py:418`); outside them it becomes `%` (`compiler.py:468`), `format_sql` fails on it, and the statement goes out with `%s` in it |
| Rewriting: as in the run | OrderIsKept without `FalseHit` | a column of the ORDER BY that occurs in WHERE, or in the expression of a selected column such as a CASE, is not added to the inner SELECT (`compiler.py:379`); the comment at `compiler.py:376-378` names the former and leaves it out |
| Rewriting: as in the run | OrderIsKept without `Shadowed` | an ordering by a column that is selected behind another column of the same name becomes one by the first of them, since `col`, to which the name of the table is no more part, is used although the column has been given an alias (`compiler.py:379-391`) |
| Introspection: as in the run | KeyColumnsPair | a foreign key of two columns gives four pairs, and one that refers to UNIQUE gives none (`introspection.py:244-250`) |
| Introspection: as in the run | IndexesAreOfKeys | included columns of an index of one column are reported as indexed (`introspection.py:187-199`), against `tests/django20/introspection/tests.py:138-146` |
| TestDatabase: as in the run | NobodyDropsItsOwn | without Azure `_destroy_test_db` connects to the database that it drops (`creation.py:165-172`), which the server refuses |
| TestDatabase: as in the run | KeysGoWithTables without its condition | with the autocommit option the foreign keys are lost if a statement after them fails |
| TestDatabase: as in the run | ShellGoesThere | `runshell` reads PORT and does not pass it (`client.py:64`), and `isql` is not told the database: `dbshell` goes elsewhere |
| Lookups: `Mantissa` = 7 | ValuesArrive with `DecimalIsKept` without its condition | a decimal of more digits than a float has (15 of 53 bits) is stored as another one (`operations.py:484`) |

Seen while modelling, without a property of their own:

- An object with an id of its own cannot be stored in a table whose column generates ids:
  `has_auto_field`, on which `_fix_insert` makes IDENTITY_INSERT depend (`compiler.py:513`),
  exists in the Options of no version of Django that `base.py:85-97` accepts. Nor, on SQL
  Server, can a row without fields, for which Django writes `VALUES (DEFAULT)`. The model
  takes the column of DB2 for one that always generates, too.
- `check_constraints` without names, `disable_constraint_checking` and
  `enable_constraint_checking` (`base.py:406-425`) raise: `get_table_list` gives `TableInfo`
  tuples, which `quote_name` cannot take. `tests/django20/backends/tests.py:687` and `703`
  use them by `constraint_checks_disabled()`.
- A flush of some tables leaves rows that refer to nothing, without an error: its keys come
  back by CHECK CONSTRAINT without WITH CHECK (`operations.py:384`). The next
  `check_constraints` finds them.
- On Django 2.0 and later a test database that does not exist cannot be created: the
  connection without `NAME` falls back on the name of the tests (`base.py:253-261`). With
  `TEST_CREATE = False` the first table raises, again for `TableInfo` (`creation.py:146-149`).
- Settings: PORT is dropped with SERVERNAME, that is with FreeTDS and without
  `host_is_server` (`base.py:299-315`, against `README.rst:89`); without USER only the
  connection string asks for integrated security (`README.rst:91`), and only the string has
  the default driver and `localhost`.
- `_switch_tz_offset_sql` turns the minutes of a negative offset around: -03:30 becomes
  `-04:30` (`operations.py:191-192`, `divmod`). `datetime_trunc_sql`, its caller, returns a
  pair where Django 2.0 wants a string.
- `quote_name` does not double a closing quote inside a name.

And without a model: `cursor.columns(table=...)` takes the name of the table as a pattern,
in which `_` stands for any character (`introspection.py:126`); `fetchone` gives `[]` where
DB-API says `None`;
iterating over a `CursorWrapper` gives rows that are not decoded; `executemany` leaves
`%%` as it is and does not set `last_sql`; `last_params` are those of the statement before
if `format_params` raises; the CHECK of a positive column has the name `b'...'` on Python 3
(`creation.py`), and there are no types for UUIDField and DurationField; a column whose name ends in `___1` may collide
with an alias; slices without an ordering go by the primary key even if it is not selected;
the parameters of an ordering expression come last although its SQL moves to the front.


## 8. Not modelled

- `compat.py`, `metadata.py` and the table of column types in `creation.py` are imports and
  constants.
- `aggregates.py`, the SQL of dates and regular expressions, `_fix_aggregates`: pieces of
  SQL text without state, whose meaning is the server's.
- What no version of Django that `base.py:85-97` accepts (2.0 and 3.1) reaches:
  `SQLInsertCompiler2`, `resolve_columns`, `_fix_aggregates`, `_mssql_ordering_not_allowed`,
  `year_lookup_bounds`, `convert_values`, `_prepare_for_test_db_ddl`, `_rollback_works`, and
  `ss_loaddata`, which imports `get_apps`, opens `file` and calls `commit_unless_managed`.
- The branches of `_fix_insert` that depend on `has_auto_field`, for the same reason.
- A server release that is another one when the session is opened again: each server of
  `Connection` has one. `AdaptedBeforeDecoded` is about re-entry and failures between
  reading the release and what is decided by it, not about a cached release
  (`operations.py:128`) that has become wrong.
- What writes outside blocks in Django is the program's own SQL and, in Django 3.1, the
  `save()` of a model without parents; `save()` of Django 2.0 opens a block of its own. The
  model has both as `outside`. A block marked as needing a rollback may go on writing, in
  `AtomicStore` too, where it is in vain; that Django promises to refuse it is
  `BrokenIsRefused` of section 7.
- `adapt_timefield_value` (cuts a time to seconds) and the collation of the settings.
- `__iter__`, `__getattr__`, `last_sql` and `last_params` of `CursorWrapper`.
- Text: formatting and types of values, except where section 2 says so.


## 9. Plan

Done, in this order: Connection, Slicing, Transactions with AtomicStore, Inserts and
Flush over Identity, Cursors, Rewriting over Statements, Introspection, Settings and
TestDatabase, the checks of constraints in Flush, Lookups, and the proofs of section 5,
those about Rewriting and Lookups last.

Next:

1. Connection and Cursors take MARS from Settings instead of from their constants.
2. Execution by all ways: Cursors with the statements of `Statements`, `executemany`
   included, which does not format them as `execute` does.
