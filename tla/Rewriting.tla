------------------------------ MODULE Rewriting ------------------------------
(***************************************************************************)
(* How as_sql rewrites a SELECT that it puts inside another one:           *)
(* _alias_columns replaces what stands in parentheses by placeholders,     *)
(* breaks the statement into columns and the rest, and gives columns of    *)
(* the same name aliases; _fix_slicing_order makes the ORDER BY refer to   *)
(* the columns of the inner SELECT, [AAAA].  In the end the statement and  *)
(* its parameters are handed to the driver.                                *)
(***************************************************************************)
EXTENDS Statements, SequencesExt

CONSTANTS
  SelectLists,  \* lists of columns, as sequences of sequences of tokens
  Rests,        \* what follows: FROM and WHERE
  Orderings,    \* what ORDER BY names: sequences of tokens
  Types         \* the types of parameters

-----------------------------------------------------------------------------
(* What Django writes.                                                     *)

Opens(text, k)  == Cardinality({m \in 1..k : text[m] = Open})
Closes(text, k) == Cardinality({m \in 1..k : text[m] = Close})

\* The first k tokens leave no parenthesis open.
Outside(text, k) == Opens(text, k) = Closes(text, k)

Balanced(text) ==
  /\ \A k \in DOMAIN text : Closes(text, k) <= Opens(text, k)
  /\ Outside(text, Len(text))

\* A column: its commas and subqueries stand in parentheses.
IsColumn(text) ==
  /\ text # <<>>
  /\ Balanced(text)
  /\ \A k \in DOMAIN text : Outside(text, k) => text[k] \notin {Comma, From}

ASSUME RewritingAssumption ==
  /\ \A list \in SelectLists :
       /\ list \in Seq(Seq(SourceTokens)) /\ list # <<>>
       /\ \A k \in DOMAIN list : IsColumn(list[k])
  /\ \A text \in Rests :
       text \in Seq(SourceTokens) /\ text # <<>> /\ Head(text) = From /\ Balanced(text)
  \* Nothing is named twice: Django leaves out what repeats.
  /\ \A list \in Orderings :
       /\ list \in Seq(SourceTokens) /\ list # <<>>
       /\ \A k, m \in DOMAIN list : list[k] = list[m] => k = m
       /\ \A k \in DOMAIN list : list[k].kind = "name"

VARIABLES
  selected,     \* the columns that Django's statement selects
  from,         \* what follows them, without ORDER BY
  pos,          \* how many tokens the loop over it has seen
  buffers,      \* paren_buf: one for every open parenthesis, and one
  parens,       \* what the placeholders stand for
  i,            \* the number of the last placeholder
  columns,      \* the columns of [AAAA]: what is selected, under which name
  outer,        \* names of the columns of [AAAA] the outer SELECT has
  rest,         \* the inner FROM and WHERE
  ordering,     \* what the statement is ordered by
  newOrder,     \* the names in [AAAA] that it is ordered by, of those looked at so far
  step,         \* "scan", "order", "done", "sent" or "failed"
  sent          \* what the driver is given: the inner SELECT and the parameters

rewritingVars ==
  <<selected, from, pos, buffers, parens, i, columns, outer, rest, ordering, newOrder, step, sent>>

-----------------------------------------------------------------------------
(* Tokens.                                                                 *)

\* text % values.
Expand(tokens, values) ==
  FlattenSeq([k \in 1..Len(tokens) |->
                IF tokens[k].kind = "placeholder" THEN values[tokens[k].key]
                ELSE <<tokens[k]>>])

\* The server and the regular expression do not tell names apart by case.
Folded(name) == [name EXCEPT !.upper = FALSE]

\* name___n and name___on.
Aliased(name, what, n) == [name EXCEPT !.suffix = Append(@, Alias(what, n))]

Separated(lists) ==
  FlattenSeq([k \in 1..Len(lists) |->
                IF k = 1 THEN lists[k] ELSE <<Comma>> \o lists[k]])

\* The statement without SELECT and ORDER BY.
sql == Separated(selected) \o from

-----------------------------------------------------------------------------
(* _alias_columns: the loop over the characters.                           *)

Pushed(bufs, token) == [bufs EXCEPT ![Len(bufs)] = Append(@, token)]

\* The last buffer gives way to the placeholder of the given key.
Closed(bufs, key) ==
  LET left == Front(bufs)
  IN  [left EXCEPT ![Len(left)] = @ \o <<Open, Placeholder(key), Close>>]

\* The values with the given text for all the keys.
Updated(values, keys, text) ==
  [key \in DOMAIN values \cup keys |-> IF key \in keys THEN text ELSE values[key]]

ScanOpen ==
  /\ i' = i + 1
  /\ buffers' = Append(buffers, <<>>)
  /\ UNCHANGED parens

\* Faulty: the placeholder is numbered by the depth of the parenthesis.
ScanCloseByDepth ==
  LET key == Len(buffers) - 1
  IN  /\ parens' = Updated(parens, {key}, Expand(Last(buffers), parens))
      /\ buffers' = Closed(buffers, key)
      /\ UNCHANGED i

\* The key is the number of the last parenthesis that was opened: an outer one takes
\* over the key of the last one inside it.
ScanClose ==
  /\ parens' = Updated(parens, {i}, Expand(Last(buffers), parens))
  /\ buffers' = Closed(buffers, i)
  /\ UNCHANGED i

Scan ==
  /\ step = "scan"
  /\ pos < Len(sql)
  /\ pos' = pos + 1
  /\ \/ sql[pos + 1] = Open /\ ScanOpen
     \/ /\ sql[pos + 1] = Close
        /\ Percents \notin Range(Last(buffers))
        /\ ScanClose
     \/ /\ sql[pos + 1] \notin {Open, Close}
        /\ buffers' = Pushed(buffers, sql[pos + 1])
        /\ UNCHANGED <<parens, i>>
  /\ UNCHANGED <<selected, from, columns, outer, rest, ordering, newOrder, step, sent>>

\* Of %% in parentheses the first substitution leaves a single %, for which
\* buf % parens raises.  (In front of an s it would not, and put parens itself there.)
ScanFails ==
  /\ step = "scan"
  /\ pos < Len(sql)
  /\ sql[pos + 1] = Close
  /\ Percents \in Range(Last(buffers))
  /\ step' = "failed"
  /\ UNCHANGED <<selected, from, pos, buffers, parens, i, columns, outer, rest, ordering, newOrder, sent>>

-----------------------------------------------------------------------------
(* _alias_columns: the rest.                                               *)

\* Faulty: they are numbered from 1 again.
ParamKeyAnew(tokens, k, n) == Cardinality({m \in Places(tokens, Param) : m <= k})

\* Bare parameters get placeholders too, numbered on from n.
ParamKey(tokens, k, n) == n + Cardinality({m \in Places(tokens, Param) : m <= k})

HideParams(tokens, n) ==
  [k \in 1..Len(tokens) |->
     IF tokens[k] = Param THEN Placeholder(ParamKey(tokens, k, n)) ELSE tokens[k]]

\* tokens.split(',').
Split(tokens) ==
  LET parts[n \in 0..Len(tokens)] ==
        IF n = 0 THEN << <<>> >>
        ELSE IF tokens[n] = Comma THEN Append(parts[n - 1], <<>>)
        ELSE Pushed(parts[n - 1], tokens[n])
  IN  parts[Len(tokens)]

\* Faulty: names are told apart by case.
AliasOfByCase(names, k) ==
  LET earlier == {m \in 1..k - 1 : names[m] = names[k]}
  IN  IF earlier = {} THEN names[k]
      ELSE Aliased(names[k], "seen", Cardinality(earlier))

\* The outer name of the k-th column: with an alias if the name was seen before.
AliasOf(names, k) ==
  LET earlier == {m \in 1..k - 1 : Folded(names[m]) = Folded(names[k])}
  IN  IF earlier = {} THEN names[k]
      ELSE Aliased(names[k], "seen", Cardinality(earlier))

\* Faulty: the FROM clause keeps its placeholders.
RestUnexpanded(tokens, values) == tokens

\* from_clause % parens.
RestOf(tokens, values) ==
  Expand([k \in DOMAIN tokens |-> IF tokens[k] = Percents THEN Percent ELSE tokens[k]], values)

\* The text in front of FROM, and the text from there on.
Break(tokens) ==
  LET at == CHOOSE k \in Places(tokens, From) : \A m \in Places(tokens, From) : k <= m
  IN  <<SubSeq(tokens, 1, at - 1), SubSeq(tokens, at, Len(tokens))>>

\* self._re_pat_col finds a name at the end of every column.
AllAreNamed(list) == \A k \in DOMAIN list : Last(list[k]).kind = "name"

AliasColumns ==
  LET text   == Head(buffers)
      values == Updated(parens, {ParamKey(text, k, i) : k \in Places(text, Param)}, <<Param>>)
      broken == Break(HideParams(text, i))
      list   == Split(broken[1])
      names  == [k \in DOMAIN list |-> Last(list[k]).name]
  IN  /\ step = "scan"
      /\ pos = Len(sql)
      /\ parens' = values
      /\ IF AllAreNamed(list)
         THEN /\ step' = "order"
              /\ outer' = [k \in DOMAIN list |-> AliasOf(names, k)]
              /\ columns' =
                   [k \in DOMAIN list |-> [tokens |-> list[k], name |-> AliasOf(names, k)]]
              /\ rest' = RestOf(broken[2], values)
         ELSE step' = "failed" /\ UNCHANGED <<outer, columns, rest>>
      /\ UNCHANGED <<selected, from, pos, buffers, i, ordering, newOrder, sent>>

-----------------------------------------------------------------------------
(* _fix_slicing_order.                                                     *)

InnerSelect == Separated([k \in DOMAIN columns |-> columns[k].tokens]) \o rest

\* All columns of ORDER BY but the first are looked for with the space in front of
\* them, which neither the first column of all nor one behind a parenthesis has.
InInnerSelect(m) ==
  \E k \in Places(InnerSelect, ordering[m]) :
    m = 1 \/ (k > 1 /\ InnerSelect[k - 1] # Open)

\* Faulty: all of them get the same alias.
OrderAliasAlike(m) == Aliased(ordering[m].name, "order", 1)

\* alias_id counts the columns that have been added.
OrderAlias(m) == Aliased(ordering[m].name, "order", Len(columns) - Len(selected) + 1)

\* One round of the loop over what ORDER BY names: what is missing in the inner SELECT
\* is put in front of it.
FixSlicingOrder ==
  LET m == Len(newOrder) + 1
  IN  /\ step = "order"
      /\ \/ /\ InInnerSelect(m)
            /\ newOrder' = Append(newOrder, ordering[m].name)
            /\ UNCHANGED columns
         \/ /\ ~ InInnerSelect(m)
            /\ newOrder' = Append(newOrder, OrderAlias(m))
            /\ columns' = <<[tokens |-> <<Open, ordering[m], Close>>,
                            name   |-> OrderAlias(m)]>> \o columns
      /\ step' = IF m = Len(ordering) THEN "done" ELSE "order"
      /\ UNCHANGED <<selected, from, pos, buffers, parens, i, outer, rest, ordering, sent>>

-----------------------------------------------------------------------------
(* CursorWrapper.execute.                                                  *)

\* Django's parameters: one for every %s.
Params(type) == [k \in 1..Count(sql, Param) |-> [type |-> type, place |-> k]]

Execute(type, utf8) ==
  /\ step = "done"
  /\ step' = "sent"
  /\ sent' = [sql    |-> FormatSql(InnerSelect, Len(Params(type))),
              params |-> FormatParams(Params(type), utf8),
              utf8   |-> utf8]
  /\ UNCHANGED <<selected, from, pos, buffers, parens, i, columns, outer, rest, ordering, newOrder>>

RewritingInit ==
  /\ selected \in SelectLists
  /\ from \in Rests
  /\ ordering \in Orderings
  /\ pos = 0
  /\ buffers = <<<<>>>>
  /\ parens = <<>>
  /\ i = 0
  /\ columns = <<>>
  /\ outer = <<>>
  /\ rest = <<>>
  /\ newOrder = <<>>
  /\ step = "scan"
  /\ sent = <<>>

RewritingNext ==
  \/ Scan
  \/ ScanFails
  \/ AliasColumns
  \/ FixSlicingOrder
  \/ \E type \in Types, utf8 \in BOOLEAN : Execute(type, utf8)

RewritingSpec == RewritingInit /\ [][RewritingNext]_rewritingVars

-----------------------------------------------------------------------------
(* Properties.                                                             *)

Ended == step \in {"order", "done", "sent"}

\* The buffers with the open parentheses between them.
Joined(bufs) ==
  FlattenSeq([k \in DOMAIN bufs |-> IF k = 1 THEN bufs[k] ELSE <<Open>> \o bufs[k]])

\* What the loop has replaced it can put back: at any moment the open buffers, with
\* the placeholders replaced and the open parentheses between them, are the text read
\* so far, although an outer parenthesis takes over the key of one inside it.  And FROM
\* and WHERE come out as they went in, parentheses and parameters at every depth
\* included, unless there is a %% (_alias_columns).
TextIsKept ==
  /\ step = "scan" =>
       Expand(Joined(buffers), parens) = SubSeq(sql, 1, pos)
  /\ Ended /\ Percents \notin Range(from) => rest = from

\* The k-th column that was selected, as it is selected now.
Inner(k) == columns[Len(columns) - Len(selected) + k]

\* So do the columns.  "Replace all placeholders with expanded values", _replace_sub
\* promises.
ColumnsAreKept ==
  Ended => \A k \in DOMAIN selected : Inner(k).tokens = selected[k]

SourceNames == {Last(selected[k]).name : k \in DOMAIN selected}

\* No source column has a name that looks like an alias.
NoneLooksAliased == \A n \in SourceNames : n.suffix = <<>>

Same(name, other) == Folded(name) = Folded(other)

\* The columns of [AAAA] have different names, in whatever case the source names are
\* written and however often they occur, and the outer SELECT finds its own among them,
\* in their order (_alias_columns and _fix_slicing_order, which invent names apart).
NamesDiffer ==
  step = "done" /\ NoneLooksAliased =>
    /\ \A k, m \in DOMAIN columns :
         k # m => ~ Same(columns[k].name, columns[m].name)
    /\ \A k \in DOMAIN selected : outer[k] = Inner(k).name

\* The columns of [AAAA] that a name stands for.
Denoted(name) == {m \in DOMAIN columns : Same(columns[m].name, name)}

\* x is selected, but behind another column of the same name: col, to which the table's
\* name is no more part, is that of the first one.
Shadowed(x) ==
  \E k, m \in DOMAIN selected :
    /\ Last(selected[m]) = x
    /\ Same(Last(selected[k]).name, x.name)
    /\ \A j \in 1..k : Last(selected[j]) # x

\* x is no column, but found in FROM and WHERE (the comment in _fix_slicing_order names
\* this case and leaves it out), or in the expression of a column, as of a CASE.
FalseHit(x) ==
  /\ \A k \in DOMAIN selected : Last(selected[k]) # x
  /\ \/ x \in Range(from)
     \/ \E k \in DOMAIN selected : \E m \in DOMAIN selected[k] :
          selected[k][m] = x /\ Outside(selected[k], m)

\* The column of [AAAA] is x, added or selected, or selected AS x.
IsOf(column, x) == column.tokens = <<Open, x, Close>> \/ Last(column.tokens) = x

\* A name in the new ORDER BY stands for one column of [AAAA], and that is the column the
\* old one named, selected or not, however often its name is selected, written in whatever
\* case (_fix_slicing_order); unless the old one is selected behind another of the same
\* name, or is only mentioned: both are then taken for what they are not.
OrderIsKept ==
  step = "done" /\ NoneLooksAliased =>
    \A k \in DOMAIN ordering :
      \/ FalseHit(ordering[k])
      \/ Shadowed(ordering[k])
      \/ \E m \in DOMAIN columns :
           Denoted(newOrder[k]) = {m} /\ IsOf(columns[m], ordering[k])

\* What ColumnsAreKept is about: columns with neither parentheses nor parameters.
ColumnsArePlain ==
  \A k \in DOMAIN selected : Range(selected[k]) \cap {Open, Param} = {}

\* After all that, the driver is given one ? where Django had a %s, and no more, with
\* the parameters in their order, decoded unless it takes UTF-8.  format_sql would not
\* say if it were otherwise (_alias_columns, format_sql and format_params together).
ParametersAreBound ==
  step = "sent" /\ ColumnsArePlain /\ Percents \notin Range(from) =>
    /\ IsSuffix(Formatted(sql), sent.sql)
    /\ Count(sent.sql, Question) = Len(sent.params)
    /\ \A k \in DOMAIN sent.params :
         /\ sent.params[k].place = k
         /\ sent.params[k].type # "bool"
         /\ sent.params[k].type = "bytes" => sent.utf8

\* A %% of Django's is a % for the server.
PercentsAreKept == step # "failed" /\ (step = "sent" => Param \notin Range(sent.sql))
=============================================================================
