------------------------------ MODULE Statements ------------------------------
(***************************************************************************)
(* SQL as a sequence of tokens, and how CursorWrapper.execute hands a      *)
(* statement and its parameters to the driver (format_sql, format_params). *)
(*                                                                         *)
(* A quoted column name, with or without its table, is one token; what no  *)
(* part of the backend looks at is "other".                                *)
(***************************************************************************)
EXTENDS Naturals, Sequences, FiniteSets

CONSTANT Words  \* the names of tables, and what the names of columns start with

\* What aliasing puts behind a name: ___n for a name seen before, ___on for one that
\* only the ORDER BY has.
Alias(what, n) == [what |-> what, n |-> n]

\* suffix: the aliases behind the name.
Names ==
  [base: Words \cup {"none"}, upper: BOOLEAN, suffix: Seq([what: {"seen", "order"}, n: Nat])]

NoName == [base |-> "none", upper |-> FALSE, suffix |-> <<>>]
NameOf(base, upper) == [base |-> base, upper |-> upper, suffix |-> <<>>]

Token(kind)         == [kind |-> kind, table |-> "none", name |-> NoName, key |-> 0]
Name(table, name)   == [Token("name") EXCEPT !.table = table, !.name = name]
Placeholder(key)    == [Token("placeholder") EXCEPT !.key = key]

Open     == Token("open")
Close    == Token("close")
Comma    == Token("comma")
Param    == Token("param")
Percents == Token("percents")
Percent  == Token("percent")
Question == Token("question")
From     == Token("from")
Other    == Token("other")

\* All tokens, and those that Django writes.
Kinds ==
  {"open", "close", "comma", "param", "percents", "percent", "question", "from", "other",
   "name", "placeholder"}
Tokens == [kind: Kinds, table: Words \cup {"none"}, name: Names, key: Nat]
SourceTokens ==
  {Open, Close, Comma, Param, Percents, From, Other}
    \cup [kind: {"name"}, table: Words \cup {"none"}, name: Names, key: {0}]

\* The places of a kind of token, and how often it occurs.
Places(tokens, token) == {k \in DOMAIN tokens : tokens[k] = token}
Count(tokens, token)  == Cardinality(Places(tokens, token))

-----------------------------------------------------------------------------

\* tokens % tuple('?' * n), where Python is able to do that.  What stands behind a
\* single % is no conversion; a placeholder asks for a mapping.
Formatted(tokens) ==
  [k \in DOMAIN tokens |->
     CASE tokens[k] = Param    -> Question
       [] tokens[k] = Percents -> Percent
       [] OTHER                -> tokens[k]]

CanFormat(tokens, n) ==
  /\ Count(tokens, Param) = n
  /\ \A k \in DOMAIN tokens : tokens[k].kind \notin {"percent", "placeholder"}

\* format_sql with n_params: whatever goes wrong is ignored.
FormatSql(tokens, n) == IF CanFormat(tokens, n) THEN Formatted(tokens) ELSE tokens

\* A parameter: its type and its place among the parameters.
Parameter == [type: {"text", "bytes", "bool", "int"}, place: Nat]

\* format_params; utf8 is driver_supports_utf8.
FormatParams(params, utf8) ==
  [k \in DOMAIN params |->
     CASE params[k].type = "bytes" /\ ~ utf8 -> [params[k] EXCEPT !.type = "text"]
       [] params[k].type = "bool"            -> [params[k] EXCEPT !.type = "int"]
       [] OTHER                              -> params[k]]
=============================================================================
