------------------------------- MODULE Lookups -------------------------------
(***************************************************************************)
(* Values and names on their way to the server and back: the patterns and  *)
(* operators of lookups, quoted names, and the adapted moments and         *)
(* decimals, each next to what the server, the driver and Django do to     *)
(* them.  The only state is what a parameter of a statement is bound to.   *)
(***************************************************************************)
EXTENDS Integers, Sequences, SequencesExt

CONSTANTS
  Written,    \* texts that lookups are written with, sequences of characters
  Stored,     \* texts that columns hold
  Named,      \* names that are quoted, sequences of characters
  Moments,    \* see Moment
  Mantissa,   \* bits of a float: 53
  MaxDigits   \* bound on the digits of decimals

Characters == {"a", "A", "\\", "[", "]", "%", "_"}

None == "none"

NoValue == [kind |-> "nothing"]

VARIABLE value

\* A datetime: its wall clock in seconds, whether it has microseconds, and how far its
\* zone is ahead of UTC, if it has one.
Moment == [wall: Int, micro: BOOLEAN, zoned: BOOLEAN, ahead: Int]

ASSUME LookupsAssumption ==
  /\ Written \subseteq Seq(Characters)
  /\ Stored \subseteq Seq(Characters)
  /\ Named \subseteq Seq(STRING)
  /\ \A m \in Moments : m \in Moment /\ (m.zoned \/ m.ahead = 0)
  /\ Mantissa \in Nat \ {0}
  /\ MaxDigits \in Nat

-----------------------------------------------------------------------------
(* The server's LIKE with ESCAPE '\'.                                      *)

Upper(text) == [k \in DOMAIN text |-> IF text[k] = "a" THEN "A" ELSE text[k]]

\* What a collation takes for equal.
Equal(text, other, sensitive) ==
  IF sensitive THEN text = other ELSE Upper(text) = Upper(other)

After(text, n) == SubSeq(text, n + 1, Len(text))

\* The places of a text one further than those of a set, if one of the characters
\* stands in between.
Beyond(places, chars, text, sensitive) ==
  {n \in DOMAIN text :
     n - 1 \in places /\ \E c \in chars : Equal(<<c>>, <<text[n]>>, sensitive)}

\* A pattern is read from left to right.  places: how far into the text it may have come,
\* chars: what the set that it is in has so far.  A set ends at the first bracket.
ReadNext(sofar, c, text, sensitive) ==
  LET Came(places) == [mode |-> "plain", places |-> places, chars |-> {}]
      Past(chars)  == Came(Beyond(sofar.places, chars, text, sensitive))
  IN  CASE sofar.mode = "escape"              -> Past({c})
        [] sofar.mode = "set" /\ c = "]"      -> Past(sofar.chars)
        [] sofar.mode = "set" /\ c # "]"      -> [sofar EXCEPT !.chars = @ \cup {c}]
        [] sofar.mode = "plain" /\ c = "%"    ->
             Came({n \in 0..Len(text) : \E m \in sofar.places : m <= n})
        [] sofar.mode = "plain" /\ c = "_"    -> Past(Characters)
        [] sofar.mode = "plain" /\ c = "\\"   -> [sofar EXCEPT !.mode = "escape"]
        [] sofar.mode = "plain" /\ c = "["    -> [sofar EXCEPT !.mode = "set"]
        [] OTHER                              -> Past({c})

\* The pattern matches the whole text; one that ends in an escape or a set matches
\* nothing.
Like(pattern, text, sensitive) ==
  LET read[n \in 0..Len(pattern)] ==
        IF n = 0 THEN [mode |-> "plain", places |-> {0}, chars |-> {}]
        ELSE ReadNext(read[n - 1], pattern[n], text, sensitive)
      whole == read[Len(pattern)]
  IN  whole.mode = "plain" /\ Len(text) \in whole.places

-----------------------------------------------------------------------------
(* Lookups.                                                                *)

Insensitive == {"iexact", "icontains", "istartswith", "iendswith"}

Patterned == {"contains", "icontains", "startswith", "istartswith", "endswith", "iendswith"}

AllLookups == {"exact", "iexact"} \cup Patterned

\* str.replace of one character.
Replaced(text, char, by) ==
  FlattenSeq([k \in DOMAIN text |-> IF text[k] = char THEN by ELSE <<text[k]>>])

\* Faulty: brackets are escaped last, those of the other sets too.
prep_for_like_query_brackets_last(x) ==
  Replaced(Replaced(Replaced(Replaced(x,
    "\\", <<"\\", "\\">>), "%", <<"[", "%", "]">>), "_", <<"[", "_", "]">>), "[", <<"[", "[", "]">>)

prep_for_like_query(x) ==
  Replaced(Replaced(Replaced(Replaced(x,
    "\\", <<"\\", "\\">>), "[", <<"[", "[", "]">>), "%", <<"[", "%", "]">>), "_", <<"[", "_", "]">>)

\* The parameter of a lookup: Django puts the % around what has been prepared;
\* prep_for_iexact_query leaves a text as it is.
Operand(lookup, x) ==
  LET p == IF lookup \in Patterned THEN prep_for_like_query(x) ELSE x IN
  (IF lookup \in {"contains", "icontains", "endswith", "iendswith"} THEN <<"%">> ELSE <<>>)
    \o p
    \o (IF lookup \in {"contains", "icontains", "startswith", "istartswith"} THEN <<"%">> ELSE <<>>)

lookup_cast(lookup, text) == IF lookup \in Insensitive THEN Upper(text) ELSE text

\* The operators: = or LIKE, with UPPER() around the parameters of the insensitive ones.
\* Which collation they use, the database's or the settings', decides what is sensitive.
Operates(lookup, parameter, text, sensitive) ==
  LET operand == IF lookup \in Insensitive THEN Upper(parameter) ELSE parameter
      column  == lookup_cast(lookup, text)
  IN  IF lookup \in Patterned
      THEN Like(operand, column, sensitive)
      ELSE Equal(operand, column, sensitive)

\* What Django promises of a lookup.
Promised(lookup, x, text, sensitive) ==
  LET Is(part) == Equal(part, x, sensitive /\ lookup \notin Insensitive)
      n == Len(x)
      m == Len(text)
  IN  CASE lookup \in {"exact", "iexact"} -> Is(text)
        [] lookup \in {"contains", "icontains"} ->
             \E k \in 0..(m - n) : Is(SubSeq(text, k + 1, k + n))
        [] lookup \in {"startswith", "istartswith"} -> n <= m /\ Is(SubSeq(text, 1, n))
        [] OTHER -> n <= m /\ Is(After(text, m - n))

-----------------------------------------------------------------------------
(* Names.                                                                  *)

Quotes(server) ==
  CASE server = "db2"      -> [left |-> "{", right |-> "}"]
    [] server = "openedge" -> [left |-> "\"", right |-> "\""]
    [] OTHER               -> [left |-> "[", right |-> "]"]

\* The settings may name others.
left_sql_quote(server, option) == IF option = None THEN Quotes(server).left ELSE option
right_sql_quote(server, option) == IF option = None THEN Quotes(server).right ELSE option

\* Faulty: a name that is quoted already is quoted again.
quote_name_always(name, left, right) == <<left>> \o name \o <<right>>

quote_name(name, left, right) ==
  IF name # <<>> /\ Head(name) = left /\ Last(name) = right
  THEN name
  ELSE <<left>> \o name \o <<right>>

\* The server's reading of a quoted name, none if the quotes are not around it.
ReadName(quoted, left, right) ==
  IF Len(quoted) >= 2 /\ Head(quoted) = left /\ Last(quoted) = right
  THEN <<SubSeq(quoted, 2, Len(quoted) - 1)>>
  ELSE <<>>

-----------------------------------------------------------------------------
(* Moments.                                                                *)

\* Faulty: the driver gets the wall clock of the zone.
adapt_datetimefield_value_as_it_is(v, useTz) == [v EXCEPT !.micro = FALSE]

\* With USE_TZ a value that has a zone is moved to UTC; microseconds are cut off.
adapt_datetimefield_value(v, useTz) ==
  LET moved == IF useTz /\ v.zoned
               THEN [v EXCEPT !.wall = @ - v.ahead, !.ahead = 0]
               ELSE v
  IN  [moved EXCEPT !.micro = FALSE]

\* The driver and the column know no zones.
InColumn(v) == [v EXCEPT !.zoned = FALSE, !.ahead = 0]

\* CursorWrapper.format_results.
format_result(v, useTz) == [v EXCEPT !.zoned = useTz]

Instant(v) == v.wall - v.ahead

-----------------------------------------------------------------------------
(* Decimals.  A value is a number of steps of the digit after the last one *)
(* that the column has.                                                    *)

Power(base, n) ==
  LET power[m \in 0..n] == IF m = 0 THEN 1 ELSE base * power[m - 1]
  IN  power[n]

Rounded(n, by) ==
  LET q == n \div by
      r == n % by
  IN  IF 2 * r > by \/ (2 * r = by /\ q % 2 = 1) THEN q + 1 ELSE q

\* n / 10^places as a float, a mantissa over 2^s, printed with so many digits.
ThroughFloat(n, places, digits) ==
  LET Scaled(k) == (n * Power(2, k)) \div Power(10, places)
      s == CHOOSE k \in 0..(3 * Mantissa) :
             Scaled(k) \in Power(2, Mantissa - 1)..(Power(2, Mantissa) - 1)
      float == Rounded(n * Power(2, s), Power(10, places))
  IN  IF n = 0 THEN 0 ELSE Rounded(float * Power(10, digits), Power(2, s))

\* Faulty: the value is not quantized.
adapt_decimalfield_value_unrounded(n, digits, places) ==
  IF n \div 10 >= Power(10, digits) THEN <<>> ELSE <<ThroughFloat(n, places + 1, places + 1)>>

\* quantize, half to even, refuses a value with too many digits; "%.*f" prints a float.
adapt_decimalfield_value(n, digits, places) ==
  LET quantized == Rounded(n, 10) IN
  IF quantized >= Power(10, digits) THEN <<>> ELSE <<ThroughFloat(quantized, places, places + 1)>>

\* The column rounds the digit it does not have.
InDecimalColumn(text) == (text + 5) \div 10

-----------------------------------------------------------------------------
(* What is bound: the text of a lookup, a name, a moment or a decimal.     *)

Values ==
       [kind: {"lookup"}, lookup: AllLookups, text: Written, sensitive: BOOLEAN]
  \cup [kind: {"name"}, server: {"mssql", "db2", "openedge"}, option: {None, "'"}, name: Named]
  \cup [kind: {"moment"}, moment: Moments, useTz: BOOLEAN]
  \cup {v \in [kind: {"decimal"}, n: 0..(Power(10, MaxDigits + 1) + 9),
                digits: 1..MaxDigits, places: 0..MaxDigits] : v.places <= v.digits}

Bind ==
  /\ value = NoValue
  /\ value' \in Values

LookupsInit == value = NoValue

LookupsNext == Bind

LookupsSpec == LookupsInit /\ [][LookupsNext]_value

-----------------------------------------------------------------------------
(* Properties.                                                             *)

\* A lookup finds a text if and only if the text is what the lookup says, whatever
\* wildcards, brackets and escapes either of them has, and whatever the collation: what
\* prep_for_like_query puts around one character is not taken for another.
LikeFindsText ==
  value.kind = "lookup" =>
    LET p == Operand(value.lookup, value.text) IN
    \A text \in Stored :
      Operates(value.lookup, p, text, value.sensitive)
        = Promised(value.lookup, value.text, text, value.sensitive)

\* However often a name is quoted on its way through the compiler and the introspection,
\* the server reads the name.
NameArrives(v) ==
  LET left  == left_sql_quote(v.server, v.option)
      right == right_sql_quote(v.server, v.option)
      Quote(n) == quote_name(n, left, right)
  IN  {left, right} \cap ToSet(v.name) = {} =>
        \A quoted \in {Quote(v.name), Quote(Quote(v.name))} :
          ReadName(quoted, left, right) = <<v.name>>

\* A moment comes back as the same instant, in seconds, if it has a zone where USE_TZ is
\* on; and as the same time on the clock if it has none where it is off.
MomentComesBack(v, useTz) ==
  LET back == format_result(InColumn(adapt_datetimefield_value(v, useTz)), useTz) IN
  /\ useTz /\ v.zoned => back.zoned /\ Instant(back) = Instant(v)
  /\ ~ useTz /\ ~ v.zoned => back = [v EXCEPT !.micro = FALSE]

\* A decimal is stored as the nearest one the column has, a tie as the even one, although
\* it passes a float: as long as the values of that many digits are at most nine twentieths
\* of those of a mantissa (15 digits for 53 bits).
DecimalIsKept(v) ==
  20 * Power(10, v.digits) <= 9 * Power(2, Mantissa) =>
    \A text \in ToSet(adapt_decimalfield_value(v.n, v.digits, v.places)) :
      InDecimalColumn(text) = Rounded(v.n, 10)

\* Names, moments and decimals mean to the server, and to who reads them again, what they
\* meant before (quote_name, adapt_datetimefield_value with format_results, and
\* adapt_decimalfield_value).
ValuesArrive ==
  /\ value.kind = "name" => NameArrives(value)
  /\ value.kind = "moment" => MomentComesBack(value.moment, value.useTz)
  /\ value.kind = "decimal" => DecimalIsKept(value)
=============================================================================
