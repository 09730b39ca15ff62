----------------------------- MODULE MCRewriting -----------------------------
(* Up to three columns of two tables, with nested parentheses and parameters;*)
(* and small texts, names and moments.                                     *)
EXTENDS Rewriting, Lookups

Column(table, base) == Name(table, NameOf(base, FALSE))

Id      == Column("t", "id")
OtherId == Column("u", "id")
UpperId == Name("u", NameOf("id", TRUE))
Title   == Column("t", "title")
Total   == Column("none", "total")
LikeOne == Name("t", [NameOf("id", FALSE) EXCEPT !.suffix = <<Alias("seen", 1)>>])

\* f(g(x), h(x)) AS total, and a parameter AS total.
Call     == <<Other, Open, Other, Open, Id, Close, Comma, Other, Open, Id, Close, Close, Other, Total>>
Constant == <<Param, Other, Total>>
Unnamed  == <<Other, Open, Title, Close>>

\* CASE WHEN [t].[title] THEN [u].[id] END AS total.
Case     == <<Other, Title, Other, OtherId, Other, Total>>

Columns ==
  {<<Id>>, <<OtherId>>, <<UpperId>>, <<Title>>, <<LikeOne>>, Call, Constant, Case, Unnamed}

\* Two columns of any kind, or three of the same name.
MCSelectLists ==
  [1..1 -> Columns] \cup [1..2 -> Columns] \cup [1..3 -> {<<Id>>, <<OtherId>>, <<UpperId>>}]

\* No condition, one without parentheses, one in front of a bare parameter, nested
\* ones, and a %% without and within them.
MCRests ==
  {<<From, Other>>,
   <<From, Other, OtherId, Param>>,
   <<From, Other, Open, Id, Other, Close, Title, Param>>,
   <<From, Other, Open, Open, Id, Param, Close, Other, Open, Title, Param, Close, Close>>,
   <<From, Other, Id, Percents, Other, Param>>,
   <<From, Other, Open, Id, Percents, Other, Close, Param>>}

MCOrderings ==
  UNION {Injection(1..n, {Id, OtherId, Title, Total}) : n \in 1..2}

\* Texts for lookups: what is escaped next to each other, and in texts around it.
MCWritten == BoundedSeq(Characters, 2)
MCStored  == BoundedSeq(Characters, 3)
MCNamed   == BoundedSeq({"a", "[", "}", "\""}, 2)
MCMoments ==
  {m \in [wall: 10..12, micro: BOOLEAN, zoned: BOOLEAN, ahead: -2..2] : m.zoned \/ m.ahead = 0}

-----------------------------------------------------------------------------
(* A SELECT is rewritten; or the one parameter of a plain one is bound.    *)

IsPlain ==
  /\ selected = << <<Id>> >> /\ from = <<From, Other, OtherId, Param>> /\ ordering = <<Id>>
  /\ sent.utf8 /\ sent.params[1].type = "text"

MCInit == RewritingInit /\ LookupsInit

MCNext ==
  \/ RewritingNext /\ value = NoValue /\ UNCHANGED value
  \/ step = "sent" /\ IsPlain /\ LookupsNext /\ UNCHANGED rewritingVars

MCSpec == MCInit /\ [][MCNext]_<<rewritingVars, value>>
=============================================================================
