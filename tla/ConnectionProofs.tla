-------------------------- MODULE ConnectionProofs --------------------------
(***************************************************************************)
(* Theorems about the connection life cycle, for every set of wrappers,    *)
(* every settings, with and without failures.                              *)
(*                                                                         *)
(* The properties are not inductive: what keeps `_cursor' from opening a   *)
(* second session is which call may stand above which on the stack.  Inv   *)
(* says that (Linked), what each pending call knows of the session         *)
(* (FrameOK), and what the version cache may hold.                         *)
(***************************************************************************)
EXTENDS Connection, SequenceTheorems, TLAPS

\* Whom a call can have been made from.
Calls(caller, callee) ==
  \/ callee = "start"   /\ caller \in {"setdate", "query", "done"}
  \/ callee = "query"   /\ caller = "features"
  \/ callee \in Opening /\ caller = "query"

\* A call that opens a session was started by the application itself or by a
\* version property that the application read.
Linked(s) ==
  \A i \in 1..Len(s) - 1 :
    /\ Calls(s[i + 1], s[i])
    /\ s[i] \in Opening => i + 1 = Len(s)

\* What a pending call at `label' knows of the session.
FrameOK(w, label) ==
  /\ label \in Opening \cup {"created", "done"} => connection[w] # "none"
  /\ label \in {"version", "features", "driver"} /\ IsMicrosoft(w) => dated[w]
  /\ label = "driver" => AdaptedToServer(w)

Frames(w) == \A i \in 1..Len(stack[w]) : FrameOK(w, stack[w][i])

Cached(w) ==
  /\ ssVer[w] \in {0, ServerYear(w)}
  /\ At(w, "features") => ssVer[w] # 0

Decoded(w) == utf8[w] # Settings[w].utf8 => AdaptedToServer(w)

WrapperOK(w) == Linked(stack[w]) /\ Frames(w) /\ Cached(w) /\ Decoded(w)

Inv == TypeOK /\ \A w \in Wrappers : WrapperOK(w)

-----------------------------------------------------------------------------
(* Stacks.  What the four operations on a stack of labels leave.           *)

LEMMA PopFacts ==
  ASSUME NEW s \in Seq(Labels), s # <<>>
  PROVE  /\ Tail(s) \in Seq(Labels)
         /\ Len(s) \in Nat \ {0}
         /\ Len(Tail(s)) = Len(s) - 1
         /\ \A i \in 1..Len(s) - 1 : Tail(s)[i] = s[i + 1]
         /\ Head(s) = s[1]
         /\ \A i \in 1..Len(s) : s[i] \in Labels
PROOF
  BY EmptySeq, HeadTailProperties, ElementOfSeq, LenProperties

\* `GoTo', `CallFrom' and VersionRead: the newest call is replaced by a prefix.
LEMMA PrefixFacts ==
  ASSUME NEW s \in Seq(Labels), s # <<>>,
         NEW p \in Seq(Labels), p # <<>>
  PROVE  LET t == p \o Tail(s)
         IN  /\ t \in Seq(Labels)
             /\ Len(t) = Len(p) + Len(s) - 1
             /\ t # <<>>
             /\ Head(t) = p[1]
             /\ \A i \in 1..Len(p) : t[i] = p[i]
             /\ \A i \in 2..Len(s) : t[Len(p) + i - 1] = s[i]
PROOF
  <1> DEFINE t == p \o Tail(s)
  <1> Tail(s) \in Seq(Labels)
    BY PopFacts
  <1>1. /\ t \in Seq(Labels)
        /\ Len(t) = Len(p) + Len(Tail(s))
        /\ \A i \in 1..Len(p) + Len(Tail(s)) :
             t[i] = IF i <= Len(p) THEN p[i] ELSE Tail(s)[i - Len(p)]
    BY ConcatProperties
  <1>2. Len(p) \in Nat \ {0} /\ Len(s) \in Nat \ {0}
    BY PopFacts
  <1>3. Len(t) = Len(p) + Len(s) - 1
    BY <1>1, <1>2, PopFacts
  <1>4. t # <<>>
    BY <1>1, <1>2, <1>3, EmptySeq
  <1>5. \A i \in 1..Len(p) : t[i] = p[i]
    BY <1>1, <1>2, PopFacts
  <1>6. ASSUME NEW i \in 2..Len(s) PROVE t[Len(p) + i - 1] = s[i]
    <2>1. t[Len(p) + i - 1] = Tail(s)[i - 1]
      BY <1>1, <1>2, PopFacts
    <2>2. QED
      BY <2>1, PopFacts
  <1>7. Head(t) = p[1]
    BY <1>1, <1>2, <1>4, <1>5, PopFacts
  <1>8. QED
    BY <1>1, <1>3, <1>4, <1>5, <1>6, <1>7

LEMMA LinkedPop ==
  ASSUME NEW s \in Seq(Labels), s # <<>>, Linked(s)
  PROVE  Linked(Tail(s))
PROOF
  BY PopFacts DEF Linked

\* What stands under the newest call.
LEMMA Caller ==
  ASSUME NEW s \in Seq(Labels), s # <<>>, Linked(s), Len(s) > 1
  PROVE  /\ Calls(s[2], s[1])
         /\ s[1] \in Opening => Len(s) = 2
PROOF
  <1>1. 1 \in 1..Len(s) - 1 /\ 1 + 1 = 2
    BY PopFacts
  <1>2. Calls(s[1 + 1], s[1]) /\ (s[1] \in Opening => 1 + 1 = Len(s))
    BY <1>1 DEF Linked
  <1>3. QED
    BY <1>1, <1>2

LEMMA LinkedPrefix ==
  ASSUME NEW s \in Seq(Labels), s # <<>>, Linked(s),
         NEW p \in Seq(Labels), p # <<>>, Linked(p),
         \A i \in 1..Len(p) - 1 : p[i] \notin Opening,
         Len(s) > 1 => /\ Calls(s[2], p[Len(p)])
                       /\ p[Len(p)] \in Opening => Len(s) = 2
  PROVE  Linked(p \o Tail(s))
PROOF
  <1> DEFINE t == p \o Tail(s)
  <1>1. Len(p) \in Nat \ {0} /\ Len(s) \in Nat \ {0}
    BY PopFacts
  <1>2. Len(t) = Len(p) + Len(s) - 1
    BY PrefixFacts
  <1>3. SUFFICES ASSUME NEW i \in 1..Len(t) - 1
                 PROVE  /\ Calls(t[i + 1], t[i])
                        /\ t[i] \in Opening => i + 1 = Len(t)
    BY DEF Linked
  <1> HIDE DEF t
  <1>4. CASE i < Len(p)
    <2>1. t[i] = p[i] /\ t[i + 1] = p[i + 1]
      BY <1>1, <1>4, PrefixFacts DEF t
    <2>2. QED
      BY <1>1, <1>4, <2>1 DEF Linked
  <1>5. CASE i = Len(p)
    <2>1. t[i] = p[Len(p)] /\ t[i + 1] = s[2]
      BY <1>1, <1>2, <1>5, PrefixFacts DEF t
    <2>2. Len(s) > 1
      BY <1>1, <1>2, <1>5
    <2>3. Len(s) = 2 => i + 1 = Len(t)
      BY <1>1, <1>2, <1>5
    <2>4. QED
      BY <2>1, <2>2, <2>3
  <1>6. CASE i > Len(p)
    <2> DEFINE k == i - Len(p) + 1
    <2>1. k \in 2..Len(s) - 1 /\ i = Len(p) + k - 1
      BY <1>1, <1>2, <1>6
    <2> HIDE DEF k
    <2>2. t[i] = s[k]
      BY <2>1, <1>1, PrefixFacts DEF t
    <2>3. t[i + 1] = s[k + 1]
      <3>1. k + 1 \in 2..Len(s) /\ i + 1 = Len(p) + (k + 1) - 1
        BY <1>1, <2>1
      <3>2. QED
        BY <3>1, PrefixFacts DEF t
    <2>4. QED
      <3>1. k \in 1..Len(s) - 1
        BY <1>1, <2>1
      <3>2. Calls(s[k + 1], s[k]) /\ (s[k] \in Opening => k + 1 = Len(s))
        BY <3>1 DEF Linked
      <3>3. k + 1 = Len(s) => i + 1 = Len(t)
        BY <1>1, <1>2, <2>1
      <3>4. QED
        BY <2>2, <2>3, <3>2, <3>3
  <1>7. QED
    BY <1>1, <1>4, <1>5, <1>6

-----------------------------------------------------------------------------
(* Types                                                                   *)

LEMMA YearType == \A w \in Wrappers : ServerYear(w) \in Years
PROOF
  <1>1. \A n \in Nat : YearOf(n) \in Years
    BY DEF YearOf, Years
  <1>2. \A w \in Wrappers : Settings[w].major \in Nat
    BY SettingsAssumption DEF SettingsType
  <1>3. QED
    BY <1>1, <1>2 DEF ServerYear

\* Detection and settings yield one of the three decisions.
LEMMA DecisionType ==
  \A w \in Wrappers : /\ DetectedUtf8(w) \in Decisions
                      /\ Settings[w].utf8 \in Decisions
PROOF
  BY SettingsAssumption DEF SettingsType, DetectedUtf8, Decisions

\* The values a stack can be given.
LEMMA StackType ==
  ASSUME NEW s \in Seq(Labels), s # <<>>
  PROVE  /\ Tail(s) \in Seq(Labels)
         /\ \A a \in Labels : <<a>> \o Tail(s) \in Seq(Labels)
         /\ \A a, b \in Labels : <<a, b>> \o Tail(s) \in Seq(Labels)
         /\ \A a, b, c \in Labels : <<a, b, c>> \o Tail(s) \in Seq(Labels)
PROOF
  <1>1. \A a \in Labels : <<a>> \in Seq(Labels) /\ <<a>> # <<>>
    OBVIOUS
  <1>2. \A a, b \in Labels : <<a, b>> \in Seq(Labels) /\ <<a, b>> # <<>>
    OBVIOUS
  <1>3. \A a, b, c \in Labels :
          <<a, b, c>> \in Seq(Labels) /\ <<a, b, c>> # <<>>
    OBVIOUS
  <1>4. QED
    BY <1>1, <1>2, <1>3, PopFacts, PrefixFacts

LEMMA ReturnType ==
  ASSUME TypeOK, NEW w \in Wrappers, stack[w] # <<>>,
         NEW decision \in Decisions, ReturnCursor(w, decision)
  PROVE  /\ stack' \in [Wrappers -> Seq(Labels)]
         /\ cursors' \in [Wrappers -> SUBSET Decisions]
         /\ raised' \in [Wrappers -> Errors]
PROOF
  <1>1. stack[w] \in Seq(Labels) /\ Tail(stack[w]) \in Seq(Labels)
    BY StackType DEF TypeOK
  <1>2. <<>> \in Seq(Labels)
    BY EmptySeq
  <1>3. CASE Settings[w].hasOptions
    <2>1. stack' \in [Wrappers -> Seq(Labels)]
      BY <1>1, <1>3 DEF TypeOK, ReturnCursor, Return
    <2>2. cursors' \in [Wrappers -> SUBSET Decisions]
      <3>1. \/ cursors' = [cursors EXCEPT ![w] = @ \cup {decision}]
            \/ cursors' = cursors
        BY <1>3 DEF ReturnCursor
      <3>2. cursors[w] \cup {decision} \in SUBSET Decisions
        BY DEF TypeOK
      <3>3. QED
        BY <3>1, <3>2 DEF TypeOK
    <2>3. raised' = raised
      BY <1>3 DEF ReturnCursor
    <2>4. QED
      BY <2>1, <2>2, <2>3 DEF TypeOK
  <1>4. CASE ~Settings[w].hasOptions
    BY <1>2, <1>4 DEF TypeOK, ReturnCursor, Raise, Errors
  <1>5. QED
    BY <1>3, <1>4

LEMMA TypeStep ==
  ASSUME TypeOK, [Next]_vars
  PROVE  TypeOK'
PROOF
  <1> USE DEF session, features, client
  <1>1. CASE UNCHANGED vars
    BY <1>1 DEF TypeOK, vars
  <1> SUFFICES ASSUME NEW w \in Wrappers,
                      \/ CallCursor(w) \/ ReadVersion(w)
                      \/ EnsureConnection(w) \/ Close(w) \/ Step(w)
               PROVE  TypeOK'
    BY <1>1 DEF Next
  <1> "start" \in Labels /\ "query" \in Labels /\ "created" \in Labels
      /\ "done" \in Labels /\ Opening \subseteq Labels
    BY DEF Labels
  <1> <<>> \in Seq(Labels) /\ stack[w] \in Seq(Labels)
    BY EmptySeq DEF TypeOK
  <1>2. CASE CallCursor(w)
    BY <1>2 DEF TypeOK, CallCursor
  <1>3. CASE ReadVersion(w)
    BY <1>3 DEF TypeOK, ReadVersion
  <1>4. CASE EnsureConnection(w)
    BY <1>4 DEF TypeOK, EnsureConnection
  <1>5. CASE Close(w)
    BY <1>5 DEF TypeOK, Close
  <1>6. CASE CursorReuse(w)
    BY <1>6, ReturnType DEF TypeOK, CursorReuse, At
  <1>7. CASE CursorConnect(w)
    BY <1>7, StackType DEF TypeOK, CursorConnect, At, GoTo, Opening
  <1>8. CASE SendSignal(w)
    BY <1>8, StackType DEF TypeOK, SendSignal, At, GoTo, Return, Opening
  <1>9. CASE ReceiverQuery(w)
    <2>1. PICK a \in Labels : stack[w] # <<>> /\ CallFrom(w, a, "start")
      BY <1>9 DEF ReceiverQuery, At, Opening
    <2>2. stack' \in [Wrappers -> Seq(Labels)]
      BY <2>1, StackType DEF TypeOK, CallFrom, Opening
    <2>3. QED
      BY <1>9, <2>2 DEF TypeOK, ReceiverQuery
  <1>10. CASE ConnectDone(w)
    BY <1>10, StackType DEF TypeOK, ConnectDone, At, Return
  <1>11. CASE SetDate(w)
    BY <1>11, StackType DEF TypeOK, SetDate, At, GoTo, IsMicrosoft, Opening
  <1>12. CASE VersionCached(w)
    BY <1>12, StackType DEF TypeOK, VersionCached, At, GoTo, Opening
  <1>13. CASE VersionRead(w)
    BY <1>13, StackType DEF TypeOK, VersionRead, At, Opening
  <1>14. CASE Adapt(w)
    <2>1. stack' \in [Wrappers -> Seq(Labels)]
      BY <1>14, StackType DEF TypeOK, Adapt, At, GoTo, Opening
    <2>2. /\ canReturnId' \in [Wrappers -> BOOLEAN]
          /\ textField' \in {"nvarchar(max)", "ntext"}
      <3>1. \/ /\ canReturnId' = [canReturnId EXCEPT ![w] = FALSE]
               /\ textField' = "ntext"
            \/ canReturnId' = canReturnId /\ textField' = textField
        BY <1>14 DEF Adapt
      <3>2. QED
        BY <3>1 DEF TypeOK
    <2>3. QED
      BY <1>14, <2>1, <2>2 DEF TypeOK, Adapt
  <1>15. CASE InspectDriver(w)
    BY <1>15, DecisionType, ReturnType
       DEF TypeOK, InspectDriver, At
  <1>16. CASE VersionAnswer(w)
    BY <1>16, StackType, YearType DEF TypeOK, VersionAnswer, At, Return
  <1>17. CASE Fail(w)
    BY <1>17 DEF TypeOK, Fail, Raise, Errors
  <1>18. QED
    BY <1>2, <1>3, <1>4, <1>5, <1>6, <1>7, <1>8, <1>9, <1>10, <1>11, <1>12,
       <1>13, <1>14, <1>15, <1>16, <1>17 DEF Step

-----------------------------------------------------------------------------
(* What a step does to the invariant of one wrapper                        *)

\* The wrapper w itself keeps everything a pending call may know; another
\* thread may have changed the shared column type meanwhile.
Keeps(w) ==
  /\ connection'[w] = connection[w]
  /\ IsMicrosoft(w) /\ dated[w] => dated'[w]
  /\ ssVer'[w] = ssVer[w]
  /\ canReturnId[w] = FALSE => canReturnId'[w] = FALSE
  /\ textField = "ntext" => textField' = "ntext"

LEMMA AdaptedKept ==
  ASSUME NEW w \in Wrappers, TypeOK, TypeOK', Keeps(w), AdaptedToServer(w)
  PROVE  AdaptedToServer(w)'
PROOF
  BY DEF TypeOK, Keeps, AdaptedToServer

LEMMA FrameKept ==
  ASSUME NEW w \in Wrappers, TypeOK, TypeOK', Keeps(w),
         NEW label \in Labels, FrameOK(w, label)
  PROVE  FrameOK(w, label)'
PROOF
  BY AdaptedKept DEF TypeOK, Keeps, FrameOK, IsMicrosoft

LEMMA OtherWrapper ==
  ASSUME NEW w \in Wrappers, TypeOK, TypeOK', WrapperOK(w), Keeps(w),
         stack'[w] = stack[w], utf8'[w] = utf8[w]
  PROVE  WrapperOK(w)'
PROOF
  <1>1. stack[w] \in Seq(Labels)
    BY DEF TypeOK
  <1>2. Linked(stack[w])'
    BY DEF WrapperOK
  <1>3. Frames(w)'
    <2> SUFFICES ASSUME NEW i \in 1..Len(stack[w])
                 PROVE  FrameOK(w, stack[w][i])'
      BY DEF Frames
    <2>1. FrameOK(w, stack[w][i]) /\ stack[w][i] \in Labels
      BY <1>1, ElementOfSeq DEF WrapperOK, Frames
    <2>2. QED
      BY <2>1, FrameKept
  <1>4. Cached(w)'
    BY DEF WrapperOK, Cached, Keeps, At, ServerYear, IsMicrosoft
  <1>5. Decoded(w)'
    BY AdaptedKept DEF WrapperOK, Decoded
  <1>6. QED
    BY <1>2, <1>3, <1>4, <1>5 DEF WrapperOK

\* The newest call is replaced by the labels p.
LEMMA PrefixStep ==
  ASSUME NEW w \in Wrappers, TypeOK, TypeOK', WrapperOK(w),
         NEW s \in Seq(Labels), stack[w] = s, s # <<>>,
         NEW p \in Seq(Labels), p # <<>>, Linked(p),
         stack'[w] = p \o Tail(s),
         \A i \in 1..Len(p) - 1 : p[i] \notin Opening,
         Len(s) > 1 => /\ Calls(s[2], p[Len(p)])
                       /\ p[Len(p)] \in Opening => Len(s) = 2,
         \A i \in 1..Len(p) : FrameOK(w, p[i])',
         \A i \in 2..Len(s) : FrameOK(w, s[i])',
         p[1] = "features" => ssVer[w] # 0,
         ssVer'[w] = ssVer[w],
         Decoded(w)'
  PROVE  WrapperOK(w)'
PROOF
  <1> DEFINE t == p \o Tail(s)
  <1>1. Len(p) \in Nat \ {0} /\ Len(s) \in Nat \ {0}
    BY PopFacts
  <1>2. Linked(stack[w])'
    BY <1>1, LinkedPrefix DEF WrapperOK
  <1>3. Frames(w)'
    <2> SUFFICES ASSUME NEW i \in 1..Len(t)
                 PROVE  FrameOK(w, t[i])'
      BY DEF Frames
    <2>1. Len(t) = Len(p) + Len(s) - 1
      BY <1>1, PrefixFacts
    <2>2. CASE i <= Len(p)
      <3>1. i \in 1..Len(p) /\ t[i] = p[i]
        BY <1>1, <2>1, <2>2, PrefixFacts
      <3>2. QED
        BY <3>1
    <2>3. CASE i > Len(p)
      <3>1. PICK k \in 2..Len(s) : i = Len(p) + k - 1
        <4>1. i - Len(p) + 1 \in 2..Len(s)
          BY <1>1, <2>1, <2>3
        <4>2. i = Len(p) + (i - Len(p) + 1) - 1
          BY <1>1
        <4>3. QED
          BY <4>1, <4>2
      <3>2. t[i] = s[k]
        BY <1>1, <3>1, PrefixFacts
      <3>3. QED
        BY <3>2
    <2>4. QED
      BY <1>1, <2>2, <2>3
  <1>4. Cached(w)'
    <2>1. Head(t) = p[1]
      BY <1>1, PrefixFacts
    <2>2. QED
      BY <2>1 DEF WrapperOK, Cached, At, ServerYear, IsMicrosoft
  <1>5. QED
    BY <1>2, <1>3, <1>4 DEF WrapperOK

\* The newest call returns.
LEMMA PopStep ==
  ASSUME NEW w \in Wrappers, TypeOK, TypeOK', WrapperOK(w),
         NEW s \in Seq(Labels), stack[w] = s, s # <<>>,
         stack'[w] = Tail(s),
         \A i \in 2..Len(s) : FrameOK(w, s[i])',
         Len(s) > 1 /\ s[2] = "features" => ssVer'[w] # 0,
         ssVer'[w] \in {0, ServerYear(w)},
         Decoded(w)'
  PROVE  WrapperOK(w)'
PROOF
  <1> DEFINE t == Tail(s)
  <1>1. /\ t \in Seq(Labels)
        /\ Len(s) \in Nat \ {0}
        /\ Len(t) = Len(s) - 1
        /\ \A i \in 1..Len(s) - 1 : t[i] = s[i + 1]
    BY PopFacts
  <1>2. Linked(stack[w])'
    BY <1>1, LinkedPop DEF WrapperOK
  <1>3. Frames(w)'
    <2> SUFFICES ASSUME NEW i \in 1..Len(t)
                 PROVE  FrameOK(w, t[i])'
      BY DEF Frames
    <2>1. i + 1 \in 2..Len(s) /\ t[i] = s[i + 1]
      BY <1>1
    <2>2. QED
      BY <2>1
  <1>4. Cached(w)'
    <2>1. t # <<>> => Len(s) > 1 /\ Head(t) = s[2]
      BY <1>1, PopFacts
    <2>2. QED
      BY <2>1 DEF Cached, At, ServerYear, IsMicrosoft
  <1>5. QED
    BY <1>2, <1>3, <1>4 DEF WrapperOK

\* A call that raises leaves no call pending.
LEMMA EmptyStep ==
  ASSUME NEW w \in Wrappers, TypeOK, TypeOK', stack'[w] = <<>>,
         ssVer'[w] \in {0, ServerYear(w)}, Decoded(w)'
  PROVE  WrapperOK(w)'
PROOF
  <1>1. Len(<<>>) = 0
    OBVIOUS
  <1>2. QED
    BY <1>1 DEF WrapperOK, Linked, Frames, Cached, At, ServerYear, IsMicrosoft

\* What the older calls know stays true.
LEMMA OlderFrames ==
  ASSUME NEW w \in Wrappers, TypeOK, TypeOK', WrapperOK(w), Keeps(w),
         NEW s \in Seq(Labels), stack[w] = s, s # <<>>
  PROVE  \A i \in 2..Len(s) : FrameOK(w, s[i])'
PROOF
  <1> SUFFICES ASSUME NEW i \in 2..Len(s) PROVE FrameOK(w, s[i])'
    OBVIOUS
  <1>1. i \in 1..Len(s) /\ s[i] \in Labels
    BY PopFacts
  <1>2. FrameOK(w, s[i])
    BY <1>1 DEF WrapperOK, Frames
  <1>3. QED
    BY <1>1, <1>2, FrameKept

\* A prefix step that changes nothing but the stack and the features.
LEMMA CallStep ==
  ASSUME NEW w \in Wrappers, TypeOK, TypeOK', WrapperOK(w), Keeps(w),
         utf8'[w] = utf8[w],
         NEW s \in Seq(Labels), stack[w] = s, s # <<>>,
         NEW p \in Seq(Labels), p # <<>>, Linked(p),
         stack'[w] = p \o Tail(s),
         \A i \in 1..Len(p) - 1 : p[i] \notin Opening,
         Len(s) > 1 => /\ Calls(s[2], p[Len(p)])
                       /\ p[Len(p)] \in Opening => Len(s) = 2,
         \A i \in 1..Len(p) : FrameOK(w, p[i])',
         p[1] = "features" => ssVer[w] # 0
  PROVE  WrapperOK(w)'
PROOF
  <1>1. \A i \in 2..Len(s) : FrameOK(w, s[i])'
    BY OlderFrames
  <1>2. Decoded(w)'
    BY AdaptedKept DEF WrapperOK, Decoded
  <1>3. ssVer'[w] = ssVer[w]
    BY DEF Keeps
  <1>4. QED
    BY <1>1, <1>2, <1>3, PrefixStep

\* One more step of the call that opens a session.
LEMMA OpeningStep ==
  ASSUME NEW w \in Wrappers, TypeOK, TypeOK', WrapperOK(w), Keeps(w),
         NEW a \in Opening, NEW b \in Opening, At(w, a),
         stack'[w] = <<b>> \o Tail(stack[w]), FrameOK(w, b)',
         b = "features" => ssVer[w] # 0,
         utf8'[w] = utf8[w]
  PROVE  WrapperOK(w)'
PROOF
  <1>1. PICK s \in Seq(Labels) : stack[w] = s
    BY DEF TypeOK
  <1>2. s # <<>> /\ s[1] = a /\ Linked(s)
    BY <1>1, PopFacts DEF At, WrapperOK
  <1> DEFINE p == <<b>>
  <1>3. p \in Seq(Labels) /\ p # <<>> /\ Len(p) = 1 /\ p[1] = b
    BY DEF Labels
  <1>4. Linked(p)
    BY <1>3 DEF Linked
  <1>5. Len(s) > 1 => Calls(s[2], b) /\ Len(s) = 2
    BY <1>2, Caller DEF Calls, Opening
  <1> HIDE DEF p
  <1>6. \A i \in 1..Len(p) : FrameOK(w, p[i])'
    BY <1>3
  <1>7. stack'[w] = p \o Tail(s)
    BY <1>1 DEF p
  <1>8. \A i \in 1..Len(p) - 1 : p[i] \notin Opening
    BY <1>3
  <1>9. Len(s) > 1 => /\ Calls(s[2], p[Len(p)])
                      /\ p[Len(p)] \in Opening => Len(s) = 2
    BY <1>3, <1>5
  <1>10. p[1] = "features" => ssVer[w] # 0
    BY <1>3
  <1>11. QED
    BY <1>1, <1>2, <1>3, <1>4, <1>6, <1>7, <1>8, <1>9, <1>10, CallStep

\* A receiver's call: the newest call waits at `b' for a cursor.
LEMMA ReceiverStep ==
  ASSUME NEW w \in Wrappers, TypeOK, TypeOK', WrapperOK(w), Keeps(w),
         NEW a \in Labels, NEW b \in Labels,
         \/ a = "signal" /\ b = "setdate"
         \/ a = "created" /\ b = "done",
         At(w, a), stack'[w] = <<"start", b>> \o Tail(stack[w]),
         utf8'[w] = utf8[w]
  PROVE  WrapperOK(w)'
PROOF
  <1>1. PICK s \in Seq(Labels) : stack[w] = s
    BY DEF TypeOK
  <1>2. s # <<>> /\ s[1] = a /\ Linked(s) /\ Len(s) \in Nat \ {0}
    BY <1>1, PopFacts DEF At, WrapperOK
  <1> DEFINE p == <<"start", b>>
  <1>3. /\ p \in Seq(Labels) /\ p # <<>> /\ Len(p) = 2
        /\ p[1] = "start" /\ p[2] = b
    BY DEF Labels
  <1> HIDE DEF p
  <1>4. Linked(p)
    <2> SUFFICES ASSUME NEW i \in 1..Len(p) - 1
                 PROVE  /\ Calls(p[i + 1], p[i])
                        /\ p[i] \in Opening => i + 1 = Len(p)
      BY DEF Linked
    <2>1. i = 1 /\ i + 1 = 2
      BY <1>3
    <2>2. QED
      BY <1>3, <2>1 DEF Calls, Opening
  <1>5. Len(s) > 1 => Calls(s[2], b) /\ Len(s) = 2
    BY <1>2, Caller DEF Calls, Opening
  <1>6. FrameOK(w, a)
    BY <1>1, <1>2 DEF WrapperOK, Frames
  <1>7. FrameOK(w, "start")' /\ FrameOK(w, b)'
    BY <1>6 DEF FrameOK, Keeps, Opening
  <1>8. \A i \in 1..Len(p) : FrameOK(w, p[i])'
    <2> SUFFICES ASSUME NEW i \in 1..Len(p) PROVE FrameOK(w, p[i])'
      OBVIOUS
    <2>1. p[i] \in {"start", b}
      BY <1>3
    <2>2. QED
      BY <1>7, <2>1
  <1>9. stack'[w] = p \o Tail(s)
    BY <1>1 DEF p
  <1>10. \A i \in 1..Len(p) - 1 : p[i] \notin Opening
    BY <1>3 DEF Opening
  <1>11. Len(s) > 1 => /\ Calls(s[2], p[Len(p)])
                       /\ p[Len(p)] \in Opening => Len(s) = 2
    BY <1>3, <1>5
  <1>12. p[1] # "features"
    BY <1>3
  <1>13. QED
    BY <1>1, <1>2, <1>3, <1>4, <1>8, <1>9, <1>10, <1>11, <1>12, CallStep

\* The opening call reads the version through a cursor of its own.
LEMMA VersionReadStep ==
  ASSUME NEW w \in Wrappers, TypeOK, TypeOK', WrapperOK(w), VersionRead(w)
  PROVE  WrapperOK(w)'
PROOF
  <1>1. PICK s \in Seq(Labels) : stack[w] = s
    BY DEF TypeOK
  <1>2. s # <<>> /\ s[1] = "version" /\ Linked(s) /\ Len(s) \in Nat \ {0}
    BY <1>1, PopFacts DEF VersionRead, At, WrapperOK
  <1>3. Keeps(w) /\ utf8'[w] = utf8[w]
    BY DEF TypeOK, VersionRead, Keeps, session, features
  <1> DEFINE p == <<"start", "query", "features">>
  <1>4. /\ p \in Seq(Labels) /\ p # <<>> /\ Len(p) = 3
        /\ p[1] = "start" /\ p[2] = "query" /\ p[3] = "features"
    BY DEF Labels, Opening
  <1>5. stack'[w] = p \o Tail(s)
    BY <1>1 DEF TypeOK, VersionRead
  <1> HIDE DEF p
  <1>6. Linked(p)
    <2> SUFFICES ASSUME NEW i \in 1..Len(p) - 1
                 PROVE  /\ Calls(p[i + 1], p[i])
                        /\ p[i] \in Opening => i + 1 = Len(p)
      BY DEF Linked
    <2>1. (i = 1 /\ i + 1 = 2) \/ (i = 2 /\ i + 1 = 3)
      BY <1>4
    <2>2. QED
      BY <1>4, <2>1 DEF Calls, Opening
  <1>7. FrameOK(w, "version")
    BY <1>1, <1>2 DEF WrapperOK, Frames
  <1>8. FrameOK(w, "start")' /\ FrameOK(w, "query")' /\ FrameOK(w, "features")'
    BY <1>3, <1>7 DEF FrameOK, Keeps, Opening, IsMicrosoft
  <1>9. \A i \in 1..Len(p) : FrameOK(w, p[i])'
    <2> SUFFICES ASSUME NEW i \in 1..Len(p) PROVE FrameOK(w, p[i])'
      OBVIOUS
    <2>1. p[i] \in {"start", "query", "features"}
      BY <1>4
    <2>2. QED
      BY <1>8, <2>1
  <1>10. \A i \in 1..Len(p) - 1 : p[i] \notin Opening
    BY <1>4 DEF Opening
  <1>11. Len(s) > 1 => /\ Calls(s[2], p[Len(p)])
                       /\ p[Len(p)] \in Opening => Len(s) = 2
    BY <1>2, <1>4, Caller DEF Calls, Opening
  <1>12. p[1] # "features"
    BY <1>4
  <1>13. QED
    BY <1>1, <1>2, <1>3, <1>4, <1>5, <1>6, <1>9, <1>10, <1>11, <1>12, CallStep

\* A call that opens the session: nothing but a version property that the
\* application read can be waiting for it.
LEMMA ConnectStep ==
  ASSUME NEW w \in Wrappers, TypeOK, TypeOK', WrapperOK(w), CursorConnect(w)
  PROVE  WrapperOK(w)'
PROOF
  <1>1. PICK s \in Seq(Labels) : stack[w] = s
    BY DEF TypeOK
  <1>2. s # <<>> /\ s[1] = "start" /\ Linked(s) /\ Len(s) \in Nat \ {0}
    BY <1>1, PopFacts DEF CursorConnect, At, WrapperOK
  <1>3. /\ connection[w] = "none" /\ connection'[w] = "cursor"
        /\ UNCHANGED <<ssVer, utf8, canReturnId, textField>>
    BY DEF TypeOK, CursorConnect, session, features
  <1>4. \A i \in 1..Len(s) : s[i] \notin Opening \cup {"created", "done"}
    BY <1>1, <1>3 DEF WrapperOK, Frames, FrameOK
  <1>5. Len(s) > 1 => s[2] = "query" /\ Len(s) = 2
    <2> SUFFICES ASSUME Len(s) > 1 PROVE s[2] = "query" /\ Len(s) = 2
      OBVIOUS
    <2>1. s[2] = "query"
      <3>1. s[2] \in {"setdate", "query", "done"}
        BY <1>2, Caller DEF Calls, Opening
      <3>2. s[2] \notin Opening \cup {"created", "done"}
        BY <1>2, <1>4
      <3>3. QED
        BY <3>1, <3>2 DEF Opening
    <2>2. ASSUME Len(s) > 2 PROVE FALSE
      <3>1. 2 \in 1..Len(s) - 1 /\ 2 + 1 = 3 /\ 3 \in 1..Len(s)
        BY <1>2, <2>2
      <3>2. Calls(s[2 + 1], s[2])
        BY <1>2, <3>1 DEF Linked
      <3>3. s[3] = "features"
        BY <2>1, <3>1, <3>2 DEF Calls, Opening
      <3>4. QED
        BY <1>4, <3>1, <3>3 DEF Opening
    <2>3. Len(s) = 2
      <3>1. PICK n \in Nat : n = Len(s)
        BY <1>2
      <3>2. n > 1 /\ ~(n > 2)
        BY <2>2, <3>1
      <3>3. n = 2
        BY <3>2
      <3>4. QED
        BY <3>1, <3>3
    <2>4. QED
      BY <2>1, <2>3
  <1> DEFINE p == <<"signal">>
  <1>6. /\ p \in Seq(Labels) /\ p # <<>> /\ Len(p) = 1 /\ p[1] = "signal"
    BY DEF Labels, Opening
  <1>7. stack'[w] = p \o Tail(s)
    BY <1>1 DEF TypeOK, CursorConnect, GoTo
  <1> HIDE DEF p
  <1>8. Linked(p)
    BY <1>6 DEF Linked
  <1>9. FrameOK(w, "signal")' /\ FrameOK(w, "query")'
    BY <1>3 DEF FrameOK, Opening
  <1>10. \A i \in 1..Len(p) : FrameOK(w, p[i])'
    BY <1>6, <1>9
  <1>11. \A i \in 2..Len(s) : FrameOK(w, s[i])'
    <2> SUFFICES ASSUME NEW i \in 2..Len(s) PROVE FrameOK(w, s[i])'
      OBVIOUS
    <2>1. Len(s) > 1
      BY <1>2
    <2>2. Len(s) = 2 /\ s[2] = "query"
      BY <1>5, <2>1
    <2>3. i = 2
      BY <2>2
    <2>4. QED
      BY <1>9, <2>2, <2>3
  <1>12. \A i \in 1..Len(p) - 1 : p[i] \notin Opening
    BY <1>6
  <1>13. Len(s) > 1 => /\ Calls(s[2], p[Len(p)])
                       /\ p[Len(p)] \in Opening => Len(s) = 2
    BY <1>5, <1>6 DEF Calls, Opening
  <1>14. Decoded(w)'
    BY <1>3 DEF WrapperOK, Decoded, AdaptedToServer, ServerYear, IsMicrosoft
  <1>15. ssVer'[w] = ssVer[w] /\ p[1] # "features"
    BY <1>3, <1>6
  <1>16. QED
    BY <1>1, <1>2, <1>6, <1>7, <1>8, <1>10, <1>11, <1>12, <1>13, <1>14, <1>15,
       PrefixStep

\* A call other than the version property's returns: no opening call waits
\* under it at "features".
LEMMA ReturnStep ==
  ASSUME NEW w \in Wrappers, TypeOK, TypeOK', WrapperOK(w), Keeps(w),
         NEW a \in Labels \ {"query"}, At(w, a),
         stack'[w] = Tail(stack[w]), Decoded(w)'
  PROVE  WrapperOK(w)'
PROOF
  <1>1. PICK s \in Seq(Labels) : stack[w] = s
    BY DEF TypeOK
  <1>2. s # <<>> /\ s[1] = a /\ Linked(s)
    BY <1>1, PopFacts DEF At, WrapperOK
  <1>3. \A i \in 2..Len(s) : FrameOK(w, s[i])'
    BY <1>1, <1>2, OlderFrames
  <1>4. Len(s) > 1 => s[2] # "features"
    BY <1>2, Caller DEF Calls
  <1>5. ssVer'[w] \in {0, ServerYear(w)}
    BY DEF WrapperOK, Cached, Keeps
  <1>6. QED
    BY <1>1, <1>2, <1>3, <1>4, <1>5, PopStep

\* The version property returns with the version cached.
LEMMA VersionAnswerStep ==
  ASSUME NEW w \in Wrappers, TypeOK, TypeOK', WrapperOK(w), VersionAnswer(w)
  PROVE  WrapperOK(w)'
PROOF
  <1>1. PICK s \in Seq(Labels) : stack[w] = s
    BY DEF TypeOK
  <1>2. s # <<>> /\ stack'[w] = Tail(s) /\ ssVer'[w] = ServerYear(w)
    BY <1>1 DEF TypeOK, VersionAnswer, At, Return
  <1>3. ServerYear(w) \in Years /\ 0 \notin Years
    BY YearType DEF Years
  <1>4. AdaptedToServer(w) => AdaptedToServer(w)'
    BY <1>2 DEF VersionAnswer, AdaptedToServer, features, ServerYear,
                IsMicrosoft
  <1>5. \A i \in 2..Len(s) : FrameOK(w, s[i])'
    <2> SUFFICES ASSUME NEW i \in 2..Len(s) PROVE FrameOK(w, s[i])'
      OBVIOUS
    <2>1. i \in 1..Len(s)
      BY <1>2, PopFacts
    <2>2. FrameOK(w, s[i])
      BY <1>1, <2>1 DEF WrapperOK, Frames
    <2>3. connection' = connection /\ dated' = dated
      BY DEF VersionAnswer, session
    <2>4. QED
      BY <1>4, <2>2, <2>3 DEF FrameOK, IsMicrosoft
  <1>6. Decoded(w)'
    BY <1>4 DEF VersionAnswer, WrapperOK, Decoded
  <1>7. QED
    BY <1>1, <1>2, <1>3, <1>5, <1>6, PopStep

\* A step of the thread of w leaves the other wrappers alone, except for the
\* shared column type, which only ever becomes "ntext".
LEMMA Locality ==
  ASSUME TypeOK, NEW w \in Wrappers, NEW v \in Wrappers, v # w,
         \/ CallCursor(w) \/ ReadVersion(w)
         \/ EnsureConnection(w) \/ Close(w) \/ Step(w)
  PROVE  Keeps(v) /\ stack'[v] = stack[v] /\ utf8'[v] = utf8[v]
PROOF
  <1> USE DEF TypeOK, Keeps, session, features, client
  <1>1. CASE CallCursor(w)
    BY <1>1 DEF CallCursor
  <1>2. CASE ReadVersion(w)
    BY <1>2 DEF ReadVersion
  <1>3. CASE EnsureConnection(w)
    BY <1>3 DEF EnsureConnection
  <1>4. CASE Close(w)
    BY <1>4 DEF Close
  <1>5. CASE CursorReuse(w)
    BY <1>5 DEF CursorReuse, ReturnCursor, Return, Raise
  <1>6. CASE CursorConnect(w)
    BY <1>6 DEF CursorConnect, GoTo
  <1>7. CASE SendSignal(w)
    BY <1>7 DEF SendSignal, GoTo, Return
  <1>8. CASE ReceiverQuery(w)
    BY <1>8 DEF ReceiverQuery, CallFrom
  <1>9. CASE ConnectDone(w)
    BY <1>9 DEF ConnectDone, Return
  <1>10. CASE SetDate(w)
    BY <1>10 DEF SetDate, GoTo
  <1>11. CASE VersionCached(w)
    BY <1>11 DEF VersionCached, GoTo
  <1>12. CASE VersionRead(w)
    BY <1>12 DEF VersionRead
  <1>13. CASE Adapt(w)
    BY <1>13 DEF Adapt, GoTo
  <1>14. CASE InspectDriver(w)
    BY <1>14 DEF InspectDriver, ReturnCursor, Return, Raise
  <1>15. CASE VersionAnswer(w)
    BY <1>15 DEF VersionAnswer, Return
  <1>16. CASE Fail(w)
    BY <1>16 DEF Fail, Raise
  <1>17. QED
    BY <1>1, <1>2, <1>3, <1>4, <1>5, <1>6, <1>7, <1>8, <1>9,
       <1>10, <1>11, <1>12, <1>13, <1>14, <1>15, <1>16
       DEF Step

\* ReturnCursor returns or raises; either way the invariant is kept.
LEMMA CursorStep ==
  ASSUME NEW w \in Wrappers, TypeOK, TypeOK', WrapperOK(w), Keeps(w),
         NEW a \in Labels \ {"query"}, At(w, a),
         NEW decision, ReturnCursor(w, decision), Decoded(w)'
  PROVE  WrapperOK(w)'
PROOF
  <1>1. stack'[w] = Tail(stack[w]) \/ stack'[w] = <<>>
    BY DEF TypeOK, ReturnCursor, Return, Raise
  <1>2. ssVer'[w] \in {0, ServerYear(w)}
    BY DEF WrapperOK, Cached, Keeps
  <1>3. QED
    BY <1>1, <1>2, ReturnStep, EmptyStep

\* A step keeps the invariant of the wrapper that takes it.
LEMMA OwnStep ==
  ASSUME TypeOK, TypeOK', NEW w \in Wrappers, WrapperOK(w),
         \/ CallCursor(w) \/ ReadVersion(w)
         \/ EnsureConnection(w) \/ Close(w) \/ Step(w)
  PROVE  WrapperOK(w)'
PROOF
  <1> USE DEF session, features, client
  <1>0. Keeps(w) /\ utf8'[w] = utf8[w] => Decoded(w)'
    BY AdaptedKept DEF WrapperOK, Decoded
  <1>1. CASE CallCursor(w)
    <2>1. Keeps(w) /\ utf8'[w] = utf8[w] /\ stack'[w] = <<"start">>
      BY <1>1 DEF TypeOK, CallCursor, Keeps
    <2>2. Linked(<<"start">>) /\ Len(<<"start">>) = 1
      BY DEF Linked
    <2>3. FrameOK(w, "start")'
      BY DEF FrameOK, Opening
    <2>4. QED
      BY <1>0, <2>1, <2>2, <2>3
         DEF WrapperOK, Frames, Cached, At, Keeps, ServerYear, IsMicrosoft
  <1>2. CASE ReadVersion(w)
    <2>1. Keeps(w) /\ utf8'[w] = utf8[w] /\ stack'[w] = <<"start", "query">>
      BY <1>2 DEF TypeOK, ReadVersion, Keeps
    <2>2. Linked(<<"start", "query">>)
      BY DEF Linked, Calls, Opening
    <2>3. FrameOK(w, "start")' /\ FrameOK(w, "query")'
      BY DEF FrameOK, Opening
    <2>4. Frames(w)'
      BY <2>1, <2>3 DEF Frames
    <2>5. QED
      BY <1>0, <2>1, <2>2, <2>4
         DEF WrapperOK, Cached, At, Keeps, ServerYear, IsMicrosoft
  <1>3. CASE EnsureConnection(w)
    <2>1. /\ stack'[w] = <<"created">> /\ connection'[w] = "connect"
          /\ UNCHANGED <<ssVer, utf8, canReturnId, textField>>
      BY <1>3 DEF TypeOK, EnsureConnection
    <2>2. Linked(<<"created">>) /\ Len(<<"created">>) = 1
      BY DEF Linked
    <2>3. FrameOK(w, "created")'
      BY <2>1 DEF FrameOK
    <2>4. Decoded(w)'
      BY <2>1 DEF WrapperOK, Decoded, AdaptedToServer, ServerYear, IsMicrosoft
    <2>5. QED
      BY <2>1, <2>2, <2>3, <2>4
         DEF WrapperOK, Frames, Cached, At, ServerYear, IsMicrosoft
  <1>4. CASE Close(w)
    <2>1. stack'[w] = <<>> /\ UNCHANGED <<ssVer, utf8, canReturnId, textField>>
      BY <1>4 DEF Close
    <2>2. Decoded(w)' /\ ssVer'[w] \in {0, ServerYear(w)}
      BY <2>1 DEF WrapperOK, Cached, Decoded, AdaptedToServer, ServerYear,
                  IsMicrosoft
    <2>3. QED
      BY <2>1, <2>2, EmptyStep
  <1>5. CASE CursorReuse(w)
    <2>1. Keeps(w) /\ utf8'[w] = utf8[w] /\ "start" \in Labels \ {"query"}
      BY <1>5 DEF CursorReuse, Keeps, Labels
    <2>2. QED
      BY <1>0, <1>5, <2>1, CursorStep DEF CursorReuse
  <1>6. CASE CursorConnect(w)
    BY <1>6, ConnectStep
  <1>7. CASE SendSignal(w)
    <2>1. Keeps(w) /\ utf8'[w] = utf8[w]
      BY <1>7 DEF SendSignal, Keeps
    <2>2. CASE At(w, "signal")
      <3>1. FrameOK(w, "setdate")'
        <4>1. PICK s \in Seq(Labels) : stack[w] = s
          BY DEF TypeOK
        <4>2. 1 \in 1..Len(s) /\ s[1] = "signal"
          BY <2>2, <4>1, PopFacts DEF At
        <4>3. FrameOK(w, "signal")
          BY <4>1, <4>2 DEF WrapperOK, Frames
        <4>4. QED
          BY <2>1, <4>3 DEF FrameOK, Keeps, Opening
      <3>2. stack'[w] = <<"setdate">> \o Tail(stack[w])
        BY <1>7, <2>2 DEF TypeOK, SendSignal, GoTo
      <3>3. QED
        BY <2>1, <2>2, <3>1, <3>2, OpeningStep DEF Opening
    <2>3. CASE ~At(w, "signal")
      <3>1. At(w, "created") /\ stack'[w] = Tail(stack[w])
        BY <1>7, <2>3 DEF TypeOK, SendSignal, Return
      <3>2. QED
        BY <1>0, <2>1, <3>1, ReturnStep DEF Labels
    <2>4. QED
      BY <2>2, <2>3
  <1>8. CASE ReceiverQuery(w)
    <2>1. Keeps(w) /\ utf8'[w] = utf8[w]
      BY <1>8 DEF ReceiverQuery, Keeps
    <2>2. CASE At(w, "signal") /\ CallFrom(w, "setdate", "start")
      BY <2>1, <2>2, ReceiverStep DEF TypeOK, CallFrom, Labels, Opening
    <2>3. CASE At(w, "created") /\ CallFrom(w, "done", "start")
      BY <2>1, <2>3, ReceiverStep DEF TypeOK, CallFrom, Labels
    <2>4. QED
      BY <1>8, <2>2, <2>3 DEF ReceiverQuery
  <1>9. CASE ConnectDone(w)
    <2>1. Keeps(w) /\ utf8'[w] = utf8[w] /\ stack'[w] = Tail(stack[w])
      BY <1>9 DEF TypeOK, ConnectDone, Return, Keeps
    <2>2. QED
      BY <1>0, <1>9, <2>1, ReturnStep DEF ConnectDone, Labels
  <1>10. CASE SetDate(w)
    <2>1. Keeps(w) /\ utf8'[w] = utf8[w]
      BY <1>10 DEF TypeOK, SetDate, Keeps
    <2>2. connection[w] # "none"
      <3>1. PICK s \in Seq(Labels) : stack[w] = s
        BY DEF TypeOK
      <3>2. 1 \in 1..Len(s) /\ s[1] = "setdate"
        BY <1>10, <3>1, PopFacts DEF SetDate, At
      <3>3. FrameOK(w, "setdate")
        BY <3>1, <3>2 DEF WrapperOK, Frames
      <3>4. QED
        BY <3>3 DEF FrameOK, Opening
    <2>3. FrameOK(w, "version")'
      BY <1>10, <2>2 DEF TypeOK, SetDate, FrameOK, IsMicrosoft
    <2>4. stack'[w] = <<"version">> \o Tail(stack[w])
      BY <1>10 DEF TypeOK, SetDate, GoTo
    <2>5. At(w, "setdate")
      BY <1>10 DEF SetDate
    <2>6. QED
      BY <2>1, <2>3, <2>4, <2>5, OpeningStep DEF Opening
  <1>11. CASE VersionCached(w)
    <2>1. Keeps(w) /\ utf8'[w] = utf8[w] /\ ssVer[w] # 0 /\ At(w, "version")
      BY <1>11 DEF VersionCached, Keeps
    <2>2. FrameOK(w, "version")
      <3>1. PICK s \in Seq(Labels) : stack[w] = s
        BY DEF TypeOK
      <3>2. 1 \in 1..Len(s) /\ s[1] = "version"
        BY <2>1, <3>1, PopFacts DEF At
      <3>3. QED
        BY <3>1, <3>2 DEF WrapperOK, Frames
    <2>3. FrameOK(w, "features")'
      BY <2>1, <2>2 DEF FrameOK, Keeps, Opening, IsMicrosoft
    <2>4. stack'[w] = <<"features">> \o Tail(stack[w])
      BY <1>11 DEF TypeOK, VersionCached, GoTo
    <2>5. QED
      BY <2>1, <2>3, <2>4, OpeningStep DEF Opening
  <1>12. CASE VersionRead(w)
    BY <1>12, VersionReadStep
  <1>13. CASE Adapt(w)
    <2>1. At(w, "features") /\ utf8'[w] = utf8[w]
      BY <1>13 DEF Adapt
    <2>2. Keeps(w)
      BY <1>13 DEF TypeOK, Adapt, Keeps
    <2>3. FrameOK(w, "features")
      <3>1. PICK s \in Seq(Labels) : stack[w] = s
        BY DEF TypeOK
      <3>2. 1 \in 1..Len(s) /\ s[1] = "features"
        BY <2>1, <3>1, PopFacts DEF At
      <3>3. QED
        BY <3>1, <3>2 DEF WrapperOK, Frames
    <2>4. AdaptedToServer(w)'
      <3>1. ssVer[w] = ServerYear(w) /\ ssVer' = ssVer
        BY <1>13, <2>1 DEF Adapt, WrapperOK, Cached
      <3>2. ssVer[w] < 2005 => ~canReturnId'[w] /\ textField' = "ntext"
        BY <1>13 DEF TypeOK, Adapt
      <3>3. QED
        BY <3>1, <3>2 DEF AdaptedToServer, ServerYear, IsMicrosoft
    <2>5. FrameOK(w, "driver")'
      BY <2>2, <2>3, <2>4 DEF FrameOK, Keeps, Opening, IsMicrosoft
    <2>6. stack'[w] = <<"driver">> \o Tail(stack[w])
      BY <1>13 DEF TypeOK, Adapt, GoTo
    <2>7. QED
      BY <2>1, <2>2, <2>5, <2>6, OpeningStep DEF Opening
  <1>14. CASE InspectDriver(w)
    <2>1. Keeps(w)
      BY <1>14 DEF InspectDriver, Keeps
    <2>2. /\ At(w, "driver")
          /\ \E decision \in Decisions : ReturnCursor(w, decision)
      BY <1>14, DecisionType DEF TypeOK, InspectDriver
    <2>3. AdaptedToServer(w)
      <3>1. PICK s \in Seq(Labels) : stack[w] = s
        BY DEF TypeOK
      <3>2. 1 \in 1..Len(s) /\ s[1] = "driver"
        BY <2>2, <3>1, PopFacts DEF At
      <3>3. QED
        BY <3>1, <3>2 DEF WrapperOK, Frames, FrameOK
    <2>4. Decoded(w)'
      BY <2>1, <2>3, AdaptedKept DEF Decoded
    <2>5. "driver" \in Labels \ {"query"}
      BY DEF Labels, Opening
    <2>6. QED
      BY <2>1, <2>2, <2>4, <2>5, CursorStep
  <1>15. CASE VersionAnswer(w)
    BY <1>15, VersionAnswerStep
  <1>16. CASE Fail(w)
    <2>1. Keeps(w) /\ utf8'[w] = utf8[w] /\ stack'[w] = <<>>
      BY <1>16 DEF TypeOK, Fail, Raise, Keeps
    <2>2. ssVer'[w] \in {0, ServerYear(w)}
      BY <2>1 DEF WrapperOK, Cached, Keeps
    <2>3. QED
      BY <1>0, <2>1, <2>2, EmptyStep
  <1>17. QED
    BY <1>1, <1>2, <1>3, <1>4, <1>5, <1>6, <1>7, <1>8, <1>9, <1>10, <1>11,
       <1>12, <1>13, <1>14, <1>15, <1>16 DEF Step

-----------------------------------------------------------------------------
(* The invariant                                                           *)

LEMMA InvInit == Init => Inv
PROOF
  <1> SUFFICES ASSUME Init PROVE Inv
    OBVIOUS
  <1>1. TypeOK
    BY DecisionType, EmptySeq DEF Init, TypeOK, Errors
  <1>2. Len(<<>>) = 0
    OBVIOUS
  <1>3. ASSUME NEW w \in Wrappers PROVE WrapperOK(w)
    BY <1>2 DEF Init, WrapperOK, Linked, Frames, Cached, Decoded, At
  <1>4. QED
    BY <1>1, <1>3 DEF Inv

LEMMA InvStep == Inv /\ [Next]_vars => Inv'
PROOF
  <1> SUFFICES ASSUME Inv, [Next]_vars PROVE Inv'
    OBVIOUS
  <1>1. TypeOK /\ TypeOK'
    BY TypeStep DEF Inv
  <1>2. CASE UNCHANGED vars
    <2>1. ASSUME NEW v \in Wrappers PROVE WrapperOK(v)'
      BY <1>1, <1>2, OtherWrapper DEF Inv, vars, Keeps
    <2>2. QED
      BY <1>1, <2>1 DEF Inv
  <1>3. CASE Next
    <2>1. PICK w \in Wrappers :
            \/ CallCursor(w) \/ ReadVersion(w)
            \/ EnsureConnection(w) \/ Close(w) \/ Step(w)
      BY <1>3 DEF Next
    <2>2. WrapperOK(w)'
      BY <1>1, <2>1, OwnStep DEF Inv
    <2>3. ASSUME NEW v \in Wrappers, v # w PROVE WrapperOK(v)'
      BY <1>1, <2>1, <2>3, Locality, OtherWrapper DEF Inv
    <2>4. QED
      BY <1>1, <2>2, <2>3 DEF Inv
  <1>4. QED
    BY <1>2, <1>3

\* Every reachable state satisfies the inductive invariant.
THEOREM Invariance == Spec => []Inv
PROOF
  BY InvInit, InvStep, PTL DEF Spec

\* Type correctness (base.py, operations.py) for every set of wrappers.
THEOREM TypeCorrect == Spec => []TypeOK
PROOF
  <1>1. Inv => TypeOK
    BY DEF Inv
  <1>2. QED
    BY <1>1, Invariance, PTL

-----------------------------------------------------------------------------
(* The safety properties                                                   *)

\* At most four calls are pending: the version property of the application,
\* the call that opens the session, its version property and the cursor of
\* that.
LEMMA DepthBound ==
  ASSUME NEW s \in Seq(Labels), Linked(s)
  PROVE  Len(s) <= 4
PROOF
  <1> SUFFICES ASSUME ~(Len(s) <= 4) PROVE FALSE
    OBVIOUS
  <1>1. PICK n \in Nat : n = Len(s)
    BY LenProperties
  <1>2. n > 4
    BY <1>1
  <1>3. /\ 1 \in 1..n - 1 /\ 1 + 1 = 2 /\ 2 # n
        /\ 2 \in 1..n - 1 /\ 2 + 1 = 3 /\ 3 # n
        /\ 3 \in 1..n - 1 /\ 3 + 1 = 4 /\ 4 # n
        /\ 4 \in 1..n - 1 /\ 4 + 1 = 5
    BY <1>2
  <1>4. Calls(s[2], s[1]) /\ s[1] \notin Opening
    BY <1>1, <1>3 DEF Linked
  <1>5. Calls(s[3], s[2]) /\ s[2] \notin Opening
    BY <1>1, <1>3 DEF Linked
  <1>6. Calls(s[4], s[3]) /\ s[3] \notin Opening
    BY <1>1, <1>3 DEF Linked
  <1>7. Calls(s[5], s[4])
    BY <1>1, <1>3 DEF Linked
  <1>8. QED
    BY <1>4, <1>5, <1>6, <1>7 DEF Calls, Opening

\* At most one pending call is opening a session.
LEMMA OneOpening ==
  ASSUME NEW s \in Seq(Labels), Linked(s),
         NEW i \in 1..Len(s), NEW j \in 1..Len(s), i < j
  PROVE  ~(s[i] \in Opening /\ s[j] \in Opening)
PROOF
  <1> SUFFICES ASSUME s[i] \in Opening, s[j] \in Opening PROVE FALSE
    OBVIOUS
  <1>1. PICK n \in Nat : n = Len(s)
    BY LenProperties
  <1>2. i \in 1..n /\ j \in 1..n
    BY <1>1
  <1>3. i \in 1..n - 1
    BY <1>2
  <1>4. Calls(s[i + 1], s[i]) /\ i + 1 = n
    BY <1>1, <1>3 DEF Linked
  <1>5. i + 1 = j
    BY <1>2, <1>4
  <1>6. QED
    BY <1>4, <1>5 DEF Calls, Opening

\* No nested call of cursor() or of the version property opens a second
\* session, and the recursion is bounded (base.py:347, 351).
THEOREM Reentrancy == Spec => []SafeReentrancy
PROOF
  <1>1. Inv => SafeReentrancy
    <2> SUFFICES ASSUME Inv, NEW w \in Wrappers
                 PROVE  /\ Len(stack[w]) <= 4
                        /\ \A i, j \in 1..Len(stack[w]) :
                             stack[w][i] \in Opening /\ stack[w][j] \in Opening
                               => i = j
                        /\ \A i \in 1..Len(stack[w]) :
                             stack[w][i] \in Opening => connection[w] # "none"
      BY DEF SafeReentrancy
    <2>1. stack[w] \in Seq(Labels) /\ Linked(stack[w]) /\ Frames(w)
      BY DEF Inv, TypeOK, WrapperOK
    <2>2. Len(stack[w]) <= 4
      BY <2>1, DepthBound
    <2>3. ASSUME NEW i \in 1..Len(stack[w]), NEW j \in 1..Len(stack[w]),
                 stack[w][i] \in Opening, stack[w][j] \in Opening
          PROVE  i = j
      <3>1. ~(i < j) /\ ~(j < i)
        BY <2>1, <2>3, OneOpening
      <3>2. QED
        BY <3>1
    <2>4. \A i \in 1..Len(stack[w]) :
            stack[w][i] \in Opening => connection[w] # "none"
      BY <2>1 DEF Frames, FrameOK
    <2>5. QED
      BY <2>2, <2>3, <2>4
  <1>2. QED
    BY <1>1, Invariance, PTL

\* A wrapper that has detected how its driver decodes has adapted to its
\* server, whatever failed before (base.py:366-369, 388-402).
THEOREM Adapted == Spec => []AdaptedBeforeDecoded
PROOF
  <1>1. Inv => AdaptedBeforeDecoded
    BY DEF Inv, WrapperOK, Decoded, AdaptedBeforeDecoded
  <1>2. QED
    BY <1>1, Invariance, PTL

\* The only steps that may disturb what pending calls know.
LEMMA Disturbing ==
  ASSUME TypeOK, [Next]_vars, NEW w \in Wrappers, ~Keeps(w)
  PROVE  \/ EnsureConnection(w) \/ Close(w)
         \/ CursorConnect(w) \/ VersionAnswer(w)
PROOF
  <1> USE DEF session, features, client
  <1>1. ~UNCHANGED vars
    BY DEF vars, Keeps
  <1>2. PICK u \in Wrappers :
          \/ CallCursor(u) \/ ReadVersion(u)
          \/ EnsureConnection(u) \/ Close(u) \/ Step(u)
    BY <1>1 DEF Next
  <1>3. u = w
    BY <1>2, Locality
  <1>4. ~CallCursor(w) /\ ~ReadVersion(w)
    BY DEF CallCursor, ReadVersion, Keeps
  <1>5. ~CursorReuse(w) /\ ~SendSignal(w) /\ ~ReceiverQuery(w)
    BY DEF CursorReuse, SendSignal, ReceiverQuery, Keeps
  <1>6. ~ConnectDone(w) /\ ~VersionCached(w) /\ ~VersionRead(w) /\ ~Fail(w)
    BY DEF ConnectDone, VersionCached, VersionRead, Fail, Keeps
  <1>7. ~SetDate(w)
    BY DEF TypeOK, SetDate, Keeps
  <1>8. ~Adapt(w)
    BY DEF TypeOK, Adapt, Keeps
  <1>9. ~InspectDriver(w)
    BY DEF InspectDriver, Keeps
  <1>10. QED
    BY <1>2, <1>3, <1>4, <1>5, <1>6, <1>7, <1>8, <1>9 DEF Step

LEMMA ReadyKept ==
  ASSUME TypeOK, TypeOK', NEW w \in Wrappers, Keeps(w), SessionReady(w)
  PROVE  SessionReady(w)'
PROOF
  BY AdaptedKept DEF SessionReady, Keeps, IsMicrosoft

\* The call that opened a session returns only when the session is ready
\* (base.py:355-404).
THEOREM OpenerReady == Spec => OpenerReturnsReady
PROOF
  <1>1. ASSUME Inv, Inv', [Next]_vars
        PROVE  \A w \in Wrappers :
                 At(w, "driver") /\ stack'[w] = Tail(stack[w])
                   => SessionReady(w)'
    <2> SUFFICES ASSUME NEW w \in Wrappers, At(w, "driver")
                 PROVE  SessionReady(w)'
      OBVIOUS
    <2>1. TypeOK /\ TypeOK'
      BY <1>1 DEF Inv
    <2>2. PICK s \in Seq(Labels) : stack[w] = s
      BY <2>1 DEF TypeOK
    <2>3. 1 \in 1..Len(s) /\ s[1] = "driver"
      BY <2>2, PopFacts DEF At
    <2>4. FrameOK(w, "driver")
      BY <1>1, <2>2, <2>3 DEF Inv, WrapperOK, Frames
    <2>5. SessionReady(w)
      BY <2>4 DEF FrameOK, SessionReady
    <2>6. Keeps(w)
      BY <1>1, <2>1, Disturbing
         DEF EnsureConnection, Close, CursorConnect, VersionAnswer, At
    <2>7. QED
      BY <2>1, <2>5, <2>6, ReadyKept
  <1>2. QED
    BY <1>1, Invariance, PTL DEF Spec, OpenerReturnsReady

\* Neither other wrappers nor later calls take back what initialisation has
\* established for a session (base.py:366-369).
THEOREM ReadyStable == Spec => ReadyIsStable
PROOF
  <1>1. ASSUME Inv, Inv', [Next]_vars
        PROVE  \A w \in Wrappers :
                 /\ SessionReady(w)
                 /\ connection[w] # "none" /\ connection'[w] = connection[w]
                 => SessionReady(w)'
    <2> SUFFICES ASSUME NEW w \in Wrappers, SessionReady(w),
                        connection[w] # "none", connection'[w] = connection[w]
                 PROVE  SessionReady(w)'
      OBVIOUS
    <2>1. TypeOK /\ TypeOK'
      BY <1>1 DEF Inv
    <2>2. CASE Keeps(w)
      BY <2>1, <2>2, ReadyKept
    <2>3. CASE ~Keeps(w)
      <3>1. ~EnsureConnection(w) /\ ~CursorConnect(w)
        BY DEF EnsureConnection, CursorConnect
      <3>2. ~Close(w)
        BY <2>1 DEF TypeOK, Close
      <3>3. VersionAnswer(w)
        BY <1>1, <2>1, <2>3, <3>1, <3>2, Disturbing
      <3>4. ssVer'[w] = ssVer[w]
        BY <2>1, <3>3
           DEF TypeOK, VersionAnswer, SessionReady, AdaptedToServer
      <3>5. QED
        BY <2>3, <3>3, <3>4 DEF VersionAnswer, Keeps, session, features
    <2>4. QED
      BY <2>2, <2>3
  <1>2. QED
    BY <1>1, Invariance, PTL DEF Spec, ReadyIsStable
=============================================================================
