------------------------- MODULE TransactionsProofs -------------------------
(***************************************************************************)
(* Proofs about Transactions, for any writes and any depth of blocks.      *)
(*                                                                         *)
(* Type correctness holds for every program.  Most of the rest is about    *)
(* programs whose sessions are opened by a block (~ program.cursors):      *)
(* Django then knows what it deals with, which is what Tracked says.  The  *)
(* last section is about sessions that _cursor may have opened.            *)
(***************************************************************************)
EXTENDS Transactions, TLAPS, SequenceTheorems

-----------------------------------------------------------------------------
(* Sequences: the three things blocks and savepoint_ids have done to them. *)

\* What a sequence without its last element is.
LEMMA FrontFacts ==
  ASSUME NEW S, NEW s \in Seq(S), s # <<>>
  PROVE  /\ Len(s) \in Nat \ {0}
         /\ SubSeq(s, 1, Len(s) - 1) \in Seq(S)
         /\ Len(SubSeq(s, 1, Len(s) - 1)) = Len(s) - 1
         /\ \A i \in 1..Len(s) - 1 : SubSeq(s, 1, Len(s) - 1)[i] = s[i]
<1>1. Len(s) \in Nat \ {0}
  BY EmptySeq, LenProperties
<1>2. \A i \in 1..Len(s) : s[i] \in S
  BY LenProperties
<1>3. \A i \in 1..Len(s) - 1 : s[i] \in S
  BY <1>1, <1>2
<1>4. PICK n \in Nat : n = Len(s) - 1
  BY <1>1
<1>5. \A i \in 1..n : s[i] \in S
  BY <1>3, <1>4
<1>6. /\ SubSeq(s, 1, n) \in Seq(S)
      /\ Len(SubSeq(s, 1, n)) = IF 1 <= n THEN n - 1 + 1 ELSE 0
      /\ \A i \in 1..n - 1 + 1 : SubSeq(s, 1, n)[i] = s[1 + i - 1]
  BY <1>5, SubSeqProperties
<1>7. Len(SubSeq(s, 1, n)) = n /\ \A i \in 1..n : SubSeq(s, 1, n)[i] = s[i]
  BY <1>6
<1>8. QED
  BY <1>1, <1>4, <1>6, <1>7

\* What a sequence with one more element is.
LEMMA AppendFacts ==
  ASSUME NEW S, NEW s \in Seq(S), NEW e \in S
  PROVE  /\ Append(s, e) \in Seq(S)
         /\ Len(Append(s, e)) = Len(s) + 1
         /\ Append(s, e) # <<>>
         /\ \A i \in 1..Len(s) : Append(s, e)[i] = s[i]
         /\ Append(s, e)[Len(s) + 1] = e
  BY AppendProperties, LenProperties

\* What a sequence with its last element replaced is.
LEMMA ReplaceFacts ==
  ASSUME NEW S, NEW s \in Seq(S), NEW n \in Nat, n = Len(s), n # 0, NEW e \in S
  PROVE  /\ [s EXCEPT ![n] = e] \in Seq(S)
         /\ Len([s EXCEPT ![n] = e]) = n
         /\ [s EXCEPT ![n] = e][n] = e
         /\ \A i \in 1..n - 1 : [s EXCEPT ![n] = e][i] = s[i]
<1>1. n \in 1..Len(s)
  OBVIOUS
<1>2. s \in [1..n -> S]
  BY LenProperties
<1>3. /\ [s EXCEPT ![n] = e] \in Seq(S)
      /\ Len([s EXCEPT ![n] = e]) = n
  BY <1>1, ExceptSeq
<1>4. QED
  BY <1>1, <1>2, <1>3

-----------------------------------------------------------------------------
(* Django's attributes.                                                    *)

\* Connected and the resetting of a failing connect() give attributes.
LEMMA ConnectedFacts ==
  ASSUME NEW d \in Attributes
  PROVE  /\ Connected(d) \in Attributes
         /\ Connected(d).autocommit
         /\ ~ Connected(d).inAtomic
         /\ Connected(d).sids = <<>>
         /\ ~ Connected(d).needsRollback
         /\ ~ Connected(d).closedInTransaction
         /\ Connected(d).commitOnExit = d.commitOnExit
<1>1. <<>> \in Seq(Sids)
  BY EmptySeq
<1>2. QED
  BY <1>1 DEF Connected, Attributes

\* Popped takes the last of savepoint_ids away, or leaves the outermost block.
LEMMA PoppedFacts ==
  ASSUME TypeOK
  PROVE  /\ Popped \in Attributes
         /\ django.sids = <<>> => ~ Popped.inAtomic /\ Popped.sids = <<>>
         /\ django.sids # <<>> =>
              /\ Popped.inAtomic = django.inAtomic
              /\ Len(Popped.sids) = Len(django.sids) - 1
              /\ \A i \in 1..Len(Popped.sids) : Popped.sids[i] = django.sids[i]
         /\ Popped.needsRollback = django.needsRollback
         /\ Popped.commitOnExit = django.commitOnExit
         /\ Popped.closedInTransaction = django.closedInTransaction
         /\ Popped.autocommit = django.autocommit
<1>1. django \in Attributes /\ django.sids \in Seq(Sids)
  BY DEF TypeOK, Attributes
<1>2. CASE django.sids = <<>>
  BY <1>1, <1>2 DEF Popped, Attributes
<1>3. CASE django.sids # <<>>
  <2>1. PICK r \in Seq(Sids) : r = SubSeq(django.sids, 1, Len(django.sids) - 1)
    BY <1>1, <1>3, FrontFacts
  <2>2. Len(r) = Len(django.sids) - 1 /\ \A i \in 1..Len(r) : r[i] = django.sids[i]
    BY <1>1, <1>3, <2>1, FrontFacts
  <2>3. Popped = [django EXCEPT !.sids = r]
    BY <1>3, <2>1 DEF Popped
  <2>4. QED
    BY <1>1, <1>3, <2>2, <2>3 DEF Attributes
<1>4. QED
  BY <1>2, <1>3

-----------------------------------------------------------------------------
(* What a call leaves behind.                                              *)

\* Finish gives attributes, with no more savepoints than it is given.
LEMMA FinishType ==
  ASSUME TypeOK, NEW d \in Attributes,
         NEW left \in {"none", "open", "broken", "closed"}, Finish(left, d)
  PROVE  /\ session' \in {"none", "open", "broken", "closed"}
         /\ driverCommits' \in BOOLEAN
         /\ django' \in Attributes
         /\ django'.sids = d.sids \/ django'.sids = <<>>
<1>1. CASE session' = left /\ django' = [d EXCEPT !.autocommit = TRUE]
           /\ UNCHANGED driverCommits
  BY <1>1 DEF TypeOK, Attributes
<1>2. CASE OpenSession /\ django' = Connected(d)
  BY <1>2, ConnectedFacts, TransactionsAssumption DEF OpenSession
<1>3. CASE ConnectFails(d)
  <2>1. <<>> \in Seq(Sids)
    BY EmptySeq
  <2>2. QED
    BY <1>3, <2>1 DEF ConnectFails, TypeOK, Attributes
<1>4. CASE session' = left /\ UNCHANGED driverCommits
           /\ django' = [d EXCEPT !.inAtomic = d.sids # <<>> \/ d.commitOnExit]
  BY <1>4 DEF TypeOK, Attributes
<1>5. QED
  BY <1>1, <1>2, <1>3, <1>4 DEF Finish

\* Left takes one block away, and adds to the one before at most what it had.
LEMMA LeftFacts ==
  ASSUME TypeOK, blocks # <<>>, NEW how, Left(how)
  PROVE  /\ blocks' \in Seq(SUBSET Writes)
         /\ Depth \in Nat \ {0}
         /\ Len(blocks') = Depth - 1
         /\ outcome' = how
         /\ \A i \in 1..Depth - 1 : blocks'[i] \subseteq blocks[i] \cup blocks[Depth]
         /\ \A i \in 1..Depth - 2 : blocks'[i] = blocks[i]
         /\ how # "kept" => \A i \in 1..Depth - 1 : blocks'[i] = blocks[i]
<1>1. blocks \in Seq(SUBSET Writes)
  BY DEF TypeOK
<1>2. PICK n \in Nat : Depth = n + 1
  BY <1>1, FrontFacts DEF Depth
<1>3. PICK rest \in Seq(SUBSET Writes) : rest = SubSeq(blocks, 1, Depth - 1)
  BY <1>1, FrontFacts DEF Depth
<1>4. Len(rest) = n /\ \A i \in 1..n : rest[i] = blocks[i]
  BY <1>1, <1>2, <1>3, FrontFacts DEF Depth
<1>5. blocks' = IF how = "kept" /\ rest # <<>>
                THEN [rest EXCEPT ![n] = @ \cup blocks[n + 1]]
                ELSE rest
  <2>1. Depth - 1 = n /\ Depth = n + 1
    BY <1>2
  <2>2. blocks' = IF how = "kept" /\ SubSeq(blocks, 1, Depth - 1) # <<>>
                  THEN [SubSeq(blocks, 1, Depth - 1) EXCEPT ![Depth - 1] = @ \cup blocks[Depth]]
                  ELSE SubSeq(blocks, 1, Depth - 1)
    BY DEF Left
  <2>3. QED
    BY <1>3, <2>1, <2>2
<1>6. outcome' = how
  BY DEF Left
<1>7. CASE how = "kept" /\ rest # <<>>
  <2>1. n \in 1..n
    BY <1>3, <1>4, <1>7, EmptySeq
  <2>2. blocks[n + 1] \in SUBSET Writes
    BY <1>1, <1>2, LenProperties DEF Depth
  <2>3. rest[n] \cup blocks[n + 1] \in SUBSET Writes
    BY <1>3, <1>4, <2>1, <2>2, LenProperties
  <2>4. PICK e \in SUBSET Writes : e = rest[n] \cup blocks[n + 1]
    BY <2>3
  <2>5. blocks' = [rest EXCEPT ![n] = e]
    BY <1>5, <1>7, <2>4
  <2>6. blocks' \in Seq(SUBSET Writes) /\ Len(blocks') = n
    BY <1>4, <2>1, <2>5, ReplaceFacts
  <2>7. blocks'[n] = e /\ \A i \in 1..n - 1 : blocks'[i] = rest[i]
    BY <1>4, <2>1, <2>5, ReplaceFacts
  <2>8. \A i \in 1..n : i = n \/ i \in 1..n - 1
    OBVIOUS
  <2>9. \A i \in 1..n : blocks'[i] \subseteq blocks[i] \cup blocks[n + 1]
    BY <1>4, <2>1, <2>4, <2>7, <2>8
  <2>10. \A i \in 1..n - 1 : blocks'[i] = blocks[i]
    BY <1>4, <2>7
  <2>11. QED
    BY <1>2, <1>6, <1>7, <2>6, <2>9, <2>10
<1>8. CASE ~ (how = "kept" /\ rest # <<>>)
  <2>1. blocks' = rest
    BY <1>5, <1>8
  <2>2. QED
    BY <1>2, <1>3, <1>4, <1>6, <2>1
<1>9. QED
  BY <1>7, <1>8

-----------------------------------------------------------------------------
(* Type correctness.                                                       *)

Sessions == {"none", "open", "broken", "closed"}

ServerTyped ==
  /\ active \in BOOLEAN
  /\ uncommitted \subseteq Writes
  /\ DOMAIN saved \subseteq 1..MaxDepth
  /\ \A sid \in DOMAIN saved : saved[sid] \subseteq Writes
  /\ committed \subseteq Writes

\* There are no more savepoints than blocks: the names that SAVE uses are bounded.
TypeInv ==
  /\ TypeOK
  /\ Len(django.sids) <= Depth

\* The next state after a block was left, whose attributes were d.
LeavesTyped(d) ==
  /\ \E how \in {"kept", "undone", "closed", "exit failed"} : Left(how)
  /\ ServerTyped'
  /\ session' \in Sessions
  /\ driverCommits' \in BOOLEAN
  /\ django' \in Attributes
  /\ django'.sids = d.sids \/ django'.sids = <<>>

\* A transaction that ends, in whichever way, leaves the server well-typed.
LEMMA EndedTyped ==
  ASSUME TypeOK, Ended, committed' \subseteq Writes
  PROVE  ServerTyped'
<1>1. DOMAIN <<>> = {}
  BY EmptySeq, LenProperties
<1>2. QED
  BY <1>1 DEF Ended, ServerTyped, TypeOK

\* So do the things that leaving a block makes the server do.
LEMMA ServerStepTyped ==
  ASSUME TypeOK, NEW sid,
         \/ ServerCommits
         \/ ServerRollsBack
         \/ UndoSavepoint(sid)
         \/ UndoFails(sid)
         \/ ReleaseSavepoint(sid)
         \/ UNCHANGED serverVars
  PROVE  ServerTyped'
<1>1. CASE ServerCommits \/ ReleaseSavepoint(sid)
  BY <1>1, EndedTyped DEF ServerCommits, ReleaseSavepoint, TypeOK
<1>2. CASE ServerRollsBack
  BY <1>2, EndedTyped DEF ServerRollsBack, TypeOK
<1>3. CASE UndoSavepoint(sid)
  BY <1>3, EndedTyped DEF UndoSavepoint, TypeOK
<1>4. CASE UNCHANGED serverVars
  BY <1>4 DEF serverVars, ServerTyped, TypeOK
<1>5. CASE RollBackTo(sid)
  BY <1>5 DEF RollBackTo, ServerTyped, TypeOK
<1>6. QED
  BY <1>1, <1>2, <1>3, <1>4, <1>5 DEF UndoFails

\* The common end of the ways to leave a block.
LEMMA LeavesByFinish ==
  ASSUME TypeOK, NEW d \in Attributes, NEW e \in Attributes, e.sids = d.sids,
         NEW left \in Sessions, Finish(left, e),
         NEW how \in {"kept", "undone", "closed", "exit failed"}, Left(how),
         ServerTyped'
  PROVE  LeavesTyped(d)
  BY FinishType DEF LeavesTyped, Sessions

\* Setting needs_rollback makes other attributes, with the same savepoints.
LEMMA MarkFacts ==
  ASSUME NEW d \in Attributes, NEW b \in BOOLEAN
  PROVE  /\ [d EXCEPT !.needsRollback = b] \in Attributes
         /\ [d EXCEPT !.needsRollback = b].sids = d.sids
         /\ [d EXCEPT !.needsRollback = b].inAtomic = d.inAtomic
         /\ [d EXCEPT !.needsRollback = b].autocommit = d.autocommit
         /\ [d EXCEPT !.needsRollback = b].commitOnExit = d.commitOnExit
         /\ [d EXCEPT !.needsRollback = b].closedInTransaction = d.closedInTransaction
         /\ [d EXCEPT !.needsRollback = b].needsRollback = b
  BY DEF Attributes

\* Leaving a block, by each of the ways, keeps everything well-typed.
LEMMA ExitTyped ==
  ASSUME TypeOK, NEW ok \in BOOLEAN, Exit(ok)
  PROVE  blocks # <<>> /\ LeavesTyped(Popped)
<1> DEFINE well == ok /\ ~ django.needsRollback
           undo == [Popped EXCEPT !.needsRollback = FALSE]
           marked(d) == [d EXCEPT !.needsRollback = TRUE]
           Hows == {"kept", "undone", "closed", "exit failed"}
<1>1. /\ Popped \in Attributes
      /\ undo \in Attributes /\ undo.sids = Popped.sids
      /\ marked(Popped) \in Attributes /\ marked(Popped).sids = Popped.sids
      /\ marked(undo) \in Attributes /\ marked(undo).sids = Popped.sids
  BY PoppedFacts, MarkFacts
<1>2. session \in Sessions /\ "none" \in Sessions
  BY DEF TypeOK, Sessions
<1>3. ASSUME ExitClosed(ok, Popped)
      PROVE  LeavesTyped(Popped)
  <2>1. \E how \in Hows : Left(how)
    BY <1>3 DEF ExitClosed
  <2>2. ServerTyped'
    BY <1>3, ServerStepTyped DEF ExitClosed
  <2>3. session' \in Sessions /\ driverCommits' \in BOOLEAN /\ django' = Popped
    BY <1>2, <1>3 DEF ExitClosed, TypeOK
  <2>4. QED
    BY <1>1, <2>1, <2>2, <2>3 DEF LeavesTyped
<1>4. ASSUME ExitMergedWell(Popped)
      PROVE  LeavesTyped(Popped)
  <2>1. ServerTyped'
    BY <1>4, ServerStepTyped DEF ExitMergedWell
  <2>2. QED
    BY <1>1, <1>2, <1>4, <2>1, LeavesByFinish DEF ExitMergedWell
<1>5. ASSUME ExitMergedBadly(undo)
      PROVE  LeavesTyped(Popped)
  <2>1. ServerTyped'
    BY <1>5, ServerStepTyped DEF ExitMergedBadly
  <2>2. QED
    BY <1>1, <1>2, <1>5, <2>1, LeavesByFinish DEF ExitMergedBadly
<1>6. ASSUME ExitSavepointWell(TopSid, Popped)
      PROVE  LeavesTyped(Popped)
  <2>1. ServerTyped'
    BY <1>6, ServerStepTyped DEF ExitSavepointWell
  <2>2. \E how \in Hows, e \in {Popped, marked(Popped)} : Left(how) /\ Finish(session, e)
    BY <1>6 DEF ExitSavepointWell
  <2>3. QED
    BY <1>1, <1>2, <2>1, <2>2, LeavesByFinish
<1>7. ASSUME ExitSavepointBadly(TopSid, undo)
      PROVE  LeavesTyped(Popped)
  <2>1. ServerTyped'
    BY <1>7, ServerStepTyped DEF ExitSavepointBadly
  <2>2. \E how \in Hows, e \in {undo, marked(undo)} : Left(how) /\ Finish(session, e)
    BY <1>7 DEF ExitSavepointBadly
  <2>3. QED
    BY <1>1, <1>2, <2>1, <2>2, LeavesByFinish
<1>8. ASSUME ExitOutermostWell(Popped)
      PROVE  LeavesTyped(Popped)
  <2>1. ServerTyped'
    BY <1>8, ServerStepTyped DEF ExitOutermostWell
  <2>2. \E how \in Hows, left \in {session, "none"} : Left(how) /\ Finish(left, Popped)
    BY <1>8 DEF ExitOutermostWell
  <2>3. QED
    BY <1>1, <1>2, <2>1, <2>2, LeavesByFinish
<1>9. ASSUME ExitOutermostBadly(undo)
      PROVE  LeavesTyped(Popped)
  <2>1. ServerTyped'
    BY <1>9, ServerStepTyped DEF ExitOutermostBadly
  <2>2. \E how \in Hows, left \in {session, "none"} : Left(how) /\ Finish(left, undo)
    BY <1>9 DEF ExitOutermostBadly
  <2>3. QED
    BY <1>1, <1>2, <2>1, <2>2, LeavesByFinish
<1>10. blocks # <<>>
  BY DEF Exit
<1>11. QED
  BY <1>3, <1>4, <1>5, <1>6, <1>7, <1>8, <1>9, <1>10 DEF Exit

\* Everything of TypeOK but the blocks and the outcome.
SessionTyped ==
  /\ session \in Sessions
  /\ driverCommits \in BOOLEAN
  /\ django \in Attributes
  /\ ServerTyped

\* Entering a block, with attributes d, keeps everything well-typed: the name of
\* a new savepoint is within bounds.
LEMMA NestedTyped ==
  ASSUME TypeOK, Depth < MaxDepth, NEW d \in Attributes, Len(d.sids) <= Depth,
         NEW savepoint \in BOOLEAN, EnterNested(savepoint, d)
  PROVE  /\ ServerTyped'
         /\ django' \in Attributes
         /\ \/ /\ blocks' = Append(blocks, {})
               /\ outcome' = "ok"
               /\ Len(django'.sids) = Len(d.sids) + 1
            \/ /\ UNCHANGED blocks
               /\ outcome' = "enter failed"
               /\ django' = d
<1>1. PICK n \in Nat : n = Len(d.sids)
  BY LenProperties DEF Attributes
<1>2. PICK m \in Nat : m = Depth
  BY LenProperties DEF TypeOK, Depth
<1>3. n + 1 \in 1..MaxDepth /\ n + 1 \in Sids /\ NoSid \in Sids
  BY <1>1, <1>2, TransactionsAssumption DEF Sids, NoSid
<1>4. ASSUME NEW sid \in Sids
      PROVE  /\ [d EXCEPT !.sids = Append(@, sid)] \in Attributes
             /\ [d EXCEPT !.sids = Append(@, sid)].sids = Append(d.sids, sid)
             /\ Len(Append(d.sids, sid)) = Len(d.sids) + 1
  <2>1. d.sids \in Seq(Sids)
    BY DEF Attributes
  <2>2. Append(d.sids, sid) \in Seq(Sids) /\ Len(Append(d.sids, sid)) = Len(d.sids) + 1
    BY <2>1, AppendFacts
  <2>3. QED
    BY <2>2 DEF Attributes
<1>5. CASE savepoint /\ ~ d.needsRollback
  <2>1. SaveTransaction(d)
    BY <1>5 DEF EnterNested
  <2>2. CASE /\ active
             /\ saved' = Saved(Len(d.sids) + 1)
             /\ UNCHANGED <<active, uncommitted, committed>>
             /\ Entered([d EXCEPT !.sids = Append(@, Len(d.sids) + 1)])
    <3>1. ServerTyped'
      BY <1>1, <1>3, <2>2 DEF TypeOK, ServerTyped, Saved
    <3>2. QED
      BY <1>1, <1>3, <1>4, <2>2, <3>1 DEF Entered
  <2>3. CASE django' = d /\ outcome' = "enter failed" /\ UNCHANGED <<serverVars, blocks>>
    BY <2>3, ServerStepTyped
  <2>4. QED
    BY <2>1, <2>2, <2>3 DEF SaveTransaction
<1>6. CASE ~ (savepoint /\ ~ d.needsRollback)
  <2>1. UNCHANGED serverVars /\ Entered([d EXCEPT !.sids = Append(@, NoSid)])
    BY <1>6 DEF EnterNested
  <2>2. ServerTyped'
    BY <2>1, ServerStepTyped
  <2>3. QED
    BY <1>3, <1>4, <2>1, <2>2 DEF Entered
<1>7. QED
  BY <1>5, <1>6

LEMMA EnterTyped ==
  ASSUME TypeInv, NEW savepoint \in BOOLEAN, Enter(savepoint)
  PROVE  TypeInv'
<1>1. /\ TypeOK
      /\ Depth < MaxDepth
      /\ django \in Attributes
      /\ Len(django.sids) <= Depth
  BY DEF TypeInv, Enter, TypeOK
<1>2. PICK m \in Nat : m = Depth
  BY <1>1, LenProperties DEF TypeOK, Depth
<1>3. /\ Append(blocks, {}) \in Seq(SUBSET Writes)
      /\ Len(Append(blocks, {})) = Depth + 1
  <2>1. blocks \in Seq(SUBSET Writes) /\ {} \in SUBSET Writes
    BY <1>1 DEF TypeOK
  <2>2. QED
    BY <2>1, AppendFacts DEF Depth
<1>4. SUFFICES /\ SessionTyped'
               /\ \/ /\ blocks' = Append(blocks, {})
                     /\ outcome' = "ok"
                     /\ Len(django'.sids) <= Depth + 1
                  \/ /\ UNCHANGED blocks
                     /\ outcome' = "enter failed"
                     /\ Len(django'.sids) <= Depth
  <2>1. SessionTyped' => /\ session' \in Sessions
                         /\ driverCommits' \in BOOLEAN
                         /\ django' \in Attributes
                         /\ ServerTyped'
    BY DEF SessionTyped
  <2>2. blocks' \in Seq(SUBSET Writes) /\ outcome' \in {"ok", "enter failed"}
    BY <1>1, <1>3, <1>4 DEF TypeOK
  <2>3. Len(django'.sids) <= Len(blocks')
    BY <1>3, <1>4 DEF Depth
  <2>4. program' \in Programs
    BY <1>1 DEF Enter, TypeOK
  <2>5. QED
    BY <1>4, <2>1, <2>2, <2>3, <2>4 DEF TypeInv, TypeOK, Sessions, ServerTyped, Depth
<1>5. ASSUME NEW d \in Attributes, Len(d.sids) <= Depth, EnterNested(savepoint, d)
      PROVE  /\ ServerTyped'
             /\ django' \in Attributes
             /\ \/ /\ blocks' = Append(blocks, {})
                   /\ outcome' = "ok"
                   /\ Len(django'.sids) <= Depth + 1
                \/ /\ UNCHANGED blocks
                   /\ outcome' = "enter failed"
                   /\ Len(django'.sids) <= Depth
  <2>1. PICK n \in Nat : n = Len(d.sids)
    BY <1>5, LenProperties DEF Attributes
  <2>2. /\ ServerTyped'
        /\ django' \in Attributes
        /\ \/ /\ blocks' = Append(blocks, {})
              /\ outcome' = "ok"
              /\ Len(django'.sids) = Len(d.sids) + 1
           \/ /\ UNCHANGED blocks
              /\ outcome' = "enter failed"
              /\ django' = d
    BY <1>1, <1>5, NestedTyped
  <2>3. Len(d.sids) <= Depth /\ Len(d.sids) + 1 <= Depth + 1
    BY <1>2, <1>5, <2>1
  <2>4. CASE blocks' = Append(blocks, {}) /\ outcome' = "ok"
             /\ Len(django'.sids) = Len(d.sids) + 1
    BY <2>2, <2>3, <2>4
  <2>5. CASE UNCHANGED blocks /\ outcome' = "enter failed" /\ django' = d
    BY <2>2, <2>3, <2>5
  <2>6. QED
    BY <2>2, <2>4, <2>5
<1>6. CASE EnterNested(savepoint, django) /\ UNCHANGED <<session, driverCommits>>
  BY <1>1, <1>5, <1>6 DEF SessionTyped, Sessions, TypeOK
<1>7. CASE EnterOutermost(savepoint)
  <2> DEFINE reset == [django EXCEPT !.commitOnExit = TRUE, !.needsRollback = FALSE]
             d == IF session = "none" THEN Connected(reset) ELSE reset
             inner == [d EXCEPT !.inAtomic = TRUE, !.commitOnExit = FALSE]
             outer == [d EXCEPT !.autocommit = FALSE, !.inAtomic = TRUE]
  <2>1. reset \in Attributes /\ reset.sids = django.sids
    BY <1>1 DEF Attributes
  <2>2. d \in Attributes /\ Len(d.sids) <= Depth
    BY <1>1, <1>2, <2>1, ConnectedFacts, EmptySeq
  <2>3. /\ inner \in Attributes /\ Len(inner.sids) <= Depth
        /\ outer \in Attributes /\ Len(outer.sids) <= Depth
    <3> HIDE DEF d
    <3>1. QED
      BY <2>2 DEF Attributes
  <2>4. session' \in Sessions /\ driverCommits' \in BOOLEAN
    BY <1>1, <1>7 DEF EnterOutermost, OpenSession, TypeOK, Sessions
  <2>5. \/ Entered(outer) /\ UNCHANGED serverVars
        \/ EnterNested(savepoint, inner)
    BY <1>7 DEF EnterOutermost
  <2> HIDE DEF inner, outer
  <2>6. CASE Entered(outer) /\ UNCHANGED serverVars
    <3>1. ServerTyped'
      BY <1>1, <2>6, ServerStepTyped
    <3>2. PICK n \in Nat : n = Len(outer.sids)
      BY <2>3, LenProperties DEF Attributes
    <3>3. QED
      BY <1>2, <2>3, <2>4, <2>6, <3>1, <3>2 DEF Entered, SessionTyped
  <2>7. CASE EnterNested(savepoint, inner)
    BY <1>5, <2>3, <2>4, <2>7 DEF SessionTyped
  <2>8. QED
    BY <2>5, <2>6, <2>7
<1>8. CASE ConnectFails(django) /\ outcome' = "enter failed" /\ UNCHANGED <<serverVars, blocks>>
  <2>1. ServerTyped'
    BY <1>1, <1>8, ServerStepTyped
  <2>2. django' \in Attributes /\ django'.sids = <<>>
    BY <1>1, <1>8, EmptySeq DEF ConnectFails, Attributes
  <2>3. session' \in Sessions /\ driverCommits' \in BOOLEAN
    BY <1>1, <1>8 DEF ConnectFails, TypeOK, Sessions
  <2>4. Len(django'.sids) <= Depth
    BY <1>2, <2>2, EmptySeq
  <2>5. QED
    BY <1>8, <2>1, <2>2, <2>3, <2>4 DEF SessionTyped
<1>9. QED
  BY <1>6, <1>7, <1>8 DEF Enter

\* Leaving one does, too.
LEMMA ExitKeepsTypeInv ==
  ASSUME TypeInv, NEW ok \in BOOLEAN, Exit(ok)
  PROVE  TypeInv'
<1>1. TypeOK /\ Len(django.sids) <= Depth /\ django.sids \in Seq(Sids)
  BY DEF TypeInv, TypeOK, Attributes
<1>2. blocks # <<>> /\ LeavesTyped(Popped)
  BY <1>1, ExitTyped
<1>3. PICK how : how \in {"kept", "undone", "closed", "exit failed"} /\ Left(how)
  BY <1>2 DEF LeavesTyped
<1>4. /\ Depth \in Nat \ {0} /\ Len(blocks') = Depth - 1
      /\ blocks' \in Seq(SUBSET Writes) /\ outcome' = how
  BY <1>1, <1>2, <1>3, LeftFacts
<1>5. PICK m \in Nat : Depth = m + 1 /\ Len(blocks') = m
  <2>1. Depth - 1 \in Nat /\ Depth = (Depth - 1) + 1
    BY <1>4
  <2>2. QED
    BY <1>4, <2>1
<1>6. Len(django'.sids) <= m
  <2>1. django'.sids = Popped.sids \/ django'.sids = <<>>
    BY <1>2 DEF LeavesTyped
  <2>2. Len(<<>>) = 0
    BY EmptySeq
  <2>3. Len(<<>>) <= m
    BY <1>5, <2>2
  <2>4. CASE django.sids = <<>>
    <3>1. Popped.sids = <<>>
      BY <1>1, <2>4, PoppedFacts
    <3>2. QED
      BY <2>1, <2>3, <3>1
  <2>5. CASE django.sids # <<>>
    <3>1. Len(Popped.sids) = Len(django.sids) - 1
      BY <1>1, <2>5, PoppedFacts
    <3>2. PICK n \in Nat : n = Len(django.sids)
      BY <1>1, LenProperties
    <3>3. n <= m + 1 /\ Len(Popped.sids) = n - 1
      BY <1>1, <1>5, <3>1, <3>2
    <3>4. Len(Popped.sids) <= m
      BY <1>5, <3>2, <3>3
    <3>5. QED
      BY <2>1, <2>3, <3>4
  <2>6. QED
    BY <2>4, <2>5
<1>7. /\ session' \in Sessions /\ driverCommits' \in BOOLEAN
      /\ django' \in Attributes /\ ServerTyped'
  BY <1>2 DEF LeavesTyped
<1>8. program' \in Programs
  BY DEF Exit, TypeInv, TypeOK
<1>9. TypeOK'
  BY <1>3, <1>4, <1>7, <1>8 DEF TypeOK, Sessions, ServerTyped
<1>10. QED
  BY <1>5, <1>6, <1>9 DEF TypeInv, Depth

\* A write keeps everything well-typed and the number of blocks as it is.
LEMMA WorkTyped ==
  ASSUME TypeOK, NEW w \in Writes, Work(w)
  PROVE  /\ TypeOK'
         /\ Len(blocks') = Depth
         /\ blocks # <<>> =>
              /\ blocks' # <<>>
              /\ Depth \in Nat \ {0}
              /\ blocks'[Depth] = blocks[Depth] \cup {w}
              /\ \A i \in 1..Depth - 1 : blocks'[i] = blocks[i]
<1>1. blocks \in Seq(SUBSET Writes)
  BY DEF TypeOK
<1>2. /\ program' = program
      /\ session' = session /\ driverCommits' = driverCommits
      /\ django' = django /\ outcome' = "ok"
      /\ ServerTyped'
  <2>1. CASE driverCommits
    BY <2>1 DEF Work, TypeOK, ServerTyped
  <2>2. CASE ~ driverCommits
    BY <2>2 DEF Work, TypeOK, ServerTyped
  <2>3. QED
    BY <2>1, <2>2 DEF Work
<1>3. CASE blocks = <<>>
  BY <1>1, <1>2, <1>3 DEF Work, TypeOK, ServerTyped, Depth
<1>4. CASE blocks # <<>>
  <2>1. PICK n \in Nat \ {0} : n = Depth
    BY <1>1, <1>4, EmptySeq DEF Depth
  <2>2. blocks[n] \cup {w} \in SUBSET Writes
    BY <1>1, <2>1, LenProperties DEF Depth
  <2>3. PICK e \in SUBSET Writes : e = blocks[n] \cup {w}
    BY <2>2
  <2>4. blocks' = [blocks EXCEPT ![n] = e]
    BY <1>4, <2>1, <2>3 DEF Work
  <2>5. n \in Nat /\ n = Len(blocks) /\ n # 0
    BY <2>1 DEF Depth
  <2>6. /\ blocks' \in Seq(SUBSET Writes)
        /\ Len(blocks') = n
        /\ blocks'[n] = e
        /\ \A i \in 1..n - 1 : blocks'[i] = blocks[i]
    BY <1>1, <2>3, <2>4, <2>5, ReplaceFacts
  <2>7. blocks' # <<>>
    BY <2>5, <2>6, EmptySeq
  <2>8. TypeOK'
    BY <1>2, <2>6 DEF TypeOK, ServerTyped
  <2>9. QED
    BY <2>1, <2>3, <2>6, <2>7, <2>8
<1>5. QED
  BY <1>3, <1>4

\* What close() does to the attributes.
LEMMA CloseFacts ==
  ASSUME TypeOK, Close
  PROVE  /\ TypeOK'
         /\ django'.sids = django.sids
         /\ UNCHANGED blocks
<1>1. ServerTyped'
  BY ServerStepTyped DEF Close
<1>2. django' \in Attributes /\ django'.sids = django.sids /\ session' \in {"none", "closed"}
  BY DEF Close, TypeOK, Attributes
<1>3. QED
  BY <1>1, <1>2 DEF Close, TypeOK, ServerTyped

\* The program and its settings never change.
LEMMA ProgramStays ==
  ASSUME [Next]_vars
  PROVE  program' = program
  BY DEF Next, vars, CursorOpens, Close, Break, Work, Enter, Exit

\* The type invariant is inductive, whatever the program does.
LEMMA TypeInvariance == Spec => []TypeInv
<1>1. Init => TypeInv
  <2> SUFFICES ASSUME Init PROVE TypeInv
    OBVIOUS
  <2>1. /\ <<>> \in Seq(Sids) /\ <<>> \in Seq(SUBSET Writes) /\ Len(<<>>) = 0
        /\ DOMAIN <<>> = {}
    BY EmptySeq, LenProperties
  <2>2. django \in Attributes /\ Len(django.sids) = 0 /\ Depth = 0
    BY <2>1 DEF Init, Attributes, Depth
  <2>3. TypeOK
    BY <2>1, <2>2 DEF Init, TypeOK
  <2>4. QED
    BY <2>2, <2>3 DEF TypeInv
<1>2. TypeInv /\ [Next]_vars => TypeInv'
  <2> SUFFICES ASSUME TypeInv, [Next]_vars PROVE TypeInv'
    OBVIOUS
  <2>1. TypeOK /\ Len(django.sids) <= Len(blocks)
    BY DEF TypeInv, Depth
  <2>2. CASE CursorOpens
    BY <2>1, <2>2, TransactionsAssumption
    DEF CursorOpens, ProgramKinds, TypeInv, TypeOK, serverVars, Depth
  <2>3. CASE Close
    BY <2>1, <2>3, CloseFacts DEF TypeInv, Depth
  <2>4. CASE Break
    <3>1. ServerTyped'
      BY <2>1, <2>4, ServerStepTyped DEF Break
    <3>2. QED
      BY <2>1, <2>4, <3>1 DEF Break, TypeInv, TypeOK, ServerTyped, Depth
  <2>5. ASSUME NEW w \in Writes, Work(w)
        PROVE  TypeInv'
    BY <2>1, <2>5, WorkTyped DEF Work, TypeInv, Depth
  <2>6. ASSUME NEW savepoint \in BOOLEAN, Enter(savepoint)
        PROVE  TypeInv'
    BY <2>6, EnterTyped
  <2>7. ASSUME NEW ok \in BOOLEAN, Exit(ok)
        PROVE  TypeInv'
    BY <2>7, ExitKeepsTypeInv
  <2>8. CASE UNCHANGED vars
    BY <2>1, <2>8 DEF vars, TypeInv, TypeOK, Depth
  <2>9. QED
    BY <2>2, <2>3, <2>4, <2>5, <2>6, <2>7, <2>8 DEF Next
<1>3. QED
  BY <1>1, <1>2, PTL DEF Spec

\* Every call leaves the wrapper, the server and the blocks well-typed, and the
\* names of savepoints (savepoint_create_sql, operations.py:313-319) within bounds.
THEOREM TypeCorrect == Spec => []TypeOK
<1>1. TypeInv => TypeOK
  BY DEF TypeInv
<1>2. QED
  BY <1>1, TypeInvariance, PTL

-----------------------------------------------------------------------------
(* What Django knows when sessions are opened by blocks only.              *)

\* Outside blocks Django is in autocommit mode and knows of no block; inside, it
\* knows of the outermost block and has an entry for each of the others.
Tracked ==
  /\ ~ driverCommits
  /\ blocks = <<>> =>
       /\ ~ django.inAtomic
       /\ django.sids = <<>>
       /\ session # "closed"
       /\ session # "none" => django.autocommit
       /\ django.closedInTransaction => session = "none"
  /\ blocks # <<>> =>
       /\ django.inAtomic
       /\ django.commitOnExit
       /\ Len(django.sids) = Depth - 1
       /\ session # "none"
       /\ django.closedInTransaction <=> session = "closed"
       /\ django.closedInTransaction => django.needsRollback

\* The end of a call that leaves an inner block.
LEMMA FinishInner ==
  ASSUME NEW d \in Attributes, d.inAtomic, d.commitOnExit, NEW left, Finish(left, d)
  PROVE  /\ session' = left
         /\ UNCHANGED driverCommits
         /\ django'.inAtomic
         /\ django'.commitOnExit
         /\ django'.sids = d.sids
         /\ django'.closedInTransaction = d.closedInTransaction
         /\ django'.needsRollback = d.needsRollback
  BY DEF Finish, Attributes

\* The end of a call that leaves the outermost block.
LEMMA FinishOuter ==
  ASSUME ~ driverCommits, NEW d \in Attributes, ~ d.inAtomic, d.sids = <<>>,
         ~ d.closedInTransaction, NEW left, left # "closed", Finish(left, d)
  PROVE  /\ ~ driverCommits'
         /\ session' = left \/ (left = "none" /\ session' = "open")
         /\ ~ django'.inAtomic
         /\ django'.sids = <<>>
         /\ session' # "none" => django'.autocommit
         /\ ~ django'.closedInTransaction
         /\ django'.needsRollback => d.needsRollback
<1>1. CASE left # "none" /\ session' = left /\ UNCHANGED driverCommits
           /\ django' = [d EXCEPT !.autocommit = TRUE]
  BY <1>1 DEF Attributes
<1>2. CASE left = "none" /\ OpenSession /\ django' = Connected(d)
  BY <1>2, ConnectedFacts DEF OpenSession
<1>3. CASE left = "none" /\ ConnectFails(d)
  BY <1>3 DEF ConnectFails, Attributes
<1>4. QED
  BY <1>1, <1>2, <1>3 DEF Finish

\* What leaving an inner block does: Django keeps track of it, and the server is
\* left alone, or commits all or a part of what is uncommitted.
LEMMA ExitInner ==
  ASSUME TypeInv, Tracked, NEW ok \in BOOLEAN, Exit(ok), django.sids # <<>>
  PROVE  /\ session' = session
         /\ UNCHANGED driverCommits
         /\ django'.inAtomic
         /\ django'.commitOnExit
         /\ django'.sids = Popped.sids
         /\ django'.closedInTransaction = django.closedInTransaction
         /\ django.closedInTransaction => django'.needsRollback
         /\ \E how : Left(how)
         /\ \/ /\ UNCHANGED serverVars
               /\ TopSid = NoSid =>
                    \/ ~ django.needsRollback /\ ~ django'.needsRollback /\ outcome' = "kept"
                    \/ django'.needsRollback /\ outcome' # "kept"
            \/ TopSid # NoSid /\ ReleaseSavepoint(TopSid)
            \/ TopSid # NoSid /\ UndoSavepoint(TopSid) /\ outcome' # "kept"
            \/ TopSid # NoSid /\ RollBackTo(TopSid) /\ outcome' # "kept"
<1> DEFINE undo == [Popped EXCEPT !.needsRollback = FALSE]
           marked(d) == [d EXCEPT !.needsRollback = TRUE]
           Ends(d) == /\ session' = session
                      /\ UNCHANGED driverCommits
                      /\ django'.inAtomic
                      /\ django'.commitOnExit
                      /\ django'.sids = Popped.sids
                      /\ django'.closedInTransaction = django.closedInTransaction
                      /\ django'.needsRollback = d.needsRollback
<1>1. TypeOK /\ blocks # <<>>
  BY DEF TypeInv, Exit
<1>2. /\ Popped \in Attributes
      /\ Popped.inAtomic
      /\ Popped.commitOnExit
      /\ Popped.sids # <<>> \/ Popped.commitOnExit
      /\ Popped.closedInTransaction = django.closedInTransaction
      /\ Popped.needsRollback = django.needsRollback
  BY <1>1, PoppedFacts DEF Tracked
<1>3. ASSUME NEW b \in BOOLEAN
      PROVE  /\ [Popped EXCEPT !.needsRollback = b] \in Attributes
             /\ [Popped EXCEPT !.needsRollback = b].inAtomic
             /\ [Popped EXCEPT !.needsRollback = b].commitOnExit
             /\ [Popped EXCEPT !.needsRollback = b].sids = Popped.sids
             /\ [Popped EXCEPT !.needsRollback = b].closedInTransaction
                  = django.closedInTransaction
             /\ [Popped EXCEPT !.needsRollback = b].needsRollback = b
  BY <1>2, MarkFacts
<1>4. marked(undo) = marked(Popped)
  BY <1>2 DEF Attributes
<1>5. ASSUME NEW d \in {Popped, undo, marked(Popped)}, Finish(session, d)
      PROVE  Ends(d)
  <2>1. /\ d \in Attributes /\ d.inAtomic /\ d.commitOnExit /\ d.sids = Popped.sids
        /\ d.closedInTransaction = django.closedInTransaction
    BY <1>2, <1>3, <1>5
  <2>2. QED
    BY <1>5, <2>1, FinishInner
<1>6. CASE django.closedInTransaction /\ ExitClosed(ok, Popped)
  <2>1. session = "closed" /\ django.needsRollback
    BY <1>1, <1>6 DEF Tracked
  <2>2. Left("closed") /\ outcome' # "kept"
    BY <1>6, <2>1 DEF ExitClosed, Left
  <2>3. QED
    BY <1>2, <1>6, <2>1, <2>2 DEF ExitClosed, serverVars
<1>7. CASE ~ django.closedInTransaction /\ TopSid = NoSid /\ ~ django.needsRollback /\ ExitMergedWell(Popped)
  <2>1. Left("kept") /\ outcome' = "kept"
    BY <1>7 DEF ExitMergedWell, Left
  <2>2. QED
    BY <1>2, <1>5, <1>7, <2>1 DEF ExitMergedWell
<1>8. CASE ~ django.closedInTransaction /\ TopSid = NoSid /\ ExitMergedBadly(undo)
  <2>1. Left("undone") /\ outcome' # "kept"
    BY <1>8 DEF ExitMergedBadly, Left
  <2>2. QED
    BY <1>3, <1>4, <1>5, <1>8, <2>1 DEF ExitMergedBadly
<1>9. CASE ~ django.closedInTransaction /\ TopSid # NoSid /\ ExitSavepointWell(TopSid, Popped)
  BY <1>2, <1>5, <1>9 DEF ExitSavepointWell, UndoFails, Left
<1>10. CASE ~ django.closedInTransaction /\ TopSid # NoSid /\ ExitSavepointBadly(TopSid, undo)
  BY <1>3, <1>4, <1>5, <1>10 DEF ExitSavepointBadly, UndoFails, Left
<1>11. QED
  BY <1>2, <1>6, <1>7, <1>8, <1>9, <1>10 DEF Exit

\* What leaving the outermost block does: either its transaction is stored, on an
\* open session, or it is gone.
LEMMA ExitLast ==
  ASSUME TypeInv, Tracked, NEW ok \in BOOLEAN, Exit(ok), django.sids = <<>>
  PROVE  /\ ~ driverCommits'
         /\ ~ django'.inAtomic
         /\ django'.sids = <<>>
         /\ session' # "none" => django'.autocommit
         /\ django'.closedInTransaction => session' = "none"
         /\ session' \in {"none", "open"}
         /\ \E how : Left(how)
         /\ \/ /\ ServerCommits
               /\ session = "open" /\ session' = "open"
               /\ ~ django.needsRollback /\ ~ django'.needsRollback
               /\ outcome' = "kept"
            \/ /\ ServerRollsBack
               /\ outcome' # "kept"
<1> DEFINE undo == [Popped EXCEPT !.needsRollback = FALSE]
           Ends(left, d) == /\ ~ driverCommits'
                            /\ session' = left \/ (left = "none" /\ session' = "open")
                            /\ ~ django'.inAtomic
                            /\ django'.sids = <<>>
                            /\ session' # "none" => django'.autocommit
                            /\ ~ django'.closedInTransaction
                            /\ django'.needsRollback => d.needsRollback
<1>1. TypeOK /\ blocks # <<>> /\ ~ driverCommits
  BY DEF TypeInv, Exit, Tracked
<1>2. /\ Popped \in Attributes
      /\ ~ Popped.inAtomic
      /\ Popped.sids = <<>>
      /\ Popped.closedInTransaction = django.closedInTransaction
      /\ Popped.needsRollback = django.needsRollback
  BY <1>1, PoppedFacts
<1>3. /\ undo \in Attributes
      /\ ~ undo.inAtomic
      /\ undo.sids = <<>>
      /\ undo.closedInTransaction = django.closedInTransaction
  BY <1>2, MarkFacts
<1>4. ASSUME ~ django.closedInTransaction, NEW d \in {Popped, undo},
             NEW left \in {session, "none"}, Finish(left, d)
      PROVE  Ends(left, d)
  <2>1. left # "closed"
    BY <1>1, <1>4 DEF Tracked
  <2>2. d \in Attributes /\ ~ d.inAtomic /\ d.sids = <<>> /\ ~ d.closedInTransaction
    BY <1>2, <1>3, <1>4
  <2>3. QED
    BY <1>1, <1>4, <2>1, <2>2, FinishOuter
<1>5. CASE django.closedInTransaction /\ ExitClosed(ok, Popped)
  <2>1. session = "closed"
    BY <1>1, <1>5 DEF Tracked
  <2>2. /\ Left("closed")
        /\ django' = Popped
        /\ session' = "none"
        /\ ServerRollsBack
        /\ UNCHANGED driverCommits
    BY <1>2, <1>5, <2>1 DEF ExitClosed
  <2>3. outcome' = "closed"
    BY <2>2 DEF Left
  <2>4. QED
    BY <1>1, <1>2, <2>2, <2>3
<1>6. CASE ~ django.closedInTransaction /\ ~ django.needsRollback /\ ExitOutermostWell(Popped)
  <2>1. CASE session = "open" /\ ServerCommits /\ Left("kept") /\ Finish(session, Popped)
    <3>1. outcome' = "kept"
      BY <2>1 DEF Left
    <3>2. QED
      BY <1>2, <1>4, <1>6, <2>1, <3>1
  <2>2. CASE /\ ServerRollsBack /\ Left("exit failed")
             /\ \E left \in {session, "none"} :
                  /\ left \in {"open", "none"}
                  /\ Finish(left, Popped)
    <3>1. outcome' = "exit failed"
      BY <2>2 DEF Left
    <3>2. QED
      BY <1>2, <1>4, <1>6, <2>2, <3>1
  <2>3. QED
    BY <1>6, <2>1, <2>2 DEF ExitOutermostWell
<1>7. CASE ~ django.closedInTransaction /\ ExitOutermostBadly(undo)
  <2>1. /\ ServerRollsBack /\ Left("undone")
        /\ \E left \in {session, "none"} :
             /\ left \in {"open", "none"}
             /\ Finish(left, undo)
    BY <1>7 DEF ExitOutermostBadly
  <2>2. outcome' = "undone"
    BY <2>1 DEF Left
  <2>3. QED
    BY <1>3, <1>4, <1>7, <2>1, <2>2
<1>8. QED
  BY <1>2, <1>5, <1>6, <1>7 DEF Exit

\* What entering a block does: the outermost one opens a session if there is none;
\* a nested one is as EnterNested says.
LEMMA EnterForms ==
  ASSUME TypeInv, Tracked, NEW savepoint \in BOOLEAN, Enter(savepoint)
  PROVE  \/ /\ blocks = <<>>
            /\ blocks' = Append(blocks, {})
            /\ UNCHANGED serverVars
            /\ \/ session = "none" /\ session' = "open"
               \/ session # "none" /\ session' = session
            /\ ~ driverCommits'
            /\ django'.inAtomic
            /\ django'.commitOnExit
            /\ django'.sids = <<>>
            /\ ~ django'.closedInTransaction
            /\ ~ django'.needsRollback
         \/ /\ blocks = <<>>
            /\ UNCHANGED <<blocks, serverVars, session, driverCommits>>
            /\ session = "none"
            /\ ~ django'.inAtomic
            /\ django'.sids = <<>>
            /\ ~ django'.needsRollback
         \/ /\ blocks # <<>>
            /\ UNCHANGED <<session, driverCommits>>
            /\ savepoint => program.savepoints
            /\ EnterNested(savepoint, django)
<1> DEFINE reset == [django EXCEPT !.commitOnExit = TRUE, !.needsRollback = FALSE]
           d == IF session = "none" THEN Connected(reset) ELSE reset
           outer == [d EXCEPT !.autocommit = FALSE, !.inAtomic = TRUE]
<1>1. django \in Attributes /\ blocks \in Seq(SUBSET Writes) /\ ~ driverCommits
  BY DEF TypeInv, TypeOK, Tracked
<1>2. django.inAtomic <=> blocks # <<>>
  BY DEF Tracked
<1>3. CASE django.inAtomic /\ EnterNested(savepoint, django)
           /\ UNCHANGED <<session, driverCommits>>
  <2>1. Depth > 0
    BY <1>1, <1>2, <1>3, EmptySeq DEF Depth
  <2>2. savepoint => program.savepoints
    BY <2>1 DEF Enter
  <2>3. QED
    BY <1>2, <1>3, <2>2
<1>4. CASE ~ django.inAtomic /\ EnterOutermost(savepoint)
  <2>1. blocks = <<>>
    BY <1>2, <1>4
  <2>2. /\ reset \in Attributes
        /\ reset.autocommit = django.autocommit
        /\ reset.sids = django.sids
        /\ reset.closedInTransaction = django.closedInTransaction
        /\ reset.commitOnExit
        /\ ~ reset.needsRollback
    BY <1>1 DEF Attributes
  <2> HIDE DEF reset
  <2>3. /\ d \in Attributes
        /\ d.autocommit
        /\ d.sids = <<>>
        /\ ~ d.closedInTransaction
        /\ d.commitOnExit
        /\ ~ d.needsRollback
    <3>1. CASE session = "none"
      BY <2>2, <3>1, ConnectedFacts
    <3>2. CASE session # "none"
      BY <2>1, <2>2, <3>2 DEF Tracked
    <3>3. QED
      BY <3>1, <3>2
  <2>4. /\ IF session = "none" THEN OpenSession ELSE UNCHANGED <<session, driverCommits>>
        /\ Entered(outer) /\ UNCHANGED serverVars
    BY <1>4, <2>3 DEF EnterOutermost, reset
  <2> HIDE DEF d
  <2>5. /\ outer.inAtomic
        /\ outer.commitOnExit
        /\ outer.sids = <<>>
        /\ ~ outer.closedInTransaction
        /\ ~ outer.needsRollback
    BY <2>3 DEF Attributes
  <2> HIDE DEF outer
  <2>6. django' = outer /\ blocks' = Append(blocks, {})
    BY <2>4 DEF Entered
  <2>7. /\ ~ driverCommits'
        /\ \/ session = "none" /\ session' = "open"
           \/ session # "none" /\ session' = session
    BY <1>1, <2>4 DEF OpenSession
  <2>8. QED
    BY <2>1, <2>4, <2>5, <2>6, <2>7
<1>5. CASE /\ ~ django.inAtomic /\ session = "none"
           /\ ConnectFails(django)
           /\ UNCHANGED <<serverVars, blocks>>
  BY <1>1, <1>2, <1>5 DEF ConnectFails, Attributes
<1>6. QED
  BY <1>3, <1>4, <1>5 DEF Enter

\* What entering a nested block does to what Tracked speaks of.
LEMMA NestedFacts ==
  ASSUME TypeInv, NEW savepoint \in BOOLEAN, EnterNested(savepoint, django)
  PROVE  /\ django'.inAtomic = django.inAtomic
         /\ django'.commitOnExit = django.commitOnExit
         /\ django'.closedInTransaction = django.closedInTransaction
         /\ django'.needsRollback = django.needsRollback
         /\ \/ /\ blocks' = Append(blocks, {})
               /\ \E sid \in {NoSid, Len(django.sids) + 1} :
                    django'.sids = Append(django.sids, sid)
            \/ UNCHANGED <<blocks, django, serverVars>>
  BY DEF EnterNested, SaveTransaction, Entered, TypeInv, TypeOK, Attributes

\* Tracked is inductive, for programs whose sessions are opened by blocks.
LEMMA TrackedStep ==
  ASSUME ~ program.cursors, TypeInv, TypeInv', Tracked, [Next]_vars
  PROVE  Tracked'
<1>1. /\ django \in Attributes /\ django' \in Attributes
      /\ blocks \in Seq(SUBSET Writes) /\ blocks' \in Seq(SUBSET Writes)
      /\ django.sids \in Seq(Sids)
  BY DEF TypeInv, TypeOK, Attributes
<1>2. CASE Close
  <2>1. CASE django.inAtomic
    <3>1. blocks # <<>>
      BY <2>1 DEF Tracked
    <3>2. /\ UNCHANGED <<blocks, driverCommits>>
          /\ session' = "closed"
          /\ django' = [django EXCEPT !.closedInTransaction = TRUE, !.needsRollback = TRUE]
      BY <1>2, <2>1 DEF Close
    <3>3. /\ django'.closedInTransaction
          /\ django'.needsRollback
          /\ django'.inAtomic
          /\ django'.commitOnExit = django.commitOnExit
          /\ django'.sids = django.sids
      BY <1>1, <2>1, <3>2 DEF Attributes
    <3>4. QED
      BY <3>1, <3>2, <3>3 DEF Tracked, Depth
  <2>2. CASE ~ django.inAtomic
    <3>1. blocks = <<>>
      BY <2>2 DEF Tracked
    <3>2. QED
      BY <1>2, <2>2, <3>1 DEF Close, Tracked
  <2>3. QED
    BY <2>1, <2>2
<1>3. CASE Break
  BY <1>3 DEF Break, Tracked, Depth
<1>4. ASSUME NEW w \in Writes, Work(w)
      PROVE  Tracked'
  <2>1. /\ Len(blocks') = Depth
        /\ blocks # <<>> => blocks' # <<>>
        /\ blocks = <<>> => blocks' = <<>>
    BY <1>4, WorkTyped DEF TypeInv, Work
  <2>2. UNCHANGED <<session, driverCommits, django>>
    BY <1>4 DEF Work
  <2>3. QED
    BY <2>1, <2>2 DEF Tracked, Depth
<1>5. ASSUME NEW savepoint \in BOOLEAN, Enter(savepoint)
      PROVE  Tracked'
  <2>1. /\ Append(blocks, {}) # <<>>
        /\ Len(Append(blocks, {})) = Depth + 1
        /\ Depth \in Nat
    <3>1. {} \in SUBSET Writes
      OBVIOUS
    <3>2. QED
      BY <1>1, <3>1, AppendFacts, LenProperties DEF Depth
  <2>2. blocks = <<>> => Depth = 0
    BY EmptySeq DEF Depth
  <2>3. CASE /\ blocks = <<>>
             /\ blocks' = Append(blocks, {})
             /\ session' # "none" /\ session' # "closed"
             /\ ~ driverCommits'
             /\ django'.inAtomic
             /\ django'.commitOnExit
             /\ django'.sids = <<>>
             /\ ~ django'.closedInTransaction
    <3>1. Len(blocks') = 1 /\ Len(django'.sids) = 0
      BY <2>1, <2>2, <2>3, EmptySeq
    <3>2. QED
      BY <2>1, <2>3, <3>1 DEF Tracked, Depth
  <2>4. CASE /\ blocks = <<>>
             /\ UNCHANGED <<blocks, driverCommits>>
             /\ session' = "none"
             /\ ~ django'.inAtomic
             /\ django'.sids = <<>>
    BY <2>4 DEF Tracked
  <2>5. CASE blocks # <<>> /\ UNCHANGED <<session, driverCommits>>
             /\ EnterNested(savepoint, django)
    <3>1. CASE /\ blocks' = Append(blocks, {})
               /\ \E sid \in {NoSid, Len(django.sids) + 1} :
                    django'.sids = Append(django.sids, sid)
      <4>1. PICK sid : django'.sids = Append(django.sids, sid)
        BY <3>1
      <4>2. Len(django'.sids) = Len(django.sids) + 1
        BY <1>1, <4>1
      <4>3. Len(django'.sids) = Len(blocks') - 1
        BY <2>1, <2>5, <3>1, <4>2 DEF Tracked
      <4>4. QED
        BY <2>1, <2>5, <3>1, <4>3, NestedFacts DEF Tracked, Depth
    <3>2. CASE UNCHANGED <<blocks, django, serverVars>>
      BY <2>5, <3>2 DEF Tracked, Depth
    <3>3. QED
      BY <2>5, <3>1, <3>2, NestedFacts
  <2>6. QED
    BY <1>5, <2>3, <2>4, <2>5, EnterForms DEF Tracked
<1>6. ASSUME NEW ok \in BOOLEAN, Exit(ok)
      PROVE  Tracked'
  <2>1. blocks # <<>> /\ TypeOK
    BY <1>6 DEF Exit, TypeInv
  <2>2. CASE django.sids # <<>>
    <3>1. PICK how : Left(how)
      BY <1>6, <2>2, ExitInner
    <3>2. Len(blocks') = Depth - 1 /\ Depth \in Nat \ {0}
      BY <2>1, <3>1, LeftFacts
    <3>3. PICK n \in Nat : n = Len(django.sids)
      BY <1>1, LenProperties
    <3>4. n # 0
      BY <1>1, <2>2, <3>3, EmptySeq
    <3>5. Len(django'.sids) = n - 1
      BY <1>6, <2>1, <2>2, <3>3, ExitInner, PoppedFacts
    <3>6. n = Depth - 1
      BY <2>1, <3>3 DEF Tracked
    <3>7. Len(blocks') # 0 /\ Len(django'.sids) = Len(blocks') - 1
      BY <3>2, <3>4, <3>5, <3>6
    <3>8. blocks' # <<>>
      BY <3>7, EmptySeq
    <3>9. QED
      BY <1>6, <2>1, <2>2, <3>7, <3>8, ExitInner DEF Tracked, Depth
  <2>3. CASE django.sids = <<>>
    <3>1. PICK how : Left(how)
      BY <1>6, <2>3, ExitLast
    <3>2. Len(blocks') = Depth - 1 /\ Depth \in Nat \ {0}
      BY <2>1, <3>1, LeftFacts
    <3>3. Depth = 1
      BY <2>1, <2>3, <3>2, EmptySeq DEF Tracked
    <3>4. Len(blocks') = 0
      BY <3>2, <3>3
    <3>5. blocks' = <<>>
      BY <1>1, <3>4, EmptySeq
    <3>6. QED
      BY <1>6, <2>3, <3>5, ExitLast DEF Tracked
  <2>4. QED
    BY <2>2, <2>3
<1>7. CASE UNCHANGED vars
  BY <1>7 DEF vars, Tracked, Depth
<1>8. QED
  BY <1>2, <1>3, <1>4, <1>5, <1>6, <1>7 DEF Next, CursorOpens

LEMMA Tracking == Spec => [](TypeInv /\ (~ program.cursors => Tracked))
<1>1. Init => Tracked
  BY DEF Init, Tracked
<1>2. TypeInv /\ TypeInv' /\ (~ program.cursors => Tracked) /\ [Next]_vars
        => (~ program.cursors => Tracked)'
  BY TrackedStep, ProgramStays
<1>3. QED
  BY <1>1, <1>2, TypeInvariance, PTL DEF Spec

\* Whatever fails on the way, Django knows it when the program has left its last
\* block: a _set_autocommit that sends nothing (base.py:246-247) and the SQL of
\* savepoints (operations.py:313-331) never make it take a later call for nested.
THEOREM NoBlockOpen == Spec => []NoBlockLeftOpen
<1>1. (~ program.cursors => Tracked) => NoBlockLeftOpen
  BY DEF Tracked, NoBlockLeftOpen
<1>2. QED
  BY <1>1, Tracking, PTL

-----------------------------------------------------------------------------
(* What outermost blocks keep.                                             *)

\* On an open session, what the open blocks have written is stored or pending,
\* and is so too if a savepoint made before is gone back to.
Pending ==
  session = "open" =>
    /\ \A i \in 1..Depth : blocks[i] \subseteq committed \cup uncommitted
    /\ \A i \in 1..Len(django.sids) :
         django.sids[i] \in DOMAIN saved =>
           \A j \in 1..i : blocks[j] \subseteq committed \cup saved[django.sids[i]]

\* A write is pending, and added to a block that no savepoint was made in.
LEMMA WorkPending ==
  ASSUME TypeInv, Tracked, Pending, NEW w \in Writes, Work(w)
  PROVE  Pending'
<1>1. /\ session = "open"
      /\ committed' = committed /\ uncommitted' = uncommitted \cup {w}
      /\ saved' = saved /\ django' = django
  BY DEF Work, Tracked
<1>2. Len(blocks') = Depth
  BY WorkTyped DEF TypeInv
<1>3. CASE blocks = <<>>
  <2>1. blocks' = <<>> /\ django.sids = <<>>
    BY <1>3 DEF Work, Tracked
  <2>2. QED
    BY <1>1, <2>1, EmptySeq DEF Pending, Depth
<1>4. CASE blocks # <<>>
  <2>1. /\ Depth \in Nat \ {0}
        /\ blocks'[Depth] = blocks[Depth] \cup {w}
        /\ \A i \in 1..Depth - 1 : blocks'[i] = blocks[i]
    BY <1>4, WorkTyped DEF TypeInv
  <2>2. Len(django.sids) = Depth - 1
    BY <1>4 DEF Tracked
  <2>3. \A i \in 1..Depth : blocks'[i] \subseteq committed' \cup uncommitted'
    <3>1. \A i \in 1..Depth : i = Depth \/ i \in 1..Depth - 1
      BY <2>1
    <3>2. \A i \in 1..Depth : blocks'[i] \subseteq blocks[i] \cup {w}
      BY <2>1, <3>1
    <3>3. QED
      BY <1>1, <3>2 DEF Pending
  <2>4. ASSUME NEW i \in 1..Len(django'.sids), django'.sids[i] \in DOMAIN saved',
               NEW j \in 1..i
        PROVE  blocks'[j] \subseteq committed' \cup saved'[django'.sids[i]]
    <3>1. i \in 1..Len(django.sids) /\ j \in 1..Depth - 1
      BY <1>1, <2>1, <2>2
    <3>2. blocks'[j] = blocks[j]
      BY <2>1, <3>1
    <3>3. QED
      BY <1>1, <2>4, <3>1, <3>2 DEF Pending
  <2>5. QED
    BY <1>2, <2>3, <2>4 DEF Pending, Depth
<1>5. QED
  BY <1>3, <1>4

\* A savepoint made now keeps what is uncommitted now.
LEMMA EnterPending ==
  ASSUME TypeInv, Tracked, Pending, NEW savepoint \in BOOLEAN, Enter(savepoint)
  PROVE  Pending'
<1>1. blocks \in Seq(SUBSET Writes) /\ django.sids \in Seq(Sids)
  BY DEF TypeInv, TypeOK, Attributes
<1>2. CASE /\ blocks = <<>>
           /\ blocks' = Append(blocks, {}) \/ UNCHANGED blocks
           /\ django'.sids = <<>>
  <2>1. Len(django'.sids) = 0 /\ Len(<<>>) = 0
    BY <1>2, EmptySeq
  <2>2. blocks' = <<{}>> \/ blocks' = <<>>
    BY <1>2
  <2>3. \A i \in 1..Len(blocks') : blocks'[i] = {}
    BY <2>1, <2>2
  <2>4. QED
    BY <2>1, <2>3 DEF Pending, Depth
<1>3. CASE /\ blocks # <<>>
           /\ UNCHANGED <<session, driverCommits>>
           /\ EnterNested(savepoint, django)
  <2>1. PICK n \in Nat : n = Len(django.sids) /\ Depth = n + 1
    <3>1. Depth \in Nat /\ Len(django.sids) \in Nat /\ Len(django.sids) = Depth - 1
      BY <1>1, <1>3, LenProperties DEF Tracked, Depth
    <3>2. QED
      BY <3>1
  <2>2. CASE UNCHANGED <<blocks, django, serverVars>>
    BY <1>3, <2>2 DEF Pending, serverVars, Depth
  <2>3. ASSUME NEW sid \in Sids,
               blocks' = Append(blocks, {}),
               django'.sids = Append(django.sids, sid),
               UNCHANGED <<uncommitted, committed>>,
               \A t \in DOMAIN saved' :
                 \/ saved'[t] = uncommitted
                 \/ t \in DOMAIN saved /\ saved'[t] = saved[t] /\ t # sid
        PROVE  Pending'
    <3> SUFFICES ASSUME session' = "open" PROVE Pending'
      BY DEF Pending
    <3>1. session = "open"
      BY <1>3
    <3>2. /\ Len(blocks') = Depth + 1
          /\ blocks'[Depth + 1] = {}
          /\ \A i \in 1..Depth : blocks'[i] = blocks[i]
      <4>1. {} \in SUBSET Writes
        OBVIOUS
      <4>2. QED
        BY <1>1, <2>3, <4>1, AppendFacts DEF Depth
    <3>3. /\ Len(django'.sids) = n + 1
          /\ django'.sids[n + 1] = sid
          /\ \A i \in 1..n : django'.sids[i] = django.sids[i]
      BY <1>1, <2>1, <2>3, AppendFacts
    <3>4. ASSUME NEW i \in 1..Depth + 1
          PROVE  blocks'[i] \subseteq committed \cup uncommitted
      <4>1. i = Depth + 1 \/ i \in 1..Depth
        BY <2>1
      <4>2. QED
        BY <3>1, <3>2, <4>1 DEF Pending
    <3>5. ASSUME NEW i \in 1..n + 1, django'.sids[i] \in DOMAIN saved', NEW j \in 1..i
          PROVE  blocks'[j] \subseteq committed \cup saved'[django'.sids[i]]
      <4>1. j \in 1..Depth /\ j \in 1..Depth + 1
        BY <2>1
      <4>2. CASE saved'[django'.sids[i]] = uncommitted
        BY <3>4, <4>1, <4>2
      <4>3. CASE /\ django'.sids[i] \in DOMAIN saved
                 /\ saved'[django'.sids[i]] = saved[django'.sids[i]]
                 /\ django'.sids[i] # sid
        <5>1. i \in 1..n
          BY <2>1, <3>3, <4>3
        <5>2. blocks[j] \subseteq committed \cup saved[django.sids[i]]
          BY <2>1, <3>1, <3>3, <4>3, <5>1 DEF Pending
        <5>3. QED
          BY <3>2, <3>3, <4>1, <4>3, <5>1, <5>2
      <4>4. QED
        BY <2>3, <3>5, <4>2, <4>3
    <3>6. committed' = committed /\ uncommitted' = uncommitted
      BY <2>3
    <3>7. QED
      BY <3>2, <3>3, <3>4, <3>5, <3>6 DEF Pending, Depth
  <2>4. CASE UNCHANGED serverVars /\ Entered([django EXCEPT !.sids = Append(@, NoSid)])
    <3>1. NoSid \in Sids /\ NoSid \notin DOMAIN saved
      <4>1. DOMAIN saved \subseteq 1..MaxDepth
        BY DEF TypeInv, TypeOK
      <4>2. QED
        BY <4>1, TransactionsAssumption DEF NoSid, Sids
    <3>2. /\ django'.sids = Append(django.sids, NoSid)
          /\ blocks' = Append(blocks, {})
      BY <2>4 DEF Entered, TypeInv, TypeOK, Attributes
    <3>3. UNCHANGED <<uncommitted, committed, saved>>
      BY <2>4 DEF serverVars
    <3>4. \A t \in DOMAIN saved' : t \in DOMAIN saved /\ saved'[t] = saved[t] /\ t # NoSid
      BY <3>1, <3>3
    <3>5. QED
      BY <2>3, <3>1, <3>2, <3>3, <3>4
  <2>5. CASE SaveTransaction(django)
    <3>1. CASE UNCHANGED <<blocks, serverVars>> /\ django' = django
      BY <2>2, <3>1
    <3>2. CASE /\ saved' = Saved(n + 1)
               /\ UNCHANGED <<uncommitted, committed>>
               /\ Entered([django EXCEPT !.sids = Append(@, n + 1)])
      <4>1. n + 1 \in Sids
        <5>1. Depth < MaxDepth
          BY DEF Enter
        <5>2. n + 1 \in 0..MaxDepth
          BY <2>1, <5>1, TransactionsAssumption
        <5>3. QED
          BY <5>2 DEF Sids
      <4>2. /\ django'.sids = Append(django.sids, n + 1)
            /\ blocks' = Append(blocks, {})
        BY <3>2 DEF Entered, TypeInv, TypeOK, Attributes
      <4>3. \A t \in DOMAIN saved' :
              \/ saved'[t] = uncommitted
              \/ t \in DOMAIN saved /\ saved'[t] = saved[t] /\ t # n + 1
        BY <3>2 DEF Saved
      <4>4. QED
        BY <2>3, <3>2, <4>1, <4>2, <4>3
    <3>3. QED
      BY <2>1, <2>5, <3>1, <3>2 DEF SaveTransaction
  <2>6. QED
    BY <1>3, <2>4, <2>5 DEF EnterNested
<1>4. QED
  BY <1>2, <1>3, EnterForms

\* A savepoint that is gone back to still has what the outer blocks have written.
LEMMA ExitPending ==
  ASSUME TypeInv, Tracked, Pending, NEW ok \in BOOLEAN, Exit(ok)
  PROVE  Pending'
<1>1. /\ TypeOK /\ blocks # <<>>
      /\ django.sids \in Seq(Sids)
      /\ blocks' \in Seq(SUBSET Writes)
  <2>1. TypeInv'
    BY ExitKeepsTypeInv
  <2>2. QED
    BY <2>1 DEF TypeInv, TypeOK, Attributes, Exit
<1>2. PICK how : Left(how)
  BY ExitInner, ExitLast
<1>3. /\ Depth \in Nat \ {0}
      /\ Len(blocks') = Depth - 1
      /\ \A i \in 1..Depth - 1 : blocks'[i] \subseteq blocks[i] \cup blocks[Depth]
      /\ \A i \in 1..Depth - 2 : blocks'[i] = blocks[i]
      /\ Len(django.sids) = Depth - 1
  BY <1>1, <1>2, LeftFacts DEF Tracked
<1>4. PICK n \in Nat : Depth = n + 1 /\ Len(django.sids) = n /\ Len(blocks') = n
  <2>1. Depth - 1 \in Nat /\ Depth = (Depth - 1) + 1
    BY <1>3
  <2>2. QED
    BY <1>3, <2>1
<1>5. CASE n = 0
  <2>1. django.sids = <<>> /\ Len(blocks') = 0
    BY <1>1, <1>4, <1>5, EmptySeq
  <2>2. django'.sids = <<>> /\ Len(<<>>) = 0
    BY <2>1, ExitLast, EmptySeq
  <2>3. QED
    BY <2>1, <2>2 DEF Pending, Depth
<1>6. CASE n # 0
  <2> SUFFICES ASSUME session' = "open" PROVE Pending'
    BY DEF Pending
  <2>1. django.sids # <<>>
    BY <1>4, <1>6, EmptySeq
  <2>2. session = "open" /\ django'.sids = Popped.sids
    BY <2>1, ExitInner
  <2>3. /\ Len(django'.sids) = n - 1
        /\ \A i \in 1..n - 1 : django'.sids[i] = django.sids[i]
    BY <1>1, <1>4, <2>1, <2>2, PoppedFacts
  <2>4. /\ \A i \in 1..n : blocks'[i] \subseteq blocks[i] \cup blocks[n + 1]
        /\ \A i \in 1..n - 1 : blocks'[i] = blocks[i]
    BY <1>3, <1>4
  <2>5. \A i \in 1..n + 1 : blocks[i] \subseteq committed \cup uncommitted
    BY <1>4, <2>2 DEF Pending
  <2>6. \A i \in 1..n : blocks'[i] \subseteq committed \cup uncommitted
    <3>1. n + 1 \in 1..n + 1 /\ \A i \in 1..n : i \in 1..n + 1
      OBVIOUS
    <3>2. QED
      BY <2>4, <2>5, <3>1
  <2>7. TopSid = django.sids[n]
    BY <1>4, <2>1 DEF TopSid
  <2>8. CASE UNCHANGED serverVars
    <3>1. ASSUME NEW i \in 1..n - 1, django'.sids[i] \in DOMAIN saved, NEW j \in 1..i
          PROVE  blocks'[j] \subseteq committed \cup saved[django'.sids[i]]
      <4>1. i \in 1..n /\ j \in 1..n - 1
        BY <1>4
      <4>2. blocks[j] \subseteq committed \cup saved[django.sids[i]]
        BY <1>4, <2>2, <2>3, <3>1, <4>1 DEF Pending
      <4>3. QED
        BY <2>3, <2>4, <4>1, <4>2
    <3>2. saved' = saved /\ committed' = committed /\ uncommitted' = uncommitted
      BY <2>8 DEF serverVars
    <3>3. QED
      BY <1>4, <2>3, <2>6, <3>1, <3>2 DEF Pending, Depth
  <2>9. CASE Ended /\ committed \cup uncommitted \subseteq committed'
    <3>1. DOMAIN saved' = {}
      BY <2>9, EmptySeq, LenProperties DEF Ended
    <3>2. \A i \in 1..n : blocks'[i] \subseteq committed' \cup uncommitted'
      BY <2>6, <2>9
    <3>3. QED
      BY <1>4, <3>1, <3>2 DEF Pending, Depth
  <2>10. CASE UndoSavepoint(TopSid) /\ outcome' # "kept"
    <3>1. DOMAIN saved' = {} /\ TopSid \in DOMAIN saved
          /\ committed' = committed \cup saved[TopSid]
      BY <2>10, EmptySeq, LenProperties DEF UndoSavepoint, Ended
    <3>2. \A i \in 1..n : blocks[i] \subseteq committed'
      BY <1>4, <1>6, <2>2, <2>7, <3>1 DEF Pending
    <3>3. \A i \in 1..n : blocks'[i] = blocks[i]
      <4>1. how # "kept"
        BY <1>2, <2>10 DEF Left
      <4>2. QED
        BY <1>1, <1>2, <1>4, <4>1, LeftFacts
    <3>4. QED
      BY <1>4, <3>1, <3>2, <3>3 DEF Pending, Depth
  <2>11. CASE ReleaseSavepoint(TopSid)
    BY <2>9, <2>11 DEF ReleaseSavepoint, ServerCommits
  <2>12. CASE RollBackTo(TopSid) /\ outcome' # "kept"
    <3>1. /\ saved' = saved /\ committed' = committed
          /\ TopSid \in DOMAIN saved /\ uncommitted' = saved[TopSid]
      BY <2>12 DEF RollBackTo
    <3>2. \A i \in 1..n : blocks[i] \subseteq committed' \cup uncommitted'
      BY <1>4, <1>6, <2>2, <2>7, <3>1 DEF Pending
    <3>3. \A i \in 1..n : blocks'[i] = blocks[i]
      <4>1. how # "kept"
        BY <1>2, <2>12 DEF Left
      <4>2. QED
        BY <1>1, <1>2, <1>4, <4>1, LeftFacts
    <3>4. ASSUME NEW i \in 1..n - 1, django'.sids[i] \in DOMAIN saved, NEW j \in 1..i
          PROVE  blocks'[j] \subseteq committed \cup saved[django'.sids[i]]
      <4>1. i \in 1..n /\ j \in 1..n
        BY <1>4
      <4>2. blocks[j] \subseteq committed \cup saved[django.sids[i]]
        BY <1>4, <2>2, <2>3, <3>4, <4>1 DEF Pending
      <4>3. QED
        BY <2>3, <3>3, <4>1, <4>2
    <3>5. QED
      BY <1>4, <2>3, <3>1, <3>2, <3>3, <3>4 DEF Pending, Depth
  <2>13. QED
    BY <2>1, <2>8, <2>10, <2>11, <2>12, ExitInner
<1>7. QED
  BY <1>5, <1>6

LEMMA PendingStep ==
  ASSUME ~ program.cursors, TypeInv, Tracked, Pending, [Next]_vars
  PROVE  Pending'
<1>1. CASE Close
  BY <1>1 DEF Close, Pending
<1>2. CASE Break
  BY <1>2 DEF Break, Pending
<1>3. CASE UNCHANGED vars
  BY <1>3 DEF vars, Pending, Depth
<1>4. QED
  BY <1>1, <1>2, <1>3, WorkPending, EnterPending, ExitPending DEF Next, CursorOpens

\* What an outermost block has written and kept is stored when it ends well, with
\* savepoints at any depth and whatever fails on the way: COMMIT TRANSACTION ends
\* the transaction too early (operations.py:325) but loses nothing.
THEOREM KeptStored == Spec => KeptIsStored
<1>1. Init => Pending
  BY DEF Init, Pending
<1>2. TypeInv /\ (~ program.cursors => Tracked) /\ (~ program.cursors => Pending)
        /\ [Next]_vars => (~ program.cursors => Pending)'
  BY PendingStep, ProgramStays
<1>3. ASSUME ~ program.cursors, TypeInv, Tracked, Pending, [Next]_vars,
             Depth = 1, Len(blocks') = 0, outcome' = "kept"
      PROVE  blocks[1] \subseteq committed'
  <2>1. blocks # <<>>
    BY <1>3, EmptySeq DEF Depth
  <2>2. ASSUME NEW ok \in BOOLEAN, Exit(ok)
        PROVE  blocks[1] \subseteq committed'
    <3>1. django.sids = <<>>
      <4>1. django.sids \in Seq(Sids)
        BY <1>3 DEF TypeInv, TypeOK, Attributes
      <4>2. Len(django.sids) = 0
        BY <1>3, <2>1 DEF Tracked
      <4>3. QED
        BY <4>1, <4>2, EmptySeq
    <3>2. session = "open" /\ ServerCommits
      BY <1>3, <2>2, <3>1, ExitLast
    <3>3. QED
      BY <1>3, <3>2 DEF Pending, ServerCommits
  <2>3. ASSUME NEW w \in Writes, Work(w)
        PROVE  FALSE
    BY <1>3, <2>3 DEF Work
  <2>4. ASSUME NEW savepoint \in BOOLEAN, Enter(savepoint)
        PROVE  FALSE
    BY <1>3, <2>4 DEF Enter, EnterOutermost, EnterNested, SaveTransaction, Entered
  <2>5. CASE Close \/ Break \/ UNCHANGED vars
    BY <1>3, <2>5 DEF Close, Break, vars, Depth
  <2>6. QED
    BY <1>3, <2>2, <2>3, <2>4, <2>5 DEF Next, CursorOpens
<1>4. TypeInv /\ (~ program.cursors => Tracked) /\ (~ program.cursors => Pending)
        /\ [Next]_vars =>
          [~ program.cursors /\ Depth = 1 /\ Len(blocks') = 0 /\ outcome' = "kept" =>
             blocks[1] \subseteq committed']_vars
  BY <1>3
<1>5. QED
  BY <1>1, <1>2, <1>4, Tracking, PTL DEF Spec, KeptIsStored

-----------------------------------------------------------------------------
(* Blocks without savepoints of their own are atomic.                      *)

\* No entry of savepoint_ids is a savepoint.
Unnamed == \A i \in 1..Len(django.sids) : django.sids[i] = NoSid

LEMMA DepthFacts ==
  ASSUME TypeOK
  PROVE  Depth \in Nat /\ (Depth = 0 <=> blocks = <<>>)
<1>1. blocks \in Seq(SUBSET Writes)
  BY DEF TypeOK
<1>2. QED
  BY <1>1, EmptySeq, LenProperties DEF Depth

\* Without savepoints for inner blocks, none has one.
LEMMA UnnamedStep ==
  ASSUME ~ program.cursors, ~ program.savepoints, TypeInv, Tracked, Unnamed, [Next]_vars
  PROVE  Unnamed'
<1>1. django.sids \in Seq(Sids) /\ TypeOK
  BY DEF TypeInv, TypeOK, Attributes
<1>2. ASSUME django'.sids = <<>>
      PROVE  Unnamed'
  BY <1>2, EmptySeq DEF Unnamed
<1>3. CASE Close
  BY <1>1, <1>3, CloseFacts DEF Unnamed
<1>4. CASE Break \/ UNCHANGED vars \/ \E w \in Writes : Work(w)
  BY <1>4 DEF Break, vars, Work, Unnamed
<1>5. ASSUME NEW savepoint \in BOOLEAN, Enter(savepoint)
      PROVE  Unnamed'
  <2>1. CASE django'.sids = <<>>
    BY <1>2, <2>1
  <2>2. CASE EnterNested(savepoint, django) /\ ~ savepoint
    <3>1. django'.sids = Append(django.sids, NoSid)
      BY <1>1, <2>2 DEF EnterNested, Entered, TypeOK, Attributes
    <3>2. NoSid \in Sids
      BY TransactionsAssumption DEF NoSid, Sids
    <3>3. PICK n \in Nat : n = Len(django.sids)
      BY <1>1, LenProperties
    <3>4. /\ Len(django'.sids) = n + 1
          /\ django'.sids[n + 1] = NoSid
          /\ \A i \in 1..n : django'.sids[i] = django.sids[i]
      BY <1>1, <3>1, <3>2, <3>3, AppendFacts
    <3>5. \A i \in 1..n + 1 : i = n + 1 \/ i \in 1..n
      BY <3>3
    <3>6. QED
      BY <3>3, <3>4, <3>5 DEF Unnamed
  <2>3. QED
    BY <1>5, <2>1, <2>2, EnterForms
<1>6. ASSUME NEW ok \in BOOLEAN, Exit(ok)
      PROVE  Unnamed'
  <2>1. CASE django.sids = <<>>
    BY <1>2, <1>6, <2>1, ExitLast
  <2>2. CASE django.sids # <<>>
    <3>1. PICK n \in Nat : n = Len(django.sids)
      BY <1>1, LenProperties
    <3>2. /\ Len(django'.sids) = n - 1
          /\ \A i \in 1..n - 1 : django'.sids[i] = django.sids[i]
      BY <1>1, <1>6, <2>2, <3>1, ExitInner, PoppedFacts
    <3>3. QED
      BY <3>1, <3>2 DEF Unnamed
  <2>3. QED
    BY <2>1, <2>2
<1>7. QED
  BY <1>3, <1>4, <1>5, <1>6 DEF Next, CursorOpens

\* What leaving a block is for the abstract store.
LEMMA ExitStores ==
  ASSUME TypeInv, Tracked, Unnamed, TypeInv', Tracked', NEW ok \in BOOLEAN, Exit(ok)
  PROVE  Store!EndInnerWell \/ Store!EndInnerBadly \/ Store!Store \/ Store!Discard
<1>1. /\ TypeOK /\ blocks # <<>> /\ django.sids \in Seq(Sids)
      /\ django.needsRollback \in BOOLEAN /\ django'.needsRollback \in BOOLEAN
  BY DEF TypeInv, TypeOK, Attributes, Exit
<1>2. PICK how : Left(how)
  BY ExitInner, ExitLast
<1>3. Depth \in Nat \ {0} /\ Len(blocks') = Depth - 1
  BY <1>1, <1>2, LeftFacts
<1>4. PICK n \in Nat : n = Len(django.sids) /\ Depth = n + 1 /\ Len(blocks') = n
  <2>1. Len(django.sids) \in Nat /\ Len(django.sids) = Depth - 1
    BY <1>1, LenProperties DEF Tracked
  <2>2. QED
    BY <1>3, <2>1
<1>5. Len(blocks') = 0 <=> blocks' = <<>>
  BY DepthFacts DEF TypeInv, Depth
<1>6. CASE django.sids # <<>>
  <2>1. n # 0
    BY <1>1, <1>4, <1>6, EmptySeq
  <2>2. TopSid = NoSid
    BY <1>4, <1>6, <2>1 DEF TopSid, Unnamed
  <2>3. /\ UNCHANGED serverVars
        /\ session' = session
        /\ \/ ~ django.needsRollback /\ ~ django'.needsRollback /\ outcome' = "kept"
           \/ django'.needsRollback /\ outcome' # "kept"
    BY <1>6, <2>2, ExitInner
  <2>4. blocks' # <<>> /\ Depth > 1
    BY <1>4, <1>5, <2>1
  <2>5. Depth' = Depth - 1
    BY <1>3 DEF Depth
  <2>6. CASE ~ django.needsRollback /\ ~ django'.needsRollback /\ outcome' = "kept"
    <3>1. Store!EndInnerWell
      BY <1>1, <2>3, <2>4, <2>5, <2>6 DEF Store!EndInnerWell, serverVars
    <3>2. QED
      BY <3>1
  <2>7. CASE django'.needsRollback /\ outcome' # "kept"
    <3>1. Store!EndInnerBadly
      BY <1>1, <2>3, <2>4, <2>5, <2>7 DEF Store!EndInnerBadly, serverVars
    <3>2. QED
      BY <3>1
  <2>8. QED
    BY <2>3, <2>6, <2>7
<1>7. CASE django.sids = <<>>
  <2>1. Depth = 1 /\ Depth' = 0 /\ blocks' = <<>>
    BY <1>4, <1>5, <1>7, EmptySeq DEF Depth
  <2>2. CASE /\ ServerCommits
             /\ session = "open" /\ session' = "open"
             /\ ~ django.needsRollback /\ ~ django'.needsRollback
             /\ outcome' = "kept"
    <3>1. Store!Store
      BY <2>1, <2>2 DEF Store!Store, ServerCommits, Ended
    <3>2. QED
      BY <3>1
  <2>3. CASE ServerRollsBack /\ outcome' # "kept"
    <3>1. session' \in {"none", "open"}
      BY <1>7, ExitLast
    <3>2. Store!Discard
      BY <2>1, <2>3, <3>1 DEF Store!Discard, ServerRollsBack, Ended
    <3>3. QED
      BY <3>2
  <2>4. QED
    BY <1>7, <2>2, <2>3, ExitLast
<1>8. QED
  BY <1>6, <1>7

\* What entering a block is for it.
LEMMA EnterBegins ==
  ASSUME ~ program.savepoints, TypeInv, Tracked, TypeInv',
         NEW savepoint \in BOOLEAN, Enter(savepoint)
  PROVE  Store!Begin \/ Store!Fail
<1>1. blocks \in Seq(SUBSET Writes)
  BY DEF TypeInv, TypeOK
<1>2. Len(Append(blocks, {})) = Depth + 1 /\ Append(blocks, {}) # <<>>
  <2>1. \A e \in SUBSET Writes :
          Len(Append(blocks, e)) = Len(blocks) + 1 /\ Append(blocks, e) # <<>>
    BY <1>1, AppendFacts
  <2>2. {} \in SUBSET Writes
    OBVIOUS
  <2>3. QED
    BY <2>1, <2>2 DEF Depth
<1>3. outcome' # "kept"
  BY DEF Enter, EnterOutermost, EnterNested, SaveTransaction, Entered
<1>4. CASE /\ blocks = <<>>
           /\ blocks' = Append(blocks, {})
           /\ UNCHANGED serverVars
           /\ \/ session = "none" /\ session' = "open"
              \/ session # "none" /\ session' = session
           /\ ~ django'.needsRollback
  <2>1. Store!Begin
    BY <1>2, <1>3, <1>4 DEF Store!Begin, serverVars, Depth
  <2>2. QED
    BY <2>1
<1>5. CASE /\ blocks = <<>>
           /\ UNCHANGED <<blocks, serverVars, session>>
  <2>1. Store!Fail
    BY <1>3, <1>5 DEF Store!Fail, serverVars, Depth
  <2>2. QED
    BY <2>1
<1>6. CASE /\ blocks # <<>>
           /\ UNCHANGED session
           /\ ~ savepoint
           /\ EnterNested(savepoint, django)
  <2>1. /\ UNCHANGED serverVars
        /\ blocks' = Append(blocks, {})
    BY <1>6 DEF EnterNested, Entered
  <2>2. django'.needsRollback = django.needsRollback
    BY <1>6, NestedFacts
  <2>3. Store!Begin
    BY <1>2, <1>3, <1>6, <2>1, <2>2 DEF Store!Begin, serverVars, Depth
  <2>4. QED
    BY <2>3
<1>7. QED
  BY <1>4, <1>5, <1>6, EnterForms

\* Every step of the wrapper is a step of the abstract store, or none.
LEMMA StoreStep ==
  ASSUME ~ program.cursors, ~ program.outside, ~ program.savepoints,
         TypeInv, Tracked, Unnamed, TypeInv', Tracked', [Next]_vars
  PROVE  [Store!Next]_Store!vars
<1>1. ASSUME NEW w \in Writes, Work(w)
      PROVE  Store!Write(w)
  <2>1. /\ ~ driverCommits
        /\ Len(blocks') = Depth
        /\ blocks' = <<>> <=> blocks = <<>>
    BY <1>1, WorkTyped DEF Tracked, TypeInv, Work
  <2>2. blocks # <<>> /\ Depth > 0
    <3>1. PICK n \in Nat : n = Depth /\ (n = 0 <=> blocks = <<>>)
      BY DepthFacts DEF TypeInv
    <3>2. blocks # <<>>
      BY <1>1 DEF Work
    <3>3. QED
      BY <3>1, <3>2
  <2>3. QED
    BY <1>1, <2>1, <2>2 DEF Work, Store!Write, Depth
<1>2. CASE Close
  <2>1. django.inAtomic <=> blocks # <<>>
    BY DEF Tracked
  <2>2. Depth > 0 <=> blocks # <<>>
    <3>1. PICK n \in Nat : n = Depth /\ (n = 0 <=> blocks = <<>>)
      BY DepthFacts DEF TypeInv
    <3>2. QED
      BY <3>1
  <2>3. UNCHANGED <<blocks, committed>> /\ uncommitted' = {}
    BY <1>2 DEF Close, ServerRollsBack, Ended
  <2>4. CASE blocks # <<>>
    <3>1. session' = "closed" /\ django'.needsRollback /\ outcome' # "kept"
      BY <1>2, <2>1, <2>4 DEF Close, TypeInv, TypeOK, Attributes
    <3>2. Store!Lose
      BY <2>2, <2>3, <2>4, <3>1 DEF Store!Lose, Depth
    <3>3. QED
      BY <3>2 DEF Store!Next
  <2>5. CASE blocks = <<>>
    <3>1. Store!Lose
      BY <1>2, <2>1, <2>2, <2>3, <2>5 DEF Close, Store!Lose, Depth
    <3>2. QED
      BY <3>1 DEF Store!Next
  <2>6. QED
    BY <2>4, <2>5
<1>3. CASE Break
  <2>1. Store!Lose
    BY <1>3 DEF Break, ServerRollsBack, Ended, Store!Lose, Depth
  <2>2. QED
    BY <2>1 DEF Store!Next
<1>4. ASSUME NEW savepoint \in BOOLEAN, Enter(savepoint)
      PROVE  [Store!Next]_Store!vars
  BY <1>4, EnterBegins DEF Store!Next
<1>5. ASSUME NEW ok \in BOOLEAN, Exit(ok)
      PROVE  [Store!Next]_Store!vars
  BY <1>5, ExitStores DEF Store!Next
<1>6. CASE UNCHANGED vars
  BY <1>6 DEF vars, Store!vars, Depth
<1>7. QED
  BY <1>1, <1>2, <1>3, <1>4, <1>5, <1>6 DEF Next, CursorOpens, Store!Next

\* Blocks of transaction.atomic() implement the abstract store when all writes are
\* in blocks and no inner block asks for a savepoint: what is written in a block is
\* stored when the outermost one ends well and is gone in every other case, and an
\* inner one that fails dooms it, with an OPTIONS['autocommit'] of any value
\* (get_connection_params drops it, base.py:228-229).
THEOREM Atomic == Spec => BlocksAreAtomic
<1>1. Init => (Promised => Unnamed)
  BY EmptySeq DEF Init, Unnamed
<1>2. TypeInv /\ (~ program.cursors => Tracked) /\ (Promised => Unnamed) /\ [Next]_vars =>
        (Promised => Unnamed)'
  BY UnnamedStep, ProgramStays DEF Promised
<1>3. Init => (Promised => Store!Init)
  BY EmptySeq DEF Init, Store!Init, Depth
<1>4. ASSUME TypeInv, ~ program.cursors => Tracked, Promised => Unnamed, [Next]_vars,
             TypeInv', (~ program.cursors => Tracked)'
      PROVE  [Promised => Store!Next]_Store!vars
  <2>1. Promised => ~ program.cursors' /\ Tracked /\ Tracked'
    BY <1>4, ProgramStays DEF Promised
  <2>2. QED
    BY <1>4, <2>1, StoreStep DEF Promised
<1>5. QED
  BY <1>1, <1>2, <1>3, <1>4, Tracking, PTL DEF Spec, BlocksAreAtomic

-----------------------------------------------------------------------------
(* A failed outermost block leaves nothing, whoever opened its session.    *)

\* The programs PlainFailureIsGone speaks of.
Plain == ~ program.savepoints /\ ~ (program.cursors /\ program.autocommit)

\* Attributes d fit the open blocks bs: savepoint_ids has an entry for each, or for
\* each but an outermost one that Django commits; only the first entry can be a
\* savepoint, and then that of the outermost block.
Fits(d, bs) ==
  /\ bs # <<>> => d.inAtomic
  /\ \/ Len(d.sids) = Len(bs)
     \/ bs # <<>> /\ Len(d.sids) = Len(bs) - 1 /\ d.commitOnExit
  /\ \A i \in 1..Len(d.sids) : d.sids[i] # NoSid => i = 1 /\ Len(d.sids) = Len(bs)

Followed == ~ driverCommits /\ Fits(django, blocks)

\* Nothing an open block has written is stored, or would be by going back to a
\* savepoint, and there is at most the one of the outermost block.
Apart ==
  /\ \A i \in 1..Depth : blocks[i] \cap committed = {}
  /\ DOMAIN saved \subseteq {1}
  /\ \A sid \in DOMAIN saved :
       /\ saved[sid] \subseteq uncommitted
       /\ \A i \in 1..Depth : blocks[i] \cap saved[sid] = {}

\* Attributes fit if nothing in them changes that Fits speaks of.
LEMMA FitsSame ==
  ASSUME NEW d, NEW e, NEW bs, NEW cs, Fits(d, bs), Len(cs) = Len(bs), cs = <<>> <=> bs = <<>>,
         e.sids = d.sids, e.inAtomic = d.inAtomic, e.commitOnExit = d.commitOnExit
  PROVE  Fits(e, cs)
  BY DEF Fits

\* Outside blocks any attributes without savepoints fit.
LEMMA FitsNoBlock ==
  ASSUME NEW d, d.sids = <<>>
  PROVE  Fits(d, <<>>)
  BY EmptySeq DEF Fits

\* Entering inside what Django takes for a transaction.
LEMMA NestedFits ==
  ASSUME TypeInv, NEW d \in Attributes, d.inAtomic, Fits(d, blocks),
         NEW savepoint \in BOOLEAN, savepoint => blocks = <<>>,
         EnterNested(savepoint, d)
  PROVE  /\ Fits(django', blocks')
         /\ \/ blocks' = blocks /\ UNCHANGED serverVars
            \/ blocks' = Append(blocks, {}) /\ UNCHANGED serverVars
            \/ /\ blocks = <<>> /\ blocks' = Append(blocks, {})
               /\ UNCHANGED <<active, uncommitted, committed>>
               /\ saved' = Saved(1)
<1>1. d.sids \in Seq(Sids) /\ blocks \in Seq(SUBSET Writes) /\ {} \in SUBSET Writes
  BY DEF TypeInv, TypeOK, Attributes
<1>2. PICK n \in Nat, m \in Nat : n = Len(d.sids) /\ m = Len(blocks)
  BY <1>1, LenProperties
<1>3. m = 0 <=> blocks = <<>>
  BY <1>1, <1>2, EmptySeq
<1>4. ASSUME NEW sid, sid = NoSid \/ (sid = n + 1 /\ m = 0),
             Entered([d EXCEPT !.sids = Append(@, sid)])
      PROVE  Fits(django', blocks') /\ blocks' = Append(blocks, {})
  <2>1. blocks' = Append(blocks, {}) /\ django' = [d EXCEPT !.sids = Append(@, sid)]
    BY <1>4 DEF Entered
  <2>2. /\ django'.sids = Append(d.sids, sid)
        /\ django'.inAtomic
        /\ django'.commitOnExit = d.commitOnExit
    BY <2>1 DEF Attributes
  <2>3. /\ Len(blocks') = m + 1
        /\ blocks' # <<>>
    BY <1>1, <1>2, <2>1, AppendFacts
  <2>4. /\ Len(django'.sids) = n + 1
        /\ django'.sids[n + 1] = sid
        /\ \A i \in 1..n : django'.sids[i] = d.sids[i]
    <3>1. d.sids \in Seq(Sids \cup {sid}) /\ sid \in Sids \cup {sid}
      BY <1>1
    <3>2. QED
      BY <1>2, <2>2, <3>1, AppendFacts
  <2>5. \/ n = m
        \/ m # 0 /\ n = m - 1 /\ d.commitOnExit
    BY <1>2, <1>3 DEF Fits
  <2>6. ASSUME NEW i \in 1..n + 1, django'.sids[i] # NoSid
        PROVE  i = 1 /\ n + 1 = m + 1
    <3>1. CASE i = n + 1
      BY <1>4, <2>4, <2>5, <2>6, <3>1
    <3>2. CASE i \in 1..n
      BY <1>2, <2>4, <2>6, <3>2 DEF Fits
    <3>3. QED
      BY <3>1, <3>2
  <2>7. \/ n + 1 = m + 1
        \/ n + 1 = m + 1 - 1 /\ django'.commitOnExit
    BY <2>2, <2>5
  <2>8. QED
    BY <2>1, <2>2, <2>3, <2>4, <2>6, <2>7 DEF Fits
<1>5. CASE savepoint /\ SaveTransaction(d)
  <2>1. m = 0 /\ blocks = <<>>
    BY <1>3, <1>5
  <2>2. CASE /\ saved' = Saved(n + 1)
             /\ UNCHANGED <<active, uncommitted, committed>>
             /\ Entered([d EXCEPT !.sids = Append(@, n + 1)])
    <3>1. n = 0
      BY <1>2, <2>1 DEF Fits
    <3>2. saved' = Saved(1)
      BY <2>2, <3>1
    <3>3. QED
      BY <1>4, <2>1, <2>2, <3>2
  <2>3. CASE django' = d /\ UNCHANGED <<serverVars, blocks>>
    BY <2>3
  <2>4. QED
    BY <1>2, <1>5, <2>2, <2>3 DEF SaveTransaction
<1>6. CASE Entered([d EXCEPT !.sids = Append(@, NoSid)]) /\ UNCHANGED serverVars
  BY <1>4, <1>6
<1>7. QED
  BY <1>5, <1>6 DEF EnterNested

\* Entering a block, whether Django or _cursor has opened the session.
LEMMA EnterFits ==
  ASSUME Plain, TypeInv, Followed, NEW savepoint \in BOOLEAN, Enter(savepoint)
  PROVE  /\ Followed'
         /\ \/ blocks' = blocks /\ UNCHANGED serverVars
            \/ blocks' = Append(blocks, {}) /\ UNCHANGED serverVars
            \/ /\ blocks = <<>> /\ blocks' = Append(blocks, {})
               /\ UNCHANGED <<active, uncommitted, committed>>
               /\ saved' = Saved(1)
<1> DEFINE reset == [django EXCEPT !.commitOnExit = TRUE, !.needsRollback = FALSE]
           d == IF session = "none" THEN Connected(reset) ELSE reset
           outer == [d EXCEPT !.autocommit = FALSE, !.inAtomic = TRUE]
           nested == [d EXCEPT !.inAtomic = TRUE, !.commitOnExit = FALSE]
<1>1. django \in Attributes /\ blocks \in Seq(SUBSET Writes) /\ TypeOK
  BY DEF TypeInv, TypeOK
<1>2. savepoint => blocks = <<>>
  <2>1. savepoint => ~ (Depth > 0)
    BY DEF Enter, Plain
  <2>2. Depth \in Nat /\ (Depth = 0 <=> blocks = <<>>)
    BY <1>1, DepthFacts
  <2>3. QED
    BY <2>1, <2>2
<1>3. CASE django.inAtomic /\ EnterNested(savepoint, django)
           /\ UNCHANGED <<session, driverCommits>>
  BY <1>1, <1>2, <1>3, NestedFits DEF Followed
<1>4. CASE ~ django.inAtomic /\ EnterOutermost(savepoint)
  <2>1. blocks = <<>> /\ Len(django.sids) = 0
    BY <1>1, <1>4, EmptySeq DEF Followed, Fits
  <2>2. django.sids = <<>>
    BY <1>1, <2>1, EmptySeq DEF Attributes
  <2>3. /\ reset \in Attributes
        /\ reset.sids = <<>>
        /\ reset.commitOnExit
    BY <1>1, <2>2 DEF Attributes
  <2> HIDE DEF reset
  <2>4. /\ d \in Attributes
        /\ d.sids = <<>>
        /\ d.commitOnExit
    BY <2>3, ConnectedFacts
  <2>5. /\ IF session = "none" THEN OpenSession ELSE UNCHANGED <<session, driverCommits>>
        /\ IF d.autocommit
           THEN Entered(outer) /\ UNCHANGED serverVars
           ELSE EnterNested(savepoint, nested)
    BY <1>4 DEF EnterOutermost, reset
  <2> HIDE DEF d
  <2>6. ~ driverCommits'
    BY <2>5 DEF OpenSession, Followed
  <2>7. /\ outer.inAtomic /\ outer.commitOnExit /\ outer.sids = <<>>
        /\ nested \in Attributes /\ nested.inAtomic /\ nested.sids = <<>>
    BY <2>4 DEF Attributes
  <2> HIDE DEF outer, nested
  <2>8. CASE d.autocommit
    <3>1. django' = outer /\ blocks' = Append(blocks, {}) /\ UNCHANGED serverVars
      BY <2>5, <2>8 DEF Entered
    <3>2. Len(blocks') = 1 /\ blocks' # <<>> /\ Len(django'.sids) = 0
      <4>1. Len(Append(blocks, {})) = Len(blocks) + 1 /\ Append(blocks, {}) # <<>>
        <5>1. {} \in SUBSET Writes
          OBVIOUS
        <5>2. QED
          BY <1>1, <5>1, AppendFacts
      <4>2. QED
        BY <2>1, <2>7, <3>1, <4>1, EmptySeq
    <3>3. Fits(django', blocks')
      BY <2>7, <3>1, <3>2 DEF Fits
    <3>4. QED
      BY <2>6, <3>1, <3>3 DEF Followed
  <2>9. CASE ~ d.autocommit
    <3>1. Fits(nested, blocks)
      BY <2>1, <2>7, FitsNoBlock
    <3>2. EnterNested(savepoint, nested)
      BY <2>5, <2>9
    <3>3. QED
      BY <1>2, <2>6, <2>7, <3>1, <3>2, NestedFits DEF Followed
  <2>10. QED
    BY <2>8, <2>9
<1>5. CASE /\ ~ django.inAtomic
           /\ ConnectFails(django)
           /\ UNCHANGED <<serverVars, blocks>>
  <2>1. blocks = <<>> /\ blocks' = <<>>
    BY <1>5 DEF Followed, Fits
  <2>2. django'.sids = <<>> /\ driverCommits' = driverCommits
    BY <1>1, <1>5 DEF ConnectFails, Attributes
  <2>3. QED
    BY <1>5, <2>1, <2>2, FitsNoBlock DEF Followed
<1>6. QED
  BY <1>3, <1>4, <1>5 DEF Enter

\* What Exit takes away is the entry of the block it leaves.
LEMMA PoppedFits ==
  ASSUME TypeInv, Followed, blocks # <<>>
  PROVE  /\ Popped \in Attributes
         /\ ~ Popped.inAtomic => Depth = 1 /\ Popped.sids = <<>>
         /\ Popped.inAtomic =>
              /\ \/ Len(Popped.sids) = Depth - 1
                 \/ Len(Popped.sids) = Depth - 2 /\ Popped.commitOnExit
              /\ Depth = 1 => Popped.sids = <<>>
              /\ \A i \in 1..Len(Popped.sids) :
                   Popped.sids[i] # NoSid => i = 1 /\ Len(Popped.sids) = Depth - 1
         /\ TopSid # NoSid => Depth = 1
<1>1. TypeOK /\ django.sids \in Seq(Sids) /\ Popped \in Attributes /\ Popped.sids \in Seq(Sids)
  BY PoppedFacts DEF TypeInv, TypeOK, Attributes
<1>2. PICK n \in Nat, m \in Nat \ {0} : n = Len(django.sids) /\ m = Depth
  BY <1>1, LenProperties, DepthFacts
<1>3. /\ django.inAtomic
      /\ n = m \/ (n = m - 1 /\ django.commitOnExit)
      /\ \A i \in 1..n : django.sids[i] # NoSid => i = 1 /\ n = m
  BY <1>2 DEF Followed, Fits, Depth
<1>4. CASE django.sids = <<>>
  <2>1. n = 0
    BY <1>2, <1>4, EmptySeq
  <2>2. m = 1 /\ ~ Popped.inAtomic /\ Popped.sids = <<>> /\ TopSid = NoSid
    BY <1>1, <1>3, <1>4, <2>1, PoppedFacts DEF TopSid
  <2>3. QED
    BY <1>1, <1>2, <2>2
<1>5. CASE django.sids # <<>>
  <2>1. n # 0
    BY <1>1, <1>2, <1>5, EmptySeq
  <2>2. /\ Popped.inAtomic
        /\ Len(Popped.sids) = n - 1
        /\ \A i \in 1..n - 1 : Popped.sids[i] = django.sids[i]
        /\ Popped.commitOnExit = django.commitOnExit
    BY <1>1, <1>2, <1>3, <1>5, PoppedFacts
  <2>3. n - 1 = m - 1 \/ (n - 1 = m - 2 /\ Popped.commitOnExit)
    BY <1>3, <2>2
  <2>4. m = 1 => n - 1 = 0
    BY <2>1, <1>3
  <2>5. m = 1 => Popped.sids = <<>>
    BY <1>1, <2>2, <2>4, EmptySeq
  <2>6. \A i \in 1..n - 1 : Popped.sids[i] # NoSid => i = 1 /\ n - 1 = m - 1
    BY <1>3, <2>2
  <2>7. TopSid = django.sids[n]
    BY <1>2, <1>5 DEF TopSid
  <2>8. TopSid # NoSid => m = 1
    BY <1>3, <2>1, <2>7
  <2>9. QED
    BY <1>1, <1>2, <2>2, <2>3, <2>5, <2>6, <2>8
<1>6. QED
  BY <1>4, <1>5

\* The attributes that the end of __exit__ leaves fit the blocks around.
LEMMA FinishFits ==
  ASSUME TypeInv, Followed, blocks # <<>>, NEW how, Left(how),
         NEW d \in Attributes, d.sids = Popped.sids, d.inAtomic = Popped.inAtomic,
         d.commitOnExit = Popped.commitOnExit,
         \/ \E left : Finish(left, d)
         \/ django' = d /\ UNCHANGED driverCommits
  PROVE  Followed'
<1>1. TypeOK /\ Depth \in Nat \ {0} /\ blocks' \in Seq(SUBSET Writes) /\ Len(blocks') = Depth - 1
  BY LeftFacts DEF TypeInv
<1>2. PICK m \in Nat : Depth = m + 1 /\ Len(blocks') = m
  BY <1>1
<1>3. blocks' = <<>> <=> m = 0
  BY <1>1, <1>2, EmptySeq
<1>4. PICK n \in Nat : n = Len(d.sids)
  BY LenProperties DEF Attributes
<1>5. CASE d.inAtomic
  <2>1. /\ n = m \/ (n = m - 1 /\ d.commitOnExit)
        /\ \A i \in 1..n : d.sids[i] # NoSid => i = 1 /\ n = m
        /\ m = 0 => d.sids = <<>>
    <3>1. /\ \/ n = Depth - 1
             \/ n = Depth - 2 /\ d.commitOnExit
          /\ Depth = 1 => d.sids = <<>>
          /\ \A i \in 1..n : d.sids[i] # NoSid => i = 1 /\ n = Depth - 1
      BY <1>4, <1>5, PoppedFits
    <3>2. QED
      BY <1>2, <3>1
  <2>2. m # 0 => d.sids # <<>> \/ d.commitOnExit
    BY <1>4, <2>1, EmptySeq
  <2>3. /\ django'.sids = d.sids
        /\ django'.commitOnExit = d.commitOnExit
        /\ m # 0 => django'.inAtomic
        /\ driverCommits' = driverCommits
    <3>1. CASE django' = d /\ UNCHANGED driverCommits
      BY <1>5, <3>1
    <3>2. CASE /\ django' = [d EXCEPT !.inAtomic = d.sids # <<>> \/ d.commitOnExit]
               /\ UNCHANGED driverCommits
      BY <2>2, <3>2 DEF Attributes
    <3>3. QED
      BY <1>5, <3>1, <3>2 DEF Finish
  <2>4. m = 0 => n = m
    BY <1>4, <2>1, EmptySeq
  <2>5. \/ Len(django'.sids) = Len(blocks')
        \/ blocks' # <<>> /\ Len(django'.sids) = Len(blocks') - 1 /\ django'.commitOnExit
    BY <1>2, <1>3, <1>4, <2>1, <2>3, <2>4
  <2>6. \A i \in 1..Len(django'.sids) :
           django'.sids[i] # NoSid => i = 1 /\ Len(django'.sids) = Len(blocks')
    BY <1>2, <1>4, <2>1, <2>3
  <2>7. blocks' # <<>> => django'.inAtomic
    BY <1>3, <2>3
  <2>8. Fits(django', blocks')
    BY <2>5, <2>6, <2>7 DEF Fits
  <2>9. QED
    BY <2>3, <2>8 DEF Followed
<1>6. CASE ~ d.inAtomic
  <2>1. d.sids = <<>> /\ m = 0
    <3>1. Depth = 1 /\ d.sids = <<>>
      BY <1>6, PoppedFits
    <3>2. QED
      BY <1>2, <3>1
  <2>2. ~ driverCommits' /\ django'.sids = <<>>
    <3>1. CASE django' = d /\ UNCHANGED driverCommits
      BY <2>1, <3>1 DEF Followed
    <3>2. CASE django' = [d EXCEPT !.autocommit = TRUE] /\ UNCHANGED driverCommits
      BY <2>1, <3>2 DEF Followed, Attributes
    <3>3. CASE OpenSession /\ django' = Connected(d)
      BY <3>3, ConnectedFacts DEF OpenSession
    <3>4. CASE ConnectFails(d)
      BY <3>4 DEF ConnectFails, Followed, Attributes
    <3>5. QED
      BY <1>6, <3>1, <3>2, <3>3, <3>4 DEF Finish
  <2>3. QED
    BY <1>3, <2>1, <2>2, FitsNoBlock DEF Followed
<1>7. QED
  BY <1>5, <1>6

\* Leaving a block: what is stored then is stored by an outermost block that ends
\* well, or by one that goes back to its savepoint.
LEMMA ExitFits ==
  ASSUME TypeInv, Followed, NEW ok \in BOOLEAN, Exit(ok)
  PROVE  /\ Followed'
         /\ blocks # <<>>
         /\ \E how : Left(how)
         /\ \/ UNCHANGED serverVars
            \/ ServerRollsBack
            \/ Depth = 1 /\ ServerCommits /\ outcome' # "undone"
            \/ Depth = 1 /\ \E sid : UndoSavepoint(sid)
            \/ Depth = 1 /\ \E sid : RollBackTo(sid)
<1> DEFINE undo == [Popped EXCEPT !.needsRollback = FALSE]
           marked(d) == [d EXCEPT !.needsRollback = TRUE]
           Steps == \/ UNCHANGED serverVars
                    \/ ServerRollsBack
                    \/ Depth = 1 /\ ServerCommits /\ outcome' # "undone"
                    \/ Depth = 1 /\ \E sid : UndoSavepoint(sid)
                    \/ Depth = 1 /\ \E sid : RollBackTo(sid)
<1>1. blocks # <<>>
  BY DEF Exit
<1>2. \A d \in {Popped, undo, marked(Popped), marked(undo)} :
        /\ d \in Attributes
        /\ d.sids = Popped.sids
        /\ d.inAtomic = Popped.inAtomic
        /\ d.commitOnExit = Popped.commitOnExit
  <2>1. Popped \in Attributes
    BY <1>1, PoppedFits
  <2>2. ASSUME NEW d \in Attributes, NEW b \in BOOLEAN
        PROVE  /\ [d EXCEPT !.needsRollback = b] \in Attributes
               /\ [d EXCEPT !.needsRollback = b].sids = d.sids
               /\ [d EXCEPT !.needsRollback = b].inAtomic = d.inAtomic
               /\ [d EXCEPT !.needsRollback = b].commitOnExit = d.commitOnExit
    BY MarkFacts
  <2>3. /\ undo \in Attributes /\ undo.sids = Popped.sids
        /\ undo.inAtomic = Popped.inAtomic /\ undo.commitOnExit = Popped.commitOnExit
    BY <2>1, <2>2
  <2> HIDE DEF undo
  <2>4. QED
    BY <2>1, <2>2, <2>3
<1>3. ASSUME NEW d \in {Popped, undo, marked(Popped), marked(undo)}, NEW how, Left(how),
             (\E left : Finish(left, d)) \/ (django' = d /\ UNCHANGED driverCommits)
      PROVE  Followed' /\ outcome' = how /\ \E h : Left(h)
  <2>1. outcome' = how
    BY <1>3 DEF Left
  <2>2. Followed'
    BY <1>1, <1>2, <1>3, FinishFits
  <2>3. QED
    BY <1>3, <2>1, <2>2
<1> HIDE DEF undo, marked
<1> DEFINE Ends == Followed' /\ (\E h : Left(h)) /\ Steps
<1>4. ASSUME ExitClosed(ok, Popped)
      PROVE  Ends
  BY <1>3, <1>4 DEF ExitClosed, serverVars
<1>5. ASSUME ExitMergedWell(Popped) \/ ExitMergedBadly(undo)
      PROVE  Ends
  BY <1>3, <1>5 DEF ExitMergedWell, ExitMergedBadly, marked
<1>6. ASSUME TopSid # NoSid, ExitSavepointWell(TopSid, Popped)
      PROVE  Ends
  <2>1. Depth = 1
    BY <1>1, <1>6, PoppedFits
  <2>2. CASE ReleaseSavepoint(TopSid) /\ Left("kept") /\ Finish(session, Popped)
    BY <1>3, <2>1, <2>2 DEF ReleaseSavepoint
  <2>3. CASE UndoSavepoint(TopSid) /\ Left("exit failed") /\ Finish(session, Popped)
    BY <1>3, <2>1, <2>3
  <2>4. CASE UndoFails(TopSid) /\ Left("exit failed") /\ Finish(session, marked(Popped))
    BY <1>3, <2>1, <2>4 DEF UndoFails
  <2>5. QED
    BY <1>6, <2>2, <2>3, <2>4 DEF ExitSavepointWell, marked
<1>7. ASSUME TopSid # NoSid, ExitSavepointBadly(TopSid, undo)
      PROVE  Ends
  <2>1. Depth = 1
    BY <1>1, <1>7, PoppedFits
  <2>2. CASE UndoSavepoint(TopSid) /\ Left("undone") /\ Finish(session, undo)
    BY <1>3, <2>1, <2>2
  <2>3. CASE UndoFails(TopSid) /\ Left("undone") /\ Finish(session, marked(undo))
    BY <1>3, <2>1, <2>3 DEF UndoFails
  <2>4. QED
    BY <1>7, <2>2, <2>3 DEF ExitSavepointBadly, marked
<1>8. ASSUME ~ Popped.inAtomic, ExitOutermostWell(Popped)
      PROVE  Ends
  <2>1. Depth = 1
    BY <1>1, <1>8, PoppedFits
  <2>2. CASE ServerCommits /\ Left("kept") /\ Finish(session, Popped)
    BY <1>3, <2>1, <2>2
  <2>3. CASE ServerRollsBack /\ Left("exit failed") /\ \E left : Finish(left, Popped)
    BY <1>3, <2>3
  <2>4. QED
    BY <1>8, <2>2, <2>3 DEF ExitOutermostWell
<1>9. ASSUME ExitOutermostBadly(undo)
      PROVE  Ends
  BY <1>3, <1>9 DEF ExitOutermostBadly
<1>10. Ends
  <2> HIDE DEF Ends
  <2>1. QED
    BY <1>4, <1>5, <1>6, <1>7, <1>8, <1>9 DEF Exit, undo
<1>11. QED
  BY <1>1, <1>10

\* Django follows the blocks of such programs, whoever opens the session.
LEMMA FollowedStep ==
  ASSUME Plain, TypeInv, Followed, [Next]_vars
  PROVE  Followed'
<1>1. django \in Attributes
  BY DEF TypeInv, TypeOK
<1>2. CASE CursorOpens
  BY <1>2, TransactionsAssumption
  DEF CursorOpens, Followed, Plain, TypeInv, TypeOK, ProgramKinds
<1>3. CASE Close
  <2>1. /\ UNCHANGED <<blocks, driverCommits>>
        /\ django'.sids = django.sids
        /\ django'.inAtomic = django.inAtomic
        /\ django'.commitOnExit = django.commitOnExit
    BY <1>1, <1>3 DEF Close, Attributes
  <2>2. QED
    BY <2>1, FitsSame DEF Followed
<1>4. CASE Break \/ UNCHANGED vars
  BY <1>4 DEF Break, vars, Followed
<1>5. ASSUME NEW w \in Writes, Work(w)
      PROVE  Followed'
  <2>1. /\ Len(blocks') = Len(blocks)
        /\ blocks' = <<>> <=> blocks = <<>>
    BY <1>5, WorkTyped DEF TypeInv, Work, Depth
  <2>2. QED
    BY <1>5, <2>1, FitsSame DEF Followed, Work
<1>6. QED
  BY <1>2, <1>3, <1>4, <1>5, EnterFits, ExitFits DEF Next

\* A transaction that ends takes its savepoints with it.
LEMMA ApartWhenEnded ==
  ASSUME saved' = <<>>, \A i \in 1..Len(blocks') : blocks'[i] \cap committed' = {}
  PROVE  Apart'
<1>1. DOMAIN <<>> = {}
  BY EmptySeq, LenProperties
<1>2. QED
  BY <1>1 DEF Apart, Depth

\* What is written is new, so that no savepoint and no other session has it.
LEMMA WorkApart ==
  ASSUME TypeInv, Followed, Apart, NEW w \in Writes, Work(w)
  PROVE  Apart'
<1>1. /\ w \notin committed /\ w \notin uncommitted
      /\ committed' = committed /\ saved' = saved /\ uncommitted' = uncommitted \cup {w}
  BY DEF Work, Followed
<1>2. Len(blocks') = Depth /\ TypeOK
  BY WorkTyped DEF TypeInv
<1>3. \A i \in 1..Depth : blocks'[i] \subseteq blocks[i] \cup {w}
  <2>1. CASE blocks = <<>>
    BY <2>1, EmptySeq DEF Depth
  <2>2. CASE blocks # <<>>
    <3>1. /\ Depth \in Nat \ {0}
          /\ blocks'[Depth] = blocks[Depth] \cup {w}
          /\ \A i \in 1..Depth - 1 : blocks'[i] = blocks[i]
      BY <1>2, <2>2, WorkTyped
    <3>2. \A i \in 1..Depth : i = Depth \/ i \in 1..Depth - 1
      BY <3>1
    <3>3. QED
      BY <3>1, <3>2
  <2>3. QED
    BY <2>1, <2>2
<1>4. QED
  BY <1>1, <1>2, <1>3 DEF Apart, Depth

\* A new block has written nothing.
LEMMA EnterApart ==
  ASSUME Plain, TypeInv, Followed, Apart, NEW savepoint \in BOOLEAN, Enter(savepoint)
  PROVE  Apart'
<1>1. blocks \in Seq(SUBSET Writes) /\ {} \in SUBSET Writes
  BY DEF TypeInv, TypeOK
<1>2. PICK n \in Nat : n = Depth
  BY <1>1, LenProperties DEF Depth
<1>3. ASSUME blocks' = Append(blocks, {})
      PROVE  /\ Len(blocks') = n + 1
             /\ \A i \in 1..n + 1 : blocks'[i] = {} \/ (i \in 1..n /\ blocks'[i] = blocks[i])
  <2>1. /\ Len(blocks') = n + 1
        /\ blocks'[n + 1] = {}
        /\ \A i \in 1..n : blocks'[i] = blocks[i]
    BY <1>1, <1>2, <1>3, AppendFacts DEF Depth
  <2>2. \A i \in 1..n + 1 : i = n + 1 \/ i \in 1..n
    OBVIOUS
  <2>3. QED
    BY <2>1, <2>2
<1>4. CASE blocks' = blocks /\ UNCHANGED serverVars
  BY <1>4 DEF Apart, serverVars, Depth
<1>5. CASE blocks' = Append(blocks, {}) /\ UNCHANGED serverVars
  BY <1>2, <1>3, <1>5 DEF Apart, serverVars, Depth
<1>6. CASE /\ blocks = <<>> /\ blocks' = Append(blocks, {})
           /\ UNCHANGED <<active, uncommitted, committed>>
           /\ saved' = Saved(1)
  <2>1. \A i \in 1..Len(blocks') : blocks'[i] = {}
    <3>1. n = 0
      BY <1>2, <1>6, EmptySeq DEF Depth
    <3>2. QED
      BY <1>3, <1>6, <3>1
  <2>2. /\ DOMAIN saved' \subseteq {1}
        /\ \A sid \in DOMAIN saved' : saved'[sid] \subseteq uncommitted
    BY <1>6 DEF Saved, Apart
  <2>3. QED
    BY <1>6, <2>1, <2>2 DEF Apart, Depth
<1>7. QED
  BY <1>4, <1>5, <1>6, EnterFits

\* A block that is left gives what it has written at most to the one around it.
LEMMA ExitApart ==
  ASSUME TypeInv, Followed, Apart, NEW ok \in BOOLEAN, Exit(ok)
  PROVE  Apart'
<1>1. TypeOK /\ blocks # <<>>
  BY ExitFits DEF TypeInv
<1>2. PICK how : Left(how)
  BY ExitFits
<1>3. /\ Depth \in Nat \ {0}
      /\ Len(blocks') = Depth - 1
      /\ \A i \in 1..Depth - 1 : blocks'[i] \subseteq blocks[i] \cup blocks[Depth]
  BY <1>1, <1>2, LeftFacts
<1>4. \A i \in 1..Len(blocks') :
        /\ i \in 1..Depth /\ Depth \in 1..Depth
        /\ blocks'[i] \subseteq blocks[i] \cup blocks[Depth]
  BY <1>3
<1>5. CASE UNCHANGED serverVars
  BY <1>4, <1>5 DEF Apart, serverVars, Depth
<1>6. CASE ServerRollsBack
  <2>1. \A i \in 1..Len(blocks') : blocks'[i] \cap committed' = {}
    BY <1>4, <1>6 DEF Apart, ServerRollsBack
  <2>2. QED
    BY <1>6, <2>1, ApartWhenEnded DEF ServerRollsBack, Ended
<1>7. CASE Depth = 1 /\ saved' = <<>>
  <2>1. 1..Len(blocks') = {}
    BY <1>3, <1>7
  <2>2. QED
    BY <1>7, <2>1, ApartWhenEnded
<1>8. ASSUME Depth = 1, NEW sid, RollBackTo(sid)
      PROVE  Apart'
  <2>1. 1..Len(blocks') = {}
    BY <1>3, <1>8
  <2>2. saved' = saved /\ sid \in DOMAIN saved /\ uncommitted' = saved[sid]
    BY <1>8 DEF RollBackTo
  <2>3. DOMAIN saved \subseteq {1}
    BY DEF Apart
  <2>4. \A t \in DOMAIN saved : saved[t] \subseteq saved[sid]
    BY <2>2, <2>3
  <2>5. QED
    BY <2>1, <2>2, <2>3, <2>4 DEF Apart, Depth
<1>9. QED
  BY <1>5, <1>6, <1>7, <1>8, ExitFits DEF ServerCommits, UndoSavepoint, Ended

\* What open blocks have written stays apart from what is stored.
LEMMA ApartStep ==
  ASSUME Plain, TypeInv, Followed, Apart, [Next]_vars
  PROVE  Apart'
<1>1. ASSUME ServerRollsBack, UNCHANGED blocks
      PROVE  Apart'
  BY <1>1, ApartWhenEnded DEF Apart, ServerRollsBack, Ended, Depth
<1>2. CASE Close \/ Break
  BY <1>1, <1>2 DEF Close, Break
<1>3. CASE CursorOpens \/ UNCHANGED vars
  BY <1>3 DEF CursorOpens, vars, serverVars, Apart, Depth
<1>4. QED
  BY <1>2, <1>3, WorkApart, EnterApart, ExitApart DEF Next

\* An outermost block that fails leaves nothing in the database, even on a session
\* that _cursor has opened (base.py:316-322), where Django begins it with SAVE
\* TRANSACTION and undoes it with ROLLBACK and COMMIT TRANSACTION
\* (operations.py:313-331); but for savepoints inside blocks and sessions in the
\* driver's autocommit mode.
THEOREM FailureGone == Spec => PlainFailureIsGone
<1>1. Init => Followed /\ Apart
  <2> SUFFICES ASSUME Init PROVE Followed /\ Apart
    OBVIOUS
  <2>1. Len(<<>>) = 0 /\ DOMAIN <<>> = {}
    BY EmptySeq, LenProperties
  <2>2. blocks = <<>> /\ saved = <<>> /\ django.sids = <<>> /\ ~ driverCommits
    BY DEF Init
  <2>3. Fits(django, blocks)
    BY <2>2, FitsNoBlock
  <2>4. QED
    BY <2>1, <2>2, <2>3 DEF Followed, Apart, Depth
<1>2. TypeInv /\ (Plain => Followed /\ Apart) /\ [Next]_vars => (Plain => Followed /\ Apart)'
  BY FollowedStep, ApartStep, ProgramStays DEF Plain
<1>3. ASSUME TypeInv, Plain => Followed /\ Apart, [Next]_vars, Plain, Depth = 1,
             Len(blocks') = 0, outcome' = "undone"
      PROVE  blocks[1] \cap committed' = {}
  <2>1. (\A ok \in BOOLEAN : ~ Exit(ok)) => Len(blocks') # 0
    <3>1. Depth # 0
      BY <1>3
    <3>2. ASSUME NEW w \in Writes, Work(w)
          PROVE  Len(blocks') # 0
      BY <1>3, <3>2, WorkTyped DEF TypeInv
    <3>3. ASSUME NEW savepoint \in BOOLEAN, Enter(savepoint)
          PROVE  Len(blocks') # 0
      <4>1. blocks \in Seq(SUBSET Writes) /\ {} \in SUBSET Writes
        BY <1>3 DEF TypeInv, TypeOK
      <4>2. Len(Append(blocks, {})) = 2 /\ Len(blocks) = 1
        <5>1. Len(blocks) = 1
          BY <1>3 DEF Depth
        <5>2. Len(Append(blocks, {})) = Len(blocks) + 1
          BY <4>1, AppendFacts
        <5>3. QED
          BY <5>1, <5>2
      <4>3. blocks' = blocks \/ blocks' = Append(blocks, {})
        BY <1>3, <3>3, EnterFits
      <4>4. CASE blocks' = blocks
        BY <4>2, <4>4
      <4>5. CASE blocks' = Append(blocks, {})
        BY <4>2, <4>5
      <4>6. QED
        BY <4>3, <4>4, <4>5
    <3>4. CASE CursorOpens \/ Close \/ Break \/ UNCHANGED vars
      BY <1>3, <3>4 DEF CursorOpens, Close, Break, vars, Depth
    <3>5. QED
      BY <1>3, <3>2, <3>3, <3>4 DEF Next
  <2>2. PICK ok \in BOOLEAN : Exit(ok)
    BY <1>3, <2>1
  <2>3. blocks[1] \cap committed = {} /\ 1 \in 1..Depth
    BY <1>3 DEF Apart
  <2>4. CASE UNCHANGED serverVars \/ ServerRollsBack \/ \E sid : RollBackTo(sid)
    BY <2>3, <2>4 DEF serverVars, ServerRollsBack, RollBackTo
  <2>5. ASSUME NEW sid, UndoSavepoint(sid)
        PROVE  blocks[1] \cap committed' = {}
    <3>1. sid \in DOMAIN saved /\ committed' = committed \cup saved[sid]
      BY <2>5 DEF UndoSavepoint
    <3>2. blocks[1] \cap saved[sid] = {}
      BY <1>3, <2>3, <3>1 DEF Apart
    <3>3. QED
      BY <2>3, <3>1, <3>2
  <2>6. QED
    BY <1>3, <2>2, <2>4, <2>5, ExitFits
<1>4. TypeInv /\ (Plain => Followed /\ Apart) /\ [Next]_vars =>
        (~ program.savepoints /\ ~ (program.cursors /\ program.autocommit) =>
           (Depth = 1 /\ Len(blocks') = 0 /\ outcome' = "undone" =>
              blocks[1] \cap committed' = {}))
  BY <1>3 DEF Plain
<1>5. QED
  BY <1>1, <1>2, <1>4, TypeInvariance, PTL DEF Spec, PlainFailureIsGone
=============================================================================
