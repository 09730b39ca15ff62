---------------------------- MODULE Transactions ----------------------------
(***************************************************************************)
(* Blocks of transaction.atomic() on a session of this backend.            *)
(*                                                                         *)
(* Django keeps its own idea of the session (autocommit, in_atomic_block,  *)
(* savepoint_ids, needs_rollback, commit_on_exit, closed_in_transaction)   *)
(* and acts on it through what the backend gives it: connect() and the     *)
(* overridden _cursor, a _set_autocommit that does nothing, the SQL of     *)
(* SAVE, COMMIT and ROLLBACK TRANSACTION, and errors that CursorWrapper    *)
(* turns into django.db.DatabaseError.                                     *)
(*                                                                         *)
(* The server is SQL Server with implicit transactions unless the driver   *)
(* is in autocommit mode: the first write begins a transaction, and COMMIT *)
(* TRANSACTION ignores the name that follows it.                           *)
(***************************************************************************)
EXTENDS Naturals, Sequences

CONSTANTS
  Writes,     \* statements that change a row of their own
  Programs,   \* the programs that may run, with their settings
  Faults,     \* whether statements fail and sessions break
  MaxDepth    \* bound on the number of open blocks

\* OPTIONS['autocommit']; whether the program uses a cursor when no session is
\* open (if not, a block always comes first); whether it asks for savepoints for
\* inner blocks; whether it writes outside every block, on an open session.
ProgramKinds ==
  [autocommit: BOOLEAN, cursors: BOOLEAN, savepoints: BOOLEAN, outside: BOOLEAN]

ASSUME TransactionsAssumption ==
  /\ Programs \subseteq ProgramKinds
  /\ Faults \in BOOLEAN
  /\ MaxDepth \in Nat

VARIABLES
  program,        \* the program that runs
  session,        \* self.connection: "none", "open", "broken" (the server has
                  \* dropped it) or "closed" (by close() inside a block)
  driverCommits,  \* the session is in the driver's autocommit mode
  django,         \* Django's attributes of the wrapper
  active,         \* the server has a transaction
  uncommitted,    \* its writes
  saved,          \* its savepoints: what was uncommitted when each was made
  committed,      \* the writes other sessions see
  blocks,         \* the open blocks: what each has written and kept
  outcome         \* how the last call ended

vars == <<program, session, driverCommits, django, active, uncommitted, saved, committed,
          blocks, outcome>>

serverVars == <<active, uncommitted, saved, committed>>

\* savepoint_ids holds None for a block without a savepoint.  A name is used once;
\* here it is the place in savepoint_ids, and SAVE forgets the names that no block
\* can use any more.
NoSid == 0
Sids  == 0..MaxDepth

Attributes == [autocommit: BOOLEAN, inAtomic: BOOLEAN, needsRollback: BOOLEAN,
               commitOnExit: BOOLEAN, closedInTransaction: BOOLEAN, sids: Seq(Sids)]

Depth == Len(blocks)

-----------------------------------------------------------------------------
(* The server.                                                             *)

Ended == active' = FALSE /\ uncommitted' = {} /\ saved' = <<>>

\* COMMIT, with or without a name.
ServerCommits ==
  /\ Ended
  /\ committed' = committed \cup uncommitted

ServerRollsBack ==
  /\ Ended
  /\ UNCHANGED committed

-----------------------------------------------------------------------------
(* Opening and closing.                                                    *)

\* Faulty: the autocommit option reaches pyodbc.connect.
OpenSessionWithOption ==
  /\ session' = "open"
  /\ driverCommits' = program.autocommit

\* get_new_connection with the parameters of get_connection_params, which drops
\* the option; _set_autocommit does nothing, so the driver's default stays.
OpenSession ==
  /\ session' = "open"
  /\ driverCommits' = FALSE

\* Faulty: a connect() that, like _cursor, tells Django nothing.
ConnectedSilently(d) == d

\* What Django's connect() makes of its attributes d.
Connected(d) ==
  [d EXCEPT !.autocommit = TRUE, !.inAtomic = FALSE, !.sids = <<>>,
            !.needsRollback = FALSE, !.closedInTransaction = FALSE]

\* connect() begins with resetting Django's attributes and then fails.
ConnectFails(d) ==
  /\ Faults
  /\ session' = "none"
  /\ django' = [d EXCEPT !.inAtomic = FALSE, !.sids = <<>>,
                         !.needsRollback = FALSE, !.closedInTransaction = FALSE]
  /\ UNCHANGED driverCommits

\* _cursor opens the session itself: the option counts, Django learns nothing.
\* The new cursor is used for reading nothing or a catalogue query.
CursorOpens ==
  /\ program.cursors
  /\ session = "none"
  /\ session' = "open"
  /\ driverCommits' = program.autocommit
  /\ outcome' = "ok"
  /\ UNCHANGED <<program, django, serverVars, blocks>>

\* connection.close(), called by the program.
Close ==
  /\ session \notin {"none", "closed"}
  /\ ~ django.closedInTransaction
  /\ ServerRollsBack
  /\ IF django.inAtomic
     THEN /\ session' = "closed"
          /\ django' = [django EXCEPT !.closedInTransaction = TRUE, !.needsRollback = TRUE]
     ELSE session' = "none" /\ UNCHANGED django
  /\ outcome' = "ok"
  /\ UNCHANGED <<program, driverCommits, blocks>>

\* The server ends the session; the client learns of it from the next error.
Break ==
  /\ Faults
  /\ session = "open"
  /\ session' = "broken"
  /\ ServerRollsBack
  /\ outcome' = "ok"
  /\ UNCHANGED <<program, driverCommits, django, blocks>>

\* cursor.execute of a write.  One that fails changes nothing.
Work(w) ==
  /\ session = "open"
  /\ blocks = <<>> => program.outside
  /\ w \notin committed \cup uncommitted
  /\ IF driverCommits
     THEN committed' = committed \cup {w} /\ UNCHANGED <<active, uncommitted, saved>>
     ELSE /\ active' = TRUE
          /\ uncommitted' = uncommitted \cup {w}
          /\ UNCHANGED <<saved, committed>>
  /\ blocks' = IF blocks = <<>> THEN blocks
               ELSE [blocks EXCEPT ![Depth] = @ \cup {w}]
  /\ outcome' = "ok"
  /\ UNCHANGED <<program, session, driverCommits, django>>

-----------------------------------------------------------------------------
(* Entering a block: Atomic.__enter__.                                     *)

Entered(d) ==
  /\ django' = d
  /\ blocks' = Append(blocks, {})
  /\ outcome' = "ok"

\* Faulty: savepoints are numbered from the one before.
SavedOffByOne(sid) == [s \in {sid - 1} |-> uncommitted]

Saved(sid) ==
  [s \in {sid} \cup {t \in DOMAIN saved : t < sid} |->
     IF s = sid THEN uncommitted ELSE saved[s]]

\* savepoint_create_sql: SAVE TRANSACTION sid, an error without a transaction.
SaveTransaction(d) ==
  LET sid == Len(d.sids) + 1
  IN  \/ /\ active
         /\ saved' = Saved(sid)
         /\ UNCHANGED <<active, uncommitted, committed>>
         /\ Entered([d EXCEPT !.sids = Append(@, sid)])
      \/ /\ ~ active \/ Faults
         /\ django' = d
         /\ outcome' = "enter failed"
         /\ UNCHANGED <<serverVars, blocks>>

\* Inside a transaction, or what Django takes for one.
EnterNested(savepoint, d) ==
  IF savepoint /\ ~ d.needsRollback
  THEN SaveTransaction(d)
  ELSE /\ Entered([d EXCEPT !.sids = Append(@, NoSid)])
       /\ UNCHANGED serverVars

\* A block that Django takes for the outermost: get_autocommit() opens a session
\* if there is none.  set_autocommit(False) sends nothing.
EnterOutermost(savepoint) ==
  LET reset == [django EXCEPT !.commitOnExit = TRUE, !.needsRollback = FALSE]
      d == IF session = "none" THEN Connected(reset) ELSE reset
  IN  /\ IF session = "none" THEN OpenSession ELSE UNCHANGED <<session, driverCommits>>
      /\ IF d.autocommit
         THEN /\ Entered([d EXCEPT !.autocommit = FALSE, !.inAtomic = TRUE])
              /\ UNCHANGED serverVars
         ELSE EnterNested(savepoint, [d EXCEPT !.inAtomic = TRUE, !.commitOnExit = FALSE])

Enter(savepoint) ==
  /\ Depth < MaxDepth
  /\ savepoint /\ Depth > 0 => program.savepoints
  /\ UNCHANGED program
  /\ \/ /\ django.inAtomic
        /\ EnterNested(savepoint, django)
        /\ UNCHANGED <<session, driverCommits>>
     \/ ~ django.inAtomic /\ EnterOutermost(savepoint)
     \/ /\ ~ django.inAtomic /\ session = "none"
        /\ ConnectFails(django)
        /\ outcome' = "enter failed"
        /\ UNCHANGED <<serverVars, blocks>>

-----------------------------------------------------------------------------
(* Leaving a block: Atomic.__exit__.                                       *)

Left(how) ==
  /\ outcome' = how
  /\ LET rest == SubSeq(blocks, 1, Depth - 1)
     IN  blocks' = IF how = "kept" /\ rest # <<>>
                   THEN [rest EXCEPT ![Depth - 1] = @ \cup blocks[Depth]]
                   ELSE rest

\* The end of __exit__ on a session that was not closed in the block:
\* set_autocommit(True), which opens a session if there is none left.
Finish(left, d) ==
  \/ /\ ~ d.inAtomic /\ left # "none"
     /\ session' = left
     /\ django' = [d EXCEPT !.autocommit = TRUE]
     /\ UNCHANGED driverCommits
  \/ ~ d.inAtomic /\ left = "none" /\ OpenSession /\ django' = Connected(d)
  \/ ~ d.inAtomic /\ left = "none" /\ ConnectFails(d)
  \/ /\ d.inAtomic
     /\ session' = left
     /\ django' = [d EXCEPT !.inAtomic = d.sids # <<>> \/ d.commitOnExit]
     /\ UNCHANGED driverCommits

\* A session closed in the block is given up with the last block.
ExitClosed(ok, d) ==
  /\ Left(IF session = "closed" THEN "closed" ELSE IF ok THEN "kept" ELSE "undone")
  /\ django' = d
  /\ IF ~ d.inAtomic \/ (d.sids = <<>> /\ ~ d.commitOnExit)
     THEN session' = "none" /\ ServerRollsBack
     ELSE UNCHANGED <<session, serverVars>>
  /\ UNCHANGED driverCommits

\* Faulty: savepoint_rollback_sql gives the SQL of a commit.
UndoSavepointByCommit(sid) ==
  /\ active
  /\ ServerCommits

\* savepoint_rollback_sql and then savepoint_commit_sql: ROLLBACK TRANSACTION
\* sid goes back to the savepoint, COMMIT TRANSACTION sid stores what is left.
UndoSavepoint(sid) ==
  /\ active
  /\ sid \in DOMAIN saved
  /\ committed' = committed \cup saved[sid]
  /\ Ended

\* ROLLBACK TRANSACTION sid alone.
RollBackTo(sid) ==
  /\ active
  /\ sid \in DOMAIN saved
  /\ uncommitted' = saved[sid]
  /\ UNCHANGED <<active, saved, committed>>

\* Faulty: savepoint_commit_sql gives the SQL of a rollback.
ReleaseSavepointByRollback(sid) == RollBackTo(sid)

\* savepoint_commit_sql: COMMIT TRANSACTION sid.
ReleaseSavepoint(sid) ==
  /\ active
  /\ ServerCommits

\* The undoing fails: at ROLLBACK TRANSACTION sid, or at the COMMIT TRANSACTION sid
\* behind it.
UndoFails(sid) ==
  \/ (~ active \/ sid \notin DOMAIN saved \/ Faults) /\ UNCHANGED serverVars
  \/ Faults /\ RollBackTo(sid)

\* COMMIT TRANSACTION sid; if it fails, the undoing.
ExitSavepointWell(sid, d) ==
  \/ ReleaseSavepoint(sid) /\ Left("kept") /\ Finish(session, d)
  \/ /\ Faults
     /\ UndoSavepoint(sid) /\ Left("exit failed") /\ Finish(session, d)
  \/ /\ ~ active \/ Faults
     /\ UndoFails(sid)
     /\ Left("exit failed")
     /\ Finish(session, [d EXCEPT !.needsRollback = TRUE])

ExitSavepointBadly(sid, d) ==
  \/ UndoSavepoint(sid) /\ Left("undone") /\ Finish(session, d)
  \/ /\ UndoFails(sid)
     /\ Left("undone")
     /\ Finish(session, [d EXCEPT !.needsRollback = TRUE])

\* connection.commit(); if it fails, rollback(), and if that fails, close().
ExitOutermostWell(d) ==
  \/ /\ session = "open"
     /\ ServerCommits /\ Left("kept") /\ Finish(session, d)
  \/ /\ session = "open" /\ Faults
     /\ ServerRollsBack /\ Left("exit failed") /\ Finish(session, d)
  \/ /\ session # "open" \/ Faults
     /\ ServerRollsBack /\ Left("exit failed") /\ Finish("none", d)

ExitOutermostBadly(d) ==
  \/ /\ session = "open"
     /\ ServerRollsBack /\ Left("undone") /\ Finish(session, d)
  \/ /\ session # "open" \/ Faults
     /\ ServerRollsBack /\ Left("undone") /\ Finish("none", d)

\* A block without a savepoint leaves the undoing to a block around it.
ExitMergedWell(d) ==
  /\ Left("kept")
  /\ Finish(session, d)
  /\ UNCHANGED serverVars

\* Faulty: nothing tells the block around it.
ExitMergedUnmarked(d) ==
  /\ Left("undone")
  /\ Finish(session, d)
  /\ UNCHANGED serverVars

ExitMergedBadly(d) ==
  /\ Left("undone")
  /\ Finish(session, [d EXCEPT !.needsRollback = TRUE])
  /\ UNCHANGED serverVars

\* The last of savepoint_ids, and the attributes without it; if there is none,
\* this is the outermost block.
TopSid == IF django.sids = <<>> THEN NoSid ELSE django.sids[Len(django.sids)]

Popped ==
  IF django.sids = <<>> THEN [django EXCEPT !.inAtomic = FALSE]
  ELSE [django EXCEPT !.sids = SubSeq(@, 1, Len(@) - 1)]

\* ok: whether the block ends without an exception.
Exit(ok) ==
  LET well == ok /\ ~ django.needsRollback
      undo == [Popped EXCEPT !.needsRollback = FALSE]
  IN  /\ blocks # <<>>
      /\ UNCHANGED program
      /\ \/ django.closedInTransaction /\ ExitClosed(ok, Popped)
         \/ /\ ~ django.closedInTransaction
            /\ Popped.inAtomic
            /\ \/ TopSid = NoSid /\ well /\ ExitMergedWell(Popped)
               \/ TopSid = NoSid /\ ~ well /\ ExitMergedBadly(undo)
               \/ TopSid # NoSid /\ well /\ ExitSavepointWell(TopSid, Popped)
               \/ TopSid # NoSid /\ ~ well /\ ExitSavepointBadly(TopSid, undo)
         \/ /\ ~ django.closedInTransaction
            /\ ~ Popped.inAtomic
            /\ \/ well /\ ExitOutermostWell(Popped)
               \/ ~ well /\ ExitOutermostBadly(undo)

Init ==
  /\ program \in Programs
  /\ session = "none"
  /\ driverCommits = FALSE
  /\ django = [autocommit |-> FALSE, inAtomic |-> FALSE, needsRollback |-> FALSE,
               commitOnExit |-> TRUE, closedInTransaction |-> FALSE, sids |-> <<>>]
  /\ active = FALSE
  /\ uncommitted = {}
  /\ saved = <<>>
  /\ committed = {}
  /\ blocks = <<>>
  /\ outcome = "ok"

Next ==
  \/ CursorOpens
  \/ Close
  \/ Break
  \/ \E w \in Writes : Work(w)
  \/ \E savepoint \in BOOLEAN : Enter(savepoint)
  \/ \E ok \in BOOLEAN : Exit(ok)

Spec == Init /\ [][Next]_vars

-----------------------------------------------------------------------------
(* Properties                                                              *)

\* The type of Django's attributes and the server's transaction; names of savepoints are
\* bounded by the depth of blocks (operations.py:313-331).
TypeOK ==
  /\ program \in Programs
  /\ session \in {"none", "open", "broken", "closed"}
  /\ driverCommits \in BOOLEAN
  /\ django \in Attributes
  /\ active \in BOOLEAN
  /\ uncommitted \subseteq Writes
  /\ DOMAIN saved \subseteq 1..MaxDepth
  /\ \A sid \in DOMAIN saved : saved[sid] \subseteq Writes
  /\ committed \subseteq Writes
  /\ blocks \in Seq(SUBSET Writes)
  /\ outcome \in {"ok", "kept", "undone", "closed", "enter failed", "exit failed"}

\* When a program that begins with blocks has left its last one, Django knows it,
\* whatever failed on the way: no later call takes itself for nested.
NoBlockLeftOpen ==
  blocks = <<>> /\ ~ program.cursors => ~ django.inAtomic /\ django.sids = <<>>

\* What an outermost block of such a program has written and kept is stored when
\* it ends well.
KeptIsStored ==
  [][~ program.cursors /\ Depth = 1 /\ Len(blocks') = 0 /\ outcome' = "kept" =>
       blocks[1] \subseteq committed']_vars

\* Nothing of an outermost block that fails is stored, even if _cursor has opened
\* its session, where Django begins the block with a savepoint; but for programs
\* that ask for savepoints inside blocks, and sessions in the driver's autocommit
\* mode.
PlainFailureIsGone ==
  [][~ program.savepoints /\ ~ (program.cursors /\ program.autocommit) =>
       (Depth = 1 /\ Len(blocks') = 0 /\ outcome' = "undone" =>
          blocks[1] \cap committed' = {})]_vars

\* The promise of atomic blocks: see AtomicStore.
Store == INSTANCE AtomicStore WITH
  stored  <- committed,
  pending <- uncommitted,
  depth   <- Depth,
  doomed  <- django.needsRollback /\ blocks # <<>>,
  lost    <- session \in {"closed", "broken"},
  kept    <- outcome = "kept"

\* A program that begins with blocks, writes in blocks alone and asks for no
\* savepoints inside them.
Promised == ~ program.cursors /\ ~ program.outside /\ ~ program.savepoints

\* Such a program implements AtomicStore: Promised => Store!Spec, said of each step
\* since the program never changes.
BlocksAreAtomic ==
  /\ Promised => Store!Init
  /\ [][Promised => Store!Next]_Store!vars

-----------------------------------------------------------------------------
(* What tests and comments say and the code does not do                    *)

\* transactions/tests.py:91-98: an outer block that fails takes back what an
\* inner one has written.
FailedBlockIsGone ==
  [][Depth = 1 /\ Len(blocks') = 0 /\ outcome' = "undone" => blocks[1] \cap committed' = {}]_vars

\* transactions/tests.py:394-404, transactions_regress/tests.py:338-343: by default
\* what is written outside every block is stored at once.
OutsideIsStored == blocks = <<>> => uncommitted = {}

\* transactions/tests.py:62-65: a block can be entered.
BlocksCanBeEntered == outcome # "enter failed"

\* transactions/tests.py:333-341: while a transaction is marked as needing a
\* rollback, queries are refused.
BrokenIsRefused ==
  [][django.needsRollback /\ django.inAtomic => uncommitted' \subseteq uncommitted]_vars
=============================================================================
