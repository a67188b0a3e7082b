-------------------------- MODULE DuckLakeSession --------------------------
(***************************************************************************)
(* ducklake/session.py: one DuckLakeSession and its nested transaction()   *)
(* blocks over one DuckDB connection.                                      *)
(*                                                                         *)
(* Nested blocks are logical: only the outermost one issues BEGIN, COMMIT  *)
(* and ROLLBACK; a block left by an exception makes the outermost one      *)
(* rollback-only.  The session's flags (depth, rollbackOnly, session) and  *)
(* the engine's transaction (engine, buffer, durable) are separate, since  *)
(* each of BEGIN, ROLLBACK and COMMIT can itself fail.                     *)
(***************************************************************************)
EXTENDS Naturals

CONSTANTS
  Write,    \* the writes that the code inside the blocks may make
  MaxDepth  \* bound on nesting; the publication code nests three blocks

ASSUME MaxDepthAssumption == MaxDepth \in Nat \ {0}

VARIABLES
  session,       \* "open", "poisoned" (connection closed for good), "closed"
  depth,         \* _transaction_depth
  rollbackOnly,  \* _transaction_rollback_only
  raising,       \* is an exception on its way out of the current block?
  engine,        \* DuckDB's transaction: "idle", "active" or "aborted"
  buffer,        \* its uncommitted writes
  durable,       \* the committed state
  doomed         \* history: did a block fail since the outermost one began?

sessionVars == <<session, depth, rollbackOnly>>
engineVars == <<engine, buffer, durable>>
vars == <<sessionVars, raising, engineVars, doomed>>

TypeOK ==
  /\ session \in {"open", "poisoned", "closed"}
  /\ depth \in 0..MaxDepth
  /\ rollbackOnly \in BOOLEAN
  /\ raising \in BOOLEAN
  /\ engine \in {"idle", "active", "aborted"}
  /\ buffer \subseteq Write
  /\ durable \subseteq Write
  /\ doomed \in BOOLEAN

Init ==
  /\ session = "open" /\ depth = 0 /\ rollbackOnly = FALSE
  /\ raising = FALSE
  /\ engine = "idle" /\ buffer = {} /\ durable = {}
  /\ doomed = FALSE

----------------------------------------------------------------------------
(* The engine.                                                             *)

Discard == engine' = "idle" /\ buffer' = {} /\ UNCHANGED durable

MakeDurable == engine' = "idle" /\ buffer' = {} /\ durable' = durable \cup buffer

----------------------------------------------------------------------------
(* Entering a block.                                                       *)

\* The outermost block: DuckDB refuses BEGIN inside a transaction that an
\* earlier, failed ROLLBACK has left open, and the block is not entered.
BeginOutermost ==
  /\ session = "open" /\ ~raising /\ depth = 0
  /\ \/ /\ engine = "idle"
        /\ engine' = "active"
        /\ depth' = 1
        /\ doomed' = FALSE
        /\ UNCHANGED raising
     \/ /\ raising' = TRUE
        /\ UNCHANGED <<engine, depth, doomed>>
  /\ UNCHANGED <<session, rollbackOnly, buffer, durable>>

\* A nested block counts, and nothing else.
BeginNested ==
  /\ session = "open" /\ ~raising /\ depth \in 1..(MaxDepth - 1)
  /\ depth' = depth + 1
  /\ UNCHANGED <<session, rollbackOnly, raising, engineVars, doomed>>

----------------------------------------------------------------------------
(* The code inside the blocks.                                             *)

\* A statement writes; outside a transaction DuckDB commits it on the spot.
Execute(w) ==
  /\ session = "open" /\ ~raising /\ depth > 0
  /\ w \notin durable \cup buffer
  /\ \/ engine = "active" /\ buffer' = buffer \cup {w} /\ UNCHANGED durable
     \/ engine = "idle" /\ durable' = durable \cup {w} /\ UNCHANGED buffer
  /\ UNCHANGED <<sessionVars, raising, engine, doomed>>

\* A statement or the code around it raises; DuckDB may abort its transaction.
Raise ==
  /\ session = "open" /\ ~raising /\ depth > 0
  /\ raising' = TRUE
  /\ engine' \in IF engine = "idle" THEN {"idle"} ELSE {engine, "aborted"}
  /\ UNCHANGED <<sessionVars, buffer, durable, doomed>>

\* Code between two blocks, or around the outermost one, catches it.
Catch ==
  /\ raising
  /\ raising' = FALSE
  /\ UNCHANGED <<sessionVars, engineVars, doomed>>

----------------------------------------------------------------------------
(* Leaving a block.                                                        *)

\* Mutant: ROLLBACK is issued at every depth.
FailNestedRollsBack ==
  /\ session = "open" /\ raising /\ depth > 1
  /\ depth' = depth - 1
  /\ rollbackOnly' = TRUE
  /\ doomed' = TRUE
  /\ Discard
  /\ UNCHANGED <<session, raising>>

\* An exception leaves a nested block: it marks the outermost one.
FailNested ==
  /\ session = "open" /\ raising /\ depth > 1
  /\ depth' = depth - 1
  /\ rollbackOnly' = TRUE
  /\ doomed' = TRUE
  /\ UNCHANGED <<session, raising, engineVars>>

\* Mutant: the flag is not reset when the outermost block fails.
FailOutermostStale ==
  /\ session = "open" /\ raising /\ depth = 1
  /\ depth' = 0
  /\ doomed' = TRUE
  /\ Discard \/ UNCHANGED engineVars
  /\ UNCHANGED <<session, rollbackOnly, raising>>

\* An exception leaves the outermost block: the flag is reset and the engine
\* rolls back, which may fail in its turn.
FailOutermost ==
  /\ session = "open" /\ raising /\ depth = 1
  /\ depth' = 0
  /\ rollbackOnly' = FALSE
  /\ doomed' = TRUE
  /\ Discard \/ UNCHANGED engineVars
  /\ UNCHANGED <<session, raising>>

\* Mutant: a nested block that ends normally is not counted down.
ExitNestedUncounted ==
  /\ session = "open" /\ ~raising /\ depth > 1
  /\ depth' = depth + 1
  /\ UNCHANGED <<session, rollbackOnly, raising, engineVars, doomed>>

\* A nested block ends normally.
ExitNested ==
  /\ session = "open" /\ ~raising /\ depth > 1
  /\ depth' = depth - 1
  /\ UNCHANGED <<session, rollbackOnly, raising, engineVars, doomed>>

\* The outermost block ends normally but a nested one had failed: it rolls
\* back, which may fail, and raises.
ExitRollbackOnly ==
  /\ session = "open" /\ ~raising /\ depth = 1 /\ rollbackOnly
  /\ depth' = 0
  /\ rollbackOnly' = FALSE
  /\ raising' = TRUE
  /\ Discard \/ UNCHANGED engineVars
  /\ UNCHANGED <<session, doomed>>

\* Mutant: a nested failure that was caught does not keep the rest.
ExitCommitAnyway ==
  /\ session = "open" /\ ~raising /\ depth = 1
  /\ engine = "active"
  /\ depth' = 0
  /\ rollbackOnly' = FALSE
  /\ MakeDurable
  /\ UNCHANGED <<session, raising, doomed>>

\* The outermost block ends normally and COMMIT succeeds.
ExitCommit ==
  /\ session = "open" /\ ~raising /\ depth = 1 /\ ~rollbackOnly
  /\ engine = "active"
  /\ depth' = 0
  /\ MakeDurable
  /\ UNCHANGED <<session, rollbackOnly, raising, doomed>>

\* COMMIT raises, whether or not the catalog has it, and ROLLBACK succeeds.
ExitCommitFails ==
  /\ session = "open" /\ ~raising /\ depth = 1 /\ ~rollbackOnly
  /\ depth' = 0
  /\ raising' = TRUE
  /\ Discard \/ (engine = "active" /\ MakeDurable)
  /\ UNCHANGED <<session, rollbackOnly, doomed>>

\* COMMIT raises, whether or not the catalog has it, and so does ROLLBACK:
\* the session is poisoned and its connection closed.
ExitPoisoned ==
  /\ session = "open" /\ ~raising /\ depth = 1 /\ ~rollbackOnly
  /\ depth' = 0
  /\ raising' = TRUE
  /\ session' = "poisoned"
  /\ Discard \/ (engine = "active" /\ MakeDurable)
  /\ UNCHANGED <<rollbackOnly, doomed>>

----------------------------------------------------------------------------
(* The session itself.                                                     *)

\* __exit__, around every block, or the end of the process at any point.
CloseSession ==
  /\ session # "closed"
  /\ session' = "closed"
  /\ depth' = 0 /\ rollbackOnly' = FALSE /\ raising' = FALSE
  /\ Discard
  /\ UNCHANGED doomed

\* The next scope, or the next run, opens a session of its own.
OpenSession ==
  /\ session = "closed"
  /\ session' = "open"
  /\ UNCHANGED <<depth, rollbackOnly, raising, engineVars, doomed>>

Next ==
  \/ BeginOutermost \/ BeginNested
  \/ Raise \/ Catch
  \/ FailNested \/ FailOutermost
  \/ ExitNested \/ ExitRollbackOnly
  \/ ExitCommit \/ ExitCommitFails \/ ExitPoisoned
  \/ CloseSession \/ OpenSession
  \/ \E w \in Write : Execute(w)

Spec == Init /\ [][Next]_vars

----------------------------------------------------------------------------
(* Properties.                                                             *)

(***************************************************************************)
(* The flag says exactly whether a block of the outermost one failed: it   *)
(* neither forgets a failure that was caught nor survives into the next    *)
(* transaction, which it would roll back for nothing.                      *)
(***************************************************************************)
FlagMeansFailure == rollbackOnly <=> (depth > 0 /\ doomed)

(***************************************************************************)
(* Inside a block statements run in the engine's transaction: none is ever *)
(* committed on its own, whatever failed and was caught before it.         *)
(***************************************************************************)
NeverAutocommits == depth > 0 => engine # "idle"

(***************************************************************************)
(* A block's writes are all-or-nothing, across nesting, caught failures,   *)
(* failing COMMIT and ROLLBACK statements and the end of the process.      *)
(***************************************************************************)
Block == INSTANCE AtomicTransaction
           WITH open <- depth > 0,
                work <- IF depth > 0 THEN buffer ELSE {},
                doomed <- depth > 0 /\ doomed

ImplementsAtomicTransaction == Block!Spec
============================================================================
