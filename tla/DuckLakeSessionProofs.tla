----------------------- MODULE DuckLakeSessionProofs -----------------------
(***************************************************************************)
(* Theorems about DuckLakeSession for any writes and any depth of nesting. *)
(***************************************************************************)
EXTENDS DuckLakeSession, TLAPS

(***************************************************************************)
(* The states of a session and of its engine are well typed; the depth     *)
(* never leaves the bound and never becomes negative.                      *)
(***************************************************************************)
THEOREM TypeCorrect == Spec => []TypeOK
<1>1. Init => TypeOK
  <2>1. 0 \in 0..MaxDepth
    BY MaxDepthAssumption
  <2>2. QED
    BY <2>1 DEF Init, TypeOK
<1>2. TypeOK /\ [Next]_vars => TypeOK'
  <2> SUFFICES ASSUME TypeOK, [Next]_vars PROVE TypeOK'
    OBVIOUS
  <2> DEFINE NatOK == depth \in Nat /\ MaxDepth \in Nat /\ 1 <= MaxDepth /\ depth <= MaxDepth
  <2>1. NatOK
    BY MaxDepthAssumption DEF TypeOK
  <2>2. 0 \in 0..MaxDepth /\ 1 \in 0..MaxDepth
    BY <2>1
  <2> USE DEF TypeOK, sessionVars, engineVars, Discard, MakeDurable
  <2>3. CASE BeginOutermost
    BY <2>2, <2>3 DEF BeginOutermost
  <2>4. CASE BeginNested
    <3>1. depth + 1 \in 0..MaxDepth
      BY <2>1, <2>4 DEF BeginNested
    <3>2. QED
      BY <2>4, <3>1 DEF BeginNested
  <2>5. ASSUME NEW w \in Write, Execute(w) PROVE TypeOK'
    BY <2>5 DEF Execute
  <2>6. CASE Raise
    BY <2>6 DEF Raise
  <2>7. CASE Catch
    BY <2>7 DEF Catch
  <2>8. depth > 1 => depth - 1 \in 0..MaxDepth
    BY <2>1
  <2>9. CASE FailNested \/ FailOutermost
    BY <2>2, <2>8, <2>9 DEF FailNested, FailOutermost
  <2>10. CASE ExitNested
    BY <2>8, <2>10 DEF ExitNested
  <2>11. CASE ExitRollbackOnly
    BY <2>2, <2>11 DEF ExitRollbackOnly
  <2>12. CASE ExitCommit
    BY <2>2, <2>12 DEF ExitCommit
  <2>13. CASE ExitCommitFails
    BY <2>2, <2>13 DEF ExitCommitFails
  <2>14. CASE ExitPoisoned
    BY <2>2, <2>14 DEF ExitPoisoned
  <2>15. CASE CloseSession
    BY <2>2, <2>15 DEF CloseSession
  <2>16. CASE OpenSession
    BY <2>16 DEF OpenSession
  <2>17. CASE UNCHANGED vars
    BY <2>17 DEF vars
  <2>18. QED
    BY <2>3, <2>4, <2>5, <2>6, <2>7, <2>9, <2>10, <2>11, <2>12, <2>13, <2>14,
       <2>15, <2>16, <2>17 DEF Next
<1>3. QED
  BY <1>1, <1>2, PTL DEF Spec

----------------------------------------------------------------------------
(* The inductive invariant: an open block has a session and a transaction  *)
(* of the engine, and an idle engine has nothing left to commit.           *)

BlockIsBacked == depth > 0 => session = "open" /\ engine # "idle"

IdleIsClean == engine = "idle" => buffer = {}

SessionInv == BlockIsBacked /\ IdleIsClean /\ FlagMeansFailure

LEMMA SessionInvInit == Init => SessionInv
BY DEF Init, SessionInv, BlockIsBacked, IdleIsClean, FlagMeansFailure

LEMMA SessionInvStep == TypeOK /\ SessionInv /\ [Next]_vars => SessionInv'
<1> SUFFICES ASSUME TypeOK, SessionInv, [Next]_vars PROVE SessionInv'
  OBVIOUS
<1> USE DEF TypeOK, SessionInv, BlockIsBacked, IdleIsClean, FlagMeansFailure,
            sessionVars, engineVars, Discard, MakeDurable
<1>1. CASE BeginOutermost \/ BeginNested
  BY <1>1 DEF BeginOutermost, BeginNested
<1>2. ASSUME NEW w \in Write, Execute(w) PROVE SessionInv'
  BY <1>2 DEF Execute
<1>3. CASE Raise \/ Catch
  BY <1>3 DEF Raise, Catch
<1>4. CASE FailNested \/ FailOutermost
  BY <1>4 DEF FailNested, FailOutermost
<1>5. CASE ExitNested \/ ExitRollbackOnly
  BY <1>5 DEF ExitNested, ExitRollbackOnly
<1>6. CASE ExitCommit \/ ExitCommitFails \/ ExitPoisoned
  BY <1>6 DEF ExitCommit, ExitCommitFails, ExitPoisoned
<1>7. CASE CloseSession \/ OpenSession
  BY <1>7 DEF CloseSession, OpenSession
<1>8. CASE UNCHANGED vars
  BY <1>8 DEF vars
<1>9. QED
  BY <1>1, <1>2, <1>3, <1>4, <1>5, <1>6, <1>7, <1>8 DEF Next

LEMMA SessionInvariant == Spec => [](TypeOK /\ SessionInv)
BY TypeCorrect, SessionInvInit, SessionInvStep, PTL DEF Spec

(***************************************************************************)
(* The rollback-only flag is the memory of a failure in the block that is  *)
(* open, at any depth, and of nothing else.                                *)
(***************************************************************************)
THEOREM FlagTheorem == Spec => []FlagMeansFailure
BY SessionInvariant, PTL DEF SessionInv

(***************************************************************************)
(* No statement inside a block is committed on its own.                    *)
(***************************************************************************)
THEOREM NeverAutocommitsTheorem == Spec => []NeverAutocommits
<1>1. SessionInv => NeverAutocommits
  BY DEF SessionInv, BlockIsBacked, NeverAutocommits
<1>2. QED
  BY <1>1, SessionInvariant, PTL

----------------------------------------------------------------------------
(* Refinement.                                                             *)

(***************************************************************************)
(* Nested blocks, a flag and three engine statements that may each fail    *)
(* implement one atomic transaction after another.                         *)
(***************************************************************************)
THEOREM Refinement == Spec => ImplementsAtomicTransaction
<1> USE DEF Block!vars
<1>1. Init => Block!Init
  BY DEF Init, Block!Init
<1>2. TypeOK /\ SessionInv /\ [Next]_vars => [Block!Next]_(Block!vars)
  <2> SUFFICES ASSUME TypeOK, SessionInv, [Next]_vars
               PROVE  Block!Next \/ UNCHANGED Block!vars
    OBVIOUS
  <2> USE DEF TypeOK, SessionInv, BlockIsBacked, IdleIsClean, FlagMeansFailure,
              sessionVars, engineVars, Discard, MakeDurable
  <2>1. CASE BeginOutermost
    BY <2>1 DEF BeginOutermost, Block!Next, Block!Open
  <2>2. ASSUME NEW w \in Write, Execute(w) PROVE Block!Next
    <3>1. Block!Do(w)
      BY <2>2 DEF Execute, Block!Do
    <3>2. QED
      BY <3>1 DEF Block!Next
  <2>3. CASE FailNested
    BY <2>3 DEF FailNested, Block!Next, Block!Doom
  <2>4. CASE FailOutermost \/ ExitRollbackOnly
    BY <2>4 DEF FailOutermost, ExitRollbackOnly, Block!Next, Block!Abort, Block!Close
  <2>5. CASE ExitCommit \/ ExitCommitFails \/ ExitPoisoned
    BY <2>5 DEF ExitCommit, ExitCommitFails, ExitPoisoned, Block!Next, Block!Abort,
                Block!Commit, Block!Close
  <2>6. CASE CloseSession
    BY <2>6 DEF CloseSession, Block!Next, Block!Abort, Block!Close
  <2>7. CASE BeginNested \/ Raise \/ Catch \/ ExitNested \/ OpenSession
    BY <2>7 DEF BeginNested, Raise, Catch, ExitNested, OpenSession
  <2>8. CASE UNCHANGED vars
    BY <2>8 DEF vars
  <2>9. QED
    BY <2>1, <2>2, <2>3, <2>4, <2>5, <2>6, <2>7, <2>8 DEF Next
<1>3. QED
  BY <1>1, <1>2, SessionInvariant, PTL DEF Spec, ImplementsAtomicTransaction, Block!Spec
============================================================================
