---------------------- MODULE SnapshotPublicationProofs ----------------------
(***************************************************************************)
(* Theorems about SnapshotPublication for any number of runs, objects,     *)
(* contents and faults, and any assignment of objects to scopes.           *)
(***************************************************************************)
EXTENDS SnapshotPublication, TLAPS

(***************************************************************************)
(* The inductive invariant.  Whoever is inside a scope has the lock, so    *)
(* that nobody else changes the provenance between publish_one's look at   *)
(* it and COMMIT, or between COMMIT and the markers.                       *)
(***************************************************************************)
Inside == {"filtering", "publishing", "marking", "leaving"}

Locked == \A p \in Process : pc[p] \in Inside => lock = p

\* A transaction is empty until the run comes to publish.
Fresh ==
  \A p \in Process : pc[p] \notin {"publishing", "marking", "leaving"} =>
    done[p] = {} /\ pending[p] = Nothing

\* What is at hand for publication has a checksum.
Acquired ==
  \A p \in Process : \A o \in Object :
    o \in todo[p] \cup batch[p] \/ stage[p][o] \in {"fetched", "stored", "done"}
      => got[p][o] \in Content

\* The transaction writes the objects that have no provenance, and has found
\* the right one for the others.
Written ==
  \A p \in Process : pc[p] = "publishing" =>
    \A o \in Object :
      /\ pending[p][o] # None => prov[o] = None /\ o \in batch[p]
      /\ o \in done[p] /\ pending[p][o] = None => prov[o] = got[p][o]

Committed ==
  \A p \in Process : pc[p] = "marking" => \A o \in batch[p] : prov[o] = got[p][o]

IInv ==
  /\ Locked /\ Fresh /\ Acquired /\ Written /\ Committed
  /\ ExactlyOnce /\ MarkerImpliesIngested

----------------------------------------------------------------------------
(* COMMIT: what the transaction of p makes visible.                        *)

LEMMA DurableType ==
  ASSUME NEW p \in Process, TypeOK, MakeDurable(p)
  PROVE  prov' \in [Object -> Sha] /\ rows' \in [Object -> Seq(Content)]
BY DEF TypeOK, MakeDurable, Sha

LEMMA DurableSound ==
  ASSUME NEW p \in Process, TypeOK, IInv, pc[p] = "publishing", MakeDurable(p),
         UNCHANGED markers
  PROVE  /\ ExactlyOnce' /\ MarkerImpliesIngested'
         /\ \A o \in done[p] : prov'[o] = got[p][o]
<1> USE ContentAssumption DEF TypeOK, IInv, Written, Acquired, MakeDurable, Sha
<1>1. \A o \in Object : pending[p][o] # None => prov[o] = None /\ got[p][o] \in Content
  OBVIOUS
<1>2. ExactlyOnce'
  <2> SUFFICES ASSUME NEW o \in Object
               PROVE  Len(rows[o])' = IF prov'[o] = None THEN 0 ELSE 1
    BY DEF ExactlyOnce
  <2>1. CASE pending[p][o] = None
    BY <2>1 DEF ExactlyOnce
  <2>2. CASE pending[p][o] # None
    BY <1>1, <2>2 DEF ExactlyOnce
  <2>3. QED
    BY <2>1, <2>2
<1>3. MarkerImpliesIngested'
  BY <1>1 DEF MarkerImpliesIngested
<1>4. \A o \in done[p] : prov'[o] = got[p][o]
  OBVIOUS
<1>5. QED
  BY <1>2, <1>3, <1>4

LEMMA OthersOutside ==
  ASSUME NEW p \in Process, NEW q \in Process, IInv, pc[p] \in Inside, q # p
  PROVE  pc[q] \notin Inside
BY DEF IInv, Locked

----------------------------------------------------------------------------
(* Every step keeps the types and the invariant.                           *)

LEMMA TypeStep == TypeOK /\ IInv /\ [Next]_vars => TypeOK'
<1> SUFFICES ASSUME TypeOK, IInv, [Next]_vars PROVE TypeOK'
  OBVIOUS
<1> USE MaxFaultsAssumption, ContentAssumption DEF TypeOK, IInv, Acquired, Sha,
     Nothing, NoStage, PCs, Stages, world, run
<1>1. ASSUME NEW p \in Process, Start(p) PROVE TypeOK'
  BY <1>1 DEF Start
<1>2. ASSUME NEW p \in Process, Select(p) PROVE TypeOK'
  BY <1>2 DEF Select, Unpublished, Results
<1>3. ASSUME NEW p \in Process, NothingToPublish(p) PROVE TypeOK'
  BY <1>3 DEF NothingToPublish, Forget
<1>4. ASSUME NEW p \in Process, AcquisitionFails(p) PROVE TypeOK'
  BY <1>4 DEF AcquisitionFails, Forget
<1>5. ASSUME NEW p \in Process, EnterScope(p) PROVE TypeOK'
  BY <1>5 DEF EnterScope
<1>6. ASSUME NEW p \in Process, FilterAfterLock(p) PROVE TypeOK'
  BY <1>6 DEF FilterAfterLock, Unpublished
<1>7. ASSUME NEW p \in Process, BatchFails(p) PROVE TypeOK'
  BY <1>7 DEF BatchFails
<1>8. ASSUME NEW p \in Process, Commit(p) PROVE TypeOK'
  BY <1>8, DurableType DEF Commit
<1>9. ASSUME NEW p \in Process, CommitFails(p) PROVE TypeOK'
  <2>1. prov' \in [Object -> Sha] /\ rows' \in [Object -> Seq(Content)]
    <3>1. CASE MakeDurable(p)
      BY <3>1, DurableType
    <3>2. CASE UNCHANGED <<prov, rows>>
      BY <3>2
    <3>3. QED
      BY <1>9, <3>1, <3>2 DEF CommitFails
  <2>2. QED
    BY <1>9, <2>1 DEF CommitFails
<1>10. ASSUME NEW p \in Process, Mark(p) PROVE TypeOK'
  BY <1>10 DEF Mark
<1>11. ASSUME NEW p \in Process, LeaveScope(p) PROVE TypeOK'
  BY <1>11 DEF LeaveScope
<1>12. ASSUME NEW p \in Process, Finish(p) PROVE TypeOK'
  BY <1>12 DEF Finish, Forget
<1>13. ASSUME NEW p \in Process, Crash(p) PROVE TypeOK'
  BY <1>13 DEF Crash, Forget
<1>14. ASSUME NEW p \in Process, NEW o \in Object, Hit(p, o) PROVE TypeOK'
  BY <1>14 DEF Hit, LocalHit
<1>15. ASSUME NEW p \in Process, NEW o \in Object, Fetch(p, o) PROVE TypeOK'
  BY <1>15 DEF Fetch
<1>16. ASSUME NEW p \in Process, NEW o \in Object, Store(p, o) PROVE TypeOK'
  BY <1>16 DEF Store
<1>17. ASSUME NEW p \in Process, NEW o \in Object, Rotate(p, o) PROVE TypeOK'
  BY <1>17 DEF Rotate
<1>18. ASSUME NEW p \in Process, NEW o \in Object, RotateFails(p, o) PROVE TypeOK'
  BY <1>18 DEF RotateFails
<1>19. ASSUME NEW p \in Process, NEW o \in Object, PublishOne(p, o) PROVE TypeOK'
  BY <1>19 DEF PublishOne, Publishable, Readable
<1>20. ASSUME NEW o \in Object, SourceChanges(o) PROVE TypeOK'
  BY <1>20 DEF SourceChanges
<1>21. CASE UNCHANGED vars
  BY <1>21 DEF vars
<1>22. QED
  BY <1>1, <1>2, <1>3, <1>4, <1>5, <1>6, <1>7, <1>8, <1>9, <1>10, <1>11, <1>12, <1>13,
     <1>14, <1>15, <1>16, <1>17, <1>18, <1>19, <1>20, <1>21 DEF Next, Step

LEMMA IInvStep == TypeOK /\ IInv /\ [Next]_vars => IInv'
<1> SUFFICES ASSUME TypeOK, IInv, [Next]_vars PROVE IInv'
  OBVIOUS
<1> USE ContentAssumption DEF TypeOK, IInv, Locked, Fresh, Acquired, Written,
     Committed, ExactlyOnce, MarkerImpliesIngested, Sha, Nothing, NoStage, Inside,
     world, run
<1>1. ASSUME NEW p \in Process, Start(p) PROVE IInv'
  BY <1>1 DEF Start
<1>2. ASSUME NEW p \in Process, Select(p) PROVE IInv'
  <2>1. Locked'
    BY <1>2 DEF Select
  <2>2. Fresh'
    BY <1>2 DEF Select, AllAcquired
  <2>3. Acquired'
    BY <1>2 DEF Select, Unpublished, Results
  <2>4. Written' /\ Committed'
    BY <1>2 DEF Select
  <2>5. ExactlyOnce' /\ MarkerImpliesIngested'
    BY <1>2 DEF Select
  <2>6. QED
    BY <2>1, <2>2, <2>3, <2>4, <2>5
<1>3. ASSUME NEW p \in Process, NothingToPublish(p) PROVE IInv'
  BY <1>3 DEF NothingToPublish, Forget
<1>4. ASSUME NEW p \in Process, AcquisitionFails(p) PROVE IInv'
  BY <1>4 DEF AcquisitionFails, Forget
<1>5. ASSUME NEW p \in Process, EnterScope(p) PROVE IInv'
  <2>1. Locked'
    BY <1>5, ProcessAssumption DEF EnterScope
  <2>2. Fresh'
    BY <1>5 DEF EnterScope
  <2>3. Acquired'
    BY <1>5 DEF EnterScope
  <2>4. Written' /\ Committed'
    BY <1>5 DEF EnterScope
  <2>5. ExactlyOnce' /\ MarkerImpliesIngested'
    BY <1>5 DEF EnterScope
  <2>6. QED
    BY <2>1, <2>2, <2>3, <2>4, <2>5
<1>6. ASSUME NEW p \in Process, FilterAfterLock(p) PROVE IInv'
  <2>1. Locked' /\ Fresh'
    BY <1>6 DEF FilterAfterLock
  <2>2. Acquired'
    BY <1>6 DEF FilterAfterLock, Unpublished
  <2>3. pending[p] = Nothing /\ done[p] = {}
    BY <1>6 DEF FilterAfterLock
  <2>4. Written'
    BY <1>6, <2>3, OthersOutside DEF FilterAfterLock
  <2>5. Committed'
    BY <1>6 DEF FilterAfterLock
  <2>6. ExactlyOnce' /\ MarkerImpliesIngested'
    BY <1>6 DEF FilterAfterLock
  <2>7. QED
    BY <2>1, <2>2, <2>3, <2>4, <2>5, <2>6
<1>7. ASSUME NEW p \in Process, BatchFails(p) PROVE IInv'
  BY <1>7 DEF BatchFails
<1>8. ASSUME NEW p \in Process, Commit(p) PROVE IInv'
  <2>1. Locked' /\ Fresh' /\ Acquired'
    BY <1>8 DEF Commit
  <2>2. Written'
    BY <1>8, OthersOutside DEF Commit
  <2>3. done[p] = batch[p] /\ \A o \in done[p] : prov'[o] = got[p][o]
    BY <1>8, DurableSound DEF Commit
  <2>4. \A q \in Process : pc'[q] = "marking" => q = p
    BY <1>8, OthersOutside DEF Commit
  <2>5. Committed'
    BY <2>3, <2>4, <1>8 DEF Commit
  <2>6. ExactlyOnce' /\ MarkerImpliesIngested'
    BY <1>8, DurableSound DEF Commit
  <2>7. QED
    BY <2>1, <2>2, <2>3, <2>4, <2>5, <2>6
<1>9. ASSUME NEW p \in Process, CommitFails(p) PROVE IInv'
  <2>1. Locked' /\ Fresh' /\ Acquired'
    BY <1>9 DEF CommitFails
  <2>2. Written'
    BY <1>9, OthersOutside DEF CommitFails
  <2>3. Committed'
    BY <1>9, OthersOutside DEF CommitFails
  <2>4. MakeDurable(p) => ExactlyOnce' /\ MarkerImpliesIngested'
    BY <1>9, DurableSound DEF CommitFails
  <2>5. UNCHANGED <<prov, rows>> => ExactlyOnce' /\ MarkerImpliesIngested'
    BY <1>9 DEF CommitFails
  <2>6. MakeDurable(p) \/ UNCHANGED <<prov, rows>>
    BY <1>9 DEF CommitFails
  <2>7. QED
    BY <2>1, <2>2, <2>3, <2>4, <2>5, <2>6
<1>10. ASSUME NEW p \in Process, Mark(p) PROVE IInv'
  BY <1>10 DEF Mark
<1>11. ASSUME NEW p \in Process, LeaveScope(p) PROVE IInv'
  BY <1>11 DEF LeaveScope
<1>12. ASSUME NEW p \in Process, Finish(p) PROVE IInv'
  BY <1>12 DEF Finish, Forget
<1>13. ASSUME NEW p \in Process, Crash(p) PROVE IInv'
  BY <1>13 DEF Crash, Forget
<1>14. ASSUME NEW p \in Process, NEW o \in Object, Hit(p, o) PROVE IInv'
  BY <1>14 DEF Hit, LocalHit
<1>15. ASSUME NEW p \in Process, NEW o \in Object, Fetch(p, o) PROVE IInv'
  BY <1>15 DEF Fetch
<1>16. ASSUME NEW p \in Process, NEW o \in Object, Store(p, o) PROVE IInv'
  BY <1>16 DEF Store
<1>17. ASSUME NEW p \in Process, NEW o \in Object, Rotate(p, o) PROVE IInv'
  BY <1>17 DEF Rotate
<1>18. ASSUME NEW p \in Process, NEW o \in Object, RotateFails(p, o) PROVE IInv'
  BY <1>18 DEF RotateFails
<1>19. ASSUME NEW p \in Process, NEW o \in Object, PublishOne(p, o) PROVE IInv'
  BY <1>19 DEF PublishOne, Publishable, Readable
<1>20. ASSUME NEW o \in Object, SourceChanges(o) PROVE IInv'
  BY <1>20 DEF SourceChanges
<1>21. CASE UNCHANGED vars
  BY <1>21 DEF vars
<1>22. QED
  BY <1>1, <1>2, <1>3, <1>4, <1>5, <1>6, <1>7, <1>8, <1>9, <1>10, <1>11, <1>12, <1>13,
     <1>14, <1>15, <1>16, <1>17, <1>18, <1>19, <1>20, <1>21 DEF Next, Step

LEMMA Invariant == Spec => [](TypeOK /\ IInv)
<1>1. Init => TypeOK
  BY MaxFaultsAssumption DEF Init, TypeOK, Sha, Nothing, NoStage, PCs, Stages
<1>2. Init => IInv
  BY DEF Init, IInv, Locked, Fresh, Acquired, Written, Committed, ExactlyOnce,
         MarkerImpliesIngested, Nothing, NoStage, Inside
<1>3. QED
  BY <1>1, <1>2, TypeStep, IInvStep, PTL DEF Spec

----------------------------------------------------------------------------
(* The theorems.                                                           *)

(***************************************************************************)
(* Only contents are ever inserted into the table or marked as published,  *)
(* and every run's memory stays within the objects it discovered.          *)
(***************************************************************************)
THEOREM TypeCorrect == Spec => []TypeOK
BY Invariant, PTL

(***************************************************************************)
(* However many runs overlap, crash or lose the answer to COMMIT, the rows *)
(* of an object are in the table once, if it is ingested, or not at all.   *)
(***************************************************************************)
THEOREM ExactlyOnceTheorem == Spec => []ExactlyOnce
BY Invariant, PTL DEF IInv

(***************************************************************************)
(* The markers of the ledger are never ahead of DuckLake.                  *)
(***************************************************************************)
THEOREM MarkerTheorem == Spec => []MarkerImpliesIngested
BY Invariant, PTL DEF IInv

(***************************************************************************)
(* The overlapping runs implement the catalog that ingests each object     *)
(* once, in batches, and marks what it has ingested.                       *)
(***************************************************************************)
THEOREM Refinement == Spec => ImplementsSnapshotCatalog
<1>1. Init => Catalog!Init
  BY DEF Init, Nothing, Catalog!Init
<1>2. TypeOK /\ TypeOK' /\ IInv /\ IInv' /\ [Next]_vars => [Catalog!Next]_(Catalog!vars)
  <2> SUFFICES ASSUME TypeOK, TypeOK', IInv, IInv', [Next]_vars
               PROVE  Catalog!Next \/ UNCHANGED Catalog!vars
    OBVIOUS
  <2>1. ASSUME NEW p \in Process, MakeDurable(p), pc[p] = "publishing", UNCHANGED markers
        PROVE  Catalog!Next
    <3>1. PICK S \in SUBSET Object : S = {o \in Object : pending[p][o] # None}
      OBVIOUS
    <3>2. \A o \in S : prov[o] = None /\ got[p][o] \in Content
      BY <2>1, <3>1 DEF IInv, Written, Acquired
    <3>3. PICK sha \in [S -> Content] : sha = [o \in S |-> got[p][o]]
      BY <3>2
    <3>4. \A o \in Object :
            Len(rows'[o]) = IF o \in S THEN Len(rows[o]) + 1 ELSE Len(rows[o])
      BY <2>1, <3>1 DEF MakeDurable, TypeOK, Sha
    <3>5. Catalog!Append(S, sha)
      BY <2>1, <3>1, <3>2, <3>3, <3>4 DEF MakeDurable, Catalog!Append
    <3>6. QED
      BY <3>5, Zenon DEF Catalog!Next
  <2>2. ASSUME NEW p \in Process, Mark(p) PROVE Catalog!Next
    <3> DEFINE M == {<<o, got[p][o]>> : o \in batch[p]}
    <3>1. M \in SUBSET (Object \X Content)
      BY <2>2 DEF IInv, Acquired, TypeOK, Mark
    <3>2. \A m \in M : prov[m[1]] = m[2]
      BY <2>2 DEF IInv, Committed, Mark
    <3>3. Catalog!Mark(M)
      BY <2>2, <3>2 DEF Mark, Catalog!Mark
    <3> HIDE DEF M
    <3>4. QED
      BY <3>1, <3>3 DEF Catalog!Next
  <2>3. ASSUME UNCHANGED <<prov, rows, markers>> PROVE UNCHANGED Catalog!vars
    BY <2>3 DEF Catalog!vars
  <2>4. ASSUME NEW p \in Process, Commit(p) \/ CommitFails(p)
        PROVE  Catalog!Next \/ UNCHANGED Catalog!vars
    BY <2>1, <2>3, <2>4 DEF Commit, CommitFails
  <2>5. CASE \E p \in Process :
               \/ Start(p) \/ Select(p) \/ NothingToPublish(p) \/ AcquisitionFails(p)
               \/ EnterScope(p) \/ FilterAfterLock(p) \/ BatchFails(p)
               \/ LeaveScope(p) \/ Finish(p) \/ Crash(p)
    BY <2>3, <2>5 DEF Start, Select, NothingToPublish, AcquisitionFails, EnterScope,
         FilterAfterLock, BatchFails, LeaveScope, Finish, Crash, world
  <2>6. CASE \E p \in Process, o \in Object :
               \/ Hit(p, o) \/ Fetch(p, o) \/ Store(p, o) \/ Rotate(p, o)
               \/ RotateFails(p, o) \/ PublishOne(p, o)
    BY <2>3, <2>6 DEF Hit, Fetch, Store, Rotate, RotateFails, PublishOne, world
  <2>7. CASE \E o \in Object : SourceChanges(o)
    BY <2>3, <2>7 DEF SourceChanges
  <2>8. CASE UNCHANGED vars
    BY <2>3, <2>8 DEF vars, world
  <2>9. QED
    BY <2>2, <2>4, <2>5, <2>6, <2>7, <2>8 DEF Next, Step
<1>3. QED
  BY <1>1, <1>2, Invariant, PTL DEF Spec, ImplementsSnapshotCatalog, Catalog!Spec
=============================================================================
