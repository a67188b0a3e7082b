--------------------------- MODULE RawLedgerProofs ---------------------------
(***************************************************************************)
(* Theorems about RawLedger for any number of processes, objects,          *)
(* contents, versions and faults.                                          *)
(***************************************************************************)
EXTENDS RawLedger, TLAPS

(***************************************************************************)
(* The inductive invariant.  A transaction that rotates has the lock of    *)
(* its object's row from the upsert on, so that nobody appends to the list *)
(* of versions between its SELECT and its COMMIT; what a process remembers *)
(* of an object is the number of a version there is, and a row is never    *)
(* visible before its first version.                                       *)
(***************************************************************************)
Rotating == {"locking", "listing", "inserting", "rotated"}
Writing == Rotating \cup {"hitting"}

HasObject == \A p \in Process : pc[p] \in Writing \cup {"touching"} => obj[p] \in Object

RowLocked ==
  /\ \A p \in Process : pc[p] \in Rotating => rowOwner[obj[p]] = p
  /\ \A p \in Process, o \in Object : rowOwner[o] = p => pc[p] \in Writing

\* Whatever o a process has met has a version.
Known ==
  /\ \A o \in raw_objects : Len(versions[o]) > 0
  /\ \A p \in Process :
       /\ \A o \in found[p] : Len(versions[o]) > 0
       /\ \A o \in Object : state[p][o] <= Len(versions[o]) /\ got[p][o] <= Len(versions[o])
       /\ pc[p] = "hitting" => state[p][obj[p]] # 0

BootLocked == \A p \in Process : pc[p] \in {"booting", "creating"} => bootOwner = p

ScopeLocked ==
  \A p \in Process :
    /\ pc[p] \in {"filtering", "marking"} => pubOwner = p
    /\ inserted[p] # {} => pc[p] = "marking"
    /\ inserted[p] \subseteq batch[p] /\ batch[p] \subseteq Acquired(p)

IInv ==
  /\ HasObject /\ RowLocked /\ Known /\ BootLocked /\ ScopeLocked
  /\ NoVersionConflict /\ TablesCreatedOnce

----------------------------------------------------------------------------
(* The log.                                                                *)

\* The next version of an object: the others keep theirs, and it keeps its own.
LEMMA LogGrows ==
  ASSUME NEW p \in Process, NEW c \in Content, TypeOK, obj[p] \in Object, NewVersion(p, c)
  PROVE  /\ versions' \in [Object -> Seq(Content)]
         /\ raw_objects' \subseteq Object
         /\ Len(versions'[obj[p]]) = Len(versions[obj[p]]) + 1
         /\ \A o \in Object : o # obj[p] => versions'[o] = versions[o]
         /\ \A o \in Object : Len(versions'[o]) >= Len(versions[o])
<1> USE DEF TypeOK, NewVersion
<1>1. versions[obj[p]] \in Seq(Content)
  OBVIOUS
<1>2. /\ Append(versions[obj[p]], c) \in Seq(Content)
      /\ Len(Append(versions[obj[p]], c)) = Len(versions[obj[p]]) + 1
  BY <1>1
<1>3. \A o \in Object : Len(versions[o]) \in Nat
  OBVIOUS
<1>4. QED
  BY <1>1, <1>2, <1>3

LEMMA LengthType ==
  /\ TypeOK => \A o \in Object : Len(versions[o]) \in Nat
  /\ TypeOK' => \A o \in Object : Len(versions'[o]) \in Nat
<1>1. ASSUME TypeOK, NEW o \in Object PROVE Len(versions[o]) \in Nat
  BY <1>1 DEF TypeOK
<1>2. ASSUME TypeOK', NEW o \in Object PROVE Len(versions'[o]) \in Nat
  BY <1>2 DEF TypeOK
<1>3. QED
  BY <1>1, <1>2

\* What a marker names.
LEMMA KeyNamesVersion ==
  ASSUME NEW p \in Process, NEW o \in batch[p], TypeOK, IInv
  PROVE  /\ o \in Object
         /\ got[p][o] \in DOMAIN versions[o]
         /\ versions[o][got[p][o]] \in Content
         /\ Key(p, o) = <<o, versions[o][got[p][o]]>>
<1>1. o \in Object /\ got[p][o] # 0
  BY DEF TypeOK, IInv, ScopeLocked, Acquired
<1>2. got[p][o] \in Nat /\ got[p][o] <= Len(versions[o]) /\ versions[o] \in Seq(Content)
  BY <1>1 DEF TypeOK, IInv, Known
<1>3. got[p][o] \in 1..Len(versions[o])
  BY <1>1, <1>2
<1>4. QED
  BY <1>1, <1>2, <1>3 DEF Key

\* The types of what the end of a transaction and the end of a run reset.
EndedOK ==
  /\ rowOwner \in [Object -> Process \cup {None}]
  /\ bootOwner \in Process \cup {None}
  /\ absent \in [Process -> BOOLEAN]
  /\ obj \in [Process -> Object \cup {None}]
  /\ found \in [Process -> SUBSET Object]
  /\ number \in [Process -> Nat]
  /\ inserted \in [Process -> SUBSET Object]
  /\ pc \in [Process -> PCs]

LeftOK ==
  /\ pubOwner \in Process \cup {None}
  /\ state \in [Process -> [Object -> Nat]]
  /\ got \in [Process -> [Object -> Nat]]
  /\ batch \in [Process -> SUBSET Object]

LEMMA EndType ==
  ASSUME NEW p \in Process, TypeOK, EndTransaction(p)
  PROVE  EndedOK'
BY DEF TypeOK, EndedOK, EndTransaction, Go, PCs

LEMMA LeaveType ==
  ASSUME NEW p \in Process, TypeOK, LeaveScope(p)
  PROVE  LeftOK'
BY DEF TypeOK, LeftOK, LeaveScope, NoNumbers

----------------------------------------------------------------------------
(* Every step keeps the types.                                             *)

LEMMA TypeStep == TypeOK /\ IInv /\ [Next]_vars => TypeOK'
<1> SUFFICES ASSUME TypeOK, IInv, [Next]_vars PROVE TypeOK'
  OBVIOUS
<1> USE BoundsAssumption DEF db, locks, memory, statement
<1>1. ASSUME NEW p \in Process, LockBootstrap(p) PROVE TypeOK'
  BY <1>1 DEF TypeOK, LockBootstrap, Go, PCs
<1>2. ASSUME NEW p \in Process, CheckTables(p) PROVE TypeOK'
  BY <1>2 DEF TypeOK, CheckTables, Go, PCs
<1>3. ASSUME NEW p \in Process, CommitTables(p) PROVE TypeOK'
  BY <1>3, EndType DEF TypeOK, EndedOK, CommitTables
<1>4. ASSUME NEW p \in Process, LoadObjects(p) PROVE TypeOK'
  BY <1>4 DEF TypeOK, LoadObjects, Go, PCs
<1>5. ASSUME NEW p \in Process, LoadVersions(p) PROVE TypeOK'
  <2>1. state' \in [Process -> [Object -> Nat]]
    <3>1. \A o \in Object : Len(versions[o]) \in Nat
      BY DEF TypeOK
    <3>2. [o \in Object |-> IF o \in found[p] THEN Len(versions[o]) ELSE 0] \in [Object -> Nat]
      BY <3>1
    <3>3. QED
      BY <1>5, <3>2 DEF TypeOK, LoadVersions, CurrentStates
  <2>2. QED
    BY <1>5, <2>1, EndType DEF TypeOK, EndedOK, LoadVersions
<1>6. ASSUME NEW p \in Process, NEW o \in Object, TouchHit(p, o) PROVE TypeOK'
  BY <1>6 DEF TypeOK, TouchHit, Go, PCs
<1>7. ASSUME NEW p \in Process, CommitHit(p) PROVE TypeOK'
  <2>1. obj[p] \in Object
    BY <1>7 DEF IInv, HasObject, CommitHit, Writing
  <2>2. got' \in [Process -> [Object -> Nat]] /\ raw_objects' \subseteq Object
    BY <1>7, <2>1 DEF TypeOK, CommitHit
  <2>3. QED
    BY <1>7, <2>2, EndType DEF TypeOK, EndedOK, CommitHit
<1>8. ASSUME NEW p \in Process, NEW o \in Object, BeginRotate(p, o) PROVE TypeOK'
  BY <1>8 DEF TypeOK, BeginRotate, Go, PCs
<1>9. ASSUME NEW p \in Process, Touch(p) PROVE TypeOK'
  BY <1>9 DEF TypeOK, Touch, Go, PCs
<1>10. ASSUME NEW p \in Process, LockRawObject(p) PROVE TypeOK'
  BY <1>10 DEF TypeOK, LockRawObject, Go, PCs
<1>11. ASSUME NEW p \in Process, ListVersions(p) PROVE TypeOK'
  <2>1. obj[p] \in Object
    BY <1>11 DEF IInv, HasObject, ListVersions, Writing, Rotating
  <2>2. Len(versions[obj[p]]) + 1 \in Nat
    BY <2>1 DEF TypeOK
  <2>3. QED
    BY <1>11, <2>2 DEF TypeOK, ListVersions, Go, PCs
<1>12. ASSUME NEW p \in Process, InsertVersion(p) PROVE TypeOK'
  BY <1>12 DEF TypeOK, InsertVersion, Go, PCs
<1>13. ASSUME NEW p \in Process, CommitRotate(p) PROVE TypeOK'
  <2>1. obj[p] \in Object
    BY <1>13 DEF IInv, HasObject, CommitRotate, Writing, Rotating
  <2>2. versions' \in [Object -> Seq(Content)] /\ raw_objects' \subseteq Object
    BY <1>13, <2>1, LogGrows DEF CommitRotate
  <2>3. got' \in [Process -> [Object -> Nat]]
    BY <1>13, <2>1 DEF TypeOK, CommitRotate
  <2>4. QED
    BY <1>13, <2>2, <2>3, EndType DEF TypeOK, EndedOK, CommitRotate
<1>14. ASSUME NEW p \in Process, EnterScope(p) PROVE TypeOK'
  BY <1>14 DEF TypeOK, EnterScope, Go, PCs
<1>15. ASSUME NEW p \in Process, FilterUnpublished(p) PROVE TypeOK'
  BY <1>15 DEF TypeOK, FilterUnpublished, Unmarked, Acquired, Go, PCs
<1>16. ASSUME NEW p \in Process, NothingUnpublished(p) PROVE TypeOK'
  BY <1>16, LeaveType DEF TypeOK, LeftOK, NothingUnpublished, Go, PCs
<1>17. ASSUME NEW p \in Process, NEW o \in Object, InsertMarker(p, o) PROVE TypeOK'
  BY <1>17 DEF TypeOK, InsertMarker
<1>18. ASSUME NEW p \in Process, CommitMarkers(p) PROVE TypeOK'
  <2>1. \A o \in batch[p] : Key(p, o) \in Object \X Content
    BY KeyNamesVersion
  <2>2. publications' \subseteq Object \X Content
    BY <1>18, <2>1 DEF TypeOK, CommitMarkers
  <2>3. EndedOK' /\ LeftOK'
    BY <1>18, EndType, LeaveType DEF CommitMarkers
  <2>4. QED
    BY <1>18, <2>2, <2>3 DEF TypeOK, EndedOK, LeftOK, CommitMarkers
<1>19. ASSUME NEW p \in Process, Fail(p) PROVE TypeOK'
  <2>1. EndedOK' /\ LeftOK'
    BY <1>19, EndType, LeaveType DEF Fail
  <2>2. faults' \in 0..MaxFaults /\ bootstrapped' \in [Process -> BOOLEAN]
    BY <1>19 DEF TypeOK, Fail
  <2>3. UNCHANGED db
    BY <1>19 DEF Fail
  <2>4. QED
    BY <2>1, <2>2, <2>3 DEF TypeOK, EndedOK, LeftOK
<1>20. ASSUME NEW p \in Process, CommitInDoubt(p) PROVE TypeOK'
  <2>1. obj[p] \in Object
    BY <1>20 DEF IInv, HasObject, CommitInDoubt, Writing, Rotating
  <2>2. versions' \in [Object -> Seq(Content)] /\ raw_objects' \subseteq Object
    BY <1>20, <2>1, LogGrows DEF CommitInDoubt
  <2>3. EndedOK' /\ LeftOK'
    BY <1>20, EndType, LeaveType DEF CommitInDoubt
  <2>4. faults' \in 0..MaxFaults /\ bootstrapped' \in [Process -> BOOLEAN]
    BY <1>20 DEF TypeOK, CommitInDoubt
  <2>5. UNCHANGED <<schema, publications>>
    BY <1>20 DEF CommitInDoubt
  <2>6. QED
    BY <2>2, <2>3, <2>4, <2>5 DEF TypeOK, EndedOK, LeftOK
<1>21. ASSUME NEW p \in Process, EndRun(p) PROVE TypeOK'
  BY <1>21 DEF TypeOK, EndRun, NoNumbers
<1>22. CASE UNCHANGED vars
  BY <1>22 DEF TypeOK, vars
<1>23. QED
  BY <1>1, <1>2, <1>3, <1>4, <1>5, <1>6, <1>7, <1>8, <1>9, <1>10, <1>11, <1>12, <1>13,
     <1>14, <1>15, <1>16, <1>17, <1>18, <1>19, <1>20, <1>21, <1>22 DEF Next, Statement

----------------------------------------------------------------------------
(* The creation of the tables: whoever looks for them has the lock.        *)

Boot == BootLocked /\ TablesCreatedOnce

\* A statement that is not of _bootstrap.
LEMMA BootFrame ==
  ASSUME NEW p \in Process, NEW s \in PCs \ {"booting", "creating"}, TypeOK, Boot,
         Go(p, s), UNCHANGED <<schema, bootOwner, absent>>
  PROVE  Boot'
BY DEF TypeOK, Boot, BootLocked, TablesCreatedOnce, Go, PCs

\* The end of a transaction; only that of the lock's holder creates tables.
LEMMA BootEnd ==
  ASSUME NEW p \in Process, TypeOK, Boot, EndTransaction(p),
         schema' = schema \/ pc[p] = "creating"
  PROVE  Boot'
<1>1. ASSUME NEW q \in Process, q # p, pc[q] \in {"booting", "creating"}
      PROVE  /\ bootOwner' = q
             /\ schema' = schema
  BY <1>1 DEF TypeOK, Boot, BootLocked, EndTransaction
<1>2. pc' = [pc EXCEPT ![p] = "idle"] /\ absent' = [absent EXCEPT ![p] = FALSE]
  BY DEF EndTransaction, Go
<1>3. QED
  BY <1>1, <1>2 DEF TypeOK, Boot, BootLocked, TablesCreatedOnce

LEMMA BootStep == TypeOK /\ Boot /\ [Next]_vars => Boot'
<1> SUFFICES ASSUME TypeOK, Boot, [Next]_vars PROVE Boot'
  OBVIOUS
<1> USE DEF db, locks, memory, statement
<1>1. ASSUME NEW p \in Process, LockBootstrap(p) PROVE Boot'
  BY <1>1, ProcessAssumption DEF TypeOK, Boot, BootLocked, TablesCreatedOnce, LockBootstrap, Go, PCs
<1>2. ASSUME NEW p \in Process, CheckTables(p) PROVE Boot'
  BY <1>2 DEF TypeOK, Boot, BootLocked, TablesCreatedOnce, CheckTables, Go, PCs
<1>3. ASSUME NEW p \in Process, CommitTables(p) PROVE Boot'
  BY <1>3, BootEnd DEF CommitTables
<1>4. ASSUME NEW p \in Process,
             \/ LoadVersions(p) \/ CommitHit(p) \/ CommitRotate(p) \/ CommitMarkers(p)
             \/ Fail(p) \/ CommitInDoubt(p)
      PROVE  Boot'
  <2>1. EndTransaction(p) /\ UNCHANGED schema
    BY <1>4 DEF LoadVersions, CommitHit, CommitRotate, CommitMarkers, Fail, CommitInDoubt
  <2>2. QED
    BY <2>1, BootEnd
<1>5. ASSUME NEW p \in Process,
             \/ LoadObjects(p) \/ Touch(p) \/ LockRawObject(p) \/ ListVersions(p)
             \/ InsertVersion(p) \/ EnterScope(p) \/ FilterUnpublished(p)
             \/ NothingUnpublished(p)
      PROVE  Boot'
  <2>1. /\ UNCHANGED <<schema, bootOwner, absent>>
        /\ \E s \in PCs \ {"booting", "creating"} : Go(p, s)
    BY <1>5 DEF LoadObjects, Touch, LockRawObject, ListVersions, InsertVersion, EnterScope,
                FilterUnpublished, NothingUnpublished, PCs
  <2>2. QED
    BY <2>1, BootFrame
<1>6. ASSUME NEW p \in Process, NEW o \in Object, TouchHit(p, o) \/ BeginRotate(p, o)
      PROVE  Boot'
  <2>1. /\ UNCHANGED <<schema, bootOwner, absent>>
        /\ \E s \in PCs \ {"booting", "creating"} : Go(p, s)
    BY <1>6 DEF TouchHit, BeginRotate, PCs
  <2>2. QED
    BY <2>1, BootFrame
<1>7. ASSUME NEW p \in Process, EndRun(p) PROVE Boot'
  BY <1>7 DEF Boot, BootLocked, TablesCreatedOnce, EndRun
<1>8. ASSUME NEW p \in Process, NEW o \in Object, InsertMarker(p, o) PROVE Boot'
  BY <1>8 DEF Boot, BootLocked, TablesCreatedOnce, InsertMarker
<1>9. CASE UNCHANGED vars
  BY <1>9 DEF Boot, BootLocked, TablesCreatedOnce, vars
<1>10. QED
  BY <1>1, <1>2, <1>3, <1>4, <1>5, <1>6, <1>7, <1>8, <1>9 DEF Next, Statement

----------------------------------------------------------------------------
(* The locks of rows.                                                      *)

Rows == HasObject /\ RowLocked

\* A statement that is neither before nor after one of a writing transaction.
LEMMA RowFrame ==
  ASSUME NEW p \in Process, NEW s \in PCs \ (Writing \cup {"touching"}), TypeOK, Rows,
         Go(p, s), pc[p] \notin Writing, UNCHANGED <<rowOwner, obj>>
  PROVE  Rows'
BY DEF TypeOK, Rows, HasObject, RowLocked, Go, Writing, Rotating

LEMMA RowEnd ==
  ASSUME NEW p \in Process, TypeOK, Rows, EndTransaction(p)
  PROVE  Rows'
<1>1. /\ pc' = [pc EXCEPT ![p] = "idle"]
      /\ obj' = [obj EXCEPT ![p] = None]
      /\ rowOwner' = [o \in Object |-> IF rowOwner[o] = p THEN None ELSE rowOwner[o]]
  BY DEF EndTransaction, Go
<1>2. HasObject'
  BY <1>1 DEF TypeOK, Rows, HasObject, Writing, Rotating
<1>3. ASSUME NEW q \in Process, pc'[q] \in Rotating PROVE rowOwner'[obj'[q]] = q
  <2>1. q # p /\ pc[q] \in Rotating /\ obj'[q] = obj[q]
    BY <1>1, <1>3 DEF TypeOK, Rotating
  <2>2. obj[q] \in Object /\ rowOwner[obj[q]] = q
    BY <2>1 DEF Rows, HasObject, RowLocked, Writing
  <2>3. QED
    BY <1>1, <2>1, <2>2
<1>4. ASSUME NEW q \in Process, NEW o \in Object, rowOwner'[o] = q PROVE pc'[q] \in Writing
  <2>1. q # p /\ rowOwner[o] = q
    BY <1>1, <1>4, ProcessAssumption
  <2>2. QED
    BY <1>1, <2>1 DEF TypeOK, Rows, RowLocked
<1>5. QED
  BY <1>2, <1>3, <1>4 DEF Rows, RowLocked

\* The owner of a row, or of a free one, goes on with it.
LEMMA RowTaken ==
  ASSUME NEW p \in Process, NEW o \in Object, NEW s \in Writing, TypeOK, Rows,
         CanLockRow(p, o), rowOwner' = [rowOwner EXCEPT ![o] = p], Go(p, s),
         obj' = [obj EXCEPT ![p] = o]
  PROVE  Rows'
<1>1. pc' = [pc EXCEPT ![p] = s]
  BY DEF Go
<1>2. HasObject'
  BY <1>1 DEF TypeOK, Rows, HasObject, Writing, Rotating
<1>3. ASSUME NEW q \in Process, pc'[q] \in Rotating PROVE rowOwner'[obj'[q]] = q
  <2>1. CASE q = p
    BY <2>1 DEF TypeOK
  <2>2. CASE q # p
    <3>1. pc[q] \in Rotating /\ obj'[q] = obj[q]
      BY <1>1, <1>3, <2>2 DEF TypeOK
    <3>2. obj[q] \in Object /\ rowOwner[obj[q]] = q
      BY <3>1 DEF Rows, HasObject, RowLocked, Writing
    <3>3. obj[q] # o
      BY <2>2, <3>2, ProcessAssumption DEF CanLockRow
    <3>4. QED
      BY <3>1, <3>2, <3>3 DEF TypeOK
  <2>3. QED
    BY <2>1, <2>2
<1>4. ASSUME NEW q \in Process, NEW r \in Object, rowOwner'[r] = q PROVE pc'[q] \in Writing
  BY <1>1, <1>4 DEF TypeOK, Rows, RowLocked
<1>5. QED
  BY <1>2, <1>3, <1>4 DEF Rows, RowLocked

LEMMA RowStep == TypeOK /\ Rows /\ [Next]_vars => Rows'
<1> SUFFICES ASSUME TypeOK, Rows, [Next]_vars PROVE Rows'
  OBVIOUS
<1> USE DEF db, locks, memory, statement
<1>1. ASSUME NEW p \in Process, NEW o \in Object, TouchHit(p, o) PROVE Rows'
  BY <1>1, RowTaken DEF TouchHit, Writing
<1>2. ASSUME NEW p \in Process, NEW o \in Object, BeginRotate(p, o) PROVE Rows'
  BY <1>2 DEF TypeOK, Rows, HasObject, RowLocked, BeginRotate, Go, Writing, Rotating
<1>3. ASSUME NEW p \in Process, Touch(p) \/ LockRawObject(p) PROVE Rows'
  <2>1. obj[p] \in Object /\ CanLockRow(p, obj[p])
    BY <1>3 DEF Rows, HasObject, Touch, LockRawObject, Writing, Rotating
  <2>2. rowOwner' = [rowOwner EXCEPT ![obj[p]] = p] /\ obj' = [obj EXCEPT ![p] = obj[p]]
    BY <1>3 DEF TypeOK, Touch, LockRawObject
  <2>3. \E s \in Rotating : Go(p, s)
    BY <1>3 DEF Touch, LockRawObject, Rotating
  <2>4. QED
    BY <2>1, <2>2, <2>3, RowTaken DEF Writing
<1>4. ASSUME NEW p \in Process, ListVersions(p) \/ InsertVersion(p) PROVE Rows'
  <2>1. pc[p] \in Rotating /\ UNCHANGED <<rowOwner, obj>> /\ \E s \in Rotating : Go(p, s)
    BY <1>4 DEF ListVersions, InsertVersion, Rotating
  <2>2. QED
    BY <2>1 DEF TypeOK, Rows, HasObject, RowLocked, Go, Writing
<1>5. ASSUME NEW p \in Process,
             \/ CommitTables(p) \/ LoadVersions(p) \/ CommitHit(p) \/ CommitRotate(p)
             \/ CommitMarkers(p) \/ Fail(p) \/ CommitInDoubt(p)
      PROVE  Rows'
  <2>1. EndTransaction(p)
    BY <1>5 DEF CommitTables, LoadVersions, CommitHit, CommitRotate, CommitMarkers, Fail,
                CommitInDoubt
  <2>2. QED
    BY <2>1, RowEnd
<1>6. ASSUME NEW p \in Process,
             \/ LockBootstrap(p) \/ CheckTables(p) \/ LoadObjects(p) \/ EnterScope(p)
             \/ FilterUnpublished(p) \/ NothingUnpublished(p)
      PROVE  Rows'
  <2>1. /\ UNCHANGED <<rowOwner, obj>> /\ pc[p] \notin Writing
        /\ \E s \in PCs \ (Writing \cup {"touching"}) : Go(p, s)
    BY <1>6 DEF LockBootstrap, CheckTables, LoadObjects, EnterScope, FilterUnpublished,
                NothingUnpublished, PCs, Writing, Rotating
  <2>2. QED
    BY <2>1, RowFrame
<1>7. ASSUME NEW p \in Process, EndRun(p) PROVE Rows'
  BY <1>7 DEF Rows, HasObject, RowLocked, EndRun
<1>8. ASSUME NEW p \in Process, NEW o \in Object, InsertMarker(p, o) PROVE Rows'
  BY <1>8 DEF Rows, HasObject, RowLocked, InsertMarker
<1>9. CASE UNCHANGED vars
  BY <1>9 DEF Rows, HasObject, RowLocked, vars
<1>10. QED
  BY <1>1, <1>2, <1>3, <1>4, <1>5, <1>6, <1>7, <1>8, <1>9 DEF Next, Statement

----------------------------------------------------------------------------
(* What processes know of the log.                                         *)

Log == Known /\ NoVersionConflict

\* Whatever a step does to the log, no list another process rotates from changes.
OthersKeep(p) ==
  /\ \A o \in Object : Len(versions'[o]) >= Len(versions[o])
  /\ \A q \in Process \ {p} : pc[q] \in {"inserting", "rotated"} =>
       Len(versions'[obj[q]]) = Len(versions[obj[q]])
  /\ \A q \in Process \ {p} : state'[q] = state[q] /\ got'[q] = got[q]

\* A process that has nothing of its own on its way leaves the others' knowledge true.
LEMMA LogEnd ==
  ASSUME NEW p \in Process, TypeOK, TypeOK', Rows, Log, EndTransaction(p), OthersKeep(p),
         \A o \in raw_objects' : Len(versions'[o]) > 0,
         \A o \in Object : /\ state'[p][o] <= Len(versions'[o])
                           /\ got'[p][o] <= Len(versions'[o])
  PROVE  Log'
<1>1. /\ pc' = [pc EXCEPT ![p] = "idle"]
      /\ obj' = [obj EXCEPT ![p] = None]
      /\ found' = [found EXCEPT ![p] = {}]
      /\ number' = [number EXCEPT ![p] = 0]
  BY DEF EndTransaction, Go
<1>2. \A o \in Object : Len(versions[o]) \in Nat /\ Len(versions'[o]) \in Nat
  BY LengthType
<1>3. ASSUME NEW q \in Process, q # p
      PROVE  /\ \A o \in found'[q] : Len(versions'[o]) > 0
             /\ \A o \in Object : /\ state'[q][o] <= Len(versions'[o])
                                  /\ got'[q][o] <= Len(versions'[o])
             /\ pc'[q] = "hitting" => state'[q][obj'[q]] # 0
             /\ pc'[q] \in {"inserting", "rotated"} => number'[q] = Len(versions'[obj'[q]]) + 1
  <2>1. /\ pc'[q] = pc[q] /\ obj'[q] = obj[q] /\ found'[q] = found[q]
        /\ number'[q] = number[q] /\ state'[q] = state[q] /\ got'[q] = got[q]
    BY <1>1, <1>3 DEF TypeOK, OthersKeep
  <2>2. /\ \A o \in Object : Len(versions'[o]) >= Len(versions[o])
        /\ pc[q] \in {"inserting", "rotated"} =>
             Len(versions'[obj[q]]) = Len(versions[obj[q]])
    BY <1>3 DEF OthersKeep
  <2>3. /\ \A o \in found[q] : o \in Object /\ Len(versions[o]) > 0
        /\ \A o \in Object : /\ state[q][o] \in Nat /\ state[q][o] <= Len(versions[o])
                             /\ got[q][o] \in Nat /\ got[q][o] <= Len(versions[o])
    BY DEF TypeOK, Log, Known
  <2>4. /\ pc[q] = "hitting" => state[q][obj[q]] # 0
        /\ pc[q] \in {"inserting", "rotated"} => number[q] = Len(versions[obj[q]]) + 1
    BY DEF Log, Known, NoVersionConflict
  <2>5. \A o \in found'[q] : Len(versions'[o]) > 0
    BY <1>2, <2>1, <2>2, <2>3
  <2>6. \A o \in Object : state'[q][o] <= Len(versions'[o]) /\ got'[q][o] <= Len(versions'[o])
    BY <1>2, <2>1, <2>2, <2>3
  <2>7. QED
    BY <2>1, <2>2, <2>4, <2>5, <2>6
<1>4. pc'[p] = "idle" /\ found'[p] = {}
  BY <1>1 DEF TypeOK
<1>5. Known'
  BY <1>3, <1>4 DEF Known
<1>6. NoVersionConflict'
  BY <1>3, <1>4 DEF NoVersionConflict
<1>7. QED
  BY <1>5, <1>6 DEF Log

\* The next version of an object is no other rotation's business.
LEMMA RotationAlone ==
  ASSUME NEW p \in Process, NEW c \in Content, TypeOK, Rows, Log, pc[p] = "rotated",
         NewVersion(p, c)
  PROVE  /\ obj[p] \in Object
         /\ number[p] = Len(versions'[obj[p]])
         /\ \A o \in Object : Len(versions'[o]) >= Len(versions[o])
         /\ \A o \in raw_objects' : Len(versions'[o]) > 0
         /\ \A q \in Process \ {p} : pc[q] \in {"inserting", "rotated"} =>
              Len(versions'[obj[q]]) = Len(versions[obj[q]])
<1>1. obj[p] \in Object /\ rowOwner[obj[p]] = p
  BY DEF Rows, HasObject, RowLocked, Writing, Rotating
<1>2. number[p] = Len(versions[obj[p]]) + 1
  BY DEF Log, NoVersionConflict
<1>3. \A o \in Object : Len(versions[o]) \in Nat /\ Len(versions'[o]) >= Len(versions[o])
  BY <1>1, LengthType, LogGrows
<1>4. /\ Len(versions'[obj[p]]) = Len(versions[obj[p]]) + 1
      /\ \A o \in Object : o # obj[p] => versions'[o] = versions[o]
  BY <1>1, LogGrows
<1>5. \A o \in raw_objects' : Len(versions'[o]) > 0
  <2>1. \A o \in raw_objects : o \in Object /\ Len(versions[o]) > 0
    BY DEF TypeOK, Log, Known
  <2>2. \A o \in raw_objects' : o \in raw_objects \/ o = obj[p]
    BY DEF NewVersion
  <2>3. QED
    BY <1>1, <1>3, <1>4, <2>1, <2>2
<1>6. ASSUME NEW q \in Process \ {p}, pc[q] \in {"inserting", "rotated"}
      PROVE  Len(versions'[obj[q]]) = Len(versions[obj[q]])
  <2>1. obj[q] \in Object /\ rowOwner[obj[q]] = q
    BY <1>6 DEF Rows, HasObject, RowLocked, Writing, Rotating
  <2>2. obj[q] # obj[p]
    BY <1>1, <2>1
  <2>3. QED
    BY <1>4, <2>1, <2>2
<1>7. QED
  BY <1>1, <1>2, <1>3, <1>4, <1>5, <1>6

\* A statement after which p is not about to write what it remembers.
LEMMA LogFrame ==
  ASSUME NEW p \in Process, NEW s \in PCs \ {"hitting", "inserting", "rotated"},
         TypeOK, Log, Go(p, s), UNCHANGED <<db, memory, number>>,
         \A q \in Process \ {p} : obj'[q] = obj[q],
         found' = found \/ found' = [found EXCEPT ![p] = raw_objects]
  PROVE  Log'
BY DEF TypeOK, Log, Known, NoVersionConflict, Go, db, memory

\* The end of a transaction that has nothing to say about objects.
LEMMA LogEndQuiet ==
  ASSUME NEW p \in Process, TypeOK, TypeOK', Rows, Log, EndTransaction(p),
         UNCHANGED <<raw_objects, versions>>,
         \A q \in Process \ {p} : state'[q] = state[q] /\ got'[q] = got[q],
         \A o \in Object : /\ state'[p][o] <= Len(versions[o])
                           /\ got'[p][o] <= Len(versions[o])
  PROVE  Log'
<1>1. \A o \in Object : Len(versions[o]) \in Nat
  BY LengthType
<1>2. OthersKeep(p)
  BY <1>1 DEF OthersKeep
<1>3. \A o \in raw_objects' : Len(versions'[o]) > 0
  BY DEF Log, Known
<1>4. QED
  BY <1>2, <1>3, LogEnd

LEMMA LogStep == TypeOK /\ TypeOK' /\ Rows /\ Log /\ [Next]_vars => Log'
<1> SUFFICES ASSUME TypeOK, TypeOK', Rows, Log, [Next]_vars PROVE Log'
  OBVIOUS
<1> USE DEF locks, statement
<1>1. ASSUME NEW p \in Process,
             \/ LockBootstrap(p) \/ CheckTables(p) \/ LoadObjects(p) \/ Touch(p)
             \/ LockRawObject(p) \/ EnterScope(p)
      PROVE  Log'
  <2>1. /\ UNCHANGED <<db, memory, number, obj>>
        /\ found' = found \/ found' = [found EXCEPT ![p] = raw_objects]
        /\ \E s \in PCs \ {"hitting", "inserting", "rotated"} : Go(p, s)
    BY <1>1 DEF LockBootstrap, CheckTables, LoadObjects, Touch, LockRawObject, EnterScope, PCs
  <2>2. QED
    BY <2>1, LogFrame
<1>2. ASSUME NEW p \in Process, NEW o \in Object, BeginRotate(p, o) PROVE Log'
  BY <1>2, LogFrame DEF BeginRotate, PCs, TypeOK
<1>3. ASSUME NEW p \in Process, NEW o \in Object, TouchHit(p, o) PROVE Log'
  BY <1>3 DEF TypeOK, Log, Known, NoVersionConflict, TouchHit, Go, db, memory
<1>4. ASSUME NEW p \in Process, ListVersions(p) PROVE Log'
  BY <1>4 DEF TypeOK, Log, Known, NoVersionConflict, ListVersions, Go, db, memory
<1>5. ASSUME NEW p \in Process, InsertVersion(p) PROVE Log'
  BY <1>5 DEF TypeOK, Log, Known, NoVersionConflict, InsertVersion, Go, db, memory
<1>6. ASSUME NEW p \in Process, NEW o \in Object, InsertMarker(p, o) PROVE Log'
  BY <1>6 DEF Log, Known, NoVersionConflict, InsertMarker, db, memory
<1>7. ASSUME NEW p \in Process, FilterUnpublished(p) PROVE Log'
  BY <1>7 DEF TypeOK, Log, Known, NoVersionConflict, FilterUnpublished, Go, db
<1>8. ASSUME NEW p \in Process, CommitTables(p) PROVE Log'
  <2>1. EndTransaction(p) /\ UNCHANGED <<raw_objects, versions, state, got>>
    BY <1>8 DEF CommitTables, memory
  <2>2. QED
    BY <2>1, LogEndQuiet DEF Log, Known
<1>9. ASSUME NEW p \in Process, LoadVersions(p) PROVE Log'
  <2>1. EndTransaction(p) /\ UNCHANGED <<raw_objects, versions, got>>
    BY <1>9 DEF LoadVersions, db
  <2>2. \A q \in Process \ {p} : state'[q] = state[q]
    BY <1>9 DEF TypeOK, LoadVersions, CurrentStates
  <2>3. ASSUME NEW o \in Object PROVE state'[p][o] <= Len(versions[o])
    <3>1. Len(versions[o]) \in Nat
      BY LengthType
    <3>2. state'[p][o] = IF o \in found[p] THEN Len(versions[o]) ELSE 0
      BY <1>9 DEF TypeOK, LoadVersions, CurrentStates
    <3>3. QED
      BY <3>1, <3>2
  <2>4. QED
    BY <2>1, <2>2, <2>3, LogEndQuiet DEF Log, Known
<1>10. ASSUME NEW p \in Process, CommitMarkers(p) \/ Fail(p) PROVE Log'
  <2>1. EndTransaction(p) /\ LeaveScope(p) /\ UNCHANGED <<raw_objects, versions>>
    BY <1>10 DEF CommitMarkers, Fail, db
  <2>2. /\ \A q \in Process \ {p} : state'[q] = state[q] /\ got'[q] = got[q]
        /\ \A o \in Object : state'[p][o] = 0 /\ got'[p][o] = 0
    BY <2>1 DEF TypeOK, LeaveScope, NoNumbers
  <2>3. \A o \in Object : Len(versions[o]) \in Nat
    BY LengthType
  <2>4. QED
    BY <2>1, <2>2, <2>3, LogEndQuiet
<1>11. ASSUME NEW p \in Process, CommitHit(p) PROVE Log'
  <2>1. EndTransaction(p) /\ UNCHANGED <<versions, state>> /\ pc[p] = "hitting"
    BY <1>11 DEF CommitHit
  <2>2. obj[p] \in Object /\ state[p][obj[p]] # 0
    BY <2>1 DEF Rows, HasObject, Writing, Log, Known
  <2>3. \A o \in Object : /\ Len(versions[o]) \in Nat
                          /\ state[p][o] \in Nat /\ state[p][o] <= Len(versions[o])
                          /\ got[p][o] <= Len(versions[o])
    BY LengthType DEF TypeOK, Log, Known
  <2>4. \A o \in raw_objects' : Len(versions'[o]) > 0
    <3>1. \A o \in raw_objects : Len(versions[o]) > 0
      BY DEF Log, Known
    <3>2. \A o \in raw_objects' : o \in raw_objects \/ o = obj[p]
      BY <1>11 DEF CommitHit
    <3>3. QED
      BY <2>1, <2>2, <2>3, <3>1, <3>2
  <2>5. got' = [got EXCEPT ![p][obj[p]] = state[p][obj[p]]]
    BY <1>11 DEF CommitHit
  <2>6. \A o \in Object : got'[p][o] <= Len(versions[o])
    BY <2>2, <2>3, <2>5 DEF TypeOK
  <2>7. OthersKeep(p)
    BY <2>1, <2>3, <2>5 DEF TypeOK, OthersKeep
  <2>8. QED
    BY <2>1, <2>3, <2>4, <2>6, <2>7, LogEnd
<1>12. ASSUME NEW p \in Process, CommitRotate(p) PROVE Log'
  <2>1. PICK c \in Content : NewVersion(p, c)
    BY <1>12 DEF CommitRotate
  <2>2. EndTransaction(p) /\ state' = state /\ pc[p] = "rotated"
    BY <1>12 DEF CommitRotate
  <2>3. got' = [got EXCEPT ![p][obj[p]] = number[p]]
    BY <1>12 DEF CommitRotate
  <2>4. /\ obj[p] \in Object /\ number[p] = Len(versions'[obj[p]])
        /\ \A o \in Object : Len(versions'[o]) >= Len(versions[o])
        /\ \A o \in raw_objects' : Len(versions'[o]) > 0
        /\ \A q \in Process \ {p} : pc[q] \in {"inserting", "rotated"} =>
             Len(versions'[obj[q]]) = Len(versions[obj[q]])
    BY <2>1, <2>2, RotationAlone
  <2>5. OthersKeep(p)
    BY <2>2, <2>3, <2>4 DEF TypeOK, OthersKeep
  <2>6. \A o \in Object : /\ Len(versions[o]) \in Nat /\ Len(versions'[o]) \in Nat
                          /\ state[p][o] \in Nat /\ state[p][o] <= Len(versions[o])
                          /\ got[p][o] \in Nat /\ got[p][o] <= Len(versions[o])
    BY LengthType DEF TypeOK, Log, Known
  <2>7. \A o \in Object : got'[p][o] = IF o = obj[p] THEN number[p] ELSE got[p][o]
    BY <2>3, <2>4 DEF TypeOK
  <2>8. \A o \in Object : state'[p][o] <= Len(versions'[o]) /\ got'[p][o] <= Len(versions'[o])
    BY <2>2, <2>4, <2>6, <2>7
  <2>9. QED
    BY <2>2, <2>4, <2>5, <2>8, LogEnd
<1>13. ASSUME NEW p \in Process, CommitInDoubt(p) PROVE Log'
  <2>1. PICK c \in Content : NewVersion(p, c)
    BY <1>13 DEF CommitInDoubt
  <2>2. EndTransaction(p) /\ LeaveScope(p) /\ pc[p] = "rotated"
    BY <1>13 DEF CommitInDoubt
  <2>3. /\ \A o \in Object : Len(versions'[o]) >= Len(versions[o])
        /\ \A o \in raw_objects' : Len(versions'[o]) > 0
        /\ \A q \in Process \ {p} : pc[q] \in {"inserting", "rotated"} =>
             Len(versions'[obj[q]]) = Len(versions[obj[q]])
    BY <2>1, <2>2, RotationAlone
  <2>4. /\ \A q \in Process \ {p} : state'[q] = state[q] /\ got'[q] = got[q]
        /\ \A o \in Object : state'[p][o] = 0 /\ got'[p][o] = 0
    BY <2>2 DEF TypeOK, LeaveScope, NoNumbers
  <2>5. OthersKeep(p)
    BY <2>3, <2>4 DEF OthersKeep
  <2>6. \A o \in Object : Len(versions'[o]) \in Nat
    BY LengthType
  <2>7. QED
    BY <2>2, <2>3, <2>4, <2>5, <2>6, LogEnd
<1>14. ASSUME NEW p \in Process, NothingUnpublished(p) \/ EndRun(p) PROVE Log'
  <2>1. /\ UNCHANGED <<raw_objects, versions, found, number, obj>>
        /\ pc' = [pc EXCEPT ![p] = "idle"]
    BY <1>14 DEF TypeOK, NothingUnpublished, EndRun, Go, db
  <2>2. /\ \A q \in Process \ {p} : state'[q] = state[q] /\ got'[q] = got[q]
        /\ \A o \in Object : state'[p][o] = 0 /\ (got'[p][o] = 0 \/ got'[p][o] = got[p][o])
    <3>1. state \in [Process -> [Object -> Nat]] /\ got \in [Process -> [Object -> Nat]]
      BY DEF TypeOK
    <3>2. /\ state' = [state EXCEPT ![p] = NoNumbers]
          /\ got' = [got EXCEPT ![p] = NoNumbers] \/ got' = got
      BY <1>14 DEF NothingUnpublished, EndRun, LeaveScope
    <3>3. \A o \in Object : NoNumbers[o] = 0
      BY DEF NoNumbers
    <3>4. QED
      BY <3>1, <3>2, <3>3
  <2>3. \A o \in Object : Len(versions[o]) \in Nat
    BY LengthType
  <2>4. Known'
    <3>1. ASSUME NEW q \in Process, NEW o \in Object
          PROVE  state'[q][o] <= Len(versions'[o]) /\ got'[q][o] <= Len(versions'[o])
      BY <2>1, <2>2, <2>3 DEF Log, Known
    <3>2. ASSUME NEW q \in Process, pc'[q] = "hitting" PROVE state'[q][obj'[q]] # 0
      BY <2>1, <2>2, <3>2 DEF TypeOK, Log, Known
    <3>3. QED
      BY <2>1, <3>1, <3>2 DEF Log, Known
  <2>5. NoVersionConflict'
    BY <2>1 DEF TypeOK, Log, NoVersionConflict
  <2>6. QED
    BY <2>4, <2>5 DEF Log
<1>15. CASE UNCHANGED vars
  BY <1>15 DEF Log, Known, NoVersionConflict, vars, db, memory
<1>16. QED
  BY <1>1, <1>2, <1>3, <1>4, <1>5, <1>6, <1>7, <1>8, <1>9, <1>10, <1>11, <1>12, <1>13,
     <1>14, <1>15 DEF Next, Statement

----------------------------------------------------------------------------
(* The locks of the publication scopes.                                    *)

\* A statement that is not of a publication.
LEMMA ScopeFrame ==
  ASSUME NEW p \in Process, NEW s \in PCs \ {"filtering", "marking"}, TypeOK, ScopeLocked,
         Go(p, s), pc[p] # "marking", UNCHANGED <<pubOwner, inserted, batch, got>>
  PROVE  ScopeLocked'
BY DEF TypeOK, ScopeLocked, Acquired, Go

\* Another transaction ends, after which no less is acquired.
LEMMA ScopeEnd ==
  ASSUME NEW p \in Process, TypeOK, ScopeLocked, EndTransaction(p), UNCHANGED <<pubOwner, batch>>,
         \A q \in Process : Acquired(q) \subseteq Acquired(q)'
  PROVE  ScopeLocked'
<1>1. pc' = [pc EXCEPT ![p] = "idle"] /\ inserted' = [inserted EXCEPT ![p] = {}]
  BY DEF EndTransaction, Go
<1>2. QED
  BY <1>1 DEF TypeOK, ScopeLocked

\* The process leaves the scope, and has nothing inserted.
LEMMA ScopeLeft ==
  ASSUME NEW p \in Process, TypeOK, ScopeLocked, LeaveScope(p), Go(p, "idle"),
         inserted' = [inserted EXCEPT ![p] = {}]
  PROVE  ScopeLocked'
<1>1. ASSUME NEW q \in Process, q # p
      PROVE  /\ pc'[q] \in {"filtering", "marking"} => pubOwner' = q
             /\ inserted'[q] # {} => pc'[q] = "marking"
             /\ inserted'[q] \subseteq batch'[q] /\ batch'[q] \subseteq Acquired(q)'
  BY <1>1 DEF TypeOK, ScopeLocked, LeaveScope, Acquired, Go
<1>2. pc'[p] = "idle" /\ inserted'[p] = {} /\ batch'[p] = {}
  BY DEF TypeOK, LeaveScope, Go
<1>3. QED
  BY <1>1, <1>2 DEF ScopeLocked

LEMMA ScopeStep == TypeOK /\ Rows /\ Log /\ ScopeLocked /\ [Next]_vars => ScopeLocked'
<1> SUFFICES ASSUME TypeOK, Rows, Log, ScopeLocked, [Next]_vars PROVE ScopeLocked'
  OBVIOUS
<1> USE DEF locks, memory, statement
<1>1. ASSUME NEW p \in Process,
             \/ LockBootstrap(p) \/ CheckTables(p) \/ LoadObjects(p) \/ Touch(p)
             \/ LockRawObject(p) \/ ListVersions(p) \/ InsertVersion(p)
      PROVE  ScopeLocked'
  <2>1. /\ UNCHANGED <<pubOwner, inserted, batch, got>> /\ pc[p] # "marking"
        /\ \E s \in PCs \ {"filtering", "marking"} : Go(p, s)
    BY <1>1 DEF LockBootstrap, CheckTables, LoadObjects, Touch, LockRawObject, ListVersions,
                InsertVersion, PCs
  <2>2. QED
    BY <2>1, ScopeFrame
<1>2. ASSUME NEW p \in Process, NEW o \in Object, TouchHit(p, o) \/ BeginRotate(p, o)
      PROVE  ScopeLocked'
  <2>1. /\ UNCHANGED <<pubOwner, inserted, batch, got>> /\ pc[p] # "marking"
        /\ \E s \in PCs \ {"filtering", "marking"} : Go(p, s)
    BY <1>2 DEF TouchHit, BeginRotate, PCs
  <2>2. QED
    BY <2>1, ScopeFrame
<1>3. ASSUME NEW p \in Process, CommitTables(p) \/ LoadVersions(p) PROVE ScopeLocked'
  BY <1>3, ScopeEnd DEF CommitTables, LoadVersions, Acquired
<1>4. ASSUME NEW p \in Process, CommitHit(p) PROVE ScopeLocked'
  <2>1. obj[p] \in Object /\ state[p][obj[p]] # 0
    BY <1>4 DEF CommitHit, Rows, HasObject, Writing, Log, Known
  <2>2. \A q \in Process : Acquired(q) \subseteq Acquired(q)'
    BY <1>4, <2>1 DEF TypeOK, CommitHit, Acquired
  <2>3. QED
    BY <1>4, <2>2, ScopeEnd DEF CommitHit
<1>5. ASSUME NEW p \in Process, CommitRotate(p) PROVE ScopeLocked'
  <2>1. obj[p] \in Object /\ number[p] = Len(versions[obj[p]]) + 1
    BY <1>5 DEF CommitRotate, Rows, HasObject, Writing, Rotating, Log, NoVersionConflict
  <2>2. number[p] # 0
    BY <2>1, LengthType
  <2>3. \A q \in Process : Acquired(q) \subseteq Acquired(q)'
    BY <1>5, <2>1, <2>2 DEF TypeOK, CommitRotate, Acquired
  <2>4. QED
    BY <1>5, <2>3, ScopeEnd DEF CommitRotate
<1>6. ASSUME NEW p \in Process, EnterScope(p) PROVE ScopeLocked'
  BY <1>6, ProcessAssumption DEF TypeOK, ScopeLocked, EnterScope, Acquired, Go
<1>7. ASSUME NEW p \in Process, FilterUnpublished(p) PROVE ScopeLocked'
  BY <1>7 DEF TypeOK, ScopeLocked, FilterUnpublished, Unmarked, Acquired, Go
<1>8. ASSUME NEW p \in Process, NothingUnpublished(p) PROVE ScopeLocked'
  <2>1. inserted[p] = {} /\ UNCHANGED inserted
    BY <1>8 DEF ScopeLocked, NothingUnpublished
  <2>2. inserted' = [inserted EXCEPT ![p] = {}]
    BY <2>1 DEF TypeOK
  <2>3. QED
    BY <1>8, <2>2, ScopeLeft DEF NothingUnpublished
<1>9. ASSUME NEW p \in Process, CommitMarkers(p) \/ Fail(p) \/ CommitInDoubt(p)
      PROVE  ScopeLocked'
  <2>1. EndTransaction(p) /\ LeaveScope(p)
    BY <1>9 DEF CommitMarkers, Fail, CommitInDoubt
  <2>2. QED
    BY <2>1, ScopeLeft DEF EndTransaction
<1>10. ASSUME NEW p \in Process, NEW o \in Object, InsertMarker(p, o) PROVE ScopeLocked'
  BY <1>10 DEF TypeOK, ScopeLocked, InsertMarker, Acquired
<1>11. ASSUME NEW p \in Process, EndRun(p) PROVE ScopeLocked'
  BY <1>11 DEF ScopeLocked, EndRun, Acquired
<1>12. CASE UNCHANGED vars
  BY <1>12 DEF ScopeLocked, Acquired, vars
<1>13. QED
  BY <1>1, <1>2, <1>3, <1>4, <1>5, <1>6, <1>7, <1>8, <1>9, <1>10, <1>11, <1>12
  DEF Next, Statement

----------------------------------------------------------------------------
(* The theorems.                                                           *)

LEMMA Invariant == Spec => [](TypeOK /\ IInv)
<1>1. Init => TypeOK /\ IInv
  <2>1. Init => TypeOK
    BY BoundsAssumption DEF Init, TypeOK, NoNumbers, PCs
  <2>2. Init => IInv
    BY ProcessAssumption
    DEF Init, NoNumbers, IInv, HasObject, RowLocked, Known, BootLocked, ScopeLocked, Acquired,
        NoVersionConflict, TablesCreatedOnce, Writing, Rotating
  <2>3. QED
    BY <2>1, <2>2
<1>2. TypeOK /\ IInv /\ [Next]_vars => (TypeOK /\ IInv)'
  <2> SUFFICES ASSUME TypeOK, IInv, [Next]_vars PROVE TypeOK' /\ IInv'
    OBVIOUS
  <2>1. Boot /\ Rows /\ Log /\ ScopeLocked
    BY DEF IInv, Boot, Rows, Log
  <2>2. TypeOK'
    BY TypeStep
  <2>3. Boot' /\ Rows' /\ Log' /\ ScopeLocked'
    BY <2>1, <2>2, BootStep, RowStep, LogStep, ScopeStep
  <2>4. QED
    BY <2>2, <2>3 DEF IInv, Boot, Rows, Log
<1>3. QED
  BY <1>1, <1>2, PTL DEF Spec

\* The state stays in its types: in particular a marker names an object and
\* the content of a version, and no number is computed from a missing object.
THEOREM TypeCorrect == Spec => []TypeOK
BY Invariant, PTL

\* No rotation is refused by UNIQUE (raw_object_id, version_number), for any
\* number of processes: the upsert of the row locks it first.
THEOREM NoVersionConflictTheorem == Spec => []NoVersionConflict
<1>1. IInv => NoVersionConflict
  BY DEF IInv
<1>2. QED
  BY <1>1, Invariant, PTL

\* load_current_states never meets a row without a version, though its two
\* statements see two states of the database.
THEOREM NeverCorruptTheorem == Spec => []NeverCorrupt
<1>1. TypeOK /\ IInv => NeverCorrupt
  <2> SUFFICES ASSUME TypeOK, IInv, NEW p \in Process, NEW o \in found[p]
               PROVE  versions[o] # <<>>
    BY DEF NeverCorrupt
  <2>1. Len(versions[o]) > 0
    BY DEF IInv, Known
  <2>2. QED
    BY <2>1
<1>2. QED
  BY <1>1, Invariant, PTL

\* create_all finds no tables missing that somebody else creates meanwhile.
THEOREM TablesCreatedOnceTheorem == Spec => []TablesCreatedOnce
<1>1. IInv => TablesCreatedOnce
  BY DEF IInv
<1>2. QED
  BY <1>1, Invariant, PTL

\* However many processes there are, those inside transactions never wait only
\* on one another: who has a row waits for nothing, and only who has the locks
\* of the scope inserts markers.
THEOREM NoWaitCycleTheorem == Spec => []NoWaitCycle
<1>1. TypeOK /\ IInv => NoWaitCycle
  <2> SUFFICES ASSUME TypeOK, IInv, NEW S \in SUBSET Process, S # {}
               PROVE  \E p \in S : WaitsFor(p) \cap S = {}
    BY DEF NoWaitCycle
  <2>1. ASSUME NEW p \in Process, NEW q \in WaitsFor(p)
        PROVE  q \in Process /\ pc[q] \in Writing
    <3>1. q \in Process \ {p}
      BY DEF WaitsFor
    <3>2. CASE pc[p] = "touching" /\ rowOwner[obj[p]] = q
      BY <3>1, <3>2 DEF IInv, HasObject, RowLocked
    <3>3. CASE /\ pc[p] = "marking" /\ batch[p] # inserted[p]
               /\ \A o \in batch[p] \ inserted[p] : InsertedBy(q, Key(p, o))
      BY <3>1, <3>3 DEF IInv, ScopeLocked, InsertedBy
    <3>4. QED
      BY <3>1, <3>2, <3>3 DEF WaitsFor
  <2>2. \A q \in Process : pc[q] \in Writing => WaitsFor(q) = {}
    BY DEF WaitsFor, Writing, Rotating
  <2>3. PICK p \in S : TRUE
    OBVIOUS
  <2>4. CASE WaitsFor(p) \cap S = {}
    BY <2>4
  <2>5. CASE WaitsFor(p) \cap S # {}
    <3>1. PICK q \in S : q \in WaitsFor(p)
      BY <2>5
    <3>2. WaitsFor(q) = {}
      BY <2>1, <2>2, <3>1
    <3>3. QED
      BY <3>1, <3>2
  <2>6. QED
    BY <2>4, <2>5
<1>2. QED
  BY <1>1, Invariant, PTL

----------------------------------------------------------------------------
(* The refinement: interleaved statements add up to appends and marks.     *)

LEMMA AppendsVersion ==
  ASSUME NEW p \in Process, TypeOK, IInv, pc[p] = "rotated", UNCHANGED publications,
         \E c \in Content : NewVersion(p, c)
  PROVE  VL!Next
<1>1. obj[p] \in Object
  BY DEF IInv, HasObject, Writing, Rotating
<1>2. PICK c \in Content : versions' = [versions EXCEPT ![obj[p]] = Append(@, c)]
  BY DEF NewVersion
<1>3. VL!AppendVersion(obj[p], c)
  BY <1>2 DEF VL!AppendVersion
<1>4. QED
  BY <1>1, <1>3 DEF VL!Next

LEMMA MarksVersions ==
  ASSUME NEW p \in Process, TypeOK, IInv, CommitMarkers(p)
  PROVE  VL!Next
<1> DEFINE S == {Key(p, o) : o \in batch[p]}
<1>1. S \in SUBSET (Object \X Content)
  BY KeyNamesVersion
<1>2. \A m \in S : \E i \in DOMAIN versions[m[1]] : versions[m[1]][i] = m[2]
  BY KeyNamesVersion
<1>3. publications' = publications \cup S /\ UNCHANGED versions
  BY DEF CommitMarkers
<1>4. VL!Mark(S)
  BY <1>2, <1>3 DEF VL!Mark
<1>5. QED
  BY <1>1, <1>4 DEF VL!Next

\* Whatever the interleaving of the statements of processes, and wherever they
\* fail, objects get their versions one by one and none is ever rewritten or
\* lost, and markers name contents of versions there are.
THEOREM Refinement == Spec => ImplementsVersionLog
<1>1. Init => VL!Init
  BY DEF Init, VL!Init
<1>2. TypeOK /\ IInv /\ [Next]_vars => [VL!Next]_<<versions, publications>>
  <2> SUFFICES ASSUME TypeOK, IInv, [Next]_vars PROVE [VL!Next]_<<versions, publications>>
    OBVIOUS
  <2>1. ASSUME NEW p \in Process, CommitRotate(p) \/ CommitInDoubt(p) PROVE VL!Next
    BY <2>1, AppendsVersion DEF CommitRotate, CommitInDoubt
  <2>2. ASSUME NEW p \in Process, CommitMarkers(p) PROVE VL!Next
    BY <2>2, MarksVersions
  <2>3. ASSUME NEW p \in Process,
               \/ LockBootstrap(p) \/ CheckTables(p) \/ CommitTables(p) \/ LoadObjects(p)
               \/ LoadVersions(p) \/ CommitHit(p) \/ Touch(p) \/ LockRawObject(p)
               \/ ListVersions(p) \/ InsertVersion(p) \/ EnterScope(p)
               \/ FilterUnpublished(p) \/ NothingUnpublished(p) \/ Fail(p) \/ EndRun(p)
        PROVE  UNCHANGED <<versions, publications>>
    BY <2>3 DEF LockBootstrap, CheckTables, CommitTables, LoadObjects, LoadVersions, CommitHit,
       Touch, LockRawObject, ListVersions, InsertVersion, EnterScope, FilterUnpublished,
       NothingUnpublished, Fail, EndRun, db
  <2>4. ASSUME NEW p \in Process, NEW o \in Object,
               TouchHit(p, o) \/ BeginRotate(p, o) \/ InsertMarker(p, o)
        PROVE  UNCHANGED <<versions, publications>>
    BY <2>4 DEF TouchHit, BeginRotate, InsertMarker, db
  <2>5. UNCHANGED vars => UNCHANGED <<versions, publications>>
    BY DEF vars, db
  <2> QED
    BY <2>1, <2>2, <2>3, <2>4, <2>5 DEF Next, Statement
<1>3. QED
  BY <1>1, <1>2, Invariant, PTL DEF Spec, ImplementsVersionLog, VL!Spec
=============================================================================
