--------------------------- MODULE RawFilesProofs ---------------------------
(***************************************************************************)
(* Theorems about RawFiles for any number of downloaders, objects, stores  *)
(* and faults.                                                             *)
(***************************************************************************)
EXTENDS RawFiles, TLAPS

\* The states in which a downloader has a file of its own in the raw root.
Holding == {"renamed", "failed", "using"}

\* A downloader at work has an object, and the file it holds has a path.
Assigned ==
  \A p \in Downloader :
    /\ pc[p] # "idle" => obj[p] \in Object
    /\ pc[p] \in Holding => dest[p] \in Path

----------------------------------------------------------------------------
(* Operators.                                                              *)

LEMMA FinalPathType ==
  ASSUME NEW o \in Object, stores \in 0..MaxStores, stores < MaxStores
  PROVE  FinalPath(o) \in Path
BY BoundsAssumption, ModeAssumption DEF FinalPath, Path

LEMMA AddVersionType ==
  ASSUME NEW p \in Downloader, rows \in [Object -> Seq(Path)],
         obj[p] \in Object, dest[p] \in Path, AddVersion(p)
  PROVE  rows' \in [Object -> Seq(Path)]
BY DEF AddVersion

LEMMA AddVersionTracks ==
  ASSUME NEW p \in Downloader, rows \in [Object -> Seq(Path)],
         obj[p] \in Object, dest[p] \in Path, AddVersion(p)
  PROVE  Tracked' = Tracked \cup {dest[p]}
<1>1. rows' = [rows EXCEPT ![obj[p]] = Append(@, dest[p])]
  BY DEF AddVersion
<1>2. \A s \in Seq(Path) : ToSet(Append(s, dest[p])) = ToSet(s) \cup {dest[p]}
  <2> SUFFICES ASSUME NEW s \in Seq(Path)
               PROVE  ToSet(Append(s, dest[p])) = ToSet(s) \cup {dest[p]}
    OBVIOUS
  <2>1. /\ DOMAIN s = 1..Len(s) /\ Len(s) \in Nat
        /\ DOMAIN Append(s, dest[p]) = 1..(Len(s) + 1)
        /\ \A i \in 1..Len(s) : Append(s, dest[p])[i] = s[i]
        /\ Append(s, dest[p])[Len(s) + 1] = dest[p]
    OBVIOUS
  <2>2. \A i : i \in 1..(Len(s) + 1) <=> i \in 1..Len(s) \/ i = Len(s) + 1
    BY <2>1
  <2> QED
    BY <2>1, <2>2 DEF ToSet
<1>3. \A o \in Object : ToSet(rows'[o]) = IF o = obj[p] THEN ToSet(rows[o]) \cup {dest[p]}
                                                    ELSE ToSet(rows[o])
  BY <1>1, <1>2
<1> QED
  BY <1>3, Zenon DEF Tracked

----------------------------------------------------------------------------
(***************************************************************************)
(* RawFiles keeps its types in either update mode, and a downloader that   *)
(* has come to rename a file has read one (raw_objects/downloader.py).     *)
(***************************************************************************)
THEOREM TypeCorrect == Spec => [](TypeOK /\ Assigned)
<1>1. Init => TypeOK /\ Assigned
  BY BoundsAssumption, NoneAssumption DEF Init, TypeOK, Assigned, Holding
<1>2. TypeOK /\ Assigned /\ [Next]_vars => (TypeOK /\ Assigned)'
  <2> SUFFICES ASSUME TypeOK, Assigned, [Next]_vars
               PROVE  TypeOK' /\ Assigned'
    OBVIOUS
  <2> USE NoneAssumption, BoundsAssumption
  <2>1. ASSUME NEW p \in Downloader, NEW o \in Object, Load(p, o)
        PROVE  TypeOK' /\ Assigned'
    <3>1. rows[o] # <<>> => Last(rows[o]) \in Path
      <4>1. rows[o] \in Seq(Path)
        BY DEF TypeOK
      <4> QED BY <4>1 DEF Last
    <3> QED BY <2>1, <3>1 DEF Load, TypeOK, Assigned, Holding, store, reconciler
  <2>2. ASSUME NEW p \in Downloader, Hit(p) PROVE TypeOK' /\ Assigned'
    BY <2>2 DEF Hit, Forget, TypeOK, Assigned, Holding, store, reconciler
  <2>3. ASSUME NEW p \in Downloader, Read(p) PROVE TypeOK' /\ Assigned'
    BY <2>3 DEF Read, TypeOK, Assigned, Holding, store, reconciler
  <2>4. ASSUME NEW p \in Downloader, Rename(p) PROVE TypeOK' /\ Assigned'
    <3>1. FinalPath(obj[p]) \in Path
      BY <2>4, FinalPathType DEF Rename, TypeOK, Assigned
    <3>2. body[p] \in Content
      BY <2>4 DEF Rename, TypeOK
    <3>3. stores' \in 0..MaxStores
      BY <2>4 DEF Rename, TypeOK
    <3> QED BY <2>4, <3>1, <3>2, <3>3 DEF Rename, TypeOK, Assigned, Holding
  <2>5. ASSUME NEW p \in Downloader, Record(p) PROVE TypeOK' /\ Assigned'
    <3>1. rows' \in [Object -> Seq(Path)]
      BY <2>5, AddVersionType DEF Record, TypeOK, Assigned, Holding
    <3> QED BY <2>5, <3>1 DEF Record, TypeOK, Assigned, Holding, reconciler
  <2>6. ASSUME NEW p \in Downloader, RecordFails(p) PROVE TypeOK' /\ Assigned'
    <3>1. rows' \in [Object -> Seq(Path)]
      BY <2>6, AddVersionType DEF RecordFails, TypeOK, Assigned, Holding
    <3> QED BY <2>6, <3>1 DEF RecordFails, TypeOK, Assigned, Holding, reconciler
  <2>7. ASSUME NEW p \in Downloader, Unlink(p) PROVE TypeOK' /\ Assigned'
    BY <2>7 DEF Unlink, Forget, TypeOK, Assigned, Holding, reconciler
  <2>8. ASSUME NEW p \in Downloader, Release(p) PROVE TypeOK' /\ Assigned'
    BY <2>8 DEF Release, Forget, TypeOK, Assigned, Holding, store, reconciler
  <2>9. ASSUME NEW p \in Downloader, Crash(p) PROVE TypeOK' /\ Assigned'
    BY <2>9 DEF Crash, Forget, TypeOK, Assigned, Holding, store, reconciler
  <2>10. CASE ListLedger
    <3>1. Tracked \subseteq Path
      <4>1. \A o \in Object : ToSet(rows[o]) \subseteq Path
        BY DEF TypeOK, ToSet
      <4> QED BY <4>1, Zenon DEF Tracked
    <3> QED BY <2>10, <3>1 DEF ListLedger, TypeOK, Assigned, store, download
  <2>11. CASE Walk
    BY <2>11 DEF Walk, TypeOK, Assigned, store, download
  <2>12. CASE Examined
    BY <2>12 DEF Examined, TypeOK, Assigned, store, download
  <2>13. CASE Deleted
    BY <2>13 DEF Deleted, EndReconciliation, TypeOK, Assigned, store, download
  <2>14. ASSUME NEW f \in Path, Age(f) PROVE TypeOK' /\ Assigned'
    BY <2>14 DEF Age, TypeOK, Assigned, download, reconciler
  <2>15. ASSUME NEW f \in Path, Examine(f) PROVE TypeOK' /\ Assigned'
    BY <2>15 DEF Examine, TypeOK, Assigned, store, download
  <2>16. ASSUME NEW f \in Path, ExamineRaises(f) PROVE TypeOK' /\ Assigned'
    BY <2>16 DEF ExamineRaises, EndReconciliation, TypeOK, Assigned, store, download
  <2>17. ASSUME NEW f \in Path, Delete(f) PROVE TypeOK' /\ Assigned'
    BY <2>17 DEF Delete, TypeOK, Assigned, download
  <2>18. ASSUME NEW f \in Path, DeleteRaises(f) PROVE TypeOK' /\ Assigned'
    BY <2>18 DEF DeleteRaises, EndReconciliation, TypeOK, Assigned, store, download
  <2>19. CASE UNCHANGED vars
    BY <2>19 DEF vars, store, download, reconciler, TypeOK, Assigned
  <2> QED
    BY <2>1, <2>2, <2>3, <2>4, <2>5, <2>6, <2>7, <2>8, <2>9, <2>10, <2>11, <2>12,
       <2>13, <2>14, <2>15, <2>16, <2>17, <2>18, <2>19 DEF Next
<1> QED BY <1>1, <1>2, PTL DEF Spec

----------------------------------------------------------------------------
(***************************************************************************)
(* The inductive invariant for mutable objects and a retention window.     *)
(* The reconciler acts on what it read long ago.  It may, because a path   *)
(* is used once: what was beyond the window and in no row when it read the *)
(* ledger is nobody's, and will be nobody's.                               *)
(***************************************************************************)
Typed == TypeOK /\ Assigned

\* Paths are numbered in the order of the renames.
Numbered ==
  /\ \A p \in Downloader : pc[p] \in Holding => dest[p][2] <= stores
  /\ \A f \in Path : disk[f] # None \/ f \in Tracked \/ f \in expired => f[2] <= stores

\* No two downloaders hold the same file.
Distinct ==
  \A p, q \in Downloader :
    p # q /\ pc[p] \in Holding /\ pc[q] \in Holding => dest[p] # dest[q]

\* A file beyond the window is in no store's hands.
Settled == \A p \in Downloader : pc[p] = "renamed" => dest[p] \notin aged

\* What the reconciler may come to delete is nobody's.
Garbage ==
  /\ rpc = "idle" => orphans = {}
  /\ orphans \subseteq expired \ listed
  /\ \A f \in expired \ listed : f \notin Tracked /\ ~Storing(f)

\* What a downloader stored is there, and the ledger names it.
Kept ==
  \A p \in Downloader :
    /\ pc[p] \in {"renamed", "using"} => disk[dest[p]] = body[p]
    /\ pc[p] = "using" => dest[p] \in Tracked

IInv == Typed /\ Numbered /\ Distinct /\ Settled /\ Garbage /\ Kept

\* The parts of the state that a step of a downloader leaves alone.
LEMMA TrackedStays ==
  ASSUME UNCHANGED rows PROVE Tracked' = Tracked
BY DEF Tracked

\* In a mutable dataset the path of a rename has never been used.
LEMMA PathIsNew ==
  ASSUME ~Snapshot, IInv, NEW p \in Downloader, Rename(p), NEW f, f = FinalPath(obj[p])
  PROVE  /\ f \in Path /\ f[2] = stores + 1
         /\ disk[f] = None /\ f \notin Tracked /\ f \notin expired /\ f \notin aged
         /\ \A q \in Downloader : pc[q] \in Holding => dest[q] # f
<1>1. f \in Path
  BY FinalPathType DEF Rename, IInv, Typed, TypeOK, Assigned
<1>2. f[2] = stores + 1 /\ stores \in Nat
  BY DEF FinalPath, IInv, Typed, TypeOK
<1>3. ~(f[2] <= stores)
  BY <1>2
<1> QED
  BY <1>1, <1>2, <1>3 DEF IInv, Numbered, Typed, TypeOK

LEMMA RenameKeeps ==
  ASSUME ~Snapshot, IInv, NEW p \in Downloader, Rename(p)
  PROVE  (Numbered /\ Distinct /\ Settled /\ Garbage /\ Kept)'
<1> DEFINE f == FinalPath(obj[p])
<1>1. /\ f \in Path /\ f[2] = stores + 1
      /\ disk[f] = None /\ f \notin Tracked /\ f \notin expired /\ f \notin aged
      /\ \A q \in Downloader : pc[q] \in Holding => dest[q] # f
  BY PathIsNew
<1>2. /\ disk' = [disk EXCEPT ![f] = body[p]] /\ aged' = aged \ {f}
      /\ expired' = expired \ {f} /\ dest' = [dest EXCEPT ![p] = f]
      /\ stores' = stores + 1 /\ pc' = [pc EXCEPT ![p] = "renamed"]
      /\ UNCHANGED <<rows, body, rpc, listed, orphans>>
  BY DEF Rename
<1>3. Tracked' = Tracked
  BY <1>2, TrackedStays
<1>4. /\ disk \in [Path -> Content \cup {None}] /\ stores \in Nat
      /\ pc \in [Downloader -> {"idle", "loaded", "read", "renamed", "failed", "using"}]
      /\ dest \in [Downloader -> Path \cup {None}]
      /\ body \in [Downloader -> Content \cup {None}]
      /\ \A g \in Path : g[2] \in Nat
      /\ \A q \in Downloader : pc[q] \in Holding => dest[q] \in Path
  BY BoundsAssumption DEF IInv, Typed, TypeOK, Assigned, Path
<1> HIDE DEF f
<1>5. Numbered'
  <2>1. \A q \in Downloader : pc'[q] \in Holding => dest'[q][2] <= stores'
    BY <1>1, <1>2, <1>4 DEF IInv, Numbered, Holding
  <2>2. \A g \in Path : disk'[g] # None \/ g \in Tracked' \/ g \in expired' => g[2] <= stores'
    BY <1>1, <1>2, <1>3, <1>4 DEF IInv, Numbered
  <2> QED BY <2>1, <2>2 DEF Numbered
<1>6. Distinct'
  BY <1>1, <1>2, <1>4 DEF IInv, Distinct, Holding
<1>7. Settled'
  BY <1>1, <1>2, <1>4 DEF IInv, Settled
<1>8. Garbage'
  <2>1. /\ rpc' = "idle" => orphans' = {}
        /\ orphans' \subseteq expired' \ listed'
    BY <1>1, <1>2 DEF IInv, Garbage
  <2>2. \A g \in expired' \ listed' : g \notin Tracked'
    BY <1>2, <1>3 DEF IInv, Garbage
  <2>3. \A g \in expired' \ listed' : \A q \in Downloader : ~(pc'[q] = "renamed" /\ dest'[q] = g)
    BY <1>1, <1>2, <1>4 DEF IInv, Garbage, Storing
  <2> QED BY <2>1, <2>2, <2>3 DEF Garbage, Storing
<1>9. Kept'
  <2>1. ASSUME NEW q \in Downloader
        PROVE  /\ pc'[q] \in {"renamed", "using"} => disk'[dest'[q]] = body'[q]
               /\ pc'[q] = "using" => dest'[q] \in Tracked'
    BY <1>1, <1>2, <1>3, <1>4 DEF IInv, Kept, Holding
  <2> QED BY <2>1 DEF Kept
<1> QED BY <1>5, <1>6, <1>7, <1>8, <1>9

\* The ledger transaction, committed or in doubt, names the file of the store.
LEMMA RecordKeeps ==
  ASSUME IInv, NEW p \in Downloader, Record(p) \/ RecordFails(p)
  PROVE  (Numbered /\ Distinct /\ Settled /\ Garbage /\ Kept)'
<1>1. /\ pc[p] = "renamed"
      /\ pc' = [pc EXCEPT ![p] = "using"] \/ pc' = [pc EXCEPT ![p] = "failed"]
      /\ UNCHANGED <<disk, aged, stores, body, dest, rpc, listed, expired, orphans>>
  BY DEF Record, RecordFails, reconciler
<1>2. pc' = [pc EXCEPT ![p] = "using"] => Tracked' = Tracked \cup {dest[p]}
  BY <1>1, AddVersionTracks DEF Record, RecordFails, IInv, Typed, TypeOK, Assigned, Holding
<1>3. Tracked' = Tracked \cup {dest[p]} \/ Tracked' = Tracked
  BY <1>1, AddVersionTracks, TrackedStays
  DEF Record, RecordFails, IInv, Typed, TypeOK, Assigned, Holding
<1>4. /\ pc \in [Downloader -> {"idle", "loaded", "read", "renamed", "failed", "using"}]
      /\ \A q \in Downloader : pc'[q] \in Holding <=> pc[q] \in Holding
      /\ \A q \in Downloader : pc'[q] = "renamed" => pc[q] = "renamed"
      /\ \A q \in Downloader : pc'[q] = "using" => pc[q] = "using" \/ q = p
  BY <1>1 DEF IInv, Typed, TypeOK, Holding
<1>5. Numbered'
  <2>1. dest[p][2] <= stores
    BY <1>1 DEF IInv, Numbered, Holding
  <2>2. \A q \in Downloader : pc'[q] \in Holding => dest'[q][2] <= stores'
    BY <1>1, <1>4 DEF IInv, Numbered
  <2>3. \A f \in Path : disk'[f] # None \/ f \in Tracked' \/ f \in expired' => f[2] <= stores'
    BY <1>1, <1>3, <2>1 DEF IInv, Numbered
  <2> QED BY <2>2, <2>3 DEF Numbered
<1>6. Distinct'
  BY <1>1, <1>4 DEF IInv, Distinct
<1>7. Settled'
  BY <1>1, <1>4 DEF IInv, Settled
<1>8. Garbage'
  <2>1. Storing(dest[p])
    BY <1>1 DEF Storing
  <2>2. \A f \in expired \ listed : f \notin Tracked /\ f # dest[p]
    BY <2>1 DEF IInv, Garbage
  <2>3. \A f : Storing(f)' => Storing(f)
    BY <1>1, <1>4 DEF Storing
  <2> QED BY <1>1, <1>3, <2>2, <2>3 DEF IInv, Garbage
<1>9. Kept'
  <2>1. ASSUME NEW q \in Downloader
        PROVE  /\ pc'[q] \in {"renamed", "using"} => disk'[dest'[q]] = body'[q]
               /\ pc'[q] = "using" => dest'[q] \in Tracked'
    <3>1. CASE q = p
      BY <1>1, <1>2, <1>4, <3>1 DEF IInv, Kept, Typed, TypeOK
    <3>2. CASE q # p
      BY <1>1, <1>3, <1>4, <3>2 DEF IInv, Kept
    <3> QED BY <3>1, <3>2
  <2> QED BY <2>1 DEF Kept
<1> QED BY <1>5, <1>6, <1>7, <1>8, <1>9

\* A failed store removes its own file.
LEMMA UnlinkKeeps ==
  ASSUME IInv, NEW p \in Downloader, Unlink(p)
  PROVE  (Numbered /\ Distinct /\ Settled /\ Garbage /\ Kept)'
<1>1. /\ pc[p] = "failed"
      /\ disk' = [disk EXCEPT ![dest[p]] = None] /\ aged' = aged \ {dest[p]}
      /\ pc' = [pc EXCEPT ![p] = "idle"]
      /\ dest' = [dest EXCEPT ![p] = None] /\ body' = [body EXCEPT ![p] = None]
      /\ UNCHANGED <<rows, stores, rpc, listed, expired, orphans>>
  BY DEF Unlink, Forget, reconciler
<1>2. Tracked' = Tracked
  BY <1>1, TrackedStays
<1>3. \A q \in Downloader : pc'[q] \in Holding =>
        /\ q # p /\ pc'[q] = pc[q] /\ dest'[q] = dest[q] /\ body'[q] = body[q]
        /\ dest[q] # dest[p] /\ dest[q] \in Path
  BY <1>1 DEF IInv, Typed, TypeOK, Assigned, Distinct, Holding
<1>4. \A f \in Path : disk'[f] # None => disk[f] # None
  BY <1>1 DEF IInv, Typed, TypeOK
<1>5. Numbered'
  BY <1>1, <1>2, <1>3, <1>4 DEF IInv, Numbered
<1>6. Distinct'
  BY <1>3 DEF IInv, Distinct
<1>7. Settled'
  BY <1>1, <1>3 DEF IInv, Settled, Holding
<1>8. Garbage'
  BY <1>1, <1>2, <1>3 DEF IInv, Garbage, Storing, Holding
<1>9. Kept'
  BY <1>1, <1>2, <1>3 DEF IInv, Kept, Typed, TypeOK, Holding
<1> QED BY <1>5, <1>6, <1>7, <1>8, <1>9

\* Whatever a downloader does without the disk, the ledger or a file.
LEMMA OthersKeep ==
  ASSUME IInv, NEW p \in Downloader,
         Hit(p) \/ Read(p) \/ Release(p) \/ Crash(p) \/ \E o \in Object : Load(p, o)
  PROVE  (Numbered /\ Distinct /\ Settled /\ Garbage /\ Kept)'
<1>1. UNCHANGED <<disk, aged, rows, stores, rpc, listed, expired, orphans>>
  BY DEF Hit, Read, Release, Crash, Load, store, reconciler
<1>2. Tracked' = Tracked
  BY <1>1, TrackedStays
<1>3. \A q \in Downloader : pc'[q] \in Holding =>
        pc'[q] = pc[q] /\ dest'[q] = dest[q] /\ body'[q] = body[q]
  BY DEF IInv, Typed, TypeOK, Holding, Hit, Read, Release, Crash, Load, Forget
<1> QED
  BY <1>1, <1>2, <1>3 DEF IInv, Numbered, Distinct, Settled, Garbage, Kept, Storing, Holding

\* The reconciler, and time.
LEMMA ReconcilerKeeps ==
  ASSUME IInv, Retention,
         \/ ListLedger \/ Walk \/ Examined \/ Deleted
         \/ \E f \in Path : Age(f) \/ Examine(f) \/ ExamineRaises(f) \/ Delete(f) \/ DeleteRaises(f)
  PROVE  (Numbered /\ Distinct /\ Settled /\ Garbage /\ Kept)'
<1>1. UNCHANGED <<rows, stores, download>>
  BY DEF ListLedger, Walk, Examined, Deleted, Age, Examine, ExamineRaises, Delete, DeleteRaises, store
<1>2. Tracked' = Tracked /\ \A f : Storing(f)' <=> Storing(f)
  BY <1>1, TrackedStays DEF Storing, download
<1>3. Distinct'
  BY <1>1 DEF IInv, Distinct, download
<1> DEFINE Rest == (Numbered /\ Settled /\ Garbage /\ Kept)'
<1>4. CASE ListLedger
  <2>1. UNCHANGED <<disk, aged, orphans>> /\ listed' = Tracked /\ expired' = aged /\ orphans = {}
    BY <1>4 DEF ListLedger, store, IInv, Garbage
  <2>2. \A f \in aged : f \in Path /\ disk[f] # None /\ ~Storing(f)
    BY DEF IInv, Typed, TypeOK, Settled, Storing
  <2>3. Garbage'
    BY <1>2, <2>1, <2>2 DEF Garbage
  <2> QED BY <1>1, <1>2, <1>3, <2>1, <2>2, <2>3 DEF IInv, Numbered, Settled, Kept, download
<1>5. CASE Walk \/ Examined
  <2>1. rpc' # "idle" /\ UNCHANGED <<disk, aged, listed, expired, orphans>>
    BY <1>5 DEF Walk, Examined, store
  <2> QED BY <1>1, <1>2, <1>3, <2>1 DEF IInv, Numbered, Settled, Garbage, Kept, download
<1>6. ASSUME NEW f \in Path, Examine(f) PROVE Rest
  <2>1. /\ rpc' = "examining" /\ UNCHANGED <<disk, aged, listed, expired>>
        /\ orphans' \subseteq orphans \cup (expired \ listed)
    BY <1>6 DEF Examine, store
  <2> QED BY <1>1, <1>2, <2>1 DEF IInv, Numbered, Settled, Garbage, Kept, download
<1>7. ASSUME Deleted \/ \E f \in Path : ExamineRaises(f) \/ DeleteRaises(f) PROVE Rest
  <2>1. UNCHANGED <<disk, aged>> /\ listed' = {} /\ expired' = {} /\ orphans' = {}
    BY <1>7 DEF Deleted, ExamineRaises, DeleteRaises, EndReconciliation, store
  <2> QED BY <1>1, <1>2, <2>1 DEF IInv, Numbered, Settled, Garbage, Kept, download
<1>8. ASSUME NEW f \in Path, Delete(f) PROVE Rest
  <2>1. /\ f \in orphans
        /\ disk' = [disk EXCEPT ![f] = None] /\ aged' = aged \ {f} /\ orphans' = orphans \ {f}
        /\ rpc' = "deleting" /\ UNCHANGED <<listed, expired>>
    BY <1>8 DEF Delete
  <2>2. f \notin Tracked /\ ~Storing(f)
    BY <2>1 DEF IInv, Garbage
  <2>3. Numbered' /\ Settled' /\ Garbage'
    BY <1>1, <1>2, <2>1 DEF IInv, Numbered, Settled, Garbage, download, Typed, TypeOK
  <2>4. Kept'
    <3>1. \A p \in Downloader : pc[p] \in {"renamed", "using"} => dest[p] # f /\ dest[p] \in Path
      BY <2>2 DEF IInv, Kept, Storing, Typed, Assigned, Holding
    <3> QED BY <1>1, <1>2, <2>1, <3>1 DEF IInv, Kept, download, Typed, TypeOK
  <2> QED BY <2>3, <2>4
<1>9. ASSUME NEW f \in Path, Age(f) PROVE Rest
  <2>1. /\ aged' = aged \cup {f} /\ ~Storing(f)
        /\ UNCHANGED <<disk, rpc, listed, expired, orphans>>
    BY <1>9 DEF Age, reconciler
  <2> QED BY <1>1, <1>2, <2>1 DEF IInv, Numbered, Settled, Garbage, Kept, Storing, download
<1> QED BY <1>3, <1>4, <1>5, <1>6, <1>7, <1>8, <1>9

LEMMA Invariance ==
  ASSUME ~Snapshot, Retention
  PROVE  Spec => []IInv
<1>1. Init /\ Typed => IInv
  <2> SUFFICES ASSUME Init, Typed PROVE IInv
    OBVIOUS
  <2>1. Tracked = {}
    <3>1. \A o \in Object : ToSet(rows[o]) = {}
      BY DEF Init, ToSet
    <3> QED BY <3>1, Zenon DEF Tracked
  <2> QED
    BY <2>1 DEF Init, IInv, Numbered, Distinct, Settled, Garbage, Kept, Holding
<1>2. IInv /\ [Next]_vars /\ Typed' => IInv'
  <2> SUFFICES ASSUME IInv, [Next]_vars, Typed' PROVE IInv'
    OBVIOUS
  <2>1. CASE UNCHANGED vars
    <3>1. Tracked' = Tracked
      BY <2>1, TrackedStays DEF vars, store
    <3> QED BY <2>1, <3>1 DEF vars, store, download, reconciler, IInv, Numbered, Distinct,
                              Settled, Garbage, Kept, Storing
  <2>2. CASE \E p \in Downloader : Rename(p)
    BY <2>2, RenameKeeps DEF IInv
  <2>3. CASE \E p \in Downloader : Record(p) \/ RecordFails(p)
    BY <2>3, RecordKeeps DEF IInv
  <2>4. CASE \E p \in Downloader : Unlink(p)
    BY <2>4, UnlinkKeeps DEF IInv
  <2>5. CASE \E p \in Downloader :
               Hit(p) \/ Read(p) \/ Release(p) \/ Crash(p) \/ \E o \in Object : Load(p, o)
    BY <2>5, OthersKeep DEF IInv
  <2>6. CASE \/ ListLedger \/ Walk \/ Examined \/ Deleted
             \/ \E f \in Path :
                  Age(f) \/ Examine(f) \/ ExamineRaises(f) \/ Delete(f) \/ DeleteRaises(f)
    BY <2>6, ReconcilerKeeps DEF IInv
  <2> QED
    BY <2>1, <2>2, <2>3, <2>4, <2>5, <2>6 DEF Next
<1>3. Spec => []Typed
  BY TypeCorrect, PTL DEF Typed
<1> QED BY <1>1, <1>2, <1>3, PTL DEF Spec

(***************************************************************************)
(* In a mutable dataset, a run that stored a file reads what it downloaded *)
(* for as long as it works with it (raw_objects/downloader.py:128), though *)
(* the reconciler and other runs share no lock with it.                    *)
(***************************************************************************)
THEOREM MutableFilesStay ==
  ASSUME ~Snapshot, Retention
  PROVE  Spec => []StoredFileStays
<1>1. IInv => StoredFileStays
  BY DEF IInv, Kept, StoredFileStays
<1> QED BY <1>1, Invariance, PTL

(***************************************************************************)
(* In a mutable dataset and with a retention window, delete_orphans        *)
(* (raw_objects/reconciliation.py:60) deletes no file the ledger names,    *)
(* whatever is stored between its reading of the ledger and its unlinks.   *)
(***************************************************************************)
THEOREM ReconcilerDeletesOnlyOrphans ==
  ASSUME ~Snapshot, Retention
  PROVE  Spec => OnlyOrphansGo
<1>1. IInv /\ [Next]_vars => [TrackedGoesWithItsStore]_vars
  <2> SUFFICES ASSUME IInv, Next, NEW f \in Path,
                      f \in Tracked, disk[f] # None, disk'[f] = None
               PROVE  \E p \in Downloader : pc[p] = "failed" /\ dest[p] = f
    BY DEF TrackedGoesWithItsStore
  <2>1. disk' # disk
    OBVIOUS
  <2>2. ASSUME NEW p \in Downloader, Rename(p) PROVE FALSE
    <3>1. FinalPath(obj[p]) # f /\ disk' = [disk EXCEPT ![FinalPath(obj[p])] = body[p]]
      BY <2>2, PathIsNew DEF Rename
    <3> QED BY <3>1 DEF IInv, Typed, TypeOK
  <2>3. ASSUME NEW p \in Downloader, Unlink(p) PROVE pc[p] = "failed" /\ dest[p] = f
    BY <2>3 DEF Unlink, IInv, Typed, TypeOK
  <2>4. ASSUME NEW g \in Path, Delete(g) PROVE FALSE
    <3>1. g \notin Tracked
      BY <2>4 DEF Delete, IInv, Garbage
    <3>2. disk' = [disk EXCEPT ![g] = None]
      BY <2>4 DEF Delete
    <3> QED BY <3>1, <3>2 DEF IInv, Typed, TypeOK
  <2>5. CASE \E p \in Downloader : Rename(p) \/ Unlink(p)
    BY <2>2, <2>3, <2>5
  <2>6. CASE \E g \in Path : Delete(g)
    BY <2>4, <2>6
  <2>7. (\E p \in Downloader : Rename(p) \/ Unlink(p)) \/ (\E g \in Path : Delete(g))
    BY <2>1 DEF Next, Load, Hit, Read, Record, RecordFails, Release, Crash, ListLedger, Walk,
       Examined, Deleted, Age, Examine, ExamineRaises, DeleteRaises, store
  <2> QED BY <2>5, <2>6, <2>7
<1> QED BY <1>1, Invariance, PTL DEF Spec, OnlyOrphansGo
=============================================================================
