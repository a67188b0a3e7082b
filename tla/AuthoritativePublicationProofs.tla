-------------------- MODULE AuthoritativePublicationProofs --------------------
(***************************************************************************)
(* Theorems about AuthoritativePublication for any number of runs,         *)
(* objects, contents, tables and faults, any assignment of objects to      *)
(* scopes, and any sequence of contents the source serves.                 *)
(***************************************************************************)
EXTENDS AuthoritativePublication, TLAPS

(***************************************************************************)
(* The inductive invariant.  A run that is inside a scope has the lock, so *)
(* that nobody else publishes between its look at the newest versions and  *)
(* its markers.  A version that was the newest after the lock was granted  *)
(* can be overtaken in the ledger, but not in DuckLake: what is there was  *)
(* published from a version the ledger had by then.                        *)
(***************************************************************************)
Inside == {"filtering", "publishing", "leaving"}

Locked == \A p \in Process : pc[p] \in Inside => lock = p

\* Acquisition goes on nowhere but in its own phase.
Quiet == \A p \in Process : pc[p] # "acquiring" => stage[p] = NoStage

\* What a run has at hand is a version the ledger has.
AtHand ==
  \A p \in Process : \A o \in Object :
    /\ known[p][o] <= Newest(o)
    /\ stage[p][o] = "not modified" => known[p][o] > 0
    /\ stage[p][o] = "fetched" => body[p][o] \in Content
    /\ stage[p][o] = "done" \/ o \in todo[p] \cup batch[p] => got[p][o] \in 1..Newest(o)

\* Tables come from versions the ledger has, and show their contents.
TrueHistory ==
  \A o \in Object :
    /\ provFrom[o] <= Newest(o)
    /\ \A t \in Table :
         partition[o][t] = IF from[o][t] = 0 THEN None ELSE versions[o][from[o][t]]

\* What is about to be published is no older than what is there.
NotStale ==
  \A p \in Process : pc[p] = "publishing" =>
    \A o \in Untried(p) : provFrom[o] <= got[p][o]

\* What counts as published is there, in all its tables.
Published ==
  \A p \in Process :
    /\ successful[p] \subseteq batch[p]
    /\ pc[p] \notin {"publishing", "leaving"} => successful[p] = {}
    /\ pc[p] = "publishing" =>
         \A o \in successful[p] : \A t \in Writes[Checksum(p, o)] : from[o][t] = got[p][o]

IInv ==
  /\ Locked /\ Quiet /\ AtHand /\ TrueHistory /\ NotStale /\ Published
  /\ ProvenanceCoversTables /\ MarkerImpliesPublished

----------------------------------------------------------------------------
(* What the source serves, what a run has at hand, and what it replaces.   *)

LEMMA UpstreamType == ASSUME TypeOK, NEW o \in Object PROVE upstream[o] \in Content
<1>1. Served[o] \in Seq(Content) /\ at[o] \in DOMAIN Served[o]
  BY ServedAssumption DEF TypeOK
<1>2. Served[o][at[o]] \in Content
  BY <1>1
<1>3. QED
  BY <1>2 DEF upstream

LEMMA ChecksumType ==
  ASSUME TypeOK, NEW p \in Process, NEW o \in Object, got[p][o] \in 1..Newest(o)
  PROVE  Checksum(p, o) \in Content
<1>1. versions[o] \in Seq(Content) /\ got[p][o] \in 1..Len(versions[o])
  BY DEF TypeOK, Newest
<1>2. versions[o][got[p][o]] \in Content
  BY <1>1
<1>3. QED
  BY <1>2 DEF Checksum

LEMMA OthersOutside ==
  ASSUME NEW p \in Process, NEW q \in Process, IInv, pc[p] \in Inside, q # p
  PROVE  pc[q] \notin Inside
BY DEF IInv, Locked

LEMMA NewestType == ASSUME TypeOK, NEW o \in Object PROVE Newest(o) \in Nat
BY DEF TypeOK, Newest

\* A step of p that publishes o: the types, and what it leaves true.
LEMMA ReplaceType ==
  ASSUME TypeOK, IInv, NEW p \in Process, NEW o \in Object, pc[p] = "publishing",
         o \in Untried(p), Replace(p, o)
  PROVE  /\ partition' \in [Object -> [Table -> Sha]] /\ from' \in [Object -> [Table -> Nat]]
         /\ prov' \in [Object -> Sha] /\ provFrom' \in [Object -> Nat]
<1>1. o \in batch[p] /\ got[p][o] \in 1..Newest(o)
  BY DEF Untried, IInv, AtHand
<1>2. Checksum(p, o) \in Sha /\ got[p][o] \in Nat
  BY <1>1, ChecksumType DEF Sha, TypeOK
<1>3. QED
  BY <1>2 DEF Replace, ReplaceTables, TypeOK

LEMMA ReplaceSound ==
  ASSUME TypeOK, IInv, NEW p \in Process, NEW o \in Object, pc[p] = "publishing",
         o \in Untried(p), Replace(p, o), UNCHANGED <<versions, markers, got, pc, batch>>,
         tried[p] \cup {o} \subseteq tried'[p],
         \A q \in Process \ {p} : UNCHANGED <<tried[q], successful[q]>>,
         successful'[p] \subseteq successful[p] \cup {o}
  PROVE  /\ TrueHistory' /\ NotStale' /\ Published'
         /\ ProvenanceCoversTables' /\ MarkerImpliesPublished'
         /\ \A x \in Object : \A t \in Table : from'[x][t] >= from[x][t]
<1> DEFINE c == Checksum(p, o)
           n == got[p][o]
<1>1. o \in batch[p] /\ o \in Object /\ n \in 1..Newest(o) /\ n \in Nat /\ n > 0
  <2>1. o \in batch[p] /\ o \in Object
    BY DEF Untried, TypeOK
  <2>2. got[p][o] \in 1..Newest(o)
    BY <2>1 DEF IInv, AtHand
  <2>3. QED
    BY <2>1, <2>2, NewestType
<1>2. c \in Content /\ c # None /\ c = versions[o][n]
  BY <1>1, ChecksumType, ContentAssumption DEF Checksum
<1>3. provFrom[o] <= n
  BY DEF IInv, NotStale
<1>4. Writes[c] \subseteq Table
  BY <1>2, WritesAssumption
<1>5. \A t \in Table : from'[o][t] = IF t \in Writes[c] THEN n ELSE from[o][t]
  BY DEF Replace, ReplaceTables, TypeOK
<1>6. \A t \in Table : partition'[o][t] = IF t \in Writes[c] THEN c ELSE partition[o][t]
  BY DEF Replace, ReplaceTables, TypeOK
<1>7. prov'[o] = c /\ provFrom'[o] = n
  BY DEF Replace, ReplaceTables, TypeOK
<1>8. \A x \in Object \ {o} : UNCHANGED <<partition[x], from[x], prov[x], provFrom[x]>>
  BY DEF Replace, ReplaceTables, TypeOK
<1>9. \A x \in Object : Newest(x)' = Newest(x)
  BY DEF Newest
<1>10. \A t \in Table : from[o][t] \in Nat /\ from[o][t] <= provFrom[o] /\ provFrom[o] \in Nat
  BY DEF IInv, ProvenanceCoversTables, TypeOK
<1>11. \A t \in Table : from[o][t] <= n
  BY <1>1, <1>3, <1>10
<1>12. \A x \in Object : \A t \in Table : from'[x][t] >= from[x][t]
  <2> SUFFICES ASSUME NEW x \in Object, NEW t \in Table PROVE from'[x][t] >= from[x][t]
    OBVIOUS
  <2>1. from[x][t] \in Nat
    BY DEF TypeOK
  <2>2. CASE x = o
    BY <2>1, <2>2, <1>1, <1>5, <1>11
  <2>3. CASE x # o
    BY <2>1, <2>3, <1>8
  <2>4. QED
    BY <2>2, <2>3
<1> HIDE DEF c, n
<1>13. TrueHistory'
  <2> SUFFICES ASSUME NEW x \in Object
               PROVE  /\ provFrom'[x] <= Newest(x)
                      /\ \A t \in Table : partition'[x][t] =
                           IF from'[x][t] = 0 THEN None ELSE versions[x][from'[x][t]]
    BY <1>9 DEF TrueHistory
  <2>1. CASE x = o
    BY <2>1, <1>1, <1>2, <1>5, <1>6, <1>7, NewestType DEF IInv, TrueHistory
  <2>2. CASE x # o
    BY <2>2, <1>8 DEF IInv, TrueHistory
  <2>3. QED
    BY <2>1, <2>2
<1>14. NotStale'
  <2> SUFFICES ASSUME NEW q \in Process, pc[q] = "publishing", NEW x \in Untried(q)'
               PROVE  provFrom'[x] <= got[q][x]
    BY DEF NotStale
  <2>1. q = p
    BY OthersOutside DEF Inside
  <2>2. x # o /\ x \in Untried(p)
    BY <2>1 DEF Untried
  <2>3. x \in Object
    BY <2>2 DEF Untried, TypeOK
  <2>4. QED
    BY <2>1, <2>2, <2>3, <1>8 DEF IInv, NotStale
<1>15. Published'
  <2> SUFFICES ASSUME NEW q \in Process
               PROVE  /\ successful'[q] \subseteq batch[q]
                      /\ pc[q] \notin {"publishing", "leaving"} => successful'[q] = {}
                      /\ pc[q] = "publishing" =>
                           \A x \in successful'[q] : \A t \in Writes[Checksum(q, x)] :
                             from'[x][t] = got[q][x]
    BY DEF Published, Checksum
  <2>1. CASE q # p
    BY <2>1, OthersOutside DEF IInv, Published, Inside
  <2>2. CASE q = p
    <3>1. successful'[p] \subseteq batch[p]
      BY <1>1 DEF IInv, Published
    <3>2. ASSUME NEW x \in successful'[p], NEW t \in Writes[Checksum(p, x)]
          PROVE  from'[x][t] = got[p][x]
      <4>1. CASE x = o
        BY <4>1, <3>2, <1>4, <1>5 DEF c, n
      <4>2. CASE x # o
        <5>1. x \in successful[p] /\ x \in Object
          BY <4>2, <3>1 DEF TypeOK
        <5>2. QED
          BY <3>2, <4>2, <5>1, <1>8 DEF IInv, Published
      <4>3. QED
        BY <4>1, <4>2
    <3>3. QED
      BY <2>2, <3>1, <3>2
  <2>3. QED
    BY <2>1, <2>2
<1>16. ProvenanceCoversTables'
  <2> SUFFICES ASSUME NEW x \in Object, NEW t \in Table
               PROVE  /\ from'[x][t] <= provFrom'[x]
                      /\ prov'[x] # None /\ t \in Writes[prov'[x]] => from'[x][t] = provFrom'[x]
    BY DEF ProvenanceCoversTables
  <2>1. CASE x = o
    BY <2>1, <1>1, <1>5, <1>7, <1>11
  <2>2. CASE x # o
    BY <2>2, <1>8 DEF IInv, ProvenanceCoversTables
  <2>3. QED
    BY <2>1, <2>2
<1>17. MarkerImpliesPublished'
  <2> SUFFICES ASSUME NEW m \in markers, NEW t \in Writes[m[2]]
               PROVE  \E k \in 1..from'[m[1]][t] : versions[m[1]][k] = m[2]
    BY DEF MarkerImpliesPublished
  <2>1. m[1] \in Object /\ m[2] \in Content
    BY DEF TypeOK
  <2>2. t \in Table
    BY <2>1, WritesAssumption
  <2>3. PICK k \in 1..from[m[1]][t] : versions[m[1]][k] = m[2]
    BY DEF IInv, MarkerImpliesPublished
  <2>4. from[m[1]][t] \in Nat /\ from'[m[1]][t] \in Nat /\ from'[m[1]][t] >= from[m[1]][t]
    <3>1. from \in [Object -> [Table -> Nat]] /\ from' \in [Object -> [Table -> Nat]]
      BY ReplaceType DEF TypeOK
    <3>2. QED
      BY <2>1, <2>2, <3>1, <1>12
  <2>5. k \in 1..from'[m[1]][t]
    BY <2>4
  <2>6. QED
    BY <2>3, <2>5
<1>18. QED
  BY <1>12, <1>13, <1>14, <1>15, <1>16, <1>17

----------------------------------------------------------------------------
(* Every step keeps the types and the invariant.                           *)

LEMMA TypeStep == TypeOK /\ IInv /\ [Next]_vars => TypeOK'
<1> SUFFICES ASSUME TypeOK, IInv, [Next]_vars PROVE TypeOK'
  OBVIOUS
<1> USE DEF ledger, lake, run
<1>1. ASSUME NEW p \in Process, Start(p) PROVE TypeOK'
  BY <1>1 DEF TypeOK, Start, PCs
<1>2. ASSUME NEW p \in Process, LoadVersions(p) PROVE TypeOK'
  BY <1>2, NewestType DEF TypeOK, LoadVersions, PCs
<1>3. ASSUME NEW p \in Process, Select(p) PROVE TypeOK'
  BY <1>3 DEF TypeOK, Select, Unpublished, PCs, Stages, NoStage, NoVersion, Nothing, Sha
<1>4. ASSUME NEW p \in Process, Forget(p), UNCHANGED <<at, ledger, lost, lake>>,
             lock' \in {None, lock}, faults' \in 0..MaxFaults
      PROVE  TypeOK'
  BY <1>4 DEF TypeOK, Forget, PCs, Stages, NoStage, NoVersion, Nothing, Sha
<1>5. ASSUME NEW p \in Process, EnterScope(p) PROVE TypeOK'
  <2>1. PICK S \in SUBSET Object :
          /\ batch' = [batch EXCEPT ![p] = S]
          /\ todo' = [todo EXCEPT ![p] = @ \ S]
    BY <1>5 DEF TypeOK, EnterScope
  <2>2. todo' \in [Process -> SUBSET Object] /\ batch' \in [Process -> SUBSET Object]
    BY <2>1 DEF TypeOK
  <2>3. pc' \in [Process -> PCs] /\ lock' \in Process \cup {None}
    BY <1>5 DEF TypeOK, EnterScope, PCs
  <2>4. QED
    BY <1>5, <2>2, <2>3 DEF TypeOK, EnterScope
<1>6. ASSUME NEW p \in Process, FilterAfterLock(p) PROVE TypeOK'
  BY <1>6 DEF TypeOK, FilterAfterLock, Current, Unpublished, PCs
<1>7. ASSUME NEW p \in Process, Mark(p) PROVE TypeOK'
  <2>1. \A o \in successful[p] : o \in Object /\ Checksum(p, o) \in Content
    BY ChecksumType DEF IInv, Published, AtHand, TypeOK
  <2>2. markers' \subseteq Object \X Content
    BY <1>7, <2>1 DEF TypeOK, Mark
  <2>3. QED
    BY <1>7, <2>2 DEF TypeOK, Mark, PCs
<1>8. ASSUME NEW p \in Process, LeaveScope(p) PROVE TypeOK'
  BY <1>8 DEF TypeOK, LeaveScope, PCs
<1>9. ASSUME NEW p \in Process, NEW o \in Object, Revalidate(p, o) PROVE TypeOK'
  <2>1. upstream[o] \in Sha
    BY UpstreamType DEF Sha
  <2>2. QED
    BY <1>9, <2>1 DEF TypeOK, Revalidate, Stages
<1>10. ASSUME NEW p \in Process, NEW o \in Object, Reread(p, o) PROVE TypeOK'
  <2>1. upstream[o] \in Sha
    BY UpstreamType DEF Sha
  <2>2. QED
    BY <1>10, <2>1 DEF TypeOK, Reread, Stages
<1>11. ASSUME NEW p \in Process, NEW o \in Object, RecordHit(p, o) PROVE TypeOK'
  <2>1. known[p][o] \in Nat /\ body[p][o] \in Sha /\ "done" \in Stages
    <3>1. known[p][o] \in Nat
      BY DEF TypeOK
    <3>2. body[p][o] \in Sha
      BY DEF TypeOK
    <3>3. QED
      BY <3>1, <3>2 DEF Stages
  <2>2. etag' \in [Object -> Sha] /\ got' \in [Process -> [Object -> Nat]]
    BY <1>11, <2>1 DEF TypeOK, RecordHit
  <2>3. stage' \in [Process -> [Object -> Stages]]
    BY <1>11, <2>1 DEF TypeOK, RecordHit
  <2>4. QED
    BY <1>11, <2>2, <2>3 DEF TypeOK, RecordHit
<1>12. ASSUME NEW p \in Process, NEW o \in Object, RecordStore(p, o) PROVE TypeOK'
  <2>1. body[p][o] \in Content
    BY <1>12 DEF IInv, AtHand, RecordStore, Acquiring
  <2>2. versions' \in [Object -> Seq(Content)]
    BY <1>12, <2>1 DEF TypeOK, RecordStore
  <2>3. got' \in [Process -> [Object -> Nat]]
    <3>1. Newest(o) + 1 \in Nat
      BY NewestType
    <3>2. got \in [Process -> [Object -> Nat]] /\ got' = [got EXCEPT ![p][o] = Newest(o) + 1]
      BY <1>12 DEF TypeOK, RecordStore
    <3>3. QED
      BY <3>1, <3>2
  <2>4. stage' \in [Process -> [Object -> Stages]]
    <3>1. stage \in [Process -> [Object -> Stages]] /\ stage' = [stage EXCEPT ![p][o] = "done"]
      BY <1>12 DEF TypeOK, RecordStore
    <3>2. QED
      BY <3>1 DEF Stages
  <2>5. etag' \in [Object -> Sha]
    BY <1>12, <2>1 DEF TypeOK, RecordStore, Sha
  <2>6. QED
    BY <1>12, <2>2, <2>3, <2>4, <2>5 DEF TypeOK, RecordStore
<1>13. ASSUME NEW p \in Process, NEW o \in Object, PublishOne(p, o) PROVE TypeOK'
  <2>1. /\ partition' \in [Object -> [Table -> Sha]] /\ from' \in [Object -> [Table -> Nat]]
        /\ prov' \in [Object -> Sha] /\ provFrom' \in [Object -> Nat]
    BY <1>13, ReplaceType DEF PublishOne
  <2>2. QED
    BY <1>13, <2>1 DEF TypeOK, PublishOne
<1>14. ASSUME NEW p \in Process, NEW o \in Object, PublishOneRaises(p, o) PROVE TypeOK'
  BY <1>14 DEF TypeOK, PublishOneRaises
<1>15. ASSUME NEW p \in Process, NEW o \in Object, CommitFails(p, o) PROVE TypeOK'
  <2>1. /\ partition' \in [Object -> [Table -> Sha]] /\ from' \in [Object -> [Table -> Nat]]
        /\ prov' \in [Object -> Sha] /\ provFrom' \in [Object -> Nat]
    <3>1. CASE Replace(p, o)
      BY <1>15, <3>1, ReplaceType DEF CommitFails
    <3>2. CASE UNCHANGED lake
      BY <3>2 DEF TypeOK
    <3>3. QED
      BY <1>15, <3>1, <3>2 DEF CommitFails
  <2>2. tried' \in [Process -> SUBSET Object]
    BY <1>15 DEF TypeOK, CommitFails, Untried
  <2>3. faults' \in 0..MaxFaults
    BY <1>15, MaxFaultsAssumption DEF TypeOK, CommitFails
  <2>4. QED
    BY <1>15, <2>1, <2>2, <2>3 DEF TypeOK, CommitFails
<1>16. ASSUME NEW o \in Object, SourceChanges(o) PROVE TypeOK'
  <2>1. at[o] \in Nat /\ Served[o] \in Seq(Content) /\ at[o] + 1 \in DOMAIN Served[o]
    <3>1. Served[o] \in Seq(Content) /\ at[o] \in DOMAIN Served[o] /\ at[o] < Len(Served[o])
      BY <1>16, ServedAssumption DEF TypeOK, SourceChanges
    <3>2. DOMAIN Served[o] = 1..Len(Served[o]) /\ Len(Served[o]) \in Nat
      BY <3>1
    <3>3. QED
      BY <3>1, <3>2
  <2>2. at' \in [Object -> Nat] /\ \A x \in Object : at'[x] \in DOMAIN Served[x]
    BY <1>16, <2>1 DEF TypeOK, SourceChanges
  <2>3. QED
    BY <1>16, <2>2 DEF TypeOK, SourceChanges
<1>17. ASSUME NEW o \in Object, FileLost(o) PROVE TypeOK'
  <2>1. lost' \subseteq Object \X (Nat \ {0})
    BY <1>17 DEF TypeOK, FileLost
  <2>2. faults' \in 0..MaxFaults
    BY <1>17, MaxFaultsAssumption DEF TypeOK, FileLost
  <2>3. QED
    BY <1>17, <2>1, <2>2 DEF TypeOK, FileLost
<1>18. ASSUME NEW p \in Process, NothingToPublish(p) \/ FilterRaises(p) \/ Finish(p) \/ Crash(p)
       PROVE  TypeOK'
  <2>1. faults \in 0..MaxFaults
    BY DEF TypeOK
  <2>2. CASE NothingToPublish(p)
    BY <2>1, <2>2, <1>4 DEF NothingToPublish
  <2>3. CASE FilterRaises(p)
    BY <2>1, <2>3, <1>4 DEF FilterRaises
  <2>4. CASE Finish(p)
    BY <2>1, <2>4, <1>4 DEF Finish
  <2>5. CASE Crash(p)
    <3>1. faults' \in 0..MaxFaults
      BY <2>1, <2>5, MaxFaultsAssumption DEF Crash
    <3>2. QED
      BY <2>5, <3>1, <1>4 DEF Crash
  <2>6. QED
    BY <1>18, <2>2, <2>3, <2>4, <2>5
<1>19. CASE UNCHANGED vars
  BY <1>19 DEF vars, TypeOK
<1>20. QED
  BY <1>1, <1>2, <1>3, <1>5, <1>6, <1>7, <1>8, <1>9, <1>10, <1>11, <1>12, <1>13, <1>14,
     <1>15, <1>16, <1>17, <1>18, <1>19 DEF Next

\* Versions are only ever appended to: what was there is there.
LEMMA AppendSound ==
  ASSUME TypeOK, NEW o \in Object, NEW c \in Content,
         versions' = [versions EXCEPT ![o] = Append(@, c)]
  PROVE  \A x \in Object :
           /\ Newest(x) \in Nat /\ Newest(x)' \in Nat /\ Newest(x) <= Newest(x)'
           /\ Newest(o)' = Newest(o) + 1
           /\ \A n \in 1..Newest(x) : versions'[x][n] = versions[x][n]
<1> SUFFICES ASSUME NEW x \in Object
             PROVE  /\ Newest(x) \in Nat /\ Newest(x)' \in Nat /\ Newest(x) <= Newest(x)'
                    /\ Newest(o)' = Newest(o) + 1
                    /\ \A n \in 1..Newest(x) : versions'[x][n] = versions[x][n]
  OBVIOUS
<1>1. versions[x] \in Seq(Content) /\ versions[o] \in Seq(Content)
  BY DEF TypeOK
<1>2. versions'[o] = Append(versions[o], c) /\ (x # o => versions'[x] = versions[x])
  BY DEF TypeOK
<1>3. QED
  BY <1>1, <1>2 DEF Newest

\* A run that ends leaves nothing behind that the invariant speaks of.
LEMMA ForgetSound ==
  ASSUME TypeOK, IInv, NEW p \in Process, Forget(p), UNCHANGED <<versions, markers, lake>>,
         \A q \in Process \ {p} : lock = q => lock' = q
  PROVE  IInv'
<1>1. \A q \in Process \ {p} :
        UNCHANGED <<pc[q], stage[q], known[q], body[q], got[q], todo[q], batch[q], tried[q],
                    successful[q]>>
  BY DEF Forget, TypeOK
<1>2. /\ pc'[p] = "idle" /\ stage'[p] = NoStage /\ known'[p] = NoVersion
      /\ todo'[p] = {} /\ batch'[p] = {} /\ successful'[p] = {}
  BY DEF Forget, TypeOK
<1>3. Locked'
  BY <1>1, <1>2 DEF IInv, Locked, Inside
<1>4. Quiet'
  BY <1>1, <1>2 DEF IInv, Quiet
<1>5. AtHand'
  <2> SUFFICES ASSUME NEW q \in Process, NEW o \in Object
               PROVE  /\ known'[q][o] <= Newest(o)
                      /\ stage'[q][o] = "not modified" => known'[q][o] > 0
                      /\ stage'[q][o] = "fetched" => body'[q][o] \in Content
                      /\ stage'[q][o] = "done" \/ o \in todo'[q] \cup batch'[q]
                           => got'[q][o] \in 1..Newest(o)
    BY DEF AtHand, Newest
  <2>1. CASE q = p
    BY <2>1, <1>2, NewestType DEF NoStage, NoVersion
  <2>2. CASE q # p
    BY <2>2, <1>1 DEF IInv, AtHand
  <2>3. QED
    BY <2>1, <2>2
<1>6. TrueHistory' /\ ProvenanceCoversTables' /\ MarkerImpliesPublished'
  BY DEF IInv, TrueHistory, ProvenanceCoversTables, MarkerImpliesPublished, Newest, lake
<1>7. NotStale'
  BY <1>1, <1>2 DEF IInv, NotStale, Untried, lake
<1>8. Published'
  BY <1>1, <1>2 DEF IInv, Published, Checksum, lake
<1>9. QED
  BY <1>3, <1>4, <1>5, <1>6, <1>7, <1>8 DEF IInv

\* The parts of the invariant that are about DuckLake alone.
LEMMA LakeSound ==
  ASSUME IInv, UNCHANGED <<versions, markers, lake>>
  PROVE  TrueHistory' /\ ProvenanceCoversTables' /\ MarkerImpliesPublished'
BY DEF IInv, TrueHistory, ProvenanceCoversTables, MarkerImpliesPublished, Newest, lake

\* The ledger has every version it had.
Grown ==
  \A o \in Object :
    /\ Newest(o) \in Nat /\ Newest(o)' \in Nat /\ Newest(o) <= Newest(o)'
    /\ \A n \in 1..Newest(o) : versions'[o][n] = versions[o][n]

LEMMA SameVersions == TypeOK /\ UNCHANGED versions => Grown
BY NewestType DEF Grown, Newest

\* A run that acquires, or waits, disturbs nobody's publication.
LEMMA AcquisitionSound ==
  ASSUME TypeOK, IInv, NEW p \in Process, Grown, UNCHANGED <<markers, lake, lock, successful>>,
         pc[p] \notin Inside, pc'[p] \notin Inside,
         \A q \in Process \ {p} : UNCHANGED <<pc[q], got[q], batch[q], tried[q]>>,
         batch[p] \subseteq batch'[p]
  PROVE  /\ Locked' /\ TrueHistory' /\ NotStale' /\ Published'
         /\ ProvenanceCoversTables' /\ MarkerImpliesPublished'
<1>1. Locked'
  BY DEF IInv, Locked
<1>2. TrueHistory'
  <2> SUFFICES ASSUME NEW o \in Object
               PROVE  /\ provFrom[o] <= Newest(o)'
                      /\ \A t \in Table : partition[o][t] =
                           IF from[o][t] = 0 THEN None ELSE versions'[o][from[o][t]]
    BY DEF TrueHistory, lake
  <2>1. provFrom[o] \in Nat /\ provFrom[o] <= Newest(o)
    BY DEF IInv, TrueHistory, TypeOK
  <2>2. Newest(o) \in Nat /\ Newest(o)' \in Nat /\ Newest(o) <= Newest(o)'
    BY DEF Grown
  <2>3. ASSUME NEW t \in Table, from[o][t] # 0 PROVE from[o][t] \in 1..Newest(o)
    <3>1. from[o][t] \in Nat /\ from[o][t] <= provFrom[o]
      BY DEF IInv, ProvenanceCoversTables, TypeOK
    <3>2. QED
      BY <2>1, <2>2, <2>3, <3>1
  <2>4. QED
    BY <2>1, <2>2, <2>3 DEF IInv, TrueHistory, Grown
<1>3. NotStale'
  BY DEF IInv, NotStale, Untried, Inside, lake
<1>4. Published'
  <2> SUFFICES ASSUME NEW q \in Process
               PROVE  /\ successful[q] \subseteq batch'[q]
                      /\ pc'[q] \notin {"publishing", "leaving"} => successful[q] = {}
                      /\ pc'[q] = "publishing" =>
                           \A o \in successful[q] : \A t \in Writes[Checksum(q, o)'] :
                             from[o][t] = got'[q][o]
    BY DEF Published, lake
  <2>1. CASE q = p
    BY <2>1 DEF IInv, Published, Inside
  <2>2. CASE q # p
    <3>1. ASSUME NEW o \in successful[q] PROVE Checksum(q, o)' = Checksum(q, o)
      <4>1. o \in Object /\ got[q][o] \in 1..Newest(o)
        BY <3>1 DEF IInv, Published, AtHand, TypeOK
      <4>2. QED
        BY <2>2, <4>1 DEF Checksum, Grown
    <3>2. QED
      BY <2>2, <3>1 DEF IInv, Published
  <2>3. QED
    BY <2>1, <2>2
<1>5. ProvenanceCoversTables'
  BY DEF IInv, ProvenanceCoversTables, lake
<1>6. MarkerImpliesPublished'
  <2> SUFFICES ASSUME NEW m \in markers, NEW t \in Writes[m[2]]
               PROVE  \E k \in 1..from[m[1]][t] : versions'[m[1]][k] = m[2]
    BY DEF MarkerImpliesPublished, lake
  <2>1. m[1] \in Object /\ m[2] \in Content
    BY DEF TypeOK
  <2>2. t \in Table
    BY <2>1, WritesAssumption
  <2>3. PICK k \in 1..from[m[1]][t] : versions[m[1]][k] = m[2]
    BY DEF IInv, MarkerImpliesPublished
  <2>4. from[m[1]][t] \in Nat /\ from[m[1]][t] <= provFrom[m[1]]
    BY <2>1, <2>2 DEF IInv, ProvenanceCoversTables, TypeOK
  <2>5. provFrom[m[1]] \in Nat /\ provFrom[m[1]] <= Newest(m[1]) /\ Newest(m[1]) \in Nat
    BY <2>1, NewestType DEF IInv, TrueHistory, TypeOK
  <2>6. k \in 1..Newest(m[1])
    BY <2>4, <2>5
  <2>7. QED
    BY <2>1, <2>3, <2>6 DEF Grown
<1>7. QED
  BY <1>1, <1>2, <1>3, <1>4, <1>5, <1>6

LEMMA IInvStep == TypeOK /\ IInv /\ [Next]_vars => IInv'
<1> SUFFICES ASSUME TypeOK, IInv, [Next]_vars PROVE IInv'
  OBVIOUS
<1>1. ASSUME NEW p \in Process, Start(p) PROVE IInv'
  <2>1. Grown
    BY <1>1, SameVersions DEF Start, ledger
  <2>2. /\ Locked' /\ TrueHistory' /\ NotStale' /\ Published'
        /\ ProvenanceCoversTables' /\ MarkerImpliesPublished'
    BY <1>1, <2>1, AcquisitionSound DEF Start, TypeOK, Inside, ledger
  <2>3. Quiet'
    BY <1>1 DEF Start, IInv, Quiet, TypeOK
  <2>4. AtHand'
    BY <1>1 DEF Start, IInv, AtHand, Newest, ledger
  <2>5. QED
    BY <2>2, <2>3, <2>4 DEF IInv
<1>2. ASSUME NEW p \in Process, LoadVersions(p) PROVE IInv'
  <2>1. Grown
    BY <1>2, SameVersions DEF LoadVersions, ledger
  <2>2. /\ Locked' /\ TrueHistory' /\ NotStale' /\ Published'
        /\ ProvenanceCoversTables' /\ MarkerImpliesPublished'
    BY <1>2, <2>1, AcquisitionSound DEF LoadVersions, TypeOK, Inside, ledger
  <2>3. Quiet'
    BY <1>2 DEF LoadVersions, IInv, Quiet, TypeOK
  <2>4. stage[p] = NoStage
    BY <1>2 DEF LoadVersions, IInv, Quiet
  <2>5. \A o \in Object : known'[p][o] <= Newest(o)
    BY <1>2, NewestType DEF LoadVersions, TypeOK
  <2>6. AtHand'
    <3> SUFFICES ASSUME NEW q \in Process, NEW o \in Object
                 PROVE  /\ known'[q][o] <= Newest(o)
                        /\ stage[q][o] = "not modified" => known'[q][o] > 0
                        /\ stage[q][o] = "fetched" => body[q][o] \in Content
                        /\ stage[q][o] = "done" \/ o \in todo[q] \cup batch[q]
                             => got[q][o] \in 1..Newest(o)
      BY <1>2 DEF LoadVersions, AtHand, Newest, ledger
    <3>1. CASE q = p
      BY <3>1, <2>4, <2>5 DEF NoStage, IInv, AtHand
    <3>2. CASE q # p
      BY <3>2, <1>2 DEF LoadVersions, IInv, AtHand, TypeOK
    <3>3. QED
      BY <3>1, <3>2
  <2>7. QED
    BY <2>2, <2>3, <2>6 DEF IInv
<1>3. ASSUME NEW p \in Process, Select(p) PROVE IInv'
  <2>1. Grown
    BY <1>3, SameVersions DEF Select, ledger
  <2>2. /\ Locked' /\ TrueHistory' /\ NotStale' /\ Published'
        /\ ProvenanceCoversTables' /\ MarkerImpliesPublished'
    BY <1>3, <2>1, AcquisitionSound DEF Select, AllAcquired, TypeOK, Inside, ledger
  <2>3. Quiet'
    BY <1>3 DEF Select, IInv, Quiet, TypeOK
  <2>4. \A o \in Object : got[p][o] \in 1..Newest(o)
    BY <1>3 DEF Select, AllAcquired, IInv, AtHand
  <2>5. AtHand'
    <3> SUFFICES ASSUME NEW q \in Process, NEW o \in Object
                 PROVE  /\ known'[q][o] <= Newest(o)
                        /\ stage'[q][o] = "not modified" => known'[q][o] > 0
                        /\ stage'[q][o] = "fetched" => body'[q][o] \in Content
                        /\ stage'[q][o] = "done" \/ o \in todo'[q] \cup batch[q]
                             => got[q][o] \in 1..Newest(o)
      BY <1>3 DEF Select, AtHand, Newest, ledger
    <3>1. CASE q = p
      <4>1. stage'[p][o] = "todo" /\ known'[p][o] = 0
        BY <1>3 DEF Select, NoStage, NoVersion, TypeOK
      <4>2. QED
        BY <3>1, <4>1, <2>4, NewestType
    <3>2. CASE q # p
      BY <3>2, <1>3 DEF Select, IInv, AtHand, TypeOK
    <3>3. QED
      BY <3>1, <3>2
  <2>6. QED
    BY <2>2, <2>3, <2>5 DEF IInv
<1>4. ASSUME NEW p \in Process, NothingToPublish(p) \/ FilterRaises(p) \/ Finish(p) \/ Crash(p)
      PROVE  IInv'
  <2>1. \A q \in Process \ {p} : lock = q => lock' = q
    BY <1>4 DEF NothingToPublish, FilterRaises, Finish, Crash, IInv, Locked, Inside
  <2>2. Forget(p) /\ UNCHANGED <<versions, markers, lake>>
    BY <1>4 DEF NothingToPublish, FilterRaises, Finish, Crash, ledger
  <2>3. QED
    BY <2>1, <2>2, ForgetSound
<1>5. ASSUME NEW p \in Process, EnterScope(p) PROVE IInv'
  <2>1. todo'[p] \cup batch'[p] \subseteq todo[p] \cup batch[p]
    BY <1>5 DEF EnterScope, TypeOK
  <2>2. \A q \in Process \ {p} : UNCHANGED <<pc[q], todo[q], batch[q]>>
    BY <1>5 DEF EnterScope, TypeOK
  <2>3. \A q \in Process : pc[q] \notin Inside
    BY <1>5, ProcessAssumption DEF EnterScope, IInv, Locked, Inside
  <2>4. pc'[p] = "filtering" /\ lock' = p /\ successful[p] = {}
    BY <1>5 DEF EnterScope, IInv, Published, TypeOK
  <2>5. Locked'
    BY <2>2, <2>3, <2>4 DEF Locked
  <2>6. Quiet'
    BY <1>5, <2>2, <2>4 DEF EnterScope, IInv, Quiet
  <2>7. AtHand'
    <3> SUFFICES ASSUME NEW q \in Process, NEW o \in Object
                 PROVE  stage[q][o] = "done" \/ o \in todo'[q] \cup batch'[q]
                          => got[q][o] \in 1..Newest(o)
      BY <1>5 DEF EnterScope, IInv, AtHand, Newest, ledger
    <3>1. QED
      BY <2>1, <2>2 DEF IInv, AtHand
  <2>8. NotStale'
    BY <2>2, <2>3, <2>4 DEF NotStale, Inside
  <2>9. Published'
    BY <1>5, <2>2, <2>3, <2>4 DEF EnterScope, IInv, Published, Inside
  <2>10. TrueHistory' /\ ProvenanceCoversTables' /\ MarkerImpliesPublished'
    BY <1>5, LakeSound DEF EnterScope, ledger
  <2>11. QED
    BY <2>5, <2>6, <2>7, <2>8, <2>9, <2>10 DEF IInv
<1>6. ASSUME NEW p \in Process, FilterAfterLock(p) PROVE IInv'
  <2>1. batch'[p] = Current(p) /\ pc'[p] = "publishing" /\ successful[p] = {}
    BY <1>6 DEF FilterAfterLock, IInv, Published, TypeOK
  <2>2. \A q \in Process \ {p} : UNCHANGED <<pc[q], batch[q]>>
    BY <1>6 DEF FilterAfterLock, TypeOK
  <2>3. \A q \in Process \ {p} : pc[q] \notin Inside
    BY <1>6, OthersOutside DEF FilterAfterLock, Inside
  <2>4. Current(p) \subseteq batch[p]
    BY DEF Current, Unpublished
  <2>5. Locked'
    BY <1>6, <2>2, <2>3 DEF FilterAfterLock, IInv, Locked, Inside
  <2>6. Quiet'
    BY <1>6, <2>1, <2>2 DEF FilterAfterLock, IInv, Quiet
  <2>7. AtHand'
    <3> SUFFICES ASSUME NEW q \in Process, NEW o \in Object
                 PROVE  stage[q][o] = "done" \/ o \in todo[q] \cup batch'[q]
                          => got[q][o] \in 1..Newest(o)
      BY <1>6 DEF FilterAfterLock, IInv, AtHand, Newest, ledger
    <3>1. QED
      BY <2>1, <2>2, <2>4 DEF IInv, AtHand
  <2>8. NotStale'
    <3> SUFFICES ASSUME NEW q \in Process, pc'[q] = "publishing", NEW o \in batch'[q]
                 PROVE  provFrom[o] <= got[q][o]
      BY <1>6 DEF FilterAfterLock, NotStale, Untried, lake
    <3>1. q = p
      BY <2>2, <2>3 DEF Inside
    <3>2. o \in Object /\ got[p][o] = Newest(o)
      BY <3>1, <2>1 DEF Current, Unpublished, TypeOK
    <3>3. QED
      BY <3>1, <3>2 DEF IInv, TrueHistory
  <2>9. Published'
    <3> SUFFICES ASSUME NEW q \in Process
                 PROVE  /\ successful[q] \subseteq batch'[q]
                        /\ pc'[q] \notin {"publishing", "leaving"} => successful[q] = {}
                        /\ pc'[q] = "publishing" => successful[q] = {}
      BY <1>6 DEF FilterAfterLock, Published
    <3>1. QED
      BY <2>1, <2>2, <2>3 DEF IInv, Published, Inside
  <2>10. TrueHistory' /\ ProvenanceCoversTables' /\ MarkerImpliesPublished'
    BY <1>6, LakeSound DEF FilterAfterLock, ledger
  <2>11. QED
    BY <2>5, <2>6, <2>7, <2>8, <2>9, <2>10 DEF IInv
<1>7. ASSUME NEW p \in Process, Mark(p) PROVE IInv'
  <2>1. pc'[p] = "leaving" /\ \A q \in Process \ {p} : UNCHANGED pc[q]
    BY <1>7 DEF Mark, TypeOK
  <2>2. Locked' /\ Quiet'
    BY <1>7, <2>1 DEF Mark, IInv, Locked, Quiet, Inside, run
  <2>3. AtHand'
    BY <1>7 DEF Mark, IInv, AtHand, Newest, run
  <2>4. TrueHistory' /\ ProvenanceCoversTables'
    BY <1>7 DEF Mark, IInv, TrueHistory, ProvenanceCoversTables, Newest, lake
  <2>5. NotStale'
    BY <1>7, <2>1 DEF Mark, IInv, NotStale, Untried, lake, run
  <2>6. Published'
    BY <1>7, <2>1 DEF Mark, IInv, Published, Checksum, lake, run
  <2>7. MarkerImpliesPublished'
    <3> SUFFICES ASSUME NEW m \in markers', NEW t \in Writes[m[2]]
                 PROVE  \E k \in 1..from[m[1]][t] : versions[m[1]][k] = m[2]
      BY <1>7 DEF Mark, MarkerImpliesPublished, lake
    <3>1. CASE m \in markers
      BY <3>1 DEF IInv, MarkerImpliesPublished
    <3>2. ASSUME NEW o \in successful[p], m = <<o, Checksum(p, o)>>
          PROVE  \E k \in 1..from[m[1]][t] : versions[m[1]][k] = m[2]
      <4>1. o \in Object /\ got[p][o] \in 1..Newest(o)
        BY <3>2 DEF IInv, Published, AtHand, TypeOK
      <4>2. from[o][t] = got[p][o]
        BY <1>7, <3>2 DEF Mark, IInv, Published
      <4>3. got[p][o] \in 1..from[o][t]
        BY <4>1, <4>2, NewestType
      <4>4. QED
        BY <3>2, <4>3 DEF Checksum
    <3>3. QED
      BY <1>7, <3>1, <3>2 DEF Mark
  <2>8. QED
    BY <2>2, <2>3, <2>4, <2>5, <2>6, <2>7 DEF IInv
<1>8. ASSUME NEW p \in Process, LeaveScope(p) PROVE IInv'
  <2>1. pc'[p] = "between" /\ batch'[p] = {} /\ successful'[p] = {}
    BY <1>8 DEF LeaveScope, TypeOK
  <2>2. \A q \in Process \ {p} : UNCHANGED <<pc[q], batch[q], tried[q], successful[q]>>
    BY <1>8 DEF LeaveScope, TypeOK
  <2>3. \A q \in Process \ {p} : pc[q] \notin Inside
    BY <1>8, OthersOutside DEF LeaveScope, Inside
  <2>4. Locked' /\ NotStale'
    BY <2>1, <2>2, <2>3 DEF Locked, NotStale, Inside
  <2>5. Quiet'
    BY <1>8, <2>1, <2>2 DEF LeaveScope, IInv, Quiet
  <2>6. AtHand'
    <3> SUFFICES ASSUME NEW q \in Process, NEW o \in Object
                 PROVE  stage[q][o] = "done" \/ o \in todo[q] \cup batch'[q]
                          => got[q][o] \in 1..Newest(o)
      BY <1>8 DEF LeaveScope, IInv, AtHand, Newest, ledger
    <3>1. QED
      BY <2>1, <2>2 DEF IInv, AtHand
  <2>7. Published'
    BY <2>1, <2>2, <2>3 DEF IInv, Published, Inside
  <2>8. TrueHistory' /\ ProvenanceCoversTables' /\ MarkerImpliesPublished'
    BY <1>8, LakeSound DEF LeaveScope, ledger
  <2>9. QED
    BY <2>4, <2>5, <2>6, <2>7, <2>8 DEF IInv
<1>9. ASSUME NEW p \in Process, NEW o \in Object, Revalidate(p, o) PROVE IInv'
  <2>1. Grown
    BY <1>9, SameVersions DEF Revalidate, ledger
  <2>2. /\ Locked' /\ TrueHistory' /\ NotStale' /\ Published'
        /\ ProvenanceCoversTables' /\ MarkerImpliesPublished'
    BY <1>9, <2>1, AcquisitionSound DEF Revalidate, Acquiring, TypeOK, Inside, ledger
  <2>3. Quiet'
    BY <1>9 DEF Revalidate, Acquiring, IInv, Quiet, TypeOK
  <2>4. /\ stage'[p][o] \in {"fetched", "not modified", "reread"} /\ body'[p][o] \in Content
        /\ stage'[p][o] = "not modified" => known[p][o] > 0
        /\ o \in todo[p] \cup batch[p] => got[p][o] \in 1..Newest(o)
    BY <1>9, UpstreamType DEF Revalidate, HasFile, IInv, AtHand, TypeOK
  <2>5. AtHand'
    <3> SUFFICES ASSUME NEW q \in Process, NEW x \in Object
                 PROVE  /\ known[q][x] <= Newest(x)
                        /\ stage'[q][x] = "not modified" => known[q][x] > 0
                        /\ stage'[q][x] = "fetched" => body'[q][x] \in Content
                        /\ stage'[q][x] = "done" \/ x \in todo[q] \cup batch[q]
                             => got[q][x] \in 1..Newest(x)
      BY <1>9 DEF Revalidate, AtHand, Newest, ledger
    <3>1. CASE q = p /\ x = o
      BY <3>1, <2>4 DEF IInv, AtHand
    <3>2. CASE ~(q = p /\ x = o)
      <4>1. UNCHANGED <<stage[q][x], body[q][x], got[q][x]>>
        BY <3>2, <1>9 DEF Revalidate, TypeOK
      <4>2. QED
        BY <4>1 DEF IInv, AtHand
    <3>3. QED
      BY <3>1, <3>2
  <2>6. QED
    BY <2>2, <2>3, <2>5 DEF IInv
<1>10. ASSUME NEW p \in Process, NEW o \in Object, Reread(p, o) PROVE IInv'
  <2>1. Grown
    BY <1>10, SameVersions DEF Reread, ledger
  <2>2. /\ Locked' /\ TrueHistory' /\ NotStale' /\ Published'
        /\ ProvenanceCoversTables' /\ MarkerImpliesPublished'
    BY <1>10, <2>1, AcquisitionSound DEF Reread, Acquiring, TypeOK, Inside, ledger
  <2>3. Quiet'
    BY <1>10 DEF Reread, Acquiring, IInv, Quiet, TypeOK
  <2>4. stage'[p][o] = "fetched" /\ body'[p][o] \in Content
    BY <1>10, UpstreamType DEF Reread, TypeOK
  <2>5. AtHand'
    <3> SUFFICES ASSUME NEW q \in Process, NEW x \in Object
                 PROVE  /\ known[q][x] <= Newest(x)
                        /\ stage'[q][x] = "not modified" => known[q][x] > 0
                        /\ stage'[q][x] = "fetched" => body'[q][x] \in Content
                        /\ stage'[q][x] = "done" \/ x \in todo[q] \cup batch[q]
                             => got[q][x] \in 1..Newest(x)
      BY <1>10 DEF Reread, AtHand, Newest, ledger
    <3>1. CASE q = p /\ x = o
      BY <3>1, <2>4 DEF IInv, AtHand
    <3>2. CASE ~(q = p /\ x = o)
      <4>1. UNCHANGED <<stage[q][x], body[q][x], got[q][x]>>
        BY <3>2, <1>10 DEF Reread, TypeOK
      <4>2. QED
        BY <4>1 DEF IInv, AtHand
    <3>3. QED
      BY <3>1, <3>2
  <2>6. QED
    BY <2>2, <2>3, <2>5 DEF IInv
<1>11. ASSUME NEW p \in Process, NEW o \in Object, RecordHit(p, o) PROVE IInv'
  <2>1. Grown
    BY <1>11, SameVersions DEF RecordHit, ledger
  <2>2. /\ Locked' /\ TrueHistory' /\ NotStale' /\ Published'
        /\ ProvenanceCoversTables' /\ MarkerImpliesPublished'
    BY <1>11, <2>1, AcquisitionSound DEF RecordHit, Acquiring, TypeOK, Inside, ledger
  <2>3. Quiet'
    BY <1>11 DEF RecordHit, Acquiring, IInv, Quiet, TypeOK
  <2>4. stage'[p][o] = "done" /\ got'[p][o] \in 1..Newest(o)
    <3>1. known[p][o] \in Nat /\ known[p][o] > 0 /\ known[p][o] <= Newest(o)
      <4>1. known[p][o] \in Nat
        BY DEF TypeOK
      <4>2. stage[p][o] = "not modified"
        BY <1>11 DEF RecordHit, Acquiring
      <4>3. QED
        BY <4>1, <4>2 DEF IInv, AtHand
    <3>2. stage'[p][o] = "done" /\ got'[p][o] = known[p][o]
      BY <1>11 DEF RecordHit, TypeOK
    <3>3. QED
      BY <3>1, <3>2, NewestType
  <2>5. AtHand'
    <3> SUFFICES ASSUME NEW q \in Process, NEW x \in Object
                 PROVE  /\ known[q][x] <= Newest(x)
                        /\ stage'[q][x] = "not modified" => known[q][x] > 0
                        /\ stage'[q][x] = "fetched" => body[q][x] \in Content
                        /\ stage'[q][x] = "done" \/ x \in todo[q] \cup batch[q]
                             => got'[q][x] \in 1..Newest(x)
      BY <1>11 DEF RecordHit, AtHand, Newest, ledger
    <3>1. CASE q = p /\ x = o
      BY <3>1, <2>4 DEF IInv, AtHand
    <3>2. CASE ~(q = p /\ x = o)
      <4>1. UNCHANGED <<stage[q][x], body[q][x], got[q][x]>>
        BY <3>2, <1>11 DEF RecordHit, TypeOK
      <4>2. QED
        BY <4>1 DEF IInv, AtHand
    <3>3. QED
      BY <3>1, <3>2
  <2>6. QED
    BY <2>2, <2>3, <2>5 DEF IInv
<1>12. ASSUME NEW p \in Process, NEW o \in Object, RecordStore(p, o) PROVE IInv'
  <2>1. body[p][o] \in Content
    BY <1>12 DEF RecordStore, Acquiring, IInv, AtHand
  <2>2. Grown /\ Newest(o)' = Newest(o) + 1
    BY <1>12, <2>1, AppendSound DEF RecordStore, Grown
  <2>3. /\ Locked' /\ TrueHistory' /\ NotStale' /\ Published'
        /\ ProvenanceCoversTables' /\ MarkerImpliesPublished'
    BY <1>12, <2>2, AcquisitionSound DEF RecordStore, Acquiring, TypeOK, Inside
  <2>4. Quiet'
    BY <1>12 DEF RecordStore, Acquiring, IInv, Quiet, TypeOK
  <2>5. stage'[p][o] = "done" /\ got'[p][o] = Newest(o) + 1
    BY <1>12 DEF RecordStore, TypeOK
  <2>6. AtHand'
    <3> SUFFICES ASSUME NEW q \in Process, NEW x \in Object
                 PROVE  /\ known[q][x] <= Newest(x)'
                        /\ stage'[q][x] = "not modified" => known[q][x] > 0
                        /\ stage'[q][x] = "fetched" => body[q][x] \in Content
                        /\ stage'[q][x] = "done" \/ x \in todo[q] \cup batch[q]
                             => got'[q][x] \in 1..Newest(x)'
      BY <1>12 DEF RecordStore, AtHand
    <3>1. /\ Newest(x) \in Nat /\ Newest(x)' \in Nat /\ Newest(x) <= Newest(x)'
          /\ known[q][x] \in Nat /\ known[q][x] <= Newest(x)
      BY <2>2 DEF Grown, IInv, AtHand, TypeOK
    <3>2. CASE q = p /\ x = o
      <4>1. Newest(x)' = Newest(x) + 1
        BY <2>2, <3>2 DEF Newest
      <4>2. stage'[q][x] = "done" /\ got'[q][x] = Newest(x) + 1
        BY <2>5, <3>2
      <4>3. QED
        BY <3>1, <4>1, <4>2
    <3>3. CASE ~(q = p /\ x = o)
      <4>1. stage'[q][x] = stage[q][x] /\ got'[q][x] = got[q][x]
        BY <3>3, <1>12 DEF RecordStore, TypeOK
      <4>2. /\ stage[q][x] = "not modified" => known[q][x] > 0
            /\ stage[q][x] = "fetched" => body[q][x] \in Content
            /\ stage[q][x] = "done" \/ x \in todo[q] \cup batch[q] => got[q][x] \in 1..Newest(x)
        BY DEF IInv, AtHand
      <4>3. got[q][x] \in 1..Newest(x) => got'[q][x] \in 1..Newest(x)'
        BY <3>1, <4>1
      <4>4. known[q][x] <= Newest(x)'
        BY <3>1
      <4>5. QED
        BY <4>1, <4>2, <4>3, <4>4
    <3>4. QED
      BY <3>2, <3>3
  <2>7. QED
    BY <2>3, <2>4, <2>6 DEF IInv
<1>13. ASSUME NEW p \in Process, NEW o \in Object, PublishOne(p, o) PROVE IInv'
  <2>1. tried[p] \cup {o} = tried'[p] /\ successful'[p] = successful[p] \cup {o}
    BY <1>13 DEF PublishOne, TypeOK
  <2>2. \A q \in Process \ {p} : UNCHANGED <<tried[q], successful[q]>>
    BY <1>13 DEF PublishOne, TypeOK
  <2>3. /\ TrueHistory' /\ NotStale' /\ Published'
        /\ ProvenanceCoversTables' /\ MarkerImpliesPublished'
    BY <1>13, <2>1, <2>2, ReplaceSound DEF PublishOne, ledger
  <2>4. Locked' /\ Quiet' /\ AtHand'
    BY <1>13 DEF PublishOne, IInv, Locked, Quiet, AtHand, Newest, ledger
  <2>5. QED
    BY <2>3, <2>4 DEF IInv
<1>14. ASSUME NEW p \in Process, NEW o \in Object,
              PublishOneRaises(p, o) \/ (CommitFails(p, o) /\ UNCHANGED lake)
       PROVE  IInv'
  <2>1. /\ UNCHANGED <<at, ledger, lost, lake, lock, pc, stage, known, sent, body, got, todo, batch,
                       successful>>
        /\ \A q \in Process : tried[q] \subseteq tried'[q]
    <3>1. /\ \E T \in {{o}, Untried(p)} : tried' = [tried EXCEPT ![p] = @ \cup T]
          /\ tried \in [Process -> SUBSET Object]
      BY <1>14 DEF PublishOneRaises, CommitFails, TypeOK
    <3>2. \A q \in Process : tried[q] \subseteq tried'[q]
      BY <3>1
    <3>3. QED
      BY <1>14, <3>2 DEF PublishOneRaises, CommitFails
  <2>2. Locked' /\ Quiet' /\ AtHand'
    BY <2>1 DEF IInv, Locked, Quiet, AtHand, Newest, ledger
  <2>3. NotStale'
    BY <2>1 DEF IInv, NotStale, Untried, lake
  <2>4. Published'
    BY <2>1 DEF IInv, Published, Checksum, lake, ledger
  <2>5. TrueHistory' /\ ProvenanceCoversTables' /\ MarkerImpliesPublished'
    BY <2>1, LakeSound DEF ledger
  <2>6. QED
    BY <2>2, <2>3, <2>4, <2>5 DEF IInv
<1>15. ASSUME NEW p \in Process, NEW o \in Object, CommitFails(p, o) PROVE IInv'
  <2>1. CASE UNCHANGED lake
    BY <1>15, <1>14, <2>1
  <2>2. CASE Replace(p, o)
    <3>1. tried[p] \cup {o} \subseteq tried'[p] /\ UNCHANGED successful
      BY <1>15 DEF CommitFails, TypeOK, Untried
    <3>2. \A q \in Process \ {p} : UNCHANGED <<tried[q], successful[q]>>
      BY <1>15 DEF CommitFails, TypeOK
    <3>3. /\ TrueHistory' /\ NotStale' /\ Published'
          /\ ProvenanceCoversTables' /\ MarkerImpliesPublished'
      BY <1>15, <2>2, <3>1, <3>2, ReplaceSound DEF CommitFails, ledger
    <3>4. Locked' /\ Quiet' /\ AtHand'
      BY <1>15 DEF CommitFails, IInv, Locked, Quiet, AtHand, Newest, ledger
    <3>5. QED
      BY <3>3, <3>4 DEF IInv
  <2>3. QED
    BY <1>15, <2>1, <2>2 DEF CommitFails
<1>16. ASSUME UNCHANGED <<ledger, lake, lock, pc, run>> PROVE IInv'
  <2>1. Locked' /\ Quiet' /\ AtHand'
    BY <1>16 DEF IInv, Locked, Quiet, AtHand, Newest, ledger, run
  <2>2. NotStale' /\ Published'
    BY <1>16 DEF IInv, NotStale, Untried, Published, Checksum, ledger, lake, run
  <2>3. TrueHistory' /\ ProvenanceCoversTables' /\ MarkerImpliesPublished'
    BY <1>16, LakeSound DEF ledger
  <2>4. QED
    BY <2>1, <2>2, <2>3 DEF IInv
<1>17. ASSUME NEW o \in Object, SourceChanges(o) \/ FileLost(o) PROVE IInv'
  BY <1>16, <1>17 DEF SourceChanges, FileLost
<1>18. CASE UNCHANGED vars
  BY <1>16, <1>18 DEF vars
<1>19. ASSUME NEW p \in Process, NEW o \in Object, PublishOneRaises(p, o) PROVE IInv'
  BY <1>14, <1>19
<1>20. ASSUME NEW o \in Object, SourceChanges(o) PROVE IInv'
  BY <1>17, <1>20
<1>21. ASSUME NEW o \in Object, FileLost(o) PROVE IInv'
  BY <1>17, <1>21
<1>22. QED
  BY <1>1, <1>2, <1>3, <1>4, <1>5, <1>6, <1>7, <1>8, <1>9, <1>10, <1>11, <1>12, <1>13,
     <1>15, <1>18, <1>19, <1>20, <1>21 DEF Next

LEMMA Invariant == Spec => [](TypeOK /\ IInv)
<1>1. Init => TypeOK
  <2> SUFFICES ASSUME Init PROVE TypeOK
    OBVIOUS
  <2>1. \A o \in Object : at[o] = 1 /\ 1 \in DOMAIN Served[o]
    BY ServedAssumption DEF Init
  <2>2. QED
    BY <2>1, MaxFaultsAssumption DEF Init, TypeOK, Sha, Nothing, NoVersion, NoStage, PCs, Stages
<1>2. Init => IInv
  BY DEF Init, IInv, Locked, Quiet, AtHand, TrueHistory, NotStale, Published,
         ProvenanceCoversTables, MarkerImpliesPublished, Nothing, NoVersion, NoStage, Inside,
         Newest, Untried
<1>3. QED
  BY <1>1, <1>2, TypeStep, IInvStep, PTL DEF Spec

----------------------------------------------------------------------------
(* The theorems.                                                           *)

(***************************************************************************)
(* A run acquires, publishes and marks nothing but versions of the ledger. *)
(***************************************************************************)
THEOREM TypeCorrect == Spec => []TypeOK
BY Invariant, PTL

(***************************************************************************)
(* What a table shows of an object is the content of one version, the one  *)
(* the history variables name: never a mixture of two runs.                *)
(***************************************************************************)
THEOREM HistoryTheorem == Spec => []TrueHistory
BY Invariant, PTL DEF IInv

(***************************************************************************)
(* However many runs overlap, crash or lose the answer to COMMIT, and      *)
(* whatever the source serves, no table goes back to an older version.     *)
(***************************************************************************)
THEOREM NeverOlderTheorem == Spec => NeverOlder
<1> DEFINE Kept == \A o \in Object : \A t \in Table : from'[o][t] >= from[o][t]
<1>1. TypeOK /\ IInv /\ [Next]_vars => [Kept]_vars
  <2> SUFFICES ASSUME TypeOK, IInv, Next PROVE Kept
    OBVIOUS
  <2>1. ASSUME UNCHANGED lake PROVE Kept
    BY <2>1 DEF lake, TypeOK
  <2>2. ASSUME NEW p \in Process, NEW o \in Object, PublishOne(p, o) PROVE Kept
    <3>1. tried[p] \cup {o} = tried'[p] /\ successful'[p] = successful[p] \cup {o}
      BY <2>2 DEF PublishOne, TypeOK
    <3>2. \A q \in Process \ {p} : UNCHANGED <<tried[q], successful[q]>>
      BY <2>2 DEF PublishOne, TypeOK
    <3>3. QED
      BY <2>2, <3>1, <3>2, ReplaceSound DEF PublishOne, ledger
  <2>3. ASSUME NEW p \in Process, NEW o \in Object, CommitFails(p, o) PROVE Kept
    <3>1. tried[p] \cup {o} \subseteq tried'[p] /\ UNCHANGED successful
      BY <2>3 DEF CommitFails, TypeOK, Untried
    <3>2. \A q \in Process \ {p} : UNCHANGED <<tried[q], successful[q]>>
      BY <2>3 DEF CommitFails, TypeOK
    <3>3. Replace(p, o) => Kept
      BY <2>3, <3>1, <3>2, ReplaceSound DEF CommitFails, ledger
    <3>4. QED
      BY <2>1, <2>3, <3>3 DEF CommitFails
  <2>4. ASSUME NEW p \in Process,
               \/ Start(p) \/ LoadVersions(p) \/ Select(p) \/ NothingToPublish(p) \/ EnterScope(p)
               \/ FilterAfterLock(p) \/ FilterRaises(p) \/ Mark(p)
               \/ LeaveScope(p) \/ Finish(p) \/ Crash(p)
        PROVE  UNCHANGED lake
    BY <2>4 DEF Start, LoadVersions, Select, NothingToPublish, EnterScope, FilterAfterLock,
                FilterRaises, Mark, LeaveScope, Finish, Crash
  <2>5. ASSUME NEW p \in Process, NEW o \in Object,
               \/ Revalidate(p, o) \/ Reread(p, o) \/ RecordHit(p, o) \/ RecordStore(p, o)
               \/ PublishOneRaises(p, o) \/ SourceChanges(o) \/ FileLost(o)
        PROVE  UNCHANGED lake
    BY <2>5 DEF Revalidate, Reread, RecordHit, RecordStore, PublishOneRaises,
                SourceChanges, FileLost
  <2>6. ASSUME NEW o \in Object, SourceChanges(o) \/ FileLost(o) PROVE UNCHANGED lake
    BY <2>6 DEF SourceChanges, FileLost
  <2> HIDE DEF Kept
  <2>7. QED
    BY <2>1, <2>2, <2>3, <2>4, <2>5, <2>6 DEF Next
<1>2. QED
  BY <1>1, Invariant, PTL DEF Spec, NeverOlder

(***************************************************************************)
(* The markers of the ledger are never ahead of DuckLake.                  *)
(***************************************************************************)
THEOREM MarkerTheorem == Spec => []MarkerImpliesPublished
BY Invariant, PTL DEF IInv

(***************************************************************************)
(* The provenance row and all the tables of its version change together.   *)
(***************************************************************************)
THEOREM ProvenanceTheorem == Spec => []ProvenanceCoversTables
BY Invariant, PTL DEF IInv

----------------------------------------------------------------------------
(* Accepted truth.                                                         *)

\* No content of an object comes back in the ledger after another one; a file
\* that was lost may be fetched and stored again while the source stands still.
NoneComesBack ==
  \A o \in Object : \A i \in 1..Newest(o) : \A j \in i..Newest(o) : \A k \in i..j :
    versions[o][i] = versions[o][j] => versions[o][k] = versions[o][i]

\* Where no content comes back, markers tell the truth about the newest version.
LEMMA TruthVisible ==
  ASSUME TypeOK, IInv, NoneComesBack
  PROVE  AcceptedTruthVisible
<1> SUFFICES ASSUME NEW o \in Object, Newest(o) > 0,
                    <<o, versions[o][Newest(o)]>> \in markers,
                    NEW t \in Writes[versions[o][Newest(o)]]
             PROVE  partition[o][t] = versions[o][Newest(o)]
  BY DEF AcceptedTruthVisible
<1> DEFINE n == Newest(o)
           c == versions[o][n]
<1>1. n \in Nat /\ n > 0 /\ n \in 1..n
  BY NewestType
<1>2. c \in Content
  BY <1>1 DEF TypeOK, Newest
<1>3. t \in Table
  BY <1>2, WritesAssumption
<1>4. PICK k \in 1..from[o][t] : versions[o][k] = c
  BY DEF IInv, MarkerImpliesPublished
<1>5. from[o][t] \in Nat /\ from[o][t] <= provFrom[o] /\ provFrom[o] \in Nat /\ provFrom[o] <= n
  BY <1>3 DEF IInv, ProvenanceCoversTables, TrueHistory, TypeOK
<1>6. k \in 1..n /\ from[o][t] \in k..n /\ n \in k..n /\ from[o][t] # 0
  BY <1>1, <1>4, <1>5
<1>7. versions[o][from[o][t]] = c
  BY <1>4, <1>6 DEF NoneComesBack
<1>8. partition[o][t] = versions[o][from[o][t]]
  BY <1>3, <1>6 DEF IInv, TrueHistory
<1>9. QED
  BY <1>7, <1>8

(***************************************************************************)
(* However many runs overlap, crash or lose the answer to COMMIT: where no *)
(* content comes back after another one, what has a marker is what readers *)
(* see.                                                                    *)
(***************************************************************************)
THEOREM AcceptedTruthTheorem == Spec => [](NoneComesBack => AcceptedTruthVisible)
<1>1. TypeOK /\ IInv => (NoneComesBack => AcceptedTruthVisible)
  BY TruthVisible
<1>2. QED
  BY <1>1, Invariant, PTL

----------------------------------------------------------------------------
(* Runs that do not overlap, and a source that does not go back.           *)

OneRun == \A p, q \in Process : p = q

NeverServedAgain ==
  \A o \in Object : \A a, b \in DOMAIN Served[o] : Served[o][a] = Served[o][b] => a = b

\* Versions are in the order in which the source had their contents, ...
InOrder(o) ==
  \A i \in 1..Newest(o) : \A j \in i..Newest(o) :
    \E a \in 1..at[o] : \E b \in a..at[o] :
      versions[o][i] = Served[o][a] /\ versions[o][j] = Served[o][b]

\* ... and a body that is to be stored is none the source had before them.
NotEarlier(p, o) ==
  stage[p][o] = "fetched" =>
    \E b \in 1..at[o] :
      /\ body[p][o] = Served[o][b]
      /\ \A i \in 1..Newest(o) : \E a \in 1..b : versions[o][i] = Served[o][a]

Ordered == \A o \in Object : InOrder(o) /\ \A p \in Process : NotEarlier(p, o)

\* A step that stores no version, and brings no body.
LEMMA OrderedStays ==
  ASSUME TypeOK, Ordered, UNCHANGED versions, \A o \in Object : at'[o] \in Nat /\ at'[o] >= at[o],
         NEW p \in Process, NEW o \in Object, stage'[p][o] = "fetched" =>
           stage[p][o] = "fetched" /\ body'[p][o] = body[p][o]
  PROVE  InOrder(o)' /\ NotEarlier(p, o)'
<1>1. at[o] \in Nat /\ at'[o] \in Nat /\ at'[o] >= at[o] /\ Newest(o) \in Nat /\ Newest(o)' = Newest(o)
  BY NewestType DEF TypeOK, Newest
<1>2. \A a \in 1..at[o] : a \in 1..at'[o] /\ \A b \in a..at[o] : b \in a..at'[o]
  BY <1>1
<1>3. InOrder(o)'
  BY <1>1, <1>2 DEF Ordered, InOrder
<1>4. NotEarlier(p, o)'
  BY <1>1, <1>2 DEF Ordered, NotEarlier
<1>5. QED
  BY <1>3, <1>4

\* The source's answer is its latest content.
LEMMA OrderedFetched ==
  ASSUME TypeOK, Ordered, NEW p \in Process, NEW o \in Object, UNCHANGED <<versions, at>>,
         body'[p][o] = upstream[o]
  PROVE  NotEarlier(p, o)'
<1>1. at[o] \in Nat /\ at[o] \in 1..at[o] /\ Newest(o) \in Nat /\ Newest(o)' = Newest(o)
  <2>1. at[o] \in DOMAIN Served[o] /\ Served[o] \in Seq(Content)
    BY ServedAssumption DEF TypeOK
  <2>2. QED
    BY <2>1, NewestType DEF Newest
<1>2. ASSUME NEW i \in 1..Newest(o) PROVE \E a \in 1..at[o] : versions[o][i] = Served[o][a]
  BY <1>1 DEF Ordered, InOrder
<1>3. QED
  BY <1>1, <1>2 DEF NotEarlier, upstream

\* Versions stay in the source's order when there is one run.
LEMMA OrderedStep ==
  ASSUME OneRun, TypeOK, Ordered, [Next]_vars, NEW p \in Process, NEW o \in Object
  PROVE  InOrder(o)' /\ NotEarlier(p, o)'
<1>1. \A q \in Process : q = p
  BY DEF OneRun
<1>2. at \in [Object -> Nat]
  BY DEF TypeOK
<1>3. CASE Revalidate(p, o) \/ Reread(p, o)
  <2>1. UNCHANGED <<versions, at>> /\ body' = [body EXCEPT ![p][o] = upstream[o]]
    BY <1>3 DEF Revalidate, Reread, ledger
  <2>2. body'[p][o] = upstream[o]
    BY <2>1 DEF TypeOK
  <2>3. InOrder(o)'
    <3>1. UNCHANGED <<Newest(o), versions, at>> /\ InOrder(o)
      BY <2>1 DEF Ordered, Newest
    <3>2. QED
      BY <3>1 DEF InOrder
  <2>4. QED
    BY <2>1, <2>2, <2>3, OrderedFetched
<1>4. CASE RecordStore(p, o)
  <2> DEFINE n == Newest(o)
             c == body[p][o]
  <2>1. stage[p][o] = "fetched" /\ stage'[p][o] = "done" /\ UNCHANGED at
    BY <1>4 DEF RecordStore, Acquiring, TypeOK
  <2>2. PICK b \in 1..at[o] :
          /\ c = Served[o][b]
          /\ \A i \in 1..n : \E a \in 1..b : versions[o][i] = Served[o][a]
    BY <2>1 DEF Ordered, NotEarlier
  <2>3. c \in Content
    <3>1. Served[o] \in Seq(Content) /\ b \in DOMAIN Served[o]
      BY <1>2, ServedAssumption DEF TypeOK
    <3>2. QED
      BY <2>2, <3>1
  <2>4. /\ n \in Nat /\ Newest(o)' = n + 1 /\ versions'[o][n + 1] = c
        /\ \A i \in 1..n : versions'[o][i] = versions[o][i]
    <3>1. versions[o] \in Seq(Content) /\ versions'[o] = Append(versions[o], c)
      BY <1>4 DEF RecordStore, TypeOK
    <3>2. QED
      BY <2>3, <3>1 DEF Newest
  <2> HIDE DEF n, c
  <2>5. ASSUME NEW i \in 1..n + 1, NEW j \in i..n + 1
        PROVE  \E x \in 1..at[o] : \E y \in x..at[o] :
                 versions'[o][i] = Served[o][x] /\ versions'[o][j] = Served[o][y]
    <3>1. CASE j <= n
      <4>1. i \in 1..n /\ j \in i..n
        BY <2>4, <3>1
      <4>2. QED
        BY <2>4, <4>1 DEF Ordered, InOrder, n
    <3>2. CASE j = n + 1 /\ i <= n
      <4>1. PICK a \in 1..b : versions[o][i] = Served[o][a]
        BY <2>2, <2>4, <3>2
      <4>2. a \in 1..at[o] /\ b \in a..at[o]
        BY <1>2, <2>2, <4>1
      <4>3. QED
        BY <2>2, <2>4, <3>2, <4>1, <4>2
    <3>3. CASE j = n + 1 /\ i = n + 1
      BY <1>2, <2>2, <2>4, <3>3
    <3>4. QED
      BY <2>4, <3>1, <3>2, <3>3
  <2>6. QED
    BY <2>1, <2>4, <2>5 DEF InOrder, NotEarlier
<1>5. CASE /\ UNCHANGED <<versions[o], at[o]>>
           /\ stage'[p][o] = "fetched" => stage[p][o] = "fetched" /\ body'[p][o] = body[p][o]
  BY <1>5 DEF Ordered, InOrder, NotEarlier, Newest
<1>6. ASSUME NEW x \in Object, SourceChanges(x) PROVE InOrder(o)' /\ NotEarlier(p, o)'
  <2>1. \A y \in Object : at'[y] \in Nat /\ at'[y] >= at[y]
    BY <1>2, <1>6 DEF SourceChanges
  <2>2. QED
    BY <1>6, <2>1, OrderedStays DEF SourceChanges, ledger, run
<1>7. ASSUME NEW x \in Object, x # o,
             Revalidate(p, x) \/ Reread(p, x) \/ RecordStore(p, x)
      PROVE  InOrder(o)' /\ NotEarlier(p, o)'
  <2>1. UNCHANGED at /\ versions'[o] = versions[o]
    BY <1>7 DEF Revalidate, Reread, RecordStore, ledger, TypeOK
  <2>2. stage'[p][o] = stage[p][o] /\ body'[p][o] = body[p][o]
    <3>1. stage \in [Process -> [Object -> Stages]] /\ body \in [Process -> [Object -> Sha]]
      BY DEF TypeOK
    <3>2. CASE Revalidate(p, x)
      BY <1>7, <3>1, <3>2 DEF Revalidate
    <3>3. CASE Reread(p, x)
      BY <1>7, <3>1, <3>3 DEF Reread
    <3>4. CASE RecordStore(p, x)
      BY <1>7, <3>1, <3>4 DEF RecordStore
    <3>5. QED
      BY <1>7, <3>2, <3>3, <3>4
  <2>3. QED
    BY <1>5, <2>1, <2>2
<1>8. ASSUME NEW x \in Object, RecordHit(p, x) PROVE InOrder(o)' /\ NotEarlier(p, o)'
  BY <1>5, <1>8 DEF RecordHit, TypeOK
<1>9. CASE Start(p) \/ LoadVersions(p) \/ EnterScope(p) \/ FilterAfterLock(p) \/ Mark(p) \/ LeaveScope(p)
  BY <1>5, <1>9 DEF Start, LoadVersions, EnterScope, FilterAfterLock, Mark, LeaveScope,
     ledger, run
<1>10. CASE Select(p) \/ NothingToPublish(p) \/ FilterRaises(p) \/ Finish(p) \/ Crash(p)
  <2>1. UNCHANGED <<versions, at>> /\ stage'[p] = NoStage
    BY <1>10 DEF Select, NothingToPublish, FilterRaises, Finish, Crash, Forget, ledger, TypeOK
  <2>2. QED
    BY <1>5, <2>1 DEF NoStage
<1>11. ASSUME NEW x \in Object, PublishOne(p, x) \/ PublishOneRaises(p, x) \/ CommitFails(p, x)
       PROVE  InOrder(o)' /\ NotEarlier(p, o)'
  BY <1>5, <1>11 DEF PublishOne, PublishOneRaises, CommitFails, ledger
<1>12. ASSUME NEW x \in Object, FileLost(x) PROVE InOrder(o)' /\ NotEarlier(p, o)'
  BY <1>5, <1>12 DEF FileLost, ledger, run
<1>13. CASE UNCHANGED vars
  BY <1>5, <1>13 DEF vars, ledger, run
<1>14. QED
  BY <1>1, <1>3, <1>4, <1>6, <1>7, <1>8, <1>9, <1>10, <1>11, <1>12, <1>13 DEF Next

\* The same of them all; without a run nothing is stored.
LEMMA OrderedKept == ASSUME OneRun, TypeOK, Ordered, [Next]_vars PROVE Ordered'
<1>1. CASE Process # {}
  BY <1>1, OrderedStep DEF Ordered
<1>2. CASE Process = {}
  <2> SUFFICES ASSUME NEW o \in Object PROVE InOrder(o)'
    BY <1>2 DEF Ordered
  <2>1. UNCHANGED versions /\ at'[o] \in Nat /\ at'[o] >= at[o] /\ at[o] \in Nat
    <3>1. at \in [Object -> Nat]
      BY DEF TypeOK
    <3>2. ASSUME NEW x \in Object, SourceChanges(x)
          PROVE  UNCHANGED versions /\ at'[o] \in {at[o], at[o] + 1}
      BY <3>1, <3>2 DEF SourceChanges, ledger
    <3>3. ASSUME NEW x \in Object, FileLost(x) PROVE UNCHANGED <<versions, at>>
      BY <3>3 DEF FileLost, ledger
    <3>4. UNCHANGED versions /\ at'[o] \in {at[o], at[o] + 1}
      BY <1>2, <3>2, <3>3 DEF Next, vars, ledger
    <3>5. QED
      BY <3>1, <3>4
  <2>2. \A a \in 1..at[o] : a \in 1..at'[o] /\ \A b \in a..at[o] : b \in a..at'[o]
    BY <2>1
  <2>3. Newest(o)' = Newest(o) /\ versions'[o] = versions[o] /\ InOrder(o)
    BY <2>1 DEF Ordered, Newest
  <2>4. ASSUME NEW i \in 1..Newest(o), NEW j \in i..Newest(o)
        PROVE  \E a \in 1..at'[o] : \E b \in a..at'[o] :
                 versions[o][i] = Served[o][a] /\ versions[o][j] = Served[o][b]
    <3>1. PICK a \in 1..at[o] : \E b \in a..at[o] :
            versions[o][i] = Served[o][a] /\ versions[o][j] = Served[o][b]
      BY <2>3 DEF InOrder
    <3>2. QED
      BY <2>2, <3>1
  <2>5. QED
    BY <2>3, <2>4 DEF InOrder
<1>3. QED
  BY <1>1, <1>2

\* Versions in the source's order do not come back when its contents do not.
LEMMA OrderedNoneComesBack ==
  ASSUME TypeOK, Ordered, NeverServedAgain
  PROVE  NoneComesBack
<1> SUFFICES ASSUME NEW o \in Object, NEW i \in 1..Newest(o), NEW j \in i..Newest(o), NEW k \in i..j,
                    versions[o][i] = versions[o][j]
             PROVE  versions[o][k] = versions[o][i]
  BY DEF NoneComesBack
<1>1. Newest(o) \in Nat /\ k \in i..Newest(o) /\ k \in 1..Newest(o) /\ j \in k..Newest(o)
  BY NewestType
<1>2. at[o] \in Nat /\ \A a \in 1..at[o] : a \in DOMAIN Served[o]
  <2>1. at[o] \in DOMAIN Served[o] /\ Served[o] \in Seq(Content)
    BY ServedAssumption DEF TypeOK
  <2>2. QED
    BY <2>1
<1>3. PICK a \in 1..at[o], b \in 1..at[o] :
        a <= b /\ versions[o][i] = Served[o][a] /\ versions[o][k] = Served[o][b]
  BY <1>1, <1>2 DEF Ordered, InOrder
<1>4. PICK c \in 1..at[o], d \in 1..at[o] :
        c <= d /\ versions[o][k] = Served[o][c] /\ versions[o][j] = Served[o][d]
  BY <1>1, <1>2 DEF Ordered, InOrder
<1>5. b = c /\ a = d
  BY <1>2, <1>3, <1>4 DEF NeverServedAgain
<1>6. a = b
  BY <1>3, <1>4, <1>5
<1>7. QED
  BY <1>3, <1>6

(***************************************************************************)
(* Where runs do not overlap and the source does not go back, what has a   *)
(* marker is what readers see, past crashes, lost files, unreadable        *)
(* contents and commits in doubt.                                          *)
(***************************************************************************)
THEOREM AcceptedTruthOfOneRun ==
  ASSUME OneRun, NeverServedAgain
  PROVE  Spec => []AcceptedTruthVisible
<1>1. Init => Ordered
  BY DEF Init, Ordered, InOrder, NotEarlier, Newest, NoStage
<1>2. TypeOK /\ Ordered /\ [Next]_vars => Ordered'
  BY OrderedKept
<1>3. TypeOK /\ IInv /\ Ordered => AcceptedTruthVisible
  BY OrderedNoneComesBack, TruthVisible
<1>4. QED
  BY <1>1, <1>2, <1>3, Invariant, PTL DEF Spec
=============================================================================
