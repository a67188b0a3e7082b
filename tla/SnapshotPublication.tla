------------------------- MODULE SnapshotPublication -------------------------
(***************************************************************************)
(* publication/runner.py run_dataset_pipeline for a snapshot dataset       *)
(* (market_orders, fuzzwork_orders): overlapping runs of one dataset, from *)
(* the download of its raw objects to their publication markers.           *)
(*                                                                         *)
(* A run takes every object from the raw object store (RawObjectStore,     *)
(* RawObjectDownloader), drops those with a publication marker, and for    *)
(* each publication scope takes the dataset's locks, filters again,        *)
(* publishes the scope's objects in one DuckLake transaction, and then, in *)
(* a transaction of another database, writes the markers.                  *)
(*                                                                         *)
(* Four stores disagree for a while at every step and are state of their   *)
(* own: the file system, the PostgreSQL raw object ledger (its versions    *)
(* and its markers), DuckLake (rows and provenance), and a run's memory.   *)
(* A content stands for its SHA-256.  The locks are one lock: the domains  *)
(* of a dataset are always taken together (see DuckLakeLocks).             *)
(***************************************************************************)
EXTENDS Naturals, Sequences

CONSTANTS
  Process,     \* the processes that run the pipeline of this dataset
  Object,      \* its source objects (one snapshot each)
  Content,     \* what the source may serve
  Unparsable,  \* contents that publish_one cannot read
  None,
  ScopeOf,     \* publication scope of an object: its source date
  Ranges,      \* the sets of objects a run may be configured to discover
  Revisable,   \* objects whose file the source may replace after all
  MaxFaults    \* bound on crashes, failed statements and cancelled waits

ASSUME ProcessAssumption == None \notin Process
ASSUME ContentAssumption == Unparsable \subseteq Content /\ None \notin Content
ASSUME RangesAssumption == Ranges \subseteq SUBSET Object
ASSUME RevisableAssumption == Revisable \subseteq Object
ASSUME MaxFaultsAssumption == MaxFaults \in Nat

Sha == Content \cup {None}

VARIABLES
  \* the world outside the runs
  upstream,  \* upstream[o]: what the source serves for o
  file,      \* file[o]: the file at o's path, which is the same in every run
  ledger,    \* ledger[o]: checksum of o's newest version
  markers,   \* publication markers, unique per object and checksum
  prov,      \* DuckLake: checksum of the ingested provenance row of o
  rows,      \* DuckLake: the contents whose rows were inserted for o, in turn
  lock,      \* the process that holds the locks of the dataset
  faults,
  \* a run
  pc,
  stage,     \* stage[p][o]: progress of the download of o
  known,     \* known[p][o]: checksum of o in the ledger when the run began
  got,       \* got[p][o]: AcquiredRawObject.version.sha256
  todo,      \* objects of the scopes the run has not come to
  batch,     \* scope_results
  done,      \* objects publish_one has succeeded for in this transaction
  pending    \* what its transaction has written: [o -> rows' content]

world == <<upstream, file, ledger, markers, prov, rows>>
run == <<stage, known, got, todo, batch, done, pending>>
vars == <<world, lock, faults, pc, run>>

PCs == {"idle", "acquiring", "between", "filtering", "publishing", "marking", "leaving"}

Stages == {"unused", "todo", "fetched", "stored", "done", "failed"}

TypeOK ==
  /\ upstream \in [Object -> Content]
  /\ file \in [Object -> Sha]
  /\ ledger \in [Object -> Sha]
  /\ markers \subseteq Object \X Content
  /\ prov \in [Object -> Sha]
  /\ rows \in [Object -> Seq(Content)]
  /\ lock \in Process \cup {None}
  /\ faults \in 0..MaxFaults
  /\ pc \in [Process -> PCs]
  /\ stage \in [Process -> [Object -> Stages]]
  /\ known \in [Process -> [Object -> Sha]]
  /\ got \in [Process -> [Object -> Sha]]
  /\ todo \in [Process -> SUBSET Object]
  /\ batch \in [Process -> SUBSET Object]
  /\ done \in [Process -> SUBSET Object]
  /\ pending \in [Process -> [Object -> Sha]]

Nothing == [o \in Object |-> None]
NoStage == [o \in Object |-> "unused"]

Init ==
  /\ upstream \in [Object -> Content]
  /\ file = Nothing /\ ledger = Nothing /\ markers = {}
  /\ prov = Nothing
  /\ rows = [o \in Object |-> <<>>]
  /\ lock = None /\ faults = 0
  /\ pc = [p \in Process |-> "idle"]
  /\ stage = [p \in Process |-> NoStage]
  /\ known = [p \in Process |-> Nothing]
  /\ got = [p \in Process |-> Nothing]
  /\ todo = [p \in Process |-> {}]
  /\ batch = [p \in Process |-> {}]
  /\ done = [p \in Process |-> {}]
  /\ pending = [p \in Process |-> Nothing]

\* The source replaces a file it had already served.
SourceChanges(o) ==
  /\ o \in Revisable
  /\ \E c \in Content \ {upstream[o]} : upstream' = [upstream EXCEPT ![o] = c]
  /\ UNCHANGED <<file, ledger, markers, prov, rows, lock, faults, pc, run>>

----------------------------------------------------------------------------
(* Acquisition: RawObjectStore.get_many, the objects in any interleaving.  *)

\* The run is over: its memory goes, and with it an open transaction.
Forget(p) ==
  /\ pc' = [pc EXCEPT ![p] = "idle"]
  /\ stage' = [stage EXCEPT ![p] = NoStage]
  /\ known' = [known EXCEPT ![p] = Nothing]
  /\ got' = [got EXCEPT ![p] = Nothing]
  /\ todo' = [todo EXCEPT ![p] = {}]
  /\ batch' = [batch EXCEPT ![p] = {}]
  /\ done' = [done EXCEPT ![p] = {}]
  /\ pending' = [pending EXCEPT ![p] = Nothing]

\* discover_objects, and the ledger's states of all of them.  They are two
\* statements of one READ COMMITTED transaction, which matter apart where an ETag
\* is read beside a version (AuthoritativePublication); here they are one step.
Start(p) ==
  /\ pc[p] = "idle"
  /\ \E D \in Ranges \ {{}} :
       stage' = [stage EXCEPT ![p] = [o \in Object |-> IF o \in D THEN "todo" ELSE "unused"]]
  /\ known' = [known EXCEPT ![p] = ledger]
  /\ pc' = [pc EXCEPT ![p] = "acquiring"]
  /\ UNCHANGED <<world, lock, faults, got, todo, batch, done, pending>>

LocalHit(p, o) == known[p][o] # None /\ file[o] # None

\* A snapshot the ledger knows and the disk has is not looked at again.
Hit(p, o) ==
  /\ pc[p] = "acquiring" /\ stage[p][o] = "todo" /\ LocalHit(p, o)
  /\ got' = [got EXCEPT ![p][o] = known[p][o]]
  /\ stage' = [stage EXCEPT ![p][o] = "done"]
  /\ UNCHANGED <<world, lock, faults, pc, known, todo, batch, done, pending>>

\* The body is downloaded to a temporary file of its own.
Fetch(p, o) ==
  /\ pc[p] = "acquiring" /\ stage[p][o] = "todo" /\ ~LocalHit(p, o)
  /\ got' = [got EXCEPT ![p][o] = upstream[o]]
  /\ stage' = [stage EXCEPT ![p][o] = "fetched"]
  /\ UNCHANGED <<world, lock, faults, pc, known, todo, batch, done, pending>>

\* The temporary file is renamed over whatever is at the object's path.
Store(p, o) ==
  /\ pc[p] = "acquiring" /\ stage[p][o] = "fetched"
  /\ file' = [file EXCEPT ![o] = got[p][o]]
  /\ stage' = [stage EXCEPT ![p][o] = "stored"]
  /\ UNCHANGED <<upstream, ledger, markers, prov, rows, lock, faults, pc,
                 known, got, todo, batch, done, pending>>

\* The ledger gets a new version.
Rotate(p, o) ==
  /\ pc[p] = "acquiring" /\ stage[p][o] = "stored"
  /\ ledger' = [ledger EXCEPT ![o] = got[p][o]]
  /\ stage' = [stage EXCEPT ![p][o] = "done"]
  /\ UNCHANGED <<upstream, file, markers, prov, rows, lock, faults, pc,
                 known, got, todo, batch, done, pending>>

\* The ledger transaction fails: the file at the path is unlinked.
RotateFails(p, o) ==
  /\ pc[p] = "acquiring" /\ stage[p][o] = "stored" /\ faults < MaxFaults
  /\ file' = [file EXCEPT ![o] = None]
  /\ stage' = [stage EXCEPT ![p][o] = "failed"]
  /\ faults' = faults + 1
  /\ UNCHANGED <<upstream, ledger, markers, prov, rows, lock, pc,
                 known, got, todo, batch, done, pending>>

Unpublished(p, S) == {o \in S : <<o, got[p][o]>> \notin markers}

AllAcquired(p) ==
  /\ pc[p] = "acquiring"
  /\ \A o \in Object : stage[p][o] \in {"unused", "done"}

Results(p) == {o \in Object : stage[p][o] = "done"}

\* acquire_many returns, and objects that have a marker are dropped.
Select(p) ==
  /\ AllAcquired(p)
  /\ Unpublished(p, Results(p)) # {}
  /\ todo' = [todo EXCEPT ![p] = Unpublished(p, Results(p))]
  /\ stage' = [stage EXCEPT ![p] = NoStage]
  /\ known' = [known EXCEPT ![p] = Nothing]
  /\ pc' = [pc EXCEPT ![p] = "between"]
  /\ UNCHANGED <<world, lock, faults, got, batch, done, pending>>

\* "No unpublished raw objects".
NothingToPublish(p) ==
  /\ AllAcquired(p)
  /\ Unpublished(p, Results(p)) = {}
  /\ Forget(p)
  /\ UNCHANGED <<world, lock, faults>>

\* A download that failed ends the run.
AcquisitionFails(p) ==
  /\ \E o \in Object : stage[p][o] = "failed"
  /\ Forget(p)
  /\ UNCHANGED <<world, lock, faults>>

----------------------------------------------------------------------------
(* Publication, one scope at a time, under the locks of the dataset.       *)

\* Mutant: the scope is entered without the locks.
EnterScopeUnlocked(p) ==
  /\ pc[p] = "between"
  /\ \E s \in {ScopeOf[o] : o \in todo[p]} :
       LET S == {o \in todo[p] : ScopeOf[o] = s}
       IN  /\ batch' = [batch EXCEPT ![p] = S]
           /\ todo' = [todo EXCEPT ![p] = @ \ S]
  /\ pc' = [pc EXCEPT ![p] = "filtering"]
  /\ UNCHANGED <<world, lock, faults, stage, known, got, done, pending>>

\* The locks are granted; the scope's part of the results is at hand.
EnterScope(p) ==
  /\ pc[p] = "between" /\ lock = None
  /\ \E s \in {ScopeOf[o] : o \in todo[p]} :
       LET S == {o \in todo[p] : ScopeOf[o] = s}
       IN  /\ batch' = [batch EXCEPT ![p] = S]
           /\ todo' = [todo EXCEPT ![p] = @ \ S]
  /\ lock' = p
  /\ pc' = [pc EXCEPT ![p] = "filtering"]
  /\ UNCHANGED <<world, faults, stage, known, got, done, pending>>

\* The markers are looked at again; the DuckLake transaction begins.
FilterAfterLock(p) ==
  /\ pc[p] = "filtering"
  /\ batch' = [batch EXCEPT ![p] = Unpublished(p, batch[p])]
  /\ pc' = [pc EXCEPT ![p] = IF Unpublished(p, batch[p]) = {}
                               THEN "leaving" ELSE "publishing"]
  /\ UNCHANGED <<world, lock, faults, stage, known, got, todo, done, pending>>

\* publish_one opens the file before append_snapshot looks at the provenance.
Readable(o) == file[o] # None /\ file[o] \notin Unparsable

\* append_snapshot: nothing to do for the checksum that is ingested, rows and
\* provenance for an object that is not; the transaction fails otherwise.
Publishable(p, o) == Readable(o) /\ prov[o] \in {None, got[p][o]}

\* Mutant: the rows are inserted whatever the provenance says.
PublishOneAgain(p, o) ==
  /\ pc[p] = "publishing"
  /\ o \in batch[p] \ done[p]
  /\ Readable(o)
  /\ pending' = [pending EXCEPT ![p][o] = file[o]]
  /\ done' = [done EXCEPT ![p] = @ \cup {o}]
  /\ UNCHANGED <<world, lock, faults, pc, stage, known, got, todo, batch>>

PublishOne(p, o) ==
  /\ pc[p] = "publishing"
  /\ o \in batch[p] \ done[p]
  /\ Publishable(p, o)
  /\ pending' = [pending EXCEPT ![p][o] = IF prov[o] = None THEN file[o] ELSE None]
  /\ done' = [done EXCEPT ![p] = @ \cup {o}]
  /\ UNCHANGED <<world, lock, faults, pc, stage, known, got, todo, batch>>

\* Mutant: the exception of a batch ends the run.
BatchFailsFatal(p) ==
  /\ pc[p] = "publishing"
  /\ \E o \in batch[p] \ done[p] : ~Publishable(p, o)
  /\ lock' = None
  /\ Forget(p)
  /\ UNCHANGED <<world, faults>>

\* Some object raises: the whole scope is rolled back and nothing is marked.
BatchFails(p) ==
  /\ pc[p] = "publishing"
  /\ \E o \in batch[p] \ done[p] : ~Publishable(p, o)
  /\ pc' = [pc EXCEPT ![p] = "leaving"]
  /\ UNCHANGED <<world, lock, faults, run>>

\* What the transaction wrote becomes visible, rows and provenance together.
MakeDurable(p) ==
  /\ prov' = [o \in Object |-> IF pending[p][o] # None THEN got[p][o] ELSE prov[o]]
  /\ rows' = [o \in Object |->
                IF pending[p][o] # None THEN Append(rows[o], pending[p][o]) ELSE rows[o]]

Commit(p) ==
  /\ pc[p] = "publishing" /\ done[p] = batch[p]
  /\ MakeDurable(p)
  /\ pc' = [pc EXCEPT ![p] = "marking"]
  /\ UNCHANGED <<upstream, file, ledger, markers, lock, faults, run>>

\* Mutant: a batch whose COMMIT raised is marked like any other.
CommitFailsUnnoticed(p) ==
  /\ pc[p] = "publishing" /\ done[p] = batch[p] /\ faults < MaxFaults
  /\ MakeDurable(p) \/ UNCHANGED <<prov, rows>>
  /\ pc' = [pc EXCEPT ![p] = "marking"]
  /\ faults' = faults + 1
  /\ UNCHANGED <<upstream, file, ledger, markers, lock, run>>

\* COMMIT raises, whether or not the catalog has it (see DuckLakeSession).
CommitFails(p) ==
  /\ pc[p] = "publishing" /\ done[p] = batch[p] /\ faults < MaxFaults
  /\ MakeDurable(p) \/ UNCHANGED <<prov, rows>>
  /\ pc' = [pc EXCEPT ![p] = "leaving"]
  /\ faults' = faults + 1
  /\ UNCHANGED <<upstream, file, ledger, markers, lock, run>>

\* Mutant: every object of the scope is marked, acquired or not.
MarkScope(p) ==
  /\ pc[p] = "marking"
  /\ markers' = markers \cup
       {<<o, got[p][o]>> : o \in {q \in Object : \E r \in batch[p] : ScopeOf[q] = ScopeOf[r]}}
  /\ pc' = [pc EXCEPT ![p] = "leaving"]
  /\ UNCHANGED <<upstream, file, ledger, prov, rows, lock, faults, run>>

\* The markers, one ledger transaction, still under the locks.
Mark(p) ==
  /\ pc[p] = "marking"
  /\ markers' = markers \cup {<<o, got[p][o]>> : o \in batch[p]}
  /\ pc' = [pc EXCEPT ![p] = "leaving"]
  /\ UNCHANGED <<upstream, file, ledger, prov, rows, lock, faults, run>>

\* The lock block ends; the next scope, if any, is entered anew.
LeaveScope(p) ==
  /\ pc[p] = "leaving" /\ todo[p] # {}
  /\ lock' = None
  /\ batch' = [batch EXCEPT ![p] = {}]
  /\ done' = [done EXCEPT ![p] = {}]
  /\ pending' = [pending EXCEPT ![p] = Nothing]
  /\ pc' = [pc EXCEPT ![p] = "between"]
  /\ UNCHANGED <<world, faults, stage, known, got, todo>>

\* The last scope is left, and the run returns.
Finish(p) ==
  /\ pc[p] = "leaving" /\ todo[p] = {}
  /\ lock' = None
  /\ Forget(p)
  /\ UNCHANGED <<world, faults>>

\* The process dies, or an exception no handler expects ends the run: a lock
\* wait cancelled by its timeout, a failed marker or ledger statement.
Crash(p) ==
  /\ pc[p] # "idle" /\ faults < MaxFaults
  /\ faults' = faults + 1
  /\ lock' = IF lock = p THEN None ELSE lock
  /\ Forget(p)
  /\ UNCHANGED world

----------------------------------------------------------------------------
Step(p) ==
  \/ Select(p) \/ NothingToPublish(p) \/ AcquisitionFails(p)
  \/ EnterScope(p) \/ FilterAfterLock(p) \/ BatchFails(p)
  \/ Commit(p) \/ CommitFails(p) \/ Mark(p) \/ LeaveScope(p) \/ Finish(p)
  \/ \E o \in Object : Hit(p, o) \/ Fetch(p, o) \/ Store(p, o) \/ Rotate(p, o)
                        \/ RotateFails(p, o) \/ PublishOne(p, o)

Next ==
  \/ \E p \in Process : Start(p) \/ Step(p) \/ Crash(p)
  \/ \E o \in Object : SourceChanges(o)

Spec == Init /\ [][Next]_vars

(***************************************************************************)
(* Fairness.  A run goes on while its process lives; an object's run is    *)
(* triggered again and again, as the comment on the crash window           *)
(* (runner.py:215) supposes; and a lock that is released again and again   *)
(* is granted, PostgreSQL serving its waiters in turn.  Nothing obliges    *)
(* the source to change or anything to fail.                               *)
(***************************************************************************)
Fairness ==
  \A p \in Process :
    /\ WF_vars(Start(p))
    /\ SF_vars(EnterScope(p))
    /\ WF_vars(\/ Select(p) \/ NothingToPublish(p) \/ AcquisitionFails(p)
               \/ FilterAfterLock(p) \/ BatchFails(p) \/ Commit(p) \/ Mark(p)
               \/ LeaveScope(p) \/ Finish(p))
    /\ \A o \in Object :
         WF_vars(Hit(p, o) \/ Fetch(p, o) \/ Store(p, o) \/ Rotate(p, o) \/ PublishOne(p, o))

FairSpec == Spec /\ Fairness

----------------------------------------------------------------------------
(* Properties.                                                             *)

(***************************************************************************)
(* "repeated processing of the same snapshot does not duplicate rows"      *)
(* (data_lifecycle.md:46): whatever the runs that overlap, crash between   *)
(* the two databases or lose the answer to COMMIT, the rows of an object   *)
(* are inserted once, and exactly when its provenance says it is ingested. *)
(***************************************************************************)
ExactlyOnce == \A o \in Object : Len(rows[o]) = IF prov[o] = None THEN 0 ELSE 1

(***************************************************************************)
(* A marker is never ahead of DuckLake: what the ledger says is published  *)
(* is ingested, with the very checksum of the marker, so that skipping it  *)
(* in every later run is right.                                            *)
(***************************************************************************)
MarkerImpliesIngested == \A m \in markers : prov[m[1]] = m[2]

(***************************************************************************)
(* The checksum in the provenance row of an object is that of the rows its *)
(* source_ref_id leads to (data_dictionary.md:45-49).                      *)
(***************************************************************************)
ProvenanceDescribesRows ==
  \A o \in Object : prov[o] # None => rows[o] = <<prov[o]>>

(***************************************************************************)
(* An object is published and marked in the end if nothing in its scope is *)
(* unreadable, whatever is unreadable in other scopes, whatever crashed,   *)
(* and whoever else ran.                                                   *)
(***************************************************************************)
Sound(o) == \A q \in Object : ScopeOf[q] = ScopeOf[o] => upstream[q] \notin Unparsable

EventuallyMarked ==
  \A o \in Object : Sound(o) ~> <<o, upstream[o]>> \in markers

(***************************************************************************)
(* The pipeline implements the catalog that ingests every object once.     *)
(***************************************************************************)
Catalog == INSTANCE SnapshotCatalog
             WITH ingested <- prov,
                  copies <- [o \in Object |-> Len(rows[o])],
                  marked <- markers

ImplementsSnapshotCatalog == Catalog!Spec
=============================================================================
