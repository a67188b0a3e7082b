------------------------------ MODULE DatasetRun ------------------------------
(***************************************************************************)
(* publication/runner.run_dataset_pipeline from end to end, for each of    *)
(* the four datasets: objects are discovered and acquired by the pool of   *)
(* download threads, and then published scope by scope.  A run ends, by    *)
(* itself, with an exception or by a crash, and another one follows.       *)
(*                                                                         *)
(* One run at a time: runs that compete for a scope are the subject of     *)
(* SnapshotPublication and AuthoritativePublication, the locks of          *)
(* DuckLakeLocks, the poisoning of a session of DuckLakeSession, and the   *)
(* statements of the ledger of RawLedger.                                  *)
(***************************************************************************)
EXTENDS SourcePublication

CONSTANT MaxFaults   \* bound on failed statements and renames, crashes and lost files

ASSUME NAssumption == N \in Nat \ {0}
ASSUME WorkersAssumption == Workers \subseteq Nat \ {0}
ASSUME MaxFaultsAssumption == MaxFaults \in Nat

VARIABLES
  scopeOf,   \* scopeOf[o]: its publication scope; runs take them in order
  pc,
  todo,      \* objects the run has yet to publish
  scope,
  marked,    \* objects whose version has a publication marker
  faults

runVars == <<scopeOf, pc, todo, scope, marked, faults>>
vars == <<kind, content, poolVars, publicationVars, runVars>>

TypeOK ==
  /\ kind \in Kinds /\ content \in [Object -> Contents]
  /\ PoolOK /\ PublicationOK
  /\ scopeOf \in [Object -> Object]
  /\ pc \in {"acquiring", "scopes", "locked", "publishing", "marking"}
  /\ todo \subseteq Object /\ scope \in Object /\ marked \subseteq Object
  /\ faults \in 0..MaxFaults

\* spec.scope_for: a date may have several snapshots; it has one file of
\* market history, and there is one archive of references.
Scopes ==
  {s \in [Object -> Object] :
     /\ \A o \in Object : s[o] <= o
     /\ \A o, other \in Object : o < other => s[o] <= s[other]
     /\ ~Snapshot => \A o \in Object : s[o] = o}

Init ==
  /\ kind \in Kinds /\ content \in [Object -> Contents]
  /\ scopeOf \in Scopes
  /\ PoolInit /\ PublicationInit
  /\ pc = "acquiring" /\ todo = {} /\ scope = 1 /\ marked = {} /\ faults = 0

Idle == pc = "acquiring" /\ pool = "closed"

\* RawObjectStore.__exit__, and what is left of the session.
EndRun ==
  /\ pc' = "acquiring" /\ todo' = {}
  /\ pool' = "closed" /\ objects' = {} /\ next' = 1 /\ job' = NoJobs
  /\ work' = db /\ batch' = {} /\ step' = 0 /\ stack' = <<>> /\ raising' = FALSE
  /\ good' = {}

----------------------------------------------------------------------------
\* discover_objects and acquire_many; without objects the run is over.
Discover ==
  /\ Idle
  /\ \E n \in Object : (kind = "references" => n = 1) /\ Submit(n)
  /\ UNCHANGED <<kind, content, publicationVars, runVars>>

PoolSteps ==
  /\ PoolStep \/ \E o \in Object : ThreadStep(o)
  /\ UNCHANGED <<kind, content, publicationVars, runVars>>

\* filter_unpublished, before any lock.
FilterUnpublished ==
  /\ pc = "acquiring" /\ pool = "acquired"
  /\ pc' = "scopes" /\ todo' = objects \ marked
  /\ UNCHANGED <<kind, content, poolVars, publicationVars, scopeOf, scope, marked, faults>>

\* No unpublished object, or no scope left: the pipeline returns 0 or 1.
Return ==
  /\ pc = "scopes" /\ todo = {}
  /\ EndRun
  /\ UNCHANGED <<kind, content, workers, stored, file, temp, db, tmp, scopeOf, scope, marked, faults>>

\* The next scope in sorted order, and its locks.
TakeLocks ==
  /\ pc = "scopes" /\ todo # {}
  /\ \E o \in todo : /\ \A other \in todo : scopeOf[o] <= scopeOf[other]
                     /\ scope' = scopeOf[o]
  /\ pc' = "locked"
  /\ UNCHANGED <<kind, content, poolVars, publicationVars, scopeOf, todo, marked, faults>>

InScope == {o \in todo : scopeOf[o] = scope}

\* _filter_scope_results_after_lock: nobody else has marked them, or stored
\* newer versions.  The file of a mutable object must be there.
FilterScopeResultsAfterLock ==
  /\ pc = "locked"
  /\ Snapshot \/ InScope \subseteq file
  /\ OpenSession(InScope)
  /\ pc' = "publishing"
  /\ UNCHANGED <<kind, content, poolVars, scopeOf, todo, scope, marked, faults>>

\* FileNotFoundError leaves the pipeline.
FileNotFound ==
  /\ pc = "locked" /\ ~Snapshot /\ ~(InScope \subseteq file)
  /\ EndRun
  /\ UNCHANGED <<kind, content, workers, stored, file, temp, db, tmp, scopeOf, scope, marked, faults>>

Publish ==
  /\ pc = "publishing" /\ PublicationStep
  /\ UNCHANGED <<kind, content, poolVars, runVars>>

\* The session is closed, and there are objects to mark or not.
CloseSession ==
  /\ pc = "publishing" /\ Closed
  /\ pc' = IF good = {} THEN "scopes" ELSE "marking"
  /\ todo' = todo \ InScope
  /\ UNCHANGED <<kind, content, poolVars, publicationVars, scopeOf, scope, marked, faults>>

\* _mark_successful_results_published; then the locks are let go of.
MarkPublished ==
  /\ pc = "marking"
  /\ marked' = marked \cup good
  /\ pc' = "scopes" /\ good' = {}
  /\ UNCHANGED <<kind, content, poolVars, db, work, batch, step, stack, raising, tmp, scopeOf,
                 todo, scope, faults>>

----------------------------------------------------------------------------
(* Faults.                                                                 *)

Fault == faults < MaxFaults /\ faults' = faults + 1

ThreadFaults ==
  /\ Fault /\ \E o \in Object : ThreadFault(o)
  /\ UNCHANGED <<kind, content, publicationVars, scopeOf, pc, todo, scope, marked>>

StatementFaults ==
  /\ Fault /\ pc = "publishing" /\ StatementFault
  /\ UNCHANGED <<kind, content, poolVars, scopeOf, pc, todo, scope, marked>>

\* The ledger's queries, the locks, or the session's ATTACH raise.
RunRaises ==
  /\ Fault
  /\ pc # "publishing" /\ pc # "marking" /\ pool = "acquired"
  /\ EndRun
  /\ UNCHANGED <<kind, content, workers, stored, file, temp, db, tmp, scopeOf, scope, marked>>

\* The marker transaction raises, committed or not.
MarkRaises ==
  /\ Fault /\ pc = "marking"
  /\ marked' \in {marked, marked \cup good}
  /\ EndRun
  /\ UNCHANGED <<kind, content, workers, stored, file, temp, db, tmp, scopeOf, scope>>

\* The container is killed.  Its own temporary files are in a file system no
\* other run sees; those of downloads are on the data volume.
Crash ==
  /\ Fault /\ ~Idle
  /\ EndRun /\ tmp' = {}
  /\ temp' = [o \in Object |-> IF temp[o] = "body" THEN "left" ELSE temp[o]]
  /\ UNCHANGED <<kind, content, workers, stored, file, db, scopeOf, scope, marked>>

\* Somebody removes a file.
LoseFile ==
  /\ Fault /\ \E o \in file : file' = file \ {o}
  /\ UNCHANGED <<kind, content, workers, objects, stored, temp, job, next, pool, publicationVars, scopeOf,
                 pc, todo, scope, marked>>

----------------------------------------------------------------------------
Next ==
  \/ Discover \/ PoolSteps \/ FilterUnpublished \/ Return
  \/ TakeLocks \/ FilterScopeResultsAfterLock \/ FileNotFound
  \/ Publish \/ CloseSession \/ MarkPublished
  \/ ThreadFaults \/ StatementFaults \/ RunRaises \/ MarkRaises \/ Crash \/ LoseFile

Spec == Init /\ [][Next]_vars

----------------------------------------------------------------------------
\* Whatever fails or dies on the way, and however often the range is run
\* again: durably, an object is in its table exactly once with an ingested
\* provenance row, or it is not there and has no provenance; and one with a
\* publication marker is there.  A file that cannot be read or that has wrong
\* rows is never published.
PublishedOnce ==
  \A o \in Object :
    /\ \/ db[o] = [rows |-> RowsOf(o), status |-> "ingested"] /\ content[o] \in {"good", "empty"}
       \/ db[o] = Absent
    /\ o \in marked => db[o].status = "ingested"

\* A snapshot scope is published whole: whatever commit changes the catalog,
\* after it all the objects the run has in that scope are ingested, those that
\* were so before untouched.  Of either kind, what is ingested stays as it is,
\* while its object is published again or another one fails.
WholeScopes ==
  [][/\ \A o \in Object : db[o].status = "ingested" => db'[o] = db[o]
     /\ Snapshot /\ db' # db => \A o \in InScope : db'[o].status = "ingested"]_vars

\* A run that has ended, by an exception or not, has no thread that still
\* downloads, no half-written download, and no decompressed or extracted copy;
\* and while it runs there is never more than one such copy.
NothingLeftBehind ==
  /\ Idle => /\ \A o \in Object : job[o] \notin Running /\ temp[o] # "body"
             /\ tmp = {} /\ Closed
  /\ Cardinality(tmp) <= 1

(***************************************************************************)
(* To the catalog an object is ingested with the content the source has,   *)
(* and one without rows is there once when its provenance is.              *)
(***************************************************************************)
CatalogChecksum(o) == IF db[o].status = "ingested" THEN content[o] ELSE "none"
CatalogCopies(o) == IF db[o].status = "ingested" /\ RowsOf(o) = 0 THEN 1 ELSE db[o].rows

Catalog ==
  INSTANCE SnapshotCatalog WITH
    Content <- Contents, None <- "none",
    ingested <- [o \in Object |-> CatalogChecksum(o)],
    copies <- [o \in Object |-> CatalogCopies(o)],
    marked <- {<<o, content[o]>> : o \in marked}

\* Threads, blocks, exceptions and faults of a run come down to the two steps
\* of the catalog that SnapshotPublication promises among runs: objects that
\* were not there are ingested in one commit, and what is there is marked.
\* This is so for the mutable datasets, too, as long as the source serves what
\* it did: publishing an object again changes nothing.
ImplementsSnapshotCatalog == Catalog!Spec
=============================================================================
