---------------------- MODULE AuthoritativePublication ----------------------
(***************************************************************************)
(* publication/runner.py run_dataset_pipeline for a dataset whose source   *)
(* objects are mutable and replace what is published: overlapping runs,    *)
(* from the revalidation of the raw objects to their publication markers.  *)
(* For market_history an object is the file of a source date and what it   *)
(* replaces is a partition of one table; for references the one object is  *)
(* the latest archive and it replaces whole tables, those it has rows for. *)
(*                                                                         *)
(* The ledger numbers the versions of an object in the order they are      *)
(* stored and keeps, beside them, the ETag to revalidate with.  A run      *)
(* selects versions before it has the locks, and filters them twice after: *)
(* by the markers, which name an object and a checksum, and by the         *)
(* ledger's newest version.  A content stands for its SHA-256 and for its  *)
(* ETag; the file of a version has a path of its own.                      *)
(***************************************************************************)
EXTENDS Naturals, Sequences

CONSTANTS
  Process,     \* the processes that run the pipeline of this dataset
  Object,      \* its source objects
  Content,     \* what the source may serve
  Table,       \* the data tables of the dataset
  Writes,      \* Writes[c]: the tables c has rows for
  Unparsable,  \* contents publish_one raises for
  None,
  ScopeOf,     \* publication scope of an object
  Served,      \* Served[o]: the contents the source serves for o, in turn
  MaxFaults    \* bound on crashes, lost files and failed statements

ASSUME ProcessAssumption == None \notin Process
ASSUME ContentAssumption == Unparsable \subseteq Content /\ None \notin Content
ASSUME WritesAssumption == Writes \in [Content -> SUBSET Table]
ASSUME ServedAssumption == Served \in [Object -> Seq(Content) \ {<<>>}]
ASSUME MaxFaultsAssumption == MaxFaults \in Nat

Sha == Content \cup {None}

VARIABLES
  \* the world outside the runs
  at,         \* at[o]: the source is at Served[o][at[o]]
  versions,   \* versions[o]: contents of the ledger's versions, by number
  etag,       \* etag[o]: revalidation metadata of the object itself
  lost,       \* <<o, n>>: the file of version n of o is gone
  markers,    \* publication markers, unique per object and checksum
  partition,  \* DuckLake: partition[o][t]: the content o's part of t is from
  prov,       \* DuckLake: content the provenance row of o describes
  from,       \* history: number of the version partition[o][t] was written from
  provFrom,   \* history: number of the version prov[o] was written from
  lock,       \* the process that holds the locks of the dataset
  faults,
  \* a run
  pc,
  stage,      \* stage[p][o]: progress of the acquisition of o
  known,      \* known[p][o]: number of the newest version when the run began
  sent,       \* sent[p][o]: the ETag the run revalidates with
  body,       \* body[p][o]: what it read, or the ETag of the 304 it received
  got,        \* got[p][o]: number of the version it acquired
  todo,       \* objects of the scopes the run has not come to
  batch,      \* scope_results
  tried,      \* objects of the batch publish_one was called for
  successful  \* those it succeeded for

ledger == <<versions, etag, markers>>
lake == <<partition, prov, from, provFrom>>
run == <<stage, known, sent, body, got, todo, batch, tried, successful>>
vars == <<at, ledger, lost, lake, lock, faults, pc, run>>

PCs == {"idle", "loading", "acquiring", "between", "filtering", "publishing", "leaving"}

Stages == {"todo", "not modified", "reread", "fetched", "done"}

TypeOK ==
  /\ at \in [Object -> Nat] /\ \A o \in Object : at[o] \in DOMAIN Served[o]
  /\ versions \in [Object -> Seq(Content)]
  /\ etag \in [Object -> Sha]
  /\ lost \subseteq Object \X (Nat \ {0})
  /\ markers \subseteq Object \X Content
  /\ partition \in [Object -> [Table -> Sha]]
  /\ prov \in [Object -> Sha]
  /\ from \in [Object -> [Table -> Nat]]
  /\ provFrom \in [Object -> Nat]
  /\ lock \in Process \cup {None}
  /\ faults \in 0..MaxFaults
  /\ pc \in [Process -> PCs]
  /\ stage \in [Process -> [Object -> Stages]]
  /\ known \in [Process -> [Object -> Nat]]
  /\ sent \in [Process -> [Object -> Sha]]
  /\ body \in [Process -> [Object -> Sha]]
  /\ got \in [Process -> [Object -> Nat]]
  /\ todo \in [Process -> SUBSET Object]
  /\ batch \in [Process -> SUBSET Object]
  /\ tried \in [Process -> SUBSET Object]
  /\ successful \in [Process -> SUBSET Object]

Nothing == [o \in Object |-> None]
NoVersion == [o \in Object |-> 0]
NoStage == [o \in Object |-> "todo"]

Init ==
  /\ at = [o \in Object |-> 1]
  /\ versions = [o \in Object |-> <<>>]
  /\ etag = Nothing /\ lost = {} /\ markers = {}
  /\ partition = [o \in Object |-> [t \in Table |-> None]] /\ prov = Nothing
  /\ from = [o \in Object |-> [t \in Table |-> 0]] /\ provFrom = NoVersion
  /\ lock = None /\ faults = 0
  /\ pc = [p \in Process |-> "idle"]
  /\ stage = [p \in Process |-> NoStage]
  /\ known = [p \in Process |-> NoVersion]
  /\ sent = [p \in Process |-> Nothing]
  /\ body = [p \in Process |-> Nothing]
  /\ got = [p \in Process |-> NoVersion]
  /\ todo = [p \in Process |-> {}]
  /\ batch = [p \in Process |-> {}]
  /\ tried = [p \in Process |-> {}]
  /\ successful = [p \in Process |-> {}]

upstream == [o \in Object |-> Served[o][at[o]]]

Newest(o) == Len(versions[o])

\* The source revises the file of o.
SourceChanges(o) ==
  /\ at[o] < Len(Served[o])
  /\ at' = [at EXCEPT ![o] = @ + 1]
  /\ UNCHANGED <<ledger, lost, lake, lock, faults, pc, run>>

\* A file the ledger knows disappears from the raw root.
FileLost(o) ==
  /\ faults < MaxFaults
  /\ \E n \in 1..Newest(o) :
       /\ <<o, n>> \notin lost
       /\ lost' = lost \cup {<<o, n>>}
  /\ faults' = faults + 1
  /\ UNCHANGED <<at, ledger, lake, lock, pc, run>>

\* The run is over: its memory goes.
Forget(p) ==
  /\ pc' = [pc EXCEPT ![p] = "idle"]
  /\ stage' = [stage EXCEPT ![p] = NoStage]
  /\ known' = [known EXCEPT ![p] = NoVersion]
  /\ sent' = [sent EXCEPT ![p] = Nothing]
  /\ body' = [body EXCEPT ![p] = Nothing]
  /\ got' = [got EXCEPT ![p] = NoVersion]
  /\ todo' = [todo EXCEPT ![p] = {}]
  /\ batch' = [batch EXCEPT ![p] = {}]
  /\ tried' = [tried EXCEPT ![p] = {}]
  /\ successful' = [successful EXCEPT ![p] = {}]

----------------------------------------------------------------------------
(* Acquisition: RawObjectStore.get_many, the objects in any interleaving.  *)

\* load_current_states: the rows of the objects first, with their ETags, ...
Start(p) ==
  /\ pc[p] = "idle"
  /\ sent' = [sent EXCEPT ![p] = etag]
  /\ pc' = [pc EXCEPT ![p] = "loading"]
  /\ UNCHANGED <<at, ledger, lost, lake, lock, faults,
                 stage, known, body, got, todo, batch, tried, successful>>

\* ... then their newest versions: the same transaction, which READ COMMITTED
\* does not keep from seeing what other runs stored in between.  An object that
\* had no row is new to the run, whatever it has by now.
LoadVersions(p) ==
  /\ pc[p] = "loading"
  /\ known' = [known EXCEPT ![p] = [o \in Object |-> IF sent[p][o] = None THEN 0 ELSE Newest(o)]]
  /\ pc' = [pc EXCEPT ![p] = "acquiring"]
  /\ UNCHANGED <<at, ledger, lost, lake, lock, faults,
                 stage, sent, body, got, todo, batch, tried, successful>>

Acquiring(p, o, s) == pc[p] = "acquiring" /\ stage[p][o] = s

HasFile(o, n) == n > 0 /\ <<o, n>> \notin lost

\* If-None-Match, with the ETag the run has read: the file is still that one.
NotModified(p, o) == sent[p][o] = upstream[o]

\* The source answers: 304 when it still serves what the ETag names, and then
\* the known version is the one, unless its file is gone; else the new body.
Revalidate(p, o) ==
  /\ Acquiring(p, o, "todo")
  /\ body' = [body EXCEPT ![p][o] = upstream[o]]
  /\ stage' = [stage EXCEPT ![p][o] =
       CASE ~NotModified(p, o)         -> "fetched"
         [] HasFile(o, known[p][o])    -> "not modified"
         [] OTHER                      -> "reread"]
  /\ UNCHANGED <<at, ledger, lost, lake, lock, faults, pc,
                 known, sent, got, todo, batch, tried, successful>>

\* A second read, with no condition.
Reread(p, o) ==
  /\ Acquiring(p, o, "reread")
  /\ body' = [body EXCEPT ![p][o] = upstream[o]]
  /\ stage' = [stage EXCEPT ![p][o] = "fetched"]
  /\ UNCHANGED <<at, ledger, lost, lake, lock, faults, pc,
                 known, sent, got, todo, batch, tried, successful>>

\* _record_hit: the object's metadata is that of the 304, the version the one
\* the run began with.
RecordHit(p, o) ==
  /\ Acquiring(p, o, "not modified")
  /\ etag' = [etag EXCEPT ![o] = body[p][o]]
  /\ got' = [got EXCEPT ![p][o] = known[p][o]]
  /\ stage' = [stage EXCEPT ![p][o] = "done"]
  /\ UNCHANGED <<at, versions, markers, lost, lake, lock, faults, pc,
                 known, sent, body, todo, batch, tried, successful>>

\* _record_store: a file of its own, the metadata, and a version numbered
\* after the newest the object has by now.
RecordStore(p, o) ==
  /\ Acquiring(p, o, "fetched")
  /\ etag' = [etag EXCEPT ![o] = body[p][o]]
  /\ versions' = [versions EXCEPT ![o] = Append(@, body[p][o])]
  /\ got' = [got EXCEPT ![p][o] = Newest(o) + 1]
  /\ stage' = [stage EXCEPT ![p][o] = "done"]
  /\ UNCHANGED <<at, markers, lost, lake, lock, faults, pc,
                 known, sent, body, todo, batch, tried, successful>>

Checksum(p, o) == versions[o][got[p][o]]

Unpublished(p, S) == {o \in S : <<o, Checksum(p, o)>> \notin markers}

AllAcquired(p) == pc[p] = "acquiring" /\ \A o \in Object : stage[p][o] = "done"

\* acquire_many returns, and versions that have a marker are dropped.
Select(p) ==
  /\ AllAcquired(p)
  /\ Unpublished(p, Object) # {}
  /\ todo' = [todo EXCEPT ![p] = Unpublished(p, Object)]
  /\ stage' = [stage EXCEPT ![p] = NoStage]
  /\ known' = [known EXCEPT ![p] = NoVersion]
  /\ sent' = [sent EXCEPT ![p] = Nothing]
  /\ body' = [body EXCEPT ![p] = Nothing]
  /\ pc' = [pc EXCEPT ![p] = "between"]
  /\ UNCHANGED <<at, ledger, lost, lake, lock, faults, got, batch, tried, successful>>

NothingToPublish(p) ==
  /\ AllAcquired(p)
  /\ Unpublished(p, Object) = {}
  /\ Forget(p)
  /\ UNCHANGED <<at, ledger, lost, lake, lock, faults>>

----------------------------------------------------------------------------
(* Publication, one scope at a time, under the locks of the dataset.       *)

\* The locks are granted; the scope's part of the results is at hand.
EnterScope(p) ==
  /\ pc[p] = "between" /\ lock = None
  /\ \E s \in {ScopeOf[o] : o \in todo[p]} :
       LET S == {o \in todo[p] : ScopeOf[o] = s}
       IN  /\ batch' = [batch EXCEPT ![p] = S]
           /\ todo' = [todo EXCEPT ![p] = @ \ S]
  /\ lock' = p
  /\ pc' = [pc EXCEPT ![p] = "filtering"]
  /\ UNCHANGED <<at, ledger, lost, lake, faults,
                 stage, known, sent, body, got, tried, successful>>

\* What is still unpublished, and still the ledger's newest version.
Current(p) == {o \in Unpublished(p, batch[p]) : got[p][o] = Newest(o)}

CurrentFileMissing(p) == \E o \in Current(p) : ~HasFile(o, got[p][o])

\* Mutant: only the markers are looked at again.
FilterMarkersOnly(p) ==
  /\ pc[p] = "filtering"
  /\ batch' = [batch EXCEPT ![p] = Unpublished(p, batch[p])]
  /\ pc' = [pc EXCEPT ![p] = "publishing"]
  /\ UNCHANGED <<at, ledger, lost, lake, lock, faults,
                 stage, known, sent, body, got, todo, tried, successful>>

FilterAfterLock(p) ==
  /\ pc[p] = "filtering"
  /\ ~CurrentFileMissing(p)
  /\ batch' = [batch EXCEPT ![p] = Current(p)]
  /\ pc' = [pc EXCEPT ![p] = "publishing"]
  /\ UNCHANGED <<at, ledger, lost, lake, lock, faults,
                 stage, known, sent, body, got, todo, tried, successful>>

\* "Current cached raw object file is missing": the exception ends the run.
FilterRaises(p) ==
  /\ pc[p] = "filtering"
  /\ CurrentFileMissing(p)
  /\ lock' = None
  /\ Forget(p)
  /\ UNCHANGED <<at, ledger, lost, lake, faults>>

Untried(p) == batch[p] \ tried[p]

Publishable(p, o) == HasFile(o, got[p][o]) /\ Checksum(p, o) \notin Unparsable

\* The provenance row becomes that of the version the run selected, and so do
\* the tables of T.
ReplaceTables(p, o, T) ==
  /\ partition' = [partition EXCEPT ![o] = [t \in Table |-> IF t \in T THEN Checksum(p, o) ELSE @[t]]]
  /\ from' = [from EXCEPT ![o] = [t \in Table |-> IF t \in T THEN got[p][o] ELSE @[t]]]
  /\ prov' = [prov EXCEPT ![o] = Checksum(p, o)]
  /\ provFrom' = [provFrom EXCEPT ![o] = got[p][o]]

\* Mutant: each table commits on its own, and the last of them may not.
ReplacePiecemeal(p, o) ==
  \E T \in SUBSET Writes[Checksum(p, o)] : ReplaceTables(p, o, T)

\* Tables the version has no rows for keep what they have.
Replace(p, o) == ReplaceTables(p, o, Writes[Checksum(p, o)])

\* replace_partition and replace_tables: the provenance row, and the deletion
\* and insertion of every table, in one transaction.
PublishOne(p, o) ==
  /\ pc[p] = "publishing"
  /\ o \in Untried(p)
  /\ Publishable(p, o)
  /\ Replace(p, o)
  /\ tried' = [tried EXCEPT ![p] = @ \cup {o}]
  /\ successful' = [successful EXCEPT ![p] = @ \cup {o}]
  /\ UNCHANGED <<at, ledger, lost, lock, faults, pc,
                 stage, known, sent, body, got, todo, batch>>

\* publish_one raises before it writes; the loop goes on.
PublishOneRaises(p, o) ==
  /\ pc[p] = "publishing"
  /\ o \in Untried(p)
  /\ ~Publishable(p, o)
  /\ tried' = [tried EXCEPT ![p] = @ \cup {o}]
  /\ UNCHANGED <<at, ledger, lost, lake, lock, faults, pc,
                 stage, known, sent, body, got, todo, batch, successful>>

\* Mutant: an object whose COMMIT raised counts as published.
CommitFailsUnnoticed(p, o) ==
  /\ pc[p] = "publishing" /\ faults < MaxFaults
  /\ o \in Untried(p)
  /\ Publishable(p, o)
  /\ Replace(p, o) \/ UNCHANGED lake
  /\ tried' = [tried EXCEPT ![p] = @ \cup {o}]
  /\ successful' = [successful EXCEPT ![p] = @ \cup {o}]
  /\ faults' = faults + 1
  /\ UNCHANGED <<at, ledger, lost, lock, pc,
                 stage, known, sent, body, got, todo, batch>>

\* COMMIT raises, whether or not the catalog has it; the session may be
\* poisoned by it, and then every later object of the scope raises too.
CommitFails(p, o) ==
  /\ pc[p] = "publishing" /\ faults < MaxFaults
  /\ o \in Untried(p)
  /\ Publishable(p, o)
  /\ Replace(p, o) \/ UNCHANGED lake
  /\ \E T \in {{o}, Untried(p)} : tried' = [tried EXCEPT ![p] = @ \cup T]
  /\ faults' = faults + 1
  /\ UNCHANGED <<at, ledger, lost, lock, pc,
                 stage, known, sent, body, got, todo, batch, successful>>

\* Mutant: whatever was tried is marked.
MarkTried(p) ==
  /\ pc[p] = "publishing" /\ Untried(p) = {}
  /\ markers' = markers \cup {<<o, Checksum(p, o)>> : o \in tried[p]}
  /\ pc' = [pc EXCEPT ![p] = "leaving"]
  /\ UNCHANGED <<at, versions, etag, lost, lake, lock, faults, run>>

\* Mutant: the marker names the version, not its content.
MarkNumbers(p) ==
  /\ pc[p] = "publishing" /\ Untried(p) = {}
  /\ markers' = markers \cup {<<o, got[p][o]>> : o \in successful[p]}
  /\ pc' = [pc EXCEPT ![p] = "leaving"]
  /\ UNCHANGED <<at, versions, etag, lost, lake, lock, faults, run>>

\* The markers of what succeeded, one ledger transaction, still under the locks.
Mark(p) ==
  /\ pc[p] = "publishing" /\ Untried(p) = {}
  /\ markers' = markers \cup {<<o, Checksum(p, o)>> : o \in successful[p]}
  /\ pc' = [pc EXCEPT ![p] = "leaving"]
  /\ UNCHANGED <<at, versions, etag, lost, lake, lock, faults, run>>

\* The lock block ends; the next scope is entered anew.
LeaveScope(p) ==
  /\ pc[p] = "leaving" /\ todo[p] # {}
  /\ lock' = None
  /\ batch' = [batch EXCEPT ![p] = {}]
  /\ tried' = [tried EXCEPT ![p] = {}]
  /\ successful' = [successful EXCEPT ![p] = {}]
  /\ pc' = [pc EXCEPT ![p] = "between"]
  /\ UNCHANGED <<at, ledger, lost, lake, faults, stage, known, sent, body, got, todo>>

Finish(p) ==
  /\ pc[p] = "leaving" /\ todo[p] = {}
  /\ lock' = None
  /\ Forget(p)
  /\ UNCHANGED <<at, ledger, lost, lake, faults>>

\* The process dies, or an exception no handler expects ends the run: a failed
\* download or ledger statement, a lock wait cancelled by its timeout.
Crash(p) ==
  /\ pc[p] # "idle" /\ faults < MaxFaults
  /\ faults' = faults + 1
  /\ lock' = IF lock = p THEN None ELSE lock
  /\ Forget(p)
  /\ UNCHANGED <<at, ledger, lost, lake>>

----------------------------------------------------------------------------
Next ==
  \/ \E p \in Process :
       \/ Start(p) \/ LoadVersions(p) \/ Select(p) \/ NothingToPublish(p) \/ EnterScope(p)
       \/ FilterAfterLock(p) \/ FilterRaises(p) \/ Mark(p)
       \/ LeaveScope(p) \/ Finish(p) \/ Crash(p)
       \/ \E o \in Object :
            \/ Revalidate(p, o) \/ Reread(p, o) \/ RecordHit(p, o) \/ RecordStore(p, o)
            \/ PublishOne(p, o) \/ PublishOneRaises(p, o) \/ CommitFails(p, o)
  \/ \E o \in Object : SourceChanges(o) \/ FileLost(o)

Spec == Init /\ [][Next]_vars

(***************************************************************************)
(* Fairness: as for snapshots, a run goes on while its process lives, runs *)
(* are triggered again and again, and PostgreSQL serves the waiters of the *)
(* locks in turn.  The source need never change and nothing need fail.     *)
(***************************************************************************)
Fairness ==
  \A p \in Process :
    /\ WF_vars(Start(p))
    /\ SF_vars(EnterScope(p))
    /\ WF_vars(\/ LoadVersions(p) \/ Select(p) \/ NothingToPublish(p) \/ FilterAfterLock(p)
               \/ FilterRaises(p) \/ Mark(p) \/ LeaveScope(p) \/ Finish(p))
    /\ \A o \in Object :
         WF_vars(\/ Revalidate(p, o) \/ Reread(p, o) \/ RecordHit(p, o)
                 \/ RecordStore(p, o) \/ PublishOne(p, o) \/ PublishOneRaises(p, o))

FairSpec == Spec /\ Fairness

----------------------------------------------------------------------------
(* Properties.                                                             *)

(***************************************************************************)
(* "stale selected versions are skipped instead of being published after a *)
(* newer accepted version" (ADR-012:80): the version a partition shows     *)
(* never gets older, in the ledger's numbering.                            *)
(***************************************************************************)
NeverOlder == [][\A o \in Object : \A t \in Table : from'[o][t] >= from[o][t]]_vars

(***************************************************************************)
(* A marker names a checksum that was published, in every table it has     *)
(* rows for: by the version the table now shows, or by one before it.      *)
(***************************************************************************)
MarkerImpliesPublished ==
  \A m \in markers : \A t \in Writes[m[2]] :
    \E n \in 1..from[m[1]][t] : versions[m[1]][n] = m[2]

(***************************************************************************)
(* "Reference-data tarball publication can run as one transaction, making  *)
(* table replacement all-or-nothing" (ADR-012:118): the tables the archive *)
(* of the provenance row has rows for all show that archive, and no table  *)
(* shows a later one.                                                      *)
(***************************************************************************)
ProvenanceCoversTables ==
  \A o \in Object : \A t \in Table :
    /\ from[o][t] <= provFrom[o]
    /\ prov[o] # None /\ t \in Writes[prov[o]] => from[o][t] = provFrom[o]

(***************************************************************************)
(* What no run will publish any more is what readers see: when the newest  *)
(* version of an object has a marker, what it writes is that version's.    *)
(***************************************************************************)
AcceptedTruthVisible ==
  \A o \in Object :
    Newest(o) > 0 /\ <<o, versions[o][Newest(o)]>> \in markers
      => \A t \in Writes[versions[o][Newest(o)]] : partition[o][t] = versions[o][Newest(o)]

(***************************************************************************)
(* Authoritative datasets "treat an explicit source scope as the accepted  *)
(* truth and may replace or reassert that scope when the source            *)
(* republishes it" (data_lifecycle.md:33): once the source settles on a    *)
(* readable content, the partition does.                                   *)
(***************************************************************************)
EventuallyCurrent ==
  \A o \in Object : \A c \in Content \ Unparsable :
    <>[](upstream[o] = c) => <>[](\A t \in Writes[c] : partition[o][t] = c)
=============================================================================
