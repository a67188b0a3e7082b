------------------------------ MODULE RawLedger ------------------------------
(***************************************************************************)
(* raw_objects/ledger: the PostgreSQL transactions of RawObjectLedger, one *)
(* statement at a time, from several processes.                            *)
(*                                                                         *)
(* The pipelines' modules take a ledger transaction as one step.  Here it  *)
(* is BEGIN, its statements under READ COMMITTED, and COMMIT: the upsert   *)
(* of the object's row, which takes the row lock; the list of versions,    *)
(* from which the next number is computed; the insert, which a UNIQUE      *)
(* constraint may refuse; the markers of a batch, one key after the other, *)
(* each of which waits for another transaction's uncommitted insert of it; *)
(* and load_current_states, two statements that may see two states.  The   *)
(* tables are created by whoever comes first (_bootstrap).                 *)
(***************************************************************************)
EXTENDS Naturals, Sequences, FiniteSets

CONSTANTS
  Process,      \* processes with a ledger of their own
  Object,       \* raw objects of one dataset
  Content,      \* file contents, by checksum
  None,
  MaxVersions,  \* bound on the versions of an object
  MaxFaults     \* bound on crashes and failed statements

ASSUME ProcessAssumption == None \notin Process
ASSUME ObjectAssumption == None \notin Object
ASSUME BoundsAssumption == MaxVersions \in Nat /\ MaxFaults \in Nat

VARIABLES
  \* the database: what is committed, and who holds what
  schema,        \* the tables exist
  raw_objects,   \* objects with a row
  versions,      \* versions[o]: contents of raw_object_versions, by version_number
  publications,  \* raw_object_publications: pairs of object and content
  rowOwner,      \* rowOwner[o]: who inserted, updated or locked o's row
  bootOwner,     \* who holds the transaction-scoped advisory lock of _bootstrap
  pubOwner,      \* who holds the publication locks of the dataset (DuckLakeLocks)
  faults,
  \* a process
  bootstrapped,  \* RawObjectLedger._bootstrapped
  pc,
  absent,        \* create_all has found no tables
  obj,           \* the object its transaction is about
  found,         \* rows the first statement of load_current_states returned
  number,        \* the version number it is about to insert
  state,         \* state[p][o]: number of the current version it loaded, or 0
  got,           \* got[p][o]: number of the version it has acquired, or 0
  batch,         \* objects it publishes
  inserted       \* those whose marker its transaction has inserted

db == <<schema, raw_objects, versions, publications>>
locks == <<rowOwner, bootOwner, pubOwner>>
memory == <<state, got, batch>>
statement == <<absent, obj, found, number, inserted>>
vars == <<db, locks, faults, bootstrapped, pc, memory, statement>>

PCs == {"idle", "booting", "creating", "loading", "hitting", "touching", "locking", "listing",
        "inserting", "rotated", "filtering", "marking"}

TypeOK ==
  /\ schema \in BOOLEAN
  /\ raw_objects \subseteq Object
  /\ versions \in [Object -> Seq(Content)]
  /\ publications \subseteq Object \X Content
  /\ rowOwner \in [Object -> Process \cup {None}]
  /\ bootOwner \in Process \cup {None}
  /\ pubOwner \in Process \cup {None}
  /\ faults \in 0..MaxFaults
  /\ bootstrapped \in [Process -> BOOLEAN]
  /\ pc \in [Process -> PCs]
  /\ absent \in [Process -> BOOLEAN]
  /\ obj \in [Process -> Object \cup {None}]
  /\ found \in [Process -> SUBSET Object]
  /\ number \in [Process -> Nat]
  /\ state \in [Process -> [Object -> Nat]]
  /\ got \in [Process -> [Object -> Nat]]
  /\ batch \in [Process -> SUBSET Object]
  /\ inserted \in [Process -> SUBSET Object]

NoNumbers == [o \in Object |-> 0]

Init ==
  /\ schema \in BOOLEAN
  /\ raw_objects = {} /\ publications = {}
  /\ versions = [o \in Object |-> <<>>]
  /\ rowOwner = [o \in Object |-> None]
  /\ bootOwner = None /\ pubOwner = None /\ faults = 0
  /\ bootstrapped = [p \in Process |-> FALSE]
  /\ pc = [p \in Process |-> "idle"]
  /\ absent = [p \in Process |-> FALSE]
  /\ obj = [p \in Process |-> None]
  /\ found = [p \in Process |-> {}]
  /\ number = [p \in Process |-> 0]
  /\ state = [p \in Process |-> NoNumbers]
  /\ got = [p \in Process |-> NoNumbers]
  /\ batch = [p \in Process |-> {}]
  /\ inserted = [p \in Process |-> {}]

Go(p, s) == pc' = [pc EXCEPT ![p] = s]

\* The transaction ends, committed or not: the server lets go of its locks.
EndTransaction(p) ==
  /\ rowOwner' = [o \in Object |-> IF rowOwner[o] = p THEN None ELSE rowOwner[o]]
  /\ bootOwner' = IF bootOwner = p THEN None ELSE bootOwner
  /\ absent' = [absent EXCEPT ![p] = FALSE]
  /\ obj' = [obj EXCEPT ![p] = None]
  /\ found' = [found EXCEPT ![p] = {}]
  /\ number' = [number EXCEPT ![p] = 0]
  /\ inserted' = [inserted EXCEPT ![p] = {}]
  /\ Go(p, "idle")

----------------------------------------------------------------------------
(* _bootstrap, before the first transaction of a process.                  *)

\* Mutant: no lock before create_all.
LockBootstrapNot(p) ==
  /\ pc[p] = "idle" /\ ~bootstrapped[p]
  /\ Go(p, "booting")
  /\ UNCHANGED <<db, locks, faults, bootstrapped, memory, statement>>

\* pg_advisory_xact_lock.
LockBootstrap(p) ==
  /\ pc[p] = "idle" /\ ~bootstrapped[p] /\ bootOwner = None
  /\ bootOwner' = p
  /\ Go(p, "booting")
  /\ UNCHANGED <<db, rowOwner, pubOwner, faults, bootstrapped, memory, statement>>

\* create_all looks which tables there are.
CheckTables(p) ==
  /\ pc[p] = "booting"
  /\ absent' = [absent EXCEPT ![p] = ~schema]
  /\ Go(p, "creating")
  /\ UNCHANGED <<db, locks, faults, bootstrapped, memory, obj, found, number, inserted>>

\* It creates those that are not there, and the transaction commits.
CommitTables(p) ==
  /\ pc[p] = "creating"
  /\ ~(absent[p] /\ schema)
  /\ schema' = TRUE
  /\ bootstrapped' = [bootstrapped EXCEPT ![p] = TRUE]
  /\ EndTransaction(p)
  /\ UNCHANGED <<raw_objects, versions, publications, pubOwner, faults, memory>>

----------------------------------------------------------------------------
(* load_current_states: two statements.                                    *)

\* The rows of the objects.
LoadObjects(p) ==
  /\ pc[p] = "idle" /\ bootstrapped[p] /\ pubOwner # p
  /\ state[p] = NoNumbers /\ got[p] = NoNumbers
  /\ found' = [found EXCEPT ![p] = raw_objects]
  /\ Go(p, "loading")
  /\ UNCHANGED <<db, locks, faults, bootstrapped, memory, absent, obj, number, inserted>>

\* row_to_raw_object, row_to_raw_object_version: the current state of each object
\* that was found is its version of the highest number.
CurrentStates(objects) ==
  [o \in Object |-> IF o \in objects THEN Len(versions[o]) ELSE 0]

\* Their latest versions.  A row without one is "Ledger corruption".
LoadVersions(p) ==
  /\ pc[p] = "loading"
  /\ \A o \in found[p] : versions[o] # <<>>
  /\ state' = [state EXCEPT ![p] = CurrentStates(found[p])]
  /\ EndTransaction(p)
  /\ UNCHANGED <<db, pubOwner, faults, bootstrapped, got, batch>>

----------------------------------------------------------------------------
(* touch_raw_object and rotate_version.                                    *)

CanLockRow(p, o) == rowOwner[o] \in {None, p}

\* _record_hit for an object with a state: the upsert of its row.
TouchHit(p, o) ==
  /\ pc[p] = "idle" /\ pubOwner # p /\ state[p][o] # 0 /\ got[p][o] = 0
  /\ CanLockRow(p, o)
  /\ rowOwner' = [rowOwner EXCEPT ![o] = p]
  /\ obj' = [obj EXCEPT ![p] = o]
  /\ Go(p, "hitting")
  /\ UNCHANGED <<db, bootOwner, pubOwner, faults, bootstrapped, memory,
                 absent, found, number, inserted>>

CommitHit(p) ==
  /\ pc[p] = "hitting"
  /\ raw_objects' = raw_objects \cup {obj[p]}
  /\ got' = [got EXCEPT ![p][obj[p]] = state[p][obj[p]]]
  /\ EndTransaction(p)
  /\ UNCHANGED <<schema, versions, publications, pubOwner, faults, bootstrapped, state, batch>>

\* rotate_version begins; MaxVersions bounds the model.
BeginRotate(p, o) ==
  /\ pc[p] = "idle" /\ bootstrapped[p] /\ pubOwner # p
  /\ got[p][o] = 0 /\ Len(versions[o]) < MaxVersions
  /\ obj' = [obj EXCEPT ![p] = o]
  /\ Go(p, "touching")
  /\ UNCHANGED <<db, locks, faults, bootstrapped, memory, absent, found, number, inserted>>

\* Mutant: the row is committed before its first version.
TouchCommits(p) ==
  /\ pc[p] = "touching" /\ CanLockRow(p, obj[p])
  /\ raw_objects' = raw_objects \cup {obj[p]}
  /\ rowOwner' = [rowOwner EXCEPT ![obj[p]] = p]
  /\ Go(p, "locking")
  /\ UNCHANGED <<schema, versions, publications, bootOwner, pubOwner, faults, bootstrapped,
                 memory, statement>>

\* Mutant: the upsert leaves a row that is there alone (DO NOTHING).
TouchNothing(p) ==
  /\ pc[p] = "touching"
  /\ IF obj[p] \in raw_objects
       THEN UNCHANGED rowOwner
       ELSE CanLockRow(p, obj[p]) /\ rowOwner' = [rowOwner EXCEPT ![obj[p]] = p]
  /\ Go(p, "listing")
  /\ UNCHANGED <<db, bootOwner, pubOwner, faults, bootstrapped, memory, statement>>

\* INSERT ... ON CONFLICT DO UPDATE waits for whoever else has the row.
Touch(p) ==
  /\ pc[p] = "touching" /\ CanLockRow(p, obj[p])
  /\ rowOwner' = [rowOwner EXCEPT ![obj[p]] = p]
  /\ Go(p, "locking")
  /\ UNCHANGED <<db, bootOwner, pubOwner, faults, bootstrapped, memory, statement>>

\* SELECT ... FOR UPDATE of the same row.
LockRawObject(p) ==
  /\ pc[p] = "locking" /\ CanLockRow(p, obj[p])
  /\ rowOwner' = [rowOwner EXCEPT ![obj[p]] = p]
  /\ Go(p, "listing")
  /\ UNCHANGED <<db, bootOwner, pubOwner, faults, bootstrapped, memory, statement>>

\* Mutant: the highest number is taken for the next, and there is none at first.
ListVersionsOffByOne(p) ==
  /\ pc[p] = "listing"
  /\ number' = [number EXCEPT ![p] = Len(versions[obj[p]]) - 1]
  /\ Go(p, "inserting")
  /\ UNCHANGED <<db, locks, faults, bootstrapped, memory, absent, obj, found, inserted>>

\* The versions there are give the number of the next.
ListVersions(p) ==
  /\ pc[p] = "listing"
  /\ number' = [number EXCEPT ![p] = Len(versions[obj[p]]) + 1]
  /\ Go(p, "inserting")
  /\ UNCHANGED <<db, locks, faults, bootstrapped, memory, absent, obj, found, inserted>>

\* The INSERT of the version; UNIQUE (raw_object_id, version_number) may refuse it.
InsertVersion(p) ==
  /\ pc[p] = "inserting" /\ number[p] > Len(versions[obj[p]])
  /\ Go(p, "rotated")
  /\ UNCHANGED <<db, locks, faults, bootstrapped, memory, statement>>

\* Mutant: the INSERT is sent twice, with the next number but one.
NewVersionTwice(p, c) ==
  /\ raw_objects' = raw_objects \cup {obj[p]}
  /\ versions' = [versions EXCEPT ![obj[p]] = @ \o <<c, c>>]

NewVersion(p, c) ==
  /\ raw_objects' = raw_objects \cup {obj[p]}
  /\ versions' = [versions EXCEPT ![obj[p]] = Append(@, c)]

CommitRotate(p) ==
  /\ pc[p] = "rotated"
  /\ \E c \in Content : NewVersion(p, c)
  /\ got' = [got EXCEPT ![p][obj[p]] = number[p]]
  /\ EndTransaction(p)
  /\ UNCHANGED <<schema, publications, pubOwner, faults, bootstrapped, state, batch>>

----------------------------------------------------------------------------
(* Markers, under the publication locks of the dataset.                    *)

Key(p, o) == <<o, versions[o][got[p][o]]>>
Acquired(p) == {o \in Object : got[p][o] # 0}

\* Mutant: the runner does not take the locks of the scope.
EnterScopeUnlocked(p) ==
  /\ pc[p] = "idle" /\ Acquired(p) # {}
  /\ Go(p, "filtering")
  /\ UNCHANGED <<db, locks, faults, bootstrapped, memory, statement>>

\* The runner takes the locks of a publication scope.
EnterScope(p) ==
  /\ pc[p] = "idle" /\ pubOwner = None /\ Acquired(p) # {}
  /\ pubOwner' = p
  /\ Go(p, "filtering")
  /\ UNCHANGED <<db, rowOwner, bootOwner, faults, bootstrapped, memory, statement>>

\* The run lets go of the locks and of what it acquired.
LeaveScope(p) ==
  /\ pubOwner' = IF pubOwner = p THEN None ELSE pubOwner
  /\ state' = [state EXCEPT ![p] = NoNumbers]
  /\ got' = [got EXCEPT ![p] = NoNumbers]
  /\ batch' = [batch EXCEPT ![p] = {}]

Unmarked(p) == {o \in Acquired(p) : Key(p, o) \notin publications}

\* filter_unpublished: what has a marker needs none.  Publishing the rest in
\* DuckLake is another module's (SnapshotPublication, AuthoritativePublication).
FilterUnpublished(p) ==
  /\ pc[p] = "filtering" /\ Unmarked(p) # {}
  /\ batch' = [batch EXCEPT ![p] = Unmarked(p)]
  /\ Go(p, "marking")
  /\ UNCHANGED <<db, locks, faults, bootstrapped, state, got, statement>>

NothingUnpublished(p) ==
  /\ pc[p] = "filtering" /\ Unmarked(p) = {}
  /\ Go(p, "idle")
  /\ LeaveScope(p)
  /\ UNCHANGED <<db, rowOwner, bootOwner, faults, bootstrapped, statement>>

InsertedBy(q, k) == \E o \in inserted[q] : Key(q, o) = k

\* mark_published_many, one row of its VALUES: INSERT ... ON CONFLICT DO NOTHING
\* waits to see what becomes of another transaction's insert of the key.
InsertMarker(p, o) ==
  /\ pc[p] = "marking" /\ o \in batch[p] \ inserted[p]
  /\ \A q \in Process \ {p} : ~InsertedBy(q, Key(p, o))
  /\ inserted' = [inserted EXCEPT ![p] = @ \cup {o}]
  /\ UNCHANGED <<db, locks, faults, bootstrapped, pc, memory, absent, obj, found, number>>

CommitMarkers(p) ==
  /\ pc[p] = "marking" /\ inserted[p] = batch[p]
  /\ publications' = publications \cup {Key(p, o) : o \in batch[p]}
  /\ EndTransaction(p)
  /\ LeaveScope(p)
  /\ UNCHANGED <<schema, raw_objects, versions, faults, bootstrapped>>

----------------------------------------------------------------------------
\* Mutant: the row lock outlives the transaction that fails.
FailLeaks(p) ==
  /\ pc[p] # "idle" /\ faults < MaxFaults
  /\ faults' = faults + 1
  /\ bootstrapped' = [bootstrapped EXCEPT ![p] = FALSE]
  /\ obj' = [obj EXCEPT ![p] = None]
  /\ found' = [found EXCEPT ![p] = {}]
  /\ number' = [number EXCEPT ![p] = 0]
  /\ Go(p, "idle")
  /\ LeaveScope(p)
  /\ bootOwner' = IF bootOwner = p THEN None ELSE bootOwner
  /\ absent' = [absent EXCEPT ![p] = FALSE]
  /\ inserted' = [inserted EXCEPT ![p] = {}]
  /\ UNCHANGED <<db, rowOwner>>

\* A statement or the COMMIT raises, or the process dies; everything it has
\* not committed is rolled back.  A new process begins with an empty memory.
Fail(p) ==
  /\ pc[p] # "idle" /\ faults < MaxFaults
  /\ faults' = faults + 1
  /\ bootstrapped' = [bootstrapped EXCEPT ![p] = FALSE]
  /\ EndTransaction(p)
  /\ LeaveScope(p)
  /\ UNCHANGED db

\* COMMIT raises though the server has committed the version.
CommitInDoubt(p) ==
  /\ pc[p] = "rotated" /\ faults < MaxFaults
  /\ faults' = faults + 1
  /\ \E c \in Content : NewVersion(p, c)
  /\ bootstrapped' = [bootstrapped EXCEPT ![p] = FALSE]
  /\ EndTransaction(p)
  /\ LeaveScope(p)
  /\ UNCHANGED <<schema, publications>>

\* A run that has nothing to publish ends; its ledger is closed.
EndRun(p) ==
  /\ pc[p] = "idle" /\ bootstrapped[p] /\ Acquired(p) = {}
  /\ bootstrapped' = [bootstrapped EXCEPT ![p] = FALSE]
  /\ state' = [state EXCEPT ![p] = NoNumbers]
  /\ UNCHANGED <<db, locks, faults, pc, got, batch, statement>>

----------------------------------------------------------------------------
\* What a transaction does next, once begun.
Statement(p) ==
  \/ CheckTables(p) \/ CommitTables(p)
  \/ LoadVersions(p) \/ CommitHit(p)
  \/ Touch(p) \/ LockRawObject(p) \/ ListVersions(p) \/ InsertVersion(p) \/ CommitRotate(p)
  \/ FilterUnpublished(p) \/ NothingUnpublished(p) \/ CommitMarkers(p)
  \/ \E o \in Object : InsertMarker(p, o)

Next ==
  \E p \in Process :
    \/ LockBootstrap(p) \/ LoadObjects(p) \/ EnterScope(p) \/ Statement(p)
    \/ \E o \in Object : TouchHit(p, o) \/ BeginRotate(p, o)
    \/ Fail(p) \/ CommitInDoubt(p) \/ EndRun(p)

Spec == Init /\ [][Next]_vars

\* A process inside a transaction sends its next statement, and the server
\* answers once nobody else holds what it needs.
FairSpec == Spec /\ \A p \in Process : SF_vars(Statement(p))

----------------------------------------------------------------------------
\* The number computed from the list is free: no rotation is refused by the
\* UNIQUE constraint, so it would not matter if an older ledger lacked it.
NoVersionConflict ==
  \A p \in Process : pc[p] \in {"inserting", "rotated"} => number[p] = Len(versions[obj[p]]) + 1

\* A row that was seen has a version: load_current_states never raises
\* "Ledger corruption", though its statements see different states.
NeverCorrupt ==
  \A p \in Process : \A o \in found[p] : versions[o] # <<>>

\* Whom a process waits for inside a transaction.
WaitsFor(p) ==
  {q \in Process \ {p} :
     \/ pc[p] = "touching" /\ rowOwner[obj[p]] = q
     \/ /\ pc[p] = "marking" /\ batch[p] # inserted[p]
        /\ \A o \in batch[p] \ inserted[p] : InsertedBy(q, Key(p, o))}

\* No processes wait for each other: PostgreSQL never ends a transaction of
\* the ledger to break a deadlock, in whatever order a batch is inserted.
NoWaitCycle ==
  \A S \in (SUBSET Process) \ {{}} : \E p \in S : WaitsFor(p) \cap S = {}

\* Two processes that come first do not both create the tables.
TablesCreatedOnce ==
  \A p \in Process : pc[p] = "creating" /\ absent[p] => ~schema

\* Whatever a transaction waits for, it ends.
TransactionsEnd ==
  \A p \in Process : pc[p] # "idle" ~> pc[p] = "idle"

VL == INSTANCE VersionLog WITH log <- versions, marked <- publications

\* The interleaved transactions are appends to a log and additions of markers.
ImplementsVersionLog == VL!Spec
=============================================================================
