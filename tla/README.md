# Verification of the EVE Online analytics ingestion

TLA+ models, TLC runs and TLAPS proofs for the ingestion program
(`ingestion/eve_ingest`) and the DAGs (`orchestration/`) of this repository.
Paths below are relative to `src/ingestion/eve_ingest/`; `dag_utils.py` is the
one in `src/orchestration/eve_market_airflow/`, and `docs/` is `src/docs/`.

## The system

`eve_ingest` downloads market data files from data.everef.net and fuzzwork,
keeps each file on disk with a record in a PostgreSQL *raw object ledger*, and
publishes its rows to a *DuckLake* catalog, together with a *provenance* row
per file, for dbt to transform. Runs are started by Airflow tasks or by hand,
may be retried, and may overlap. Three stores are written by one run and are
not transactionally coupled (`ducklake/locks.py:32`): the file system, the
ledger, and DuckLake. A fourth store, PostgreSQL's advisory locks, keeps the
publishers of one DuckLake table apart.

| Component | State it keeps | Operations | How it interacts |
|---|---|---|---|
| Lock domains and token, `ducklake/locks.py` | the advisory locks of a PostgreSQL session; the token's active flag | `hold_ducklake_lock_domains`, `require_domain`, the domain tables and their order | entered by the runner per scope and by the bootstrap; the token is asked by the writer and the provenance repository before every mutation |
| DuckLake session, `ducklake/session.py` | connection, nesting depth, rollback-only flag, poisoned flag; DuckDB's transaction | `transaction()`, `__enter__`, `__exit__`, `connection` | opened by the runner inside the lock; scopes nest: runner, service, writer |
| Runner, `publication/runner.py` with `specs.py`, `context.py` | a run's memory: what it acquired, what is left, what succeeded | `run_dataset_pipeline`, per scope lock, filter, publish, mark | calls the store, the locks, the session, the source's `publish_one`, the tracker |
| Publication service, `publication/service.py`, `ducklake/raw_publish.py`, `ducklake/provenance.py` | DuckLake rows and provenance rows | `append_snapshot`, `replace_partition`, `replace_tables` | called by `publish_one` through the context |
| Raw object store, `raw_objects/store.py`, `repository.py`, `downloader.py`, `http_client.py` | files on disk, temporary files, a pool of download threads | local hit, fetch, revalidate, repeat, rename, record | `raw_download_workers` threads per run; reads and writes the ledger |
| Raw object ledger, `raw_objects/ledger/`, `raw_objects/publishing.py` | objects with their ETag, numbered versions with checksum and path, publication markers; its own tables | `_bootstrap`, `load_current_states`, `rotate_version`, `touch_raw_object`, `filter_unpublished`, `mark_published_many` | shared by all runs; PostgreSQL's row locks and unique constraints keep their transactions apart |
| Raw file reconciler, `raw_objects/reconciliation.py` | none of its own | `find_orphans`, `delete_orphans` | reads the ledger, deletes files |
| Reference data, `sources/everef/reference_data.py`, `archives/` | none of its own | archive to five tables | replaces five DuckLake tables in one transaction |
| Bootstrap, `ducklake/bootstrap.py`, `ducklake/raw_tables.py` | the raw tables, their columns and layouts | create and repair every table under all locks, one statement after the other, none in a transaction | competes with the publishers for the locks; makes the tables they write |
| Sources, `sources/everef/` | temporary copies: a decompressed CSV, an extracted archive | discovery; `publish_one` of each of the four datasets | called by the runner, calls the publication service |
| Command line, `cli/`, `config/`, `util.py` | none | which commands, options and values are taken | started by a person or by a task |
| Orchestration, `orchestration/eve_market_airflow/` | tasks and their outcomes | a DAG per dataset, and one that bootstraps and then runs them all | starts containers with a command line; kills them after two hours |
| dbt, dashboards, notebooks | none the models need | | read results |

### What is hard about it

* Two runs of one dataset interleave anywhere: while downloading to the same
  path, while waiting for the locks, between selection and publication.
* A run crashes between any two stores' writes: rename and ledger row, DuckLake
  commit and publication marker.
* A commit is in doubt: `COMMIT` raises and the catalog has it, or not.
* State is read before a wait and used after it: the versions a run selects,
  the ETag it revalidates with.
* Locks are taken one by one, cancelled by a timeout, and vanish with the
  PostgreSQL session that holds them.
* One object of many fails: a snapshot scope is all or nothing, a mutable one
  object by object, and either way exactly what succeeded may be marked.
* An exception leaves half a dozen nested blocks, some of which clean up in a
  transaction that has met an error; a download that fails has siblings in
  other threads.
* The bootstrap's statements commit one by one, over tables of an older release.

### What makes each component correct

* Locks: a token vouches only for locks that are held; two tokens never cover
  one table; nobody deadlocks; every wait ends.
* Session: an outermost scope is atomic whatever nests, raises or fails in it;
  nothing is committed statement by statement; a caught failure is not
  forgotten and not carried into the next transaction.
* Snapshot publication: rows are inserted exactly once; a marker is never ahead
  of the catalog; every readable object is published in the end; provenance
  describes the rows it accompanies.
* Authoritative publication: a partition never goes back to an older version;
  a marker names what was published; the tables of one archive change together
  and with the provenance that names it; the partition settles on what the
  source serves.
* Raw files: what a run stored stays while it reads it; the reconciler deletes
  no file that a ledger row names, and in the end every file that none names.
* Ledger: versions of an object are numbered without a conflict; no reader sees
  an object without a version; its transactions never wait in a circle, and
  end; its tables are created once. Together: a log of versions and markers.
* One run, end to end: whatever fails, an object is in its table once with its
  provenance or not at all, and is marked only in the first case; a commit of a
  snapshot scope has all of it; a run that is over leaves no thread, no
  half-written download and no copy behind.
* Bootstrap and orchestration: DAGs, parser, DDL and publishers agree on
  commands, options, tables and columns; a bootstrap that succeeds leaves every
  table with all its columns, and one that breaks off does no lasting harm.

## Modules

Each module models the code named in its header; `PROJECT.json` gives the lines
of every definition. Definitions named "Mutant" in a comment are alternatives
no specification uses: each is the model of a plausible bug, and shows that the
property beside it can fail.

| Module | Role |
|---|---|
| `DuckLakeLocks` | `hold_ducklake_lock_domains` by any number of processes: one action per lock, per way out, per loss of a session |
| `LockService` | what it promises: a set of domains is granted to one process in one step, if nobody has any of them |
| `DuckLakeSession` | `transaction()` blocks over the engine's transaction, each statement of which may fail |
| `AtomicTransaction` | what it promises: an outermost block adds all of its writes, or none, in one step |
| `SnapshotPublication` | `run_dataset_pipeline` for market orders and fuzzwork orders, from discovery to markers |
| `SnapshotCatalog` | what it promises, as does `DatasetRun`: an object is ingested once, and marked after that |
| `AuthoritativePublication` | `run_dataset_pipeline` for market history and for the references archive: revalidation, versions, partitions, markers |
| `RawFiles` | the raw root and the ledger rows that name its files, under downloaders and `RawFileReconciler` |
| `RawLedger` | the ledger's transactions, one statement at a time, from several processes |
| `VersionLog` | what the ledger promises: a log of versions per object and a set of markers, both of which only grow |
| `SourceSteps` | `publish_one` of each of the four sources, as a sequence of steps that open or close a block or may raise |
| `DownloadPool` | `get_many_from_plans` and what its threads do |
| `SourcePublication` | the objects of a scope in a session: runs the steps, and unwinds the blocks when one raises |
| `DatasetRun` | `run_dataset_pipeline` from end to end, made of the three modules above |
| `RawTables` | the raw tables, the statements of the bootstrap, and what the publishers need of the tables |
| `CommandLine` | the parser and the builders: which invocations are accepted |
| `Backfill` | the DAGs, their tasks and containers, over `CommandLine` and `RawTables` |
| `MCDuckLakeLocks`, `MCSnapshotPublication`, `MCAuthoritativePublication`, `MCBackfill` | instances TLC checks (the other modules' configurations need no definitions) |
| `DuckLakeLocksProofs`, `DuckLakeSessionProofs`, `SnapshotPublicationProofs`, `AuthoritativePublicationProofs`, `RawFilesProofs`, `RawLedgerProofs`, `DatasetRunProofs`, `BackfillProofs` | theorems and proofs |

The composition is by kind of interaction. `DatasetRun` composes the parts of
one run (threads, source, service, session, runner) with every exception and
crash, one run at a time. `SnapshotPublication` and `AuthoritativePublication`
put several runs next to each other, each with coarser steps: publishing an
object is one (`SourceSteps` has its statements, and `DuckLakeSession` shows
that a transaction takes effect at once), a transaction of the ledger is one
(`RawLedger`), and the locks of a dataset are one (`DuckLakeLocks`). `Backfill`
puts bootstrap and runs under the DAGs.

### How the models correspond to the code

**Locks.** `request[p]` is `ordered_domains`, which is also the token's
`held_domains`; `held[p]` is PostgreSQL's side; `token[p]` the token's flag.
`Acquire` is one turn of the loop at `locks.py:279`, and picks the first of the
remaining domains in the order of `ordered_ducklake_lock_domains` (rank, then
name). `AcquireFails` is a cancelled wait or any other exception before the
block; the locks go when the connection is closed (`CloseSession`), a step of
its own. `DropSession` is the server ending the session of a process inside the
block; it happens only to the processes of `MayDrop`. `Crash` leaves a session
for PostgreSQL to reap. The domains and requests are computed from the tables
of a scope as the code computes them. Names are represented by their position
in the string order.

**Session.** `depth`, `rollbackOnly` and `session` are the Python object's
fields; `engine`, `buffer` and `durable` are DuckDB's. An exception on its way
out is `raising`, so that code between blocks may catch it (`Catch`), as
`_publish_snapshot_scope_batch` does. BEGIN, ROLLBACK and COMMIT may each fail;
a COMMIT that raises may or may not have been durable, whether the ROLLBACK
after it succeeds (`ExitCommitFails`) or not (`ExitPoisoned`). A transaction of DuckDB that
met an error is "aborted" until it is rolled back.

**Snapshot publication.** `file`, `ledger`, `markers`, `prov` and `rows` are
the stores; the rest is a run's memory. The path of a snapshot depends on its
URL only, so `file[o]` is shared by all runs. Objects are acquired in any
interleaving (download threads), and publication goes one scope at a time.
`PublishOne` is `publish_one` with `append_snapshot` inside the scope's
transaction, kept in `pending` until `Commit`. `BatchFails` is any object's
exception; `CommitFails` leaves the catalog either way. `Crash` is the end of
the process or an exception nobody catches. A publication lock is one variable,
since the domains of a dataset are always taken together and `DuckLakeLocks`
shows that two tokens never cover the same one. `publish_one` opens the file
before the provenance is asked, as in `market_orders.py` (in
`fuzzwork_orders.py` an unreadable file that is already ingested would be
skipped rather than raise; the model takes the stricter order).

**Authoritative publication.** `versions[o]` are the contents of the ledger's
versions by number, `etag[o]` the object's revalidation metadata, `lost` the
version files that disappeared. A 304 is answered when the ETag sent names what
the source serves. `Start` and `LoadVersions` are the two statements of
`load_current_states`. `FilterAfterLock` is the filter by markers and then by
newest version. `PublishOne` is `publish_one` with `replace_partition` in a
transaction of its own; `CommitFails` may poison the session, and then every
later object of the scope raises too. `Table` and `Writes` make it market
history (one table, written by every readable file) or the references pipeline
(`replace_tables`: several tables, of which an archive writes those whose member
it has and can be projected; the others are skipped and keep the rows of the
archive before). `partition[o][t]` is the archive whose rows are in table `t`,
`prov[o]` the one the provenance names. An archive that is broken raises before
anything is written, as an unreadable file does. The model admits any grouping
of objects into scopes, since the runner does.

**Raw files.** A downloader acquires one object: `Load` reads the newest
version, `Hit` finds nothing to download, `Read` fills the temporary file,
`Rename` puts it at `final_path`, `Record` is the ledger transaction. When that
raises (`RecordFails`, with or without the row), `Unlink` removes the file. The
reconciler reads the ledger and the clock (`ListLedger`: the two are adjacent
statements), lists the disk (`Walk`), looks at one file after the other
(`Examine`, `ExamineRaises`) and deletes (`Delete`, `DeleteRaises`). A path is
an object with a number: the uuid of a mutable object's path makes it new, a
snapshot's is always the same. A file's age is one bit, `aged`; the guard of
`Age` says that the retention window is longer than the time from the end of a
download to the end of its ledger transaction. The content of the ledger is its
paths only: `AuthoritativePublication` has the rest.

**Ledger.** `versions`, `raw_objects`, `publications` and `schema` are what is
committed; what a transaction has written and not committed is its `pc`, `obj`,
`number` and `inserted`. `rowOwner` is PostgreSQL's lock on a row, which an
uncommitted insert of it amounts to as well. `Touch` is the upsert of the
object (`touch_raw_object`), `LockRawObject` the `SELECT ... FOR UPDATE`,
`ListVersions` the list from which the next number is computed, `InsertVersion`
the insert, which the `UNIQUE` constraint refuses when the number is taken (the
action is then disabled, and `NoVersionConflict` would be false), and
`CommitRotate` makes the object's row and its version visible together.
`LoadObjects` and `LoadVersions` are two statements, each with a snapshot of its
own, as READ COMMITTED has it. `InsertMarker` is one row of the VALUES of
`mark_published_many`, in any order; it waits for an uncommitted insert of the
same key. `LockBootstrap`, `CheckTables` and `CommitTables` are `_bootstrap`.
`Fail` is any exception or the end of the process, with everything rolled back;
`CommitInDoubt` the COMMIT of a version that raises though it took place.

**One run.** In `DownloadPool` a job goes through `GetFromPlan`, the request
(`NotModified`, `Respond`, `ReadFails`), the stream, the rename (`Move`,
`MoveFails`) and the ledger row (`RecordStore`, `RecordFails`, and for a hit
`RecordHit`, `RecordHitFails`). The main thread takes results in the order of
the plans (`Collect`, `CollectRaises`); jobs that nobody has begun are
cancelled, and `Drained` is the executor waiting for the rest. `temp` tells a
temporary file that somebody writes from one that nobody will remove. A source
is a sequence of steps (`Steps`): opening ones ("csv", "tarball", "view",
"begin") push a block on `stack`, closing ones pop it, and every other one is a
statement. When a step raises, `SourcePublication` leaves the blocks one by one,
as Python does, running what their `finally` or `__exit__` runs: the temporary
CSV or directory goes, the view is dropped (a statement, which may raise), a
transaction rolls back if it is the outermost one. A snapshot scope is one
transaction with those of `append_snapshot` nested in it; in a mutable scope
each object has its own and the exception is caught between two of them.
`content` is what the files are like: good, empty, torn (cannot be decompressed,
parsed or extracted) or wrong (the rows are refused: those of a snapshot only by
their types, since nothing validates them). A file that is missing is noticed
where it is opened: for `fuzzwork_orders` by CREATE VIEW, which looks for what
`read_csv` names, and by the INSERT if it goes in between. `DatasetRun` adds the
phases of the runner, `FilterUnpublished`, the scopes in order, the files that
must be there, the markers, and the faults: of threads, of statements, of the
ledger, a kill, a lost file.

**Bootstrap.** A table is the set of its columns (`catalog`), none if it is not
there, and `layout` what a partitioned one is partitioned by. `Statements` is
the bootstrap statement by statement, with the tables and columns of the code;
`Executed`, `Refused` and `Broken` are what a statement may do. `ALTER TABLE` is
one statement per column, so a broken one leaves any prefix of them. The reading
of a layout may fail and then counts as "none" (`PartitionColumns`). `Writable`
is what a publish needs: the columns that its SELECT or projector names and
those of a provenance record.

**Command line and DAGs.** An invocation is a command and the options given with
it. `Options` is the parents each subparser is built from, `ValuesChecked` the
values its builder looks at, `Imported` the numbers `util.py` reads from the
environment on import. `wrong` is the set of options and numbers whose value is
wrong in a deployment; a date is a number, 0 one that cannot be read. In
`Backfill`, `Trigger` is the operator, `Start`, `Reject` and `ImportFails` the
container up to the handler, and `UpstreamFailed` Airflow's rule for a task
whose upstream task failed. `stage` tells how a task ended: "usage" is exit code
2, "missing" a table or column that is not there, "failed" every other failure.
A pipeline is only as much as meets the tables. `Kill` is the execution timeout.

### Abstractions

A content stands for its SHA-256 and its ETag (the source serves strong ETags;
equal contents are equal files). A content is readable or not (`Unparsable`).
Time is not modelled: a timeout is a step that may happen at any point of a
wait. `DownloadPool` has the temporary files and the second request of a
download; in `SnapshotPublication` and `AuthoritativePublication` they are
inside `Fetch`, and a download that fails for good is a `Crash`. urllib3's
retries are part of a request. What the source serves does not change in
`DatasetRun`; it does in the other two. In
`SnapshotPublication` the two statements of `load_current_states` are one step:
no ETag is sent for a snapshot, and a stale reading only costs a download. The
number of faults is bounded by `MaxFaults` (crashes, failed statements, lost
files, cancelled waits), so that liveness is asked of runs that are eventually
left alone; the proofs hold for every bound. `MaxVersions` in `RawLedger` is a
bound of the same kind: a process only rotates below it.

Three actions join steps that the code takes one right after the other, each
because nothing that happens in between can be told from the outside.

* `Revalidate` in `AuthoritativePublication` is the 304 and the look for the
  file of the version the run knows. A file that is there at the look was there
  at the 304, so both may be taken then. One that is gone is fetched again
  without a condition: taking both at the look leads to that same fetch, or, if
  the source has changed since the 304, straight to the body it would bring.
* `FilterAfterLock` is the filter by markers and the filter by newest version,
  two transactions of the ledger. Between them no marker can be added, since the
  run has the dataset's locks, so the first filter gives the same whether it is
  taken when it is or together with the second.
* `ListLedger` in `RawFiles` is the ledger's paths and the clock
  (`reconciliation.py:47`, `48`). A file that is stored between the two is not
  in the list and is younger than the window all the same, as long as the
  window is longer than the store and that gap; the guard of `Age` says so.

## Runs

| Run | Instance | Result |
|---|---|---|
| `locks` | three processes, the scopes of one-table and two-table datasets and the bootstrap's request for everything, one process whose session may be dropped, fairness; about 13,000 states | `TypeOK`, `TokenProvesLocks`, `ExclusiveCover`, `NoWaitCycle`, `WaitsEnd`, `ImplementsLockService` hold |
| `session` | three writes, nesting three deep (runner, service, writer); 820 states | `TypeOK`, `FlagMeansFailure`, `NeverAutocommits`, `ImplementsAtomicTransaction` hold |
| `snapshot` | two runs over one or both of two objects of one scope, one of which the source may revise, one fault; about 1.6 million states | `TypeOK`, `ExactlyOnce`, `MarkerImpliesIngested`, `ImplementsSnapshotCatalog` hold |
| `snapshot_progress` | two runs, two scopes, readable and unreadable contents, one fault, fairness | `EventuallyMarked` holds |
| `snapshot_lineage` | two runs, one object the source revises, no fault | `ProvenanceDescribesRows` is violated |
| `authoritative` | two runs, one archive of two tables that loses a table's member and gets it back, one fault; about 1.05 million states | `TypeOK`, `MarkerImpliesPublished`, `NeverOlder`, `ProvenanceCoversTables` hold |
| `authoritative_solo` | one process running again and again, three objects in two scopes, one of them unreadable, two faults, fairness; about 45,000 states | `AcceptedTruthVisible`, `EventuallyCurrent` hold |
| `authoritative_reverted` | one process, the source goes back to its first content, no fault | `EventuallyCurrent` is violated |
| `files` | two downloaders of one mutable object, two stores, two faults, a reconciler with a retention window, fairness of the reconciler; about 124,000 states | `TypeOK`, `StoredFileStays`, `OnlyOrphansGo`, `OrphansGo` hold |
| `ledger` | two processes, two objects, two versions of each, one fault, a database with or without tables, fairness; about 593,000 states | `TypeOK`, `NoVersionConflict`, `NeverCorrupt`, `NoWaitCycle`, `TablesCreatedOnce`, `ImplementsVersionLog`, `TransactionsEnd` hold |
| `dataset_run` | each of the four datasets, two objects of every content in one or two scopes, one or two workers, three faults; about 1.56 million states | `TypeOK`, `PublishedOnce`, `WholeScopes`, `NothingLeftBehind` hold |
| `backfill` | market orders and the references under three DAGs; a catalog without tables, without one, with a data or a provenance table of an older release; right settings, or one that is wrong; dates in order or not; one fault, fairness; about 222,000 states | `TypeOK`, `TasksGoThrough`, `BootstrapCompletes`, `BootstrapHeals` hold |

Why runs overlap at all: a DAG has one active run at a time, but a dataset is in
two DAGs and on the command line, and the code says that the advisory locks
"remain the concurrency source of truth" (`dag_utils.py:177`).

Why the bounds are enough to be interesting. Every race in the pipelines is
between two runs over one object, or between two objects of one run, and both
are there; one fault puts a crash or a doubtful commit at every point, and the
runs that follow are the retries. Three lock holders are what a cycle through a
publisher of one table, a publisher of several and the bootstrap needs. Three
levels of nesting are what the code has. For the reconciler, two stores are the
file it acts on and the one that is stored meanwhile. In the ledger, two
processes with two objects are a race for one row and two batches that insert
overlapping keys in opposite orders; the second version is the first whose
number depends on what is listed. In `dataset_run`, two objects are a scope of
two, two scopes of one, a thread that fails before and one that fails after its
neighbour, and a queue that is longer than the pool; three faults are one in the
body of a block, one in what cleans up after it, and one in the run that
follows.
In `backfill`, market orders stand for the datasets with a listing, a date range
and a partitioned table, the references for those without; each wrong setting
is one that another part of the program looks at: a builder of the datasets
only, the attach, the import.

The safety properties, invariants and action properties and refinements alike,
do not rest on these bounds: each is proved (below). `AcceptedTruthVisible` and
the two about raw files are proved under conditions that are named there, and
outside of which they are false.

### Fairness

* A process that is not waiting goes on: weak fairness of its steps.
* A lock released again and again is granted: strong fairness of `Acquire` and
  `EnterScope`. PostgreSQL queues the waiters of an advisory lock in order.
* In the pipelines, runs are started again and again. This is an assumption on
  the operators: the DAGs are backfills without a schedule or retries
  (`orchestration/eve_market_airflow/dag_utils.py:137`, `175`), and the comment
  on the crash window (`publication/runner.py:216`) counts on a retry. What the
  liveness properties say is that retrying is enough.
* In `files`, time passes and the reconciler is run again and again. No pipeline
  calls it, so this is an assumption on whoever operates the raw root. The
  downloaders need do nothing.
* In `ledger`, a transaction that has begun sends its next statement, and a
  lock on a row that is released again and again is granted: strong fairness of
  `Statement`. No process need ever begin one.
* In `backfill`, Airflow starts what is ready and the containers go on, a lock
  the bootstrap finds free again and again is granted, and an operator triggers
  the bootstrap's DAG whenever its last run is over. Nobody need trigger the
  DAGs of single datasets, and nothing makes a publisher fail or succeed.
* Nothing obliges the source to change, a wait to be cancelled, a statement to
  fail or a process to die.

## What the violated properties say

1. **Rows of one file under the checksum of another** (`snapshot_lineage`). Two
   runs share a snapshot's path. If the source revises the file while they
   overlap, one run's rename replaces the file the other is about to publish
   under the checksum it recorded. `ExactlyOnce` holds all the same.
2. **A restored file is not republished** (`authoritative_reverted`).
   Publication markers are by identity and checksum, so a source that goes from
   A to B and back to A leaves B published, against `docs/data_lifecycle.md:33`.
   The same marker makes a second case permanent that needs overlapping runs
   and no restored content: a slow run stores and publishes an older download
   as the newest version, and the newer content, already marked, never returns.

## Observations

What the models made visible without a run of its own.

* **A token outlives its session.** `ducklake/locks.py:135` calls the token
  "Proof that specific DuckLake advisory lock domains are currently held". When
  the server ends the session inside the block, the locks are free for others
  and the token still lets its holder write. `locks` lets that happen to one
  process and asks the truth of the others' tokens; asked of every process,
  `TokenIsProof` has a counterexample of a few steps.
* **A failed rollback does not poison.** The message of `ducklake/session.py:63`
  says the connection "is poisoned after a failed transaction recovery"; that
  is so after a failed COMMIT only. A ROLLBACK that fails at `session.py:150` or
  `157` leaves a session that looks fresh. `NeverAutocommits` and
  `ImplementsAtomicTransaction` bound what this can cost: the next BEGIN is
  refused while the transaction is open.
* **The reconciler may delete a file the ledger names.** The ledger is read once
  (`raw_objects/reconciliation.py:47`), the unlink comes later (`:71`). Paths of
  mutable objects are never used again, and with a window `OnlyOrphansGo` holds
  and is proved. A snapshot's path is used again: when an old file there is an
  orphan, and the snapshot is downloaded and recorded after that reading, the
  new file is deleted under its row (`Snapshot = TRUE` in `RawFiles.cfg`
  shows it). Without a window, the default, even a store that is between its
  rename and its COMMIT loses its file (`Retention = FALSE`).
* **Temporary files of failed downloads stay.** When the rename or its `mkdir`
  raises (`raw_objects/downloader.py:135`), or the process dies while it
  streams, nobody removes the file, and the reconciler skips the directory
  (`reconciliation.py:28`). `NothingLeftBehind` admits exactly these.
* **One object that fails for ever blocks its range.** `get_many_from_plans`
  raises the first failure (`raw_objects/downloader.py:190`) before anything is
  published, so a run over a range with one file the source does not serve
  publishes nothing, however often it is tried again.
* **A revised snapshot blocks its scope.** An object whose checksum changed
  after it was ingested raises (`publication/service.py:108`) and rolls back the
  snapshots of its scope, again in every run. The safety properties of
  `snapshot` cover it; `EventuallyMarked` is asked where nothing is revised.
* **A 200 without an ETag keeps the old one.** `coalesce` in
  `raw_objects/ledger/writer.py:111` pairs the newest version with the ETag of
  an earlier content; should the source return to that content, it answers 304
  and nothing is stored. The modelled source always sends an ETag.
* **A repaired table is not a created one.** A column that the bootstrap adds
  has no NOT NULL (`ducklake/raw_publish.py:69`); and a layout that cannot be
  read counts as none (`ducklake/raw_publish.py:121`), so that a table which is
  partitioned by other columns is altered instead of refused.
* **A number in the environment that is none** makes every command end with a
  traceback, even one that is given the option (`util.py:12`). The bootstrap,
  on the other hand, takes a ledger URL and a number of workers and does not look
  at them, so that a deployment learns of a wrong URL, or of a number of workers
  below one, from the first dataset. (Workers that are no integer are refused by
  the parser itself, for every command; no DAG gives the option.)
* **A timeout below a millisecond** is rounded to 0 (`ducklake/locks.py:275`),
  which switches PostgreSQL's statement timeout off.

## Proofs

All theorems hold for every value of the constants that satisfies the modules'
named assumptions, which TLC also evaluates in the runs.

* `DuckLakeLocksProofs`: type correctness; `TokenProvesLocks` and
  `ExclusiveCover`; `OrderedWaits` and from it `NoWaitCycle`; the refinement of
  `LockService`. The inductive invariant says who holds what in each phase: a
  process outside holds nothing, one inside whose session lasts holds all it
  asked for, and no domain is held twice. `TokenProvesLocks` alone is not
  inductive, since it does not say what is held while acquiring. The absence
  of cycles rests on `Before` being a strict total order of the domains, which
  is proved from the ranks and the names: among waiting processes take the one
  that waits for the last domain; whoever holds it would wait for a later one.
* `DuckLakeSessionProofs`: type correctness, `FlagMeansFailure`,
  `NeverAutocommits` and the refinement of `AtomicTransaction`. The invariant
  relates the depth to the engine's transaction, including the one that a
  failed ROLLBACK leaves open.
* `SnapshotPublicationProofs`: type correctness, `ExactlyOnce`,
  `MarkerImpliesIngested` and the refinement of `SnapshotCatalog`, for any
  number of runs, objects, scopes and faults. `ExactlyOnce` is not inductive:
  COMMIT appends rows on the strength of a provenance check made earlier. The
  invariant adds that whoever is inside a scope has the lock (`Locked`), so
  nobody else changes the provenance; what the open transaction has written
  was absent from it, and what it skipped has the right checksum (`Written`);
  and what is about to be marked is ingested (`Committed`).

* `AuthoritativePublicationProofs`: type correctness, `NeverOlder`,
  `MarkerImpliesPublished` and `ProvenanceCoversTables`, for any number of runs,
  objects, tables, scopes and faults, any table a content writes, and whatever
  the source serves in whatever order. `NeverOlder` is not inductive: a run
  filters by the newest version, and publishes long after that. What it is about
  to publish may meanwhile be overtaken in the ledger, since acquisition takes no
  lock; but not in DuckLake, since it is the one inside the scope (`Locked`), and
  the provenance names a version the ledger had by then (`TrueHistory`), so that
  what was the newest after the lock was granted is no older than what is there
  (`NotStale`). That a marker names what was published needs that nothing is
  published over a success before the markers are written (`Published`).
* `RawLedgerProofs`: type correctness, `NoVersionConflict`, `NeverCorrupt`,
  `TablesCreatedOnce`, `NoWaitCycle` and the refinement of `VersionLog`. A
  transaction that rotates has the object's row from the upsert on
  (`RowLocked`), so the list of versions it reads is the list it appends to;
  whatever a process has met has a version (`Known`), as the row and the first
  version become visible at once. No cycle: a transaction locks one row, and
  whoever has it waits for nothing; markers are inserted only by the holder of
  the publication locks (`ScopeLocked`), so that nobody waits for a key.
* `RawFilesProofs`: type correctness in both update modes; `StoredFileStays` and
  `OnlyOrphansGo` for mutable objects with a retention window (for snapshots
  `OnlyOrphansGo` is false, see above). The reconciler acts on what it read long ago,
  so neither is inductive. The invariant numbers the paths by their renames
  (`Numbered`, `Distinct`), and says that a file beyond the window is in no
  store's hands (`Settled`); hence what was beyond the window and in no row when
  the ledger was read is nobody's, and will be nobody's (`Garbage`), and
  whatever the reconciler deletes is of that kind.

* `DatasetRunProofs`: type correctness, `PublishedOnce`, `WholeScopes`,
  `NothingLeftBehind` and the refinement of `SnapshotCatalog`, for each of the four datasets and any number of objects,
  scopes, workers, runs and faults. None is inductive: what a commit makes
  durable was decided many statements earlier, in blocks that an exception may
  leave anywhere. The invariant says, for each dataset and step, which blocks
  are around the step and what the open transaction has made of the object
  (`Progress`); that the transaction has changed nothing but the objects that
  succeeded and the one in work, and nothing at all outside of a transaction
  block (`Data`, `Sessions`); which copies the blocks account for (`Blocked`);
  that no run waits for the threads of another (`Threads`); and what may be
  marked (`Successes`). The steps of a source are a concatenation of sequences,
  which `StepsOf` spells out once; an exception only shortens the stack, and
  `Moves` is the walk through the steps. `ImplementsSnapshotCatalog` is a
  theorem without a run: it follows from what every step keeps and from
  `WholeScopes`, and joins the one run in full detail to the catalog that
  `SnapshotPublication` implements with several. For the mutable datasets it
  says that publishing an object again changes nothing, since what the source
  serves does not change in `DatasetRun`.
* `BackfillProofs`: type correctness, `TasksGoThrough`, `BootstrapCompletes`
  and, of every step, `StaysComplete`: tables that are complete remain so. They
  hold for any catalogs to begin with, any DAGs, date ranges, settings and
  number of faults. The invariant
  says what the bootstrap has come past (`Behind`): those tables have their
  columns and layouts, whatever the release left. A dataset that its upstream
  task lets start has complete tables before it (`Prepared`). The rest are
  facts about the statements: there is one that creates each table and one that
  adds its columns, and every column a publisher names is among them
  (`AskedForAreThere`).
* `AcceptedTruthTheorem` and `AcceptedTruthOfOneRun` in `AuthoritativePublicationProofs`
  are about `AcceptedTruthVisible`, which is false when a content comes back
  (see above). For any number of overlapping runs it holds as long as nothing
  has come back (`NoneComesBack`): between two versions of an object with the
  same content the ledger has none with another. For one process, running again and again, this follows from a
  source that serves no content twice (`NeverServedAgain`), since its versions
  are then stored in the order in which they were served (`Ordered`).

Only model-checked are the liveness properties, which are beyond the prover:
`WaitsEnd`, `EventuallyMarked`, `EventuallyCurrent`, `OrphansGo`,
`TransactionsEnd` and `BootstrapHeals`. The two runs that expect a violation
have no theorem, of course; `WholeScopes` and the other action properties are
proved of every step.

## Not modelled

* The SQL of the publications, CSV dialects, archive members and projections,
  listings: data, not control. Whether a content can be read, and whether its
  rows are refused, is all the models know of it.
* Types and NOT NULL of the columns.
* `PublicationTracker.mark_published`, `is_published`, `RawObjectStore.get`
  and `get_many` in CHANGED mode, `mark_failed`, `RawTablePublisher.write`: no
  pipeline calls them.
* The dbt models, which are relational expressions, and the dbt macro
  `cleanup_untracked_relations`, one operator's command that only prints what
  it would drop unless it is told otherwise, has a limit on that, and asks its
  caller to keep other writers away.
* Dashboards, notebooks, logging and the tailing of container logs, access to
  the lake from notebooks, images and compose files: no state, or none that the
  program acts upon. The notebooks alone have more lines than the rest of the
  implementation.

## Plan

Written in this order, most important behaviour first:

1. Locks, session: the mechanisms everything else trusts. *Done, proved.*
2. Snapshot publication and its catalog. *Done, safety proved.*
3. Authoritative publication, of market history and of the references archive.
   *Done, safety proved.*
4. `RawFiles`: files and ledger rows under several downloaders and
   `RawFileReconciler`. *Done, safety proved.*
5. `RawLedger`: the ledger one statement at a time, and the log it promises.
   *Done, safety and refinement proved.*
6. `DatasetRun`: one run with its threads, sources and blocks. *Done, safety
   proved.*
7. `Backfill`: bootstrap, command line and DAGs. *Done, safety proved.*

What would be next:

* That `DatasetRun`, which implements the catalog, also implements the very steps
  `SnapshotPublication` and `AuthoritativePublication` take: the composition
  above would then be a theorem and not an argument.
* The macro `cleanup_untracked_relations` against a dbt run that creates
  relations between its inspection and its drops, should it ever be automated.
