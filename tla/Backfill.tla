------------------------------- MODULE Backfill -------------------------------
(***************************************************************************)
(* orchestration: the DAGs an operator triggers, the containers of their   *)
(* tasks, and what each runs: the command line, the bootstrap of the raw   *)
(* tables, or the pipeline of a dataset.                                   *)
(*                                                                         *)
(* bootstrap_backfill runs the bootstrap and then every dataset;           *)
(* the DAG of a single dataset runs it alone, whether or not there are     *)
(* tables.  A DAG has one run at a time, but the two DAGs a dataset is in  *)
(* overlap.  No task is tried again; operators trigger another run.        *)
(*                                                                         *)
(* A pipeline is taken as far as it meets the tables: which objects it     *)
(* publishes and how is the matter of the other modules, and the locks of  *)
(* a dataset's tables are one (DuckLakeLocks has them all).                *)
(***************************************************************************)
EXTENDS CommandLine, RawTables, FiniteSets

CONSTANTS
  Catalogs,   \* states of the catalog a deployment may begin in
  Ranges,     \* date ranges an operator may ask for
  Settings,   \* sets of options and numbers an environment may give wrong values
  MaxFaults   \* bound on killed containers, failed DDL and locks waited for in vain

ASSUME DatasetsAssumption == Datasets \subseteq Everef
ASSUME CatalogsAssumption == Catalogs \subseteq Tables
ASSUME RangesAssumption == Ranges # {} /\ Ranges \subseteq Nat \X Nat
ASSUME MaxFaultsAssumption == MaxFaults \in Nat

BootstrapDag == "bootstrap_backfill"
Dags == {BootstrapDag} \cup Datasets   \* backfill_<dataset> goes by its command

\* The tasks of build_bootstrap_backfill_dag and build_backfill_dag.
Commanded(dag) == IF dag = BootstrapDag THEN {BootstrapRaw} \cup Datasets ELSE {dag}
Task == UNION {{dag} \X Commanded(dag) : dag \in Dags}

VARIABLES
  wrong,   \* options, and numbers, with a wrong value in this deployment's environment
  range,   \* range[dag]: params.start_date and params.end_date of its latest run
  stage,   \* stage[task]: how far it is, or how it ended
  held,    \* datasets whose locks the bootstrap holds
  at,      \* the bootstrap's next statement
  faults

vars == <<tables, wrong, range, stage, held, at, faults>>

Ended == {"success", "usage", "missing", "failed", "upstream_failed"}
Stages == Ended \cup {"none", "queued", "attaching", "locking", "ddl",
                      "discovering", "acquiring", "waiting", "publishing"}

TypeOK ==
  /\ TablesOK
  /\ wrong \in Settings
  /\ range \in [Dags -> Ranges]
  /\ stage \in [Task -> Stages]
  /\ held \subseteq Datasets
  /\ at \in 1..Len(Statements) + 1
  /\ faults \in 0..MaxFaults

Init ==
  /\ catalog \in Catalogs
  /\ layout \in [Partitioned -> {"none", "other"}]
  /\ wrong \in Settings
  /\ range = [dag \in Dags |-> CHOOSE r \in Ranges : TRUE]
  /\ stage = [task \in Task |-> "none"]
  /\ held = {} /\ at = 1 /\ faults = 0

Go(task, s) == stage' = [stage EXCEPT ![task] = s]
Bootstrap == <<BootstrapDag, BootstrapRaw>>
DatasetTask == Task \ {Bootstrap}

----------------------------------------------------------------------------
(* Airflow.                                                                *)

\* Params are given, if the DAG has any, and the last run is over.
Trigger(dag, r) ==
  /\ \A task \in Task : task[1] = dag => stage[task] \in Ended \cup {"none"}
  /\ range' = [range EXCEPT ![dag] = r]
  /\ stage' = [task \in Task |-> IF task[1] = dag THEN "queued" ELSE stage[task]]
  /\ UNCHANGED <<tables, wrong, held, at, faults>>

\* bootstrap_raw >> [...]
Ready(task) ==
  /\ stage[task] = "queued"
  /\ task[1] = BootstrapDag /\ task # Bootstrap => stage[Bootstrap] = "success"

UpstreamFailed(task) ==
  /\ stage[task] = "queued" /\ task[1] = BootstrapDag /\ task # Bootstrap
  /\ stage[Bootstrap] \in Ended \ {"success"}
  /\ Go(task, "upstream_failed")
  /\ UNCHANGED <<tables, wrong, range, held, at, faults>>

\* shared_ingestion_command_args.
SharedArguments ==
  {"--data-root", "--raw-ledger-url", "--ducklake-catalog", "--ducklake-metadata-schema",
   "--ducklake-pg-pool-max-connections", "--ducklake-pg-pool-wait-timeout-millis",
   "--ducklake-pg-pool-acquire-mode"}

\* The command a DAG gives a task.
Arguments(task) ==
  SharedArguments
    \cup IF task[2] \in {BootstrapRaw, "everef references"} THEN {} ELSE DateRange

----------------------------------------------------------------------------
(* The container: main, the parser, the builder of the configuration.      *)

IsAccepted(task) == Accepted(task[2], Arguments(task), wrong, range[task[1]])

\* An import raises: exit code 1.
ImportFails(task) ==
  /\ Ready(task) /\ ~Imported(wrong)
  /\ Go(task, "failed")
  /\ UNCHANGED <<tables, wrong, range, held, at, faults>>

Start(task) ==
  /\ Ready(task) /\ Imported(wrong) /\ IsAccepted(task)
  /\ Go(task, IF task = Bootstrap THEN "attaching" ELSE "discovering")
  /\ UNCHANGED <<tables, wrong, range, held, at, faults>>

\* parser.error: exit code 2.
Reject(task) ==
  /\ Ready(task) /\ Imported(wrong) /\ ~IsAccepted(task)
  /\ Go(task, "usage")
  /\ UNCHANGED <<tables, wrong, range, held, at, faults>>

\* build_ducklake_attach_config_from_url takes the URL apart, or raises.
CatalogUrlFine == "--ducklake-catalog" \notin wrong

----------------------------------------------------------------------------
(* run_raw_bootstrap.                                                      *)

BuildBootstrapAttachConfig ==
  /\ stage[Bootstrap] = "attaching"
  /\ Go(Bootstrap, IF CatalogUrlFine THEN "locking" ELSE "failed")
  /\ UNCHANGED <<tables, wrong, range, held, at, faults>>

\* Nobody but the task holds the locks of the dataset.
Unlocked(task, dataset) ==
  /\ task = Bootstrap \/ dataset \notin held
  /\ \A other \in DatasetTask \ {task} : other[2] = dataset => stage[other] # "publishing"

\* raw_bootstrap_lock_domains: by the names of the tables.
LockOrder == <<"everef fuzzwork-orders", "everef market-history", "everef market-orders",
               "everef references">>
Rank(dataset) == CHOOSE i \in DOMAIN LockOrder : LockOrder[i] = dataset

\* The bootstrap's locks are taken one after the other, and kept.
TakeBootstrapLock(dataset) ==
  /\ stage[Bootstrap] = "locking" /\ dataset \notin held
  /\ \A other \in Datasets \ held : Rank(dataset) <= Rank(other)
  /\ Unlocked(Bootstrap, dataset)
  /\ held' = held \cup {dataset}
  /\ UNCHANGED <<tables, wrong, range, stage, at, faults>>

EnterBootstrap ==
  /\ stage[Bootstrap] = "locking" /\ held = Datasets
  /\ Go(Bootstrap, "ddl")
  /\ UNCHANGED <<tables, wrong, range, held, at, faults>>

Execute ==
  /\ stage[Bootstrap] = "ddl" /\ at <= Len(Statements)
  /\ Executed(Statements[at])
  /\ at' = at + 1
  /\ UNCHANGED <<wrong, range, stage, held, faults>>

LeaveBootstrap(s) == Go(Bootstrap, s) /\ held' = {} /\ at' = 1

\* The connection is closed, the locks are let go of, and run_raw_bootstrap returns 0.
ExitBootstrap ==
  /\ stage[Bootstrap] = "ddl" /\ at > Len(Statements)
  /\ LeaveBootstrap("success")
  /\ UNCHANGED <<tables, wrong, range, faults>>

\* ensure_expected_partitioning raises.
RefuseLayout ==
  /\ stage[Bootstrap] = "ddl" /\ at <= Len(Statements)
  /\ Refused(Statements[at])
  /\ LeaveBootstrap("failed")
  /\ UNCHANGED <<wrong, range, faults>>

\* A statement fails, or the container dies at it.
BreakOff ==
  /\ faults < MaxFaults /\ faults' = faults + 1
  /\ stage[Bootstrap] = "ddl" /\ at <= Len(Statements)
  /\ Broken(Statements[at])
  /\ LeaveBootstrap("failed")
  /\ UNCHANGED <<wrong, range>>

----------------------------------------------------------------------------
(* run_dataset_pipeline.                                                   *)

\* A listing may have nothing, and may be one that cannot be read.  Each date
\* makes an object of the market history, and the references are one object.
Listed == {"everef market-orders", "everef fuzzwork-orders"}
MayListNothing(task) ==
  \/ task[2] \in Listed
  \/ task[2] = "everef market-history" /\ Dates(range[task[1]]) = {}

Discover(task) ==
  /\ stage[task] = "discovering"
  /\ \/ Go(task, IF CatalogUrlFine THEN "acquiring" ELSE "failed")
     \/ MayListNothing(task) /\ Go(task, "success")
     \/ task[2] \in Listed /\ Go(task, "failed")
  /\ UNCHANGED <<tables, wrong, range, held, at, faults>>

\* acquire_many raises; filter_unpublished leaves nothing, or objects of a scope.
Acquire(task) ==
  /\ stage[task] = "acquiring"
  /\ \E s \in {"failed", "success", "waiting"} : Go(task, s)
  /\ UNCHANGED <<tables, wrong, range, held, at, faults>>

TakeScopeLocks(task) ==
  /\ stage[task] = "waiting" /\ Unlocked(task, task[2])
  /\ Go(task, "publishing")
  /\ UNCHANGED <<tables, wrong, range, held, at, faults>>

\* An object of the scope: what it needs is not there, or it is published,
\* or it fails for a reason of its own.
PublishScope(task) ==
  /\ stage[task] = "publishing"
  /\ \E written \in WrittenBy(task[2]) :
       IF Writable(task[2], written)
         THEN \E s \in {"success", "failed"} : Go(task, s)
         ELSE Go(task, "missing")
  /\ UNCHANGED <<tables, wrong, range, held, at, faults>>

----------------------------------------------------------------------------
\* DuckLakeLockTimeoutError.
TimeOut(task) ==
  /\ faults < MaxFaults /\ faults' = faults + 1
  /\ stage[task] = "waiting" /\ ~Unlocked(task, task[2])
  /\ Go(task, "failed")
  /\ UNCHANGED <<tables, wrong, range, held, at>>

\* execution_timeout, or the container dies; PostgreSQL lets go of its locks.
\* Of a bootstrap, a lock it waits for in vain has the same effect.
Kill(task) ==
  /\ faults < MaxFaults /\ faults' = faults + 1
  /\ stage[task] \notin Ended \cup {"none", "queued"}
  /\ IF task = Bootstrap
       THEN LeaveBootstrap("failed")
       ELSE Go(task, "failed") /\ UNCHANGED <<held, at>>
  /\ UNCHANGED <<tables, wrong, range>>

----------------------------------------------------------------------------
DatasetStep(task) ==
  \/ UpstreamFailed(task) \/ ImportFails(task) \/ Start(task) \/ Reject(task)
  \/ Discover(task) \/ Acquire(task) \/ TakeScopeLocks(task) \/ PublishScope(task)

BootstrapStep ==
  \/ ImportFails(Bootstrap) \/ Start(Bootstrap) \/ Reject(Bootstrap)
  \/ BuildBootstrapAttachConfig \/ EnterBootstrap \/ Execute \/ ExitBootstrap \/ RefuseLayout

Next ==
  \/ \E dag \in Dags, r \in Ranges : Trigger(dag, r)
  \/ BootstrapStep \/ BreakOff
  \/ \E dataset \in Datasets : TakeBootstrapLock(dataset)
  \/ \E task \in DatasetTask : DatasetStep(task)
  \/ \E task \in DatasetTask : TimeOut(task)
  \/ \E task \in Task : Kill(task)

Spec == Init /\ [][Next]_vars

\* Airflow and the containers go on, PostgreSQL grants the bootstrap a lock that
\* is free again and again (its queue is first come, first served), and an
\* operator triggers the DAG when its run is over.
FairSpec ==
  /\ Spec
  /\ WF_vars(BootstrapStep)
  /\ \A dataset \in Datasets : SF_vars(TakeBootstrapLock(dataset))
  /\ \A task \in DatasetTask : WF_vars(DatasetStep(task))
  /\ WF_vars(\E r \in Ranges : Trigger(BootstrapDag, r))

----------------------------------------------------------------------------
\* A task is refused for its command only when a value in it is wrong, and a
\* dataset that runs after the bootstrap of its DAG finds every table and
\* column it writes, whatever older tables the bootstrap found and whatever
\* other DAGs run: DAGs, parser, DDL and publishers agree.
TasksGoThrough ==
  \A task \in Task :
    /\ stage[task] = "usage" =>
         \/ wrong # {}
         \/ task[2] \in Everef \ {"everef references"} /\ ~DatesInOrder(range[task[1]])
    /\ stage[task] = "missing" => task[1] # BootstrapDag

\* A bootstrap that succeeded has made every table complete, and no later run
\* of anything, succeeding or breaking off, undoes that.
BootstrapCompletes == stage[Bootstrap] = "success" => Complete

\* Bootstraps that are killed or break off half-way do no lasting harm: where
\* no table is partitioned by other columns, and the bootstrap's own settings
\* are right, the tables are complete in the end, and stay so.
BootstrapHeals ==
  (/\ \A t \in Partitioned : layout[t] # "other"
   /\ wrong \cap (DuckLakeValues \cup EnvironmentNumbers \cup {"--ducklake-catalog"}) = {})
  => <>[]Complete
=============================================================================
