----------------------------- MODULE CommandLine -----------------------------
(***************************************************************************)
(* cli: which commands the parser takes, and which values the builders of  *)
(* a configuration take.                                                   *)
(*                                                                         *)
(* An invocation names a command and the options given with it.  What is   *)
(* not given has its default, which util.py reads from the environment, so *)
(* a wrong value can come from either place: "wrong" is the set of options *)
(* whose value, given or not, is wrong.  A date is a number, and 0 a text  *)
(* that is no date.                                                        *)
(***************************************************************************)
EXTENDS Naturals

\* The commands of build_parser with a handler that does something.  A provider
\* without a subcommand, and "esi", which has none, get an error.
Everef == {"everef market-history", "everef market-orders", "everef fuzzwork-orders",
           "everef references"}
BootstrapRaw == "ducklake bootstrap raw"
Commands == Everef \cup {BootstrapRaw}

\* _build_shared_parents.
DateRange == {"--start-date", "--end-date"}
Runtime == {"--data-root", "--raw-ledger-url", "--raw-download-workers"}
DuckLake == {"--ducklake-catalog", "--ducklake-metadata-schema",
             "--ducklake-lock-wait-timeout-seconds", "--ducklake-pg-pool-max-connections",
             "--ducklake-pg-pool-wait-timeout-millis", "--ducklake-pg-pool-acquire-mode"}

\* Mutant: the bootstrap has no use for a ledger, and does not take its URL.
OptionsDucklakeOnly(command) ==
  CASE command \in Everef \ {"everef references"} -> DateRange \cup Runtime \cup DuckLake
    [] command = "everef references" -> Runtime \cup DuckLake
    [] command = BootstrapRaw -> {"--data-root"} \cup DuckLake
    [] OTHER -> {}

\* The parents each subparser is built from.
Options(command) ==
  CASE command \in Everef \ {"everef references"} -> DateRange \cup Runtime \cup DuckLake
    [] command \in {"everef references", BootstrapRaw} -> Runtime \cup DuckLake
    [] OTHER -> {}

Required(command) == Options(command) \cap DateRange

\* RawFilesCliConfig: a number of workers below one.  A text that is no integer
\* would be refused by the parser, for every command; no DAG gives the option.
WorkersValues == {"--raw-download-workers"}

\* build_raw_files_config.
RawFilesValues == {"--raw-ledger-url"} \cup WorkersValues

\* build_ducklake_config.  It looks at neither the catalog's URL nor its schema.
DuckLakeValues == DuckLake \ {"--ducklake-catalog", "--ducklake-metadata-schema"}

\* What the builder of the command's configuration looks at: the bootstrap's
\* takes neither the ledger URL nor the number of workers, which pass unseen.
ValuesChecked(command) ==
  IF command = BootstrapRaw THEN DuckLakeValues ELSE RawFilesValues \cup DuckLakeValues

\* Numbers util.py reads from the environment; "wrong" has those that are none.
EnvironmentNumbers ==
  {"EVE_DUCKLAKE_LOCK_WAIT_TIMEOUT_SECONDS", "EVE_DUCKLAKE_PG_POOL_MAX_CONNECTIONS",
   "EVE_DUCKLAKE_PG_POOL_WAIT_TIMEOUT_MILLIS"}

\* The parser imports util.py, whose float() and int() raise: a traceback and
\* exit code 1, whatever the command and the options given.
Imported(wrong) == wrong \cap EnvironmentNumbers = {}

\* parse_iso_date.
IsDate(date) == date # 0

\* iter_dates.
Dates(range) == range[1]..range[2]

\* build_everef_config.
DatesInOrder(range) == IsDate(range[1]) /\ IsDate(range[2]) /\ range[1] <= range[2]

\* The invocation gets past the parser and the builder, and the handler runs;
\* otherwise parser.error ends the process with exit code 2.
Accepted(command, given, wrong, range) ==
  /\ command \in Commands
  /\ given \subseteq Options(command)
  /\ Required(command) \subseteq given
  /\ wrong \cap ValuesChecked(command) = {}
  /\ Required(command) # {} => DatesInOrder(range)
=============================================================================
