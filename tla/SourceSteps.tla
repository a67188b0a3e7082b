----------------------------- MODULE SourceSteps -----------------------------
(***************************************************************************)
(* sources/everef and publication/service: what publish_one of each of the *)
(* four sources does with one object, as a sequence of steps.              *)
(*                                                                         *)
(* A step opens a block of a with statement, closes it, or does something  *)
(* that may raise.  "csv", "tarball", "view" and "begin" open; "unlink",   *)
(* "cleanup", "drop" and "end" close.  SourcePublication runs the steps,   *)
(* and unwinds the blocks when one raises.                                 *)
(***************************************************************************)
EXTENDS Naturals, Sequences

CONSTANT N   \* objects of the dataset, in the order of their plans

Object == 1..N

VARIABLES
  kind,      \* the dataset of the run
  content    \* content[o]: what the file of an object is like

Kinds == {"orders", "fuzzwork", "history", "references"}

\* "torn" cannot be decompressed, parsed or extracted; "wrong" can, and has a
\* value of another type, a member that cannot be read or, where the rows are
\* validated, which those of a snapshot are not, another date or a key twice;
\* "empty" has no rows, or no member there is a table for.
Contents == {"good", "empty", "torn", "wrong"}

\* The update mode and the write policy in PUBLISHER_SPEC.
Snapshot == kind \in {"orders", "fuzzwork"}

\* prepare_sql_source and prepare_arrow_source: a source is a view of a temporary name.
InView(steps) == <<"view">> \o steps \o <<"drop">>

\* DuckLakeSession.transaction.
InTransaction(steps) == <<"begin">> \o steps \o <<"end">>

\* Mutant: append_snapshot does not look for an ingested row.
AppendSnapshotAlways == InView(InTransaction(<<"record", "parsed", "insert", "ingested">>))

\* PublicationService.append_snapshot.
AppendSnapshot ==
  <<"check">> \o InView(InTransaction(<<"record", "parsed", "insert", "ingested">>))

\* Mutant: the rows that are there are not deleted.
WritePreparedSourceKept == <<"validate">> \o InTransaction(<<"insert">>)

\* write_prepared_source, which replaces the rows of a partition or of a table.
WritePreparedSource == <<"validate">> \o InTransaction(<<"delete", "insert">>)

\* PublicationService.replace_partition.
ReplacePartition ==
  InView(InTransaction(<<"record", "parsed">> \o WritePreparedSource \o <<"ingested">>))

\* PublicationService.replace_tables, for an archive with one table, and for one
\* with none: then only the provenance is written.
ReplaceTables(tables) ==
  IF tables = 0
    THEN InTransaction(<<"record", "parsed", "ingested">>)
    ELSE ReplacePartition

\* market_orders.publish_one: DuckDB does not read bz2, so the file is
\* decompressed to a temporary one first.
PublishOrders == <<"csv">> \o AppendSnapshot \o <<"unlink">>

\* fuzzwork_orders.publish_one.
PublishFuzzwork == AppendSnapshot

\* market_history.publish_one and parse_csv_to_arrow.
PublishHistory == <<"parse">> \o ReplacePartition

\* reference_data.publish_one and _prepare_reference_archive.  A member without
\* rows, or that no table is for, is skipped.
PublishReferences(c) ==
  <<"tarball", "members", "cleanup">> \o ReplaceTables(IF c = "empty" THEN 0 ELSE 1)

Steps(o) ==
  CASE kind = "orders" -> PublishOrders
    [] kind = "fuzzwork" -> PublishFuzzwork
    [] kind = "history" -> PublishHistory
    [] kind = "references" -> PublishReferences(content[o])

\* Where the steps go on when the snapshot has been ingested before.
AfterSkip(o) == Len(Steps(o)) + IF kind = "orders" THEN 0 ELSE 1

\* The step raises because there is no file, or because of what is in it.
\* CREATE VIEW looks for the file that read_csv names, and the INSERT reads it.
Raises(step, o, there) ==
  \/ step = "view" /\ kind = "fuzzwork" /\ ~there
  \/ /\ content[o] = "torn" \/ ~there
     /\ \/ step \in {"csv", "parse", "tarball"}
        \/ step = "insert" /\ kind = "fuzzwork"
  \/ /\ content[o] = "wrong"
     /\ \/ step \in {"members", "validate"}
        \/ step = "insert" /\ Snapshot

\* Rows an object is to have in its table.
RowsOf(o) == IF content[o] = "good" THEN 1 ELSE 0
=============================================================================
