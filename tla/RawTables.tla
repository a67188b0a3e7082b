------------------------------ MODULE RawTables ------------------------------
(***************************************************************************)
(* ducklake/raw_tables and the statements of ducklake/bootstrap: the raw   *)
(* tables, their columns, and the DDL that creates or repairs them.        *)
(*                                                                         *)
(* A table is the set of its columns, and none if it is not there; types   *)
(* and NOT NULL, which a repaired column loses, are left out.  Every       *)
(* statement of the bootstrap commits by itself.  "layout" is what a       *)
(* partitioned table is partitioned by: nothing, the columns the code      *)
(* expects, or others.                                                     *)
(***************************************************************************)
EXTENDS Naturals, Sequences, SequencesExt

CONSTANT Datasets   \* commands of the datasets there are

VARIABLES catalog, layout
tables == <<catalog, layout>>

SourceRefColumns ==
  <<"source_ref_id", "source_system", "endpoint", "source_url", "storage_uri",
    "source_market_date", "snapshot_ts", "last_modified", "content_length", "sha256",
    "downloaded_at", "parsed_at", "ingested_at", "status", "status_reason">>

DataColumns(table) ==
  CASE table = "raw_market_history" ->
         <<"average", "date", "highest", "lowest", "order_count", "volume", "http_last_modified",
           "region_id", "type_id", "source_ref_id", "source_market_date">>
    [] table = "raw_market_orders" ->
         <<"order_id", "type_id", "region_id", "location_id", "system_id", "range", "price",
           "volume_remain", "volume_total", "min_volume", "issued", "expires", "duration",
           "is_buy_order", "reported_by", "http_last_modified", "station_id", "constellation_id",
           "source_ref_id", "source_market_date", "snapshot_ts">>
    [] table = "raw_fuzzwork_orders" ->
         <<"order_id", "type_id", "issued", "is_buy_order", "volume_remain", "volume_total",
           "min_volume", "price", "location_id", "range", "duration", "region_id",
           "order_set_id", "source_ref_id", "source_market_date", "snapshot_ts">>
    [] table = "raw_reference_types" ->
         <<"type_id", "name_en", "description_en", "group_id", "category_id", "market_group_id",
           "published", "volume", "icon_id", "meta_group_id">>
    [] table = "raw_reference_regions" ->
         <<"region_id", "name_en", "description_en", "universe_id", "faction_id",
           "wormhole_class_id">>
    [] table = "raw_reference_groups" ->
         <<"group_id", "name_en", "category_id", "published", "icon_id">>
    [] table = "raw_reference_categories" -> <<"category_id", "name_en", "published", "icon_id">>
    [] table = "raw_reference_market_groups" ->
         <<"market_group_id", "name_en", "description_en", "parent_group_id", "has_types",
           "icon_id">>

\* RawDuckLakeTable, in the order of the enumeration.
ReferenceTables ==
  <<"raw_reference_categories", "raw_reference_groups", "raw_reference_market_groups",
    "raw_reference_regions", "raw_reference_types">>
DataTablesOf(dataset) ==
  CASE dataset = "everef market-history" -> <<"raw_market_history">>
    [] dataset = "everef market-orders" -> <<"raw_market_orders">>
    [] dataset = "everef fuzzwork-orders" -> <<"raw_fuzzwork_orders">>
    [] dataset = "everef references" -> ReferenceTables
    [] OTHER -> <<>>

\* RawDuckLakeProvenanceTable.
ProvenanceTableOf(dataset) ==
  CASE dataset = "everef market-history" -> "raw_market_history_objects"
    [] dataset = "everef market-orders" -> "raw_market_orders_objects"
    [] dataset = "everef fuzzwork-orders" -> "raw_fuzzwork_orders_objects"
    [] dataset = "everef references" -> "raw_reference_objects"

DataTables == UNION {ToSet(DataTablesOf(d)) : d \in Datasets}
ProvenanceTables == {ProvenanceTableOf(d) : d \in Datasets}
Table == DataTables \cup ProvenanceTables

Columns(table) ==
  IF table \in ProvenanceTables THEN SourceRefColumns ELSE DataColumns(table)

\* raw_table_partition_columns: by source_market_date.
Partitioned == {"raw_market_orders", "raw_fuzzwork_orders"} \cap Table

\* What may be there of them: nothing, or a table with some of its columns.
Column == UNION {ToSet(Columns(t)) : t \in Table}
Tables == {c \in [Table -> SUBSET Column] : \A t \in Table : c[t] \subseteq ToSet(Columns(t))}

TablesOK ==
  /\ catalog \in Tables
  /\ layout \in [Partitioned -> {"none", "expected", "other"}]

----------------------------------------------------------------------------
(* The statements of bootstrap_raw_ducklake, in order.                     *)

\* Mutant: the provenance tables are created and never repaired.
StatementsUnrepaired(t) ==
  IF t \notin Table THEN <<>>
  ELSE <<<<"create", t>>>>
         \o IF t \in ProvenanceTables THEN <<>> ELSE <<<<"columns", t>>>>
         \o IF t \in Partitioned THEN <<<<"partition", t>>>> ELSE <<>>

\* Those of one table; the tables of a dataset left out are left out.
StatementsFor(t) ==
  IF t \notin Table THEN <<>>
  ELSE <<<<"create", t>>, <<"columns", t>>>>
         \o IF t \in Partitioned THEN <<<<"partition", t>>>> ELSE <<>>

\* RawDuckLakeTable and RawDuckLakeProvenanceTable, in the order of the enumerations.
Statements ==
  StatementsFor("raw_market_history") \o StatementsFor("raw_market_orders")
    \o StatementsFor("raw_fuzzwork_orders")
    \o StatementsFor("raw_reference_categories") \o StatementsFor("raw_reference_groups")
    \o StatementsFor("raw_reference_market_groups") \o StatementsFor("raw_reference_regions")
    \o StatementsFor("raw_reference_types")
    \o StatementsFor("raw_market_history_objects") \o StatementsFor("raw_market_orders_objects")
    \o StatementsFor("raw_fuzzwork_orders_objects") \o StatementsFor("raw_reference_objects")

\* Mutant: every table is created with the columns of the provenance tables.
CreateSourceRefs(t) ==
  /\ catalog' = [catalog EXCEPT ![t] = IF @ = {} THEN ToSet(SourceRefColumns) ELSE @]
  /\ UNCHANGED layout

\* CREATE TABLE IF NOT EXISTS.
Create(t) ==
  /\ catalog' = [catalog EXCEPT ![t] = IF @ = {} THEN ToSet(Columns(t)) ELSE @]
  /\ UNCHANGED layout

\* Mutant: the last column is forgotten.
AddColumnsButOne(t, n) ==
  /\ catalog' = [catalog EXCEPT ![t] = @ \cup ToSet(SubSeq(Columns(t), 1, n - 1))]
  /\ UNCHANGED layout

\* add_missing_columns: ALTER TABLE ... ADD COLUMN IF NOT EXISTS, one by one.
\* When one of them fails, those before it are there.
AddColumns(t, n) ==
  /\ catalog' = [catalog EXCEPT ![t] = @ \cup ToSet(SubSeq(Columns(t), 1, n))]
  /\ UNCHANGED layout

\* ducklake_partition_columns: what the layout is, or None when it is none,
\* when there is no such row, and when the query raises.
PartitionColumns(t) == {layout[t], "none"}

\* ensure_expected_partitioning.
Partition(t, current) ==
  /\ current # "other"
  /\ layout' = [layout EXCEPT ![t] = "expected"]
  /\ UNCHANGED catalog

\* A statement that is carried out.
Executed(s) ==
  \/ s[1] = "create" /\ Create(s[2])
  \/ s[1] = "columns" /\ AddColumns(s[2], Len(Columns(s[2])))
  \/ s[1] = "partition" /\ \E current \in PartitionColumns(s[2]) : Partition(s[2], current)

\* A layout the code does not expect is not touched: RuntimeError.
Refused(s) ==
  s[1] = "partition" /\ "other" \in PartitionColumns(s[2]) /\ UNCHANGED tables

\* A statement that fails, or in which the process dies.
Broken(s) ==
  IF s[1] = "columns"
    THEN \E n \in 0..Len(Columns(s[2])) : AddColumns(s[2], n)
    ELSE UNCHANGED tables

----------------------------------------------------------------------------
(* What the publishers need.                                               *)

\* The SELECT of market_orders.publish_one.
MarketOrdersSelected ==
  {"order_id", "type_id", "region_id", "location_id", "system_id", "range", "price",
   "volume_remain", "volume_total", "min_volume", "issued", "expires", "duration",
   "is_buy_order", "reported_by", "http_last_modified", "station_id", "constellation_id",
   "source_ref_id", "source_market_date", "snapshot_ts"}

\* The SELECT of fuzzwork_orders.publish_one.
FuzzworkOrdersSelected ==
  {"order_id", "type_id", "issued", "is_buy_order", "volume_remain", "volume_total",
   "min_volume", "price", "location_id", "range", "duration", "region_id", "order_set_id",
   "source_ref_id", "source_market_date", "snapshot_ts"}

\* The columns of a file of market history, and those publish_one appends.
MarketHistoryAppended ==
  {"average", "date", "highest", "lowest", "order_count", "volume", "http_last_modified",
   "region_id", "type_id"} \cup {"source_ref_id", "source_market_date"}

\* The projectors of reference_data.
Projected(table) ==
  CASE table = "raw_reference_types" ->
         {"type_id", "name_en", "description_en", "group_id", "category_id", "market_group_id",
          "published", "volume", "icon_id", "meta_group_id"}
    [] table = "raw_reference_regions" ->
         {"region_id", "name_en", "description_en", "universe_id", "faction_id",
          "wormhole_class_id"}
    [] table = "raw_reference_groups" ->
         {"group_id", "name_en", "category_id", "published", "icon_id"}
    [] table = "raw_reference_categories" -> {"category_id", "name_en", "published", "icon_id"}
    [] table = "raw_reference_market_groups" ->
         {"market_group_id", "name_en", "description_en", "parent_group_id", "has_types",
          "icon_id"}

Inserted(table) ==
  CASE table = "raw_market_orders" -> MarketOrdersSelected
    [] table = "raw_fuzzwork_orders" -> FuzzworkOrdersSelected
    [] table = "raw_market_history" -> MarketHistoryAppended
    [] OTHER -> Projected(table)

\* build_source_object_metadata, and what mark_parsed and mark_ingested set.
Recorded ==
  {"source_ref_id", "source_system", "endpoint", "source_url", "storage_uri",
   "source_market_date", "snapshot_ts", "last_modified", "content_length", "sha256",
   "downloaded_at", "parsed_at", "ingested_at", "status", "status_reason"}

\* The tables one object of the dataset is written to: an archive may lack some.
WrittenBy(dataset) ==
  IF dataset = "everef references"
    THEN SUBSET ToSet(ReferenceTables) ELSE {ToSet(DataTablesOf(dataset))}

\* require_table and INSERT ... BY NAME go through.
Writable(dataset, written) ==
  /\ Recorded \subseteq catalog[ProvenanceTableOf(dataset)]
  /\ \A t \in written : catalog[t] # {} /\ Inserted(t) \subseteq catalog[t]

Complete ==
  /\ \A t \in Table : catalog[t] = ToSet(Columns(t))
  /\ \A t \in Partitioned : layout[t] = "expected"
=============================================================================
