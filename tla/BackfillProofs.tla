---------------------------- MODULE BackfillProofs ----------------------------
(***************************************************************************)
(* Theorems about Backfill for any of the datasets, any state of the       *)
(* tables a deployment may begin in, and any number of faults.             *)
(***************************************************************************)
EXTENDS Backfill, SequenceTheorems, TLAPS

USE DatasetsAssumption

----------------------------------------------------------------------------
(* Sequences.                                                              *)

\* The elements of two sequences in a row are those of either.
LEMMA Concat ==
  ASSUME NEW S, NEW a \in Seq(S), NEW b \in Seq(S)
  PROVE  a \o b \in Seq(S) /\ ToSet(a \o b) = ToSet(a) \cup ToSet(b)
<1> DEFINE c == a \o b
<1>1. /\ c \in Seq(S) /\ Len(c) = Len(a) + Len(b)
      /\ \A i \in 1..Len(a) : c[i] = a[i]
      /\ \A i \in 1..Len(b) : c[Len(a) + i] = b[i]
      /\ \A i \in 1..Len(c) : \/ i \in 1..Len(a)
                              \/ i - Len(a) \in 1..Len(b) /\ c[i] = b[i - Len(a)]
  OBVIOUS
<1>2. Len(a) \in Nat /\ Len(b) \in Nat /\ DOMAIN a = 1..Len(a) /\ DOMAIN b = 1..Len(b)
      /\ DOMAIN c = 1..Len(c)
  BY <1>1
<1> HIDE DEF c
<1>3. \A x : (\E i \in DOMAIN c : c[i] = x)
             <=> (\E i \in DOMAIN a : a[i] = x) \/ (\E i \in DOMAIN b : b[i] = x)
  <2>1. ASSUME NEW i \in DOMAIN c
        PROVE (\E j \in DOMAIN a : a[j] = c[i]) \/ (\E j \in DOMAIN b : b[j] = c[i])
    BY <1>1, <1>2
  <2>2. ASSUME NEW i \in DOMAIN a PROVE \E j \in DOMAIN c : c[j] = a[i]
    BY <1>1, <1>2
  <2>3. ASSUME NEW i \in DOMAIN b PROVE \E j \in DOMAIN c : c[j] = b[i]
    <3>1. Len(a) + i \in DOMAIN c
      BY <1>1, <1>2
    <3>2. QED
      BY <3>1, <1>1, <1>2
  <2>4. QED
    BY <2>1, <2>2, <2>3
<1>4. ToSet(c) = ToSet(a) \cup ToSet(b)
  BY <1>3 DEF ToSet
<1>5. QED
  BY <1>1, <1>4 DEF c

----------------------------------------------------------------------------
(* The tables and their columns.                                           *)

\* The tables there may be.
LEMMA TablesAre ==
  /\ DataTables \subseteq
       {"raw_market_history", "raw_market_orders", "raw_fuzzwork_orders",
        "raw_reference_categories", "raw_reference_groups", "raw_reference_market_groups",
        "raw_reference_regions", "raw_reference_types"}
  /\ ProvenanceTables \subseteq
       {"raw_market_history_objects", "raw_market_orders_objects",
        "raw_fuzzwork_orders_objects", "raw_reference_objects"}
  /\ \A d \in Datasets \ {"everef references"} :
       \E t \in {"raw_market_history", "raw_market_orders", "raw_fuzzwork_orders"} :
          DataTablesOf(d) = <<t>>
  /\ Table \subseteq
       {"raw_market_history", "raw_market_orders", "raw_fuzzwork_orders",
        "raw_reference_categories", "raw_reference_groups", "raw_reference_market_groups",
        "raw_reference_regions", "raw_reference_types", "raw_market_history_objects",
        "raw_market_orders_objects", "raw_fuzzwork_orders_objects", "raw_reference_objects"}
<1> DEFINE Names == {"raw_market_history", "raw_market_orders", "raw_fuzzwork_orders",
            "raw_reference_categories", "raw_reference_groups", "raw_reference_market_groups",
            "raw_reference_regions", "raw_reference_types"}
<1>1. \A d \in Datasets \ {"everef references"} :
       \E t \in {"raw_market_history", "raw_market_orders", "raw_fuzzwork_orders"} :
          DataTablesOf(d) = <<t>>
  BY DEF DataTablesOf, Everef
<1>2. \A d \in Datasets : ProvenanceTableOf(d) \in
       {"raw_market_history_objects", "raw_market_orders_objects",
        "raw_fuzzwork_orders_objects", "raw_reference_objects"}
  BY DEF ProvenanceTableOf, Everef
<1>3. DataTablesOf("everef references") = ReferenceTables
  BY DEF DataTablesOf
<1>4. \A t : ToSet(<<t>>) = {t}
  BY DEF ToSet
<1>5. ToSet(ReferenceTables) \subseteq
        {"raw_reference_categories", "raw_reference_groups", "raw_reference_market_groups",
         "raw_reference_regions", "raw_reference_types"}
  BY DEF ToSet, ReferenceTables
<1>6. \A d \in Datasets : ToSet(DataTablesOf(d)) \subseteq Names
  <2> SUFFICES ASSUME NEW d \in Datasets
               PROVE  ToSet(DataTablesOf(d)) \subseteq Names
    OBVIOUS
  <2>1. CASE d = "everef references"
    BY <2>1, <1>3, <1>5
  <2>2. CASE d # "everef references"
    <3>1. PICK t \in {"raw_market_history", "raw_market_orders", "raw_fuzzwork_orders"} :
            DataTablesOf(d) = <<t>>
      BY <2>2, <1>1
    <3>2. QED
      BY <3>1, <1>4
  <2>3. QED
    BY <2>1, <2>2
<1>7. DataTables \subseteq Names
  BY <1>6 DEF DataTables
<1>8. ProvenanceTables \subseteq
       {"raw_market_history_objects", "raw_market_orders_objects",
        "raw_fuzzwork_orders_objects", "raw_reference_objects"}
  BY <1>2 DEF ProvenanceTables
<1>9. QED
  BY <1>1, <1>7, <1>8 DEF Table

Statement == ({"create", "columns"} \X Table) \cup ({"partition"} \X Partitioned)

\* The statements for one table.
LEMMA StatementsForOne ==
  ASSUME NEW t
  PROVE  /\ StatementsFor(t) \in Seq(Statement)
         /\ t \in Table => <<"columns", t>> \in ToSet(StatementsFor(t))
         /\ t \in Partitioned => <<"partition", t>> \in ToSet(StatementsFor(t))
<1>1. CASE t \notin Table
  BY <1>1 DEF StatementsFor, Partitioned
<1>2. CASE t \in Table
  <2> DEFINE both == <<<<"create", t>>, <<"columns", t>>>>
             last == IF t \in Partitioned THEN <<<<"partition", t>>>> ELSE <<>>
  <2>1. both \in Seq(Statement) /\ last \in Seq(Statement)
    <3>1. /\ <<"create", t>> \in Statement /\ <<"columns", t>> \in Statement
          /\ t \in Partitioned => <<"partition", t>> \in Statement
      BY <1>2 DEF Statement
    <3> HIDE DEF Statement
    <3>2. both \in Seq(Statement)
      BY <3>1
    <3>3. last \in Seq(Statement)
      BY <3>1
    <3>4. QED
      BY <3>2, <3>3
  <2>2. <<"columns", t>> \in ToSet(both) /\ (t \in Partitioned => <<"partition", t>> \in ToSet(last))
    BY DEF ToSet
  <2>3. StatementsFor(t) = both \o last
    BY <1>2 DEF StatementsFor
  <2> HIDE DEF both, last
  <2>4. QED
    BY <2>1, <2>2, <2>3, Concat
<1>3. QED
  BY <1>1, <1>2

\* Statements for one more table.
LEMMA Longer ==
  ASSUME NEW s \in Seq(Statement), NEW t
  PROVE  /\ s \o StatementsFor(t) \in Seq(Statement)
         /\ ToSet(s \o StatementsFor(t)) = ToSet(s) \cup ToSet(StatementsFor(t))
<1> DEFINE u == StatementsFor(t)
<1>1. u \in Seq(Statement)
  BY StatementsForOne
<1> HIDE DEF u
<1>2. s \o u \in Seq(Statement) /\ ToSet(s \o u) = ToSet(s) \cup ToSet(u)
  BY <1>1, Concat
<1>3. QED
  BY <1>2 DEF u

\* The bootstrap's statements are for the tables there are, and leave none out.
LEMMA StatementsAre ==
  /\ Statements \in Seq(Statement)
  /\ \A t \in Table : \E i \in 1..Len(Statements) : Statements[i] = <<"columns", t>>
  /\ \A t \in Partitioned : \E i \in 1..Len(Statements) : Statements[i] = <<"partition", t>>
<1> DEFINE Of(t) == ToSet(StatementsFor(t))
           s1 == StatementsFor("raw_market_history") \o StatementsFor("raw_market_orders")
           s2 == s1 \o StatementsFor("raw_fuzzwork_orders")
           s3 == s2 \o StatementsFor("raw_reference_categories")
           s4 == s3 \o StatementsFor("raw_reference_groups")
           s5 == s4 \o StatementsFor("raw_reference_market_groups")
           s6 == s5 \o StatementsFor("raw_reference_regions")
           s7 == s6 \o StatementsFor("raw_reference_types")
           s8 == s7 \o StatementsFor("raw_market_history_objects")
           s9 == s8 \o StatementsFor("raw_market_orders_objects")
           s10 == s9 \o StatementsFor("raw_fuzzwork_orders_objects")
           s11 == s10 \o StatementsFor("raw_reference_objects")
<1>0. Statements = s11
  BY DEF Statements
<1>1. /\ s1 \in Seq(Statement)
      /\ ToSet(s1) = Of("raw_market_history") \cup Of("raw_market_orders")
  BY StatementsForOne, Longer
<1> HIDE DEF s1
<1>2. s2 \in Seq(Statement) /\ ToSet(s2) = ToSet(s1) \cup Of("raw_fuzzwork_orders")
  BY <1>1, Longer
<1> HIDE DEF s2
<1>3. s3 \in Seq(Statement) /\ ToSet(s3) = ToSet(s2) \cup Of("raw_reference_categories")
  BY <1>2, Longer
<1> HIDE DEF s3
<1>4. s4 \in Seq(Statement) /\ ToSet(s4) = ToSet(s3) \cup Of("raw_reference_groups")
  BY <1>3, Longer
<1> HIDE DEF s4
<1>5. s5 \in Seq(Statement) /\ ToSet(s5) = ToSet(s4) \cup Of("raw_reference_market_groups")
  BY <1>4, Longer
<1> HIDE DEF s5
<1>6. s6 \in Seq(Statement) /\ ToSet(s6) = ToSet(s5) \cup Of("raw_reference_regions")
  BY <1>5, Longer
<1> HIDE DEF s6
<1>7. s7 \in Seq(Statement) /\ ToSet(s7) = ToSet(s6) \cup Of("raw_reference_types")
  BY <1>6, Longer
<1> HIDE DEF s7
<1>8. s8 \in Seq(Statement) /\ ToSet(s8) = ToSet(s7) \cup Of("raw_market_history_objects")
  BY <1>7, Longer
<1> HIDE DEF s8
<1>9. s9 \in Seq(Statement) /\ ToSet(s9) = ToSet(s8) \cup Of("raw_market_orders_objects")
  BY <1>8, Longer
<1> HIDE DEF s9
<1>10. s10 \in Seq(Statement) /\ ToSet(s10) = ToSet(s9) \cup Of("raw_fuzzwork_orders_objects")
  BY <1>9, Longer
<1> HIDE DEF s10
<1>11. s11 \in Seq(Statement) /\ ToSet(s11) = ToSet(s10) \cup Of("raw_reference_objects")
  BY <1>10, Longer
<1> HIDE DEF s11
<1>12. \A t \in Table : Of(t) \subseteq ToSet(Statements)
  BY <1>0, <1>1, <1>2, <1>3, <1>4, <1>5, <1>6, <1>7, <1>8, <1>9, <1>10, <1>11, TablesAre
<1>13. Statements \in Seq(Statement) /\ DOMAIN Statements = 1..Len(Statements)
  BY <1>0, <1>11
<1>14. \A x \in ToSet(Statements) : \E i \in 1..Len(Statements) : Statements[i] = x
  BY <1>13 DEF ToSet
<1>15. Partitioned \subseteq Table
  BY DEF Partitioned
<1>16. QED
  BY <1>12, <1>13, <1>14, <1>15, StatementsForOne

\* What is asked of a data table, or of a provenance table, is among its columns.
LEMMA AskedForAreThere ==
  /\ Recorded \subseteq ToSet(SourceRefColumns)
  /\ \A t \in DataTables : Inserted(t) \subseteq ToSet(DataColumns(t)) /\ Inserted(t) # {}
<1>1. Recorded \subseteq ToSet(SourceRefColumns)
  BY DEF Recorded, SourceRefColumns, ToSet
<1>2. /\ Inserted("raw_market_history") \subseteq ToSet(DataColumns("raw_market_history"))
      /\ Inserted("raw_market_history") # {}
  BY DEF Inserted, MarketHistoryAppended, DataColumns, ToSet
<1>3. /\ Inserted("raw_market_orders") \subseteq ToSet(DataColumns("raw_market_orders"))
      /\ Inserted("raw_market_orders") # {}
  BY DEF Inserted, MarketOrdersSelected, DataColumns, ToSet
<1>4. /\ Inserted("raw_fuzzwork_orders") \subseteq ToSet(DataColumns("raw_fuzzwork_orders"))
      /\ Inserted("raw_fuzzwork_orders") # {}
  BY DEF Inserted, FuzzworkOrdersSelected, DataColumns, ToSet
<1>5. /\ Inserted("raw_reference_categories") \subseteq ToSet(DataColumns("raw_reference_categories"))
      /\ Inserted("raw_reference_categories") # {}
  BY DEF Inserted, Projected, DataColumns, ToSet
<1>6. /\ Inserted("raw_reference_groups") \subseteq ToSet(DataColumns("raw_reference_groups"))
      /\ Inserted("raw_reference_groups") # {}
  BY DEF Inserted, Projected, DataColumns, ToSet
<1>7. /\ Inserted("raw_reference_market_groups") \subseteq ToSet(DataColumns("raw_reference_market_groups"))
      /\ Inserted("raw_reference_market_groups") # {}
  BY DEF Inserted, Projected, DataColumns, ToSet
<1>8. /\ Inserted("raw_reference_regions") \subseteq ToSet(DataColumns("raw_reference_regions"))
      /\ Inserted("raw_reference_regions") # {}
  BY DEF Inserted, Projected, DataColumns, ToSet
<1>9. /\ Inserted("raw_reference_types") \subseteq ToSet(DataColumns("raw_reference_types"))
      /\ Inserted("raw_reference_types") # {}
  BY DEF Inserted, Projected, DataColumns, ToSet
<1>10. QED
  BY <1>1, <1>2, <1>3, <1>4, <1>5, <1>6, <1>7, <1>8, <1>9, TablesAre

\* The columns of a table are a sequence.
LEMMA ColumnsAre ==
  ASSUME NEW t \in Table
  PROVE  Columns(t) \in Seq(ToSet(Columns(t)))
<1>1. SourceRefColumns \in Seq(ToSet(SourceRefColumns))
  BY DEF SourceRefColumns, ToSet
<1>2. DataColumns("raw_market_history") \in Seq(ToSet(DataColumns("raw_market_history")))
  BY DEF DataColumns, ToSet
<1>3. DataColumns("raw_market_orders") \in Seq(ToSet(DataColumns("raw_market_orders")))
  BY DEF DataColumns, ToSet
<1>4. DataColumns("raw_fuzzwork_orders") \in Seq(ToSet(DataColumns("raw_fuzzwork_orders")))
  BY DEF DataColumns, ToSet
<1>5. DataColumns("raw_reference_categories") \in Seq(ToSet(DataColumns("raw_reference_categories")))
  BY DEF DataColumns, ToSet
<1>6. DataColumns("raw_reference_groups") \in Seq(ToSet(DataColumns("raw_reference_groups")))
  BY DEF DataColumns, ToSet
<1>7. DataColumns("raw_reference_market_groups") \in Seq(ToSet(DataColumns("raw_reference_market_groups")))
  BY DEF DataColumns, ToSet
<1>8. DataColumns("raw_reference_regions") \in Seq(ToSet(DataColumns("raw_reference_regions")))
  BY DEF DataColumns, ToSet
<1>9. DataColumns("raw_reference_types") \in Seq(ToSet(DataColumns("raw_reference_types")))
  BY DEF DataColumns, ToSet
<1>10. QED
  BY <1>1, <1>2, <1>3, <1>4, <1>5, <1>6, <1>7, <1>8, <1>9, TablesAre DEF Columns, Table

\* The first columns of a table are columns of it.
LEMMA FirstColumns ==
  ASSUME NEW t \in Table
  PROVE  /\ \A n \in 0..Len(Columns(t)) : ToSet(SubSeq(Columns(t), 1, n)) \subseteq ToSet(Columns(t))
         /\ Len(Columns(t)) \in Nat
         /\ ToSet(SubSeq(Columns(t), 1, Len(Columns(t)))) = ToSet(Columns(t))
<1> DEFINE s == Columns(t)
<1>1. s \in Seq(ToSet(s))
  BY ColumnsAre
<1> HIDE DEF s
<1>2. Len(s) \in Nat /\ DOMAIN s = 1..Len(s)
  BY <1>1
<1>3. ASSUME NEW n \in 0..Len(s)
      PROVE  ToSet(SubSeq(s, 1, n)) \subseteq ToSet(s)
  <2> DEFINE u == SubSeq(s, 1, n)
  <2>1. DOMAIN u = 1..n /\ \A i \in 1..n : u[i] = s[i]
    BY <1>1
  <2> HIDE DEF u
  <2>2. ToSet(u) \subseteq ToSet(s)
    BY <2>1, <1>2 DEF ToSet
  <2>3. QED
    BY <2>2 DEF u
<1>4. SubSeq(s, 1, Len(s)) = s
  BY <1>1
<1>5. QED
  BY <1>2, <1>3, <1>4 DEF s

----------------------------------------------------------------------------
(* What the statements do.                                                 *)

\* Columns are only added, and a layout that is as expected stays.
Grown ==
  /\ \A t \in Table : catalog[t] \subseteq catalog'[t]
  /\ \A t \in Partitioned : layout[t] = "expected" => layout'[t] = "expected"

\* A statement that is carried out makes its own part complete.
LEMMA Executing ==
  ASSUME TablesOK, NEW s \in Statement, Executed(s)
  PROVE  /\ TablesOK' /\ Grown
         /\ s[1] = "columns" => catalog'[s[2]] = ToSet(Columns(s[2]))
         /\ s[1] = "partition" => layout'[s[2]] = "expected"
<1>1. s[2] \in Table /\ (s[1] = "partition" => s[2] \in Partitioned)
  BY DEF Statement, Partitioned
<1>2. catalog \in [Table -> SUBSET Column] /\ \A t \in Table : catalog[t] \subseteq ToSet(Columns(t))
  BY DEF TablesOK, Tables
<1>3. \A t \in Table : ToSet(Columns(t)) \subseteq Column
  BY DEF Column
<1>4. CASE s[1] = "create" /\ Create(s[2])
  <2>1. /\ catalog' \in [Table -> SUBSET Column]
        /\ \A t \in Table : catalog[t] \subseteq catalog'[t] /\ catalog'[t] \subseteq ToSet(Columns(t))
    BY <1>1, <1>2, <1>3, <1>4 DEF Create
  <2>2. QED
    BY <1>4, <2>1 DEF Create, TablesOK, Tables, Grown
<1>5. CASE s[1] = "columns" /\ AddColumns(s[2], Len(Columns(s[2])))
  <2>1. catalog' = [catalog EXCEPT ![s[2]] = @ \cup ToSet(Columns(s[2]))]
    BY <1>1, <1>5, FirstColumns DEF AddColumns
  <2>2. /\ catalog' \in [Table -> SUBSET Column]
        /\ \A t \in Table : catalog[t] \subseteq catalog'[t] /\ catalog'[t] \subseteq ToSet(Columns(t))
        /\ catalog'[s[2]] = ToSet(Columns(s[2]))
    BY <1>1, <1>2, <1>3, <2>1
  <2>3. QED
    BY <1>5, <2>2 DEF AddColumns, TablesOK, Tables, Grown
<1>6. CASE s[1] = "partition" /\ \E current \in PartitionColumns(s[2]) : Partition(s[2], current)
  BY <1>1, <1>6 DEF Partition, TablesOK, Tables, Grown
<1>7. QED
  BY <1>4, <1>5, <1>6 DEF Executed

\* One that breaks off takes nothing away.
LEMMA Breaking ==
  ASSUME TablesOK, NEW s \in Statement, Broken(s)
  PROVE  TablesOK' /\ Grown
<1>1. s[2] \in Table
  BY DEF Statement, Partitioned
<1>2. catalog \in [Table -> SUBSET Column] /\ \A t \in Table : catalog[t] \subseteq ToSet(Columns(t))
  BY DEF TablesOK, Tables
<1>3. \A t \in Table : ToSet(Columns(t)) \subseteq Column
  BY DEF Column
<1>4. CASE s[1] = "columns"
  <2>1. PICK n \in 0..Len(Columns(s[2])) : AddColumns(s[2], n)
    BY <1>4 DEF Broken
  <2> DEFINE new == ToSet(SubSeq(Columns(s[2]), 1, n))
  <2>2. new \subseteq ToSet(Columns(s[2]))
    BY <1>1, FirstColumns
  <2>3. catalog' = [catalog EXCEPT ![s[2]] = @ \cup new] /\ UNCHANGED layout
    BY <2>1 DEF AddColumns
  <2> HIDE DEF new
  <2>4. /\ catalog' \in [Table -> SUBSET Column]
        /\ \A t \in Table : catalog[t] \subseteq catalog'[t] /\ catalog'[t] \subseteq ToSet(Columns(t))
    BY <1>1, <1>2, <1>3, <2>2, <2>3
  <2>5. QED
    BY <2>3, <2>4 DEF TablesOK, Tables, Grown
<1>5. CASE s[1] # "columns"
  BY <1>5 DEF Broken, tables, TablesOK, Tables, Grown
<1>6. QED
  BY <1>4, <1>5

\* Complete tables stay complete.
LEMMA CompleteStays ==
  ASSUME TablesOK', Grown, Complete
  PROVE  Complete'
BY DEF TablesOK, Tables, Grown, Complete

\* The publishers of a dataset find in complete tables all they ask for.
LEMMA CompleteIsWritable ==
  ASSUME Complete, NEW d \in Datasets, NEW written \in WrittenBy(d)
  PROVE  Writable(d, written)
<1>1. ProvenanceTableOf(d) \in ProvenanceTables /\ ToSet(DataTablesOf(d)) \subseteq DataTables
  BY DEF ProvenanceTables, DataTables
<1>2. Recorded \subseteq catalog[ProvenanceTableOf(d)]
  BY <1>1, AskedForAreThere DEF Complete, Table, Columns
<1>3. written \subseteq DataTables
  <2>1. CASE d = "everef references"
    BY <2>1, <1>1 DEF WrittenBy, DataTablesOf
  <2>2. CASE d # "everef references"
    BY <2>2, <1>1 DEF WrittenBy
  <2>3. QED
    BY <2>1, <2>2
<1>4. ASSUME NEW t \in DataTables
      PROVE  catalog[t] # {} /\ Inserted(t) \subseteq catalog[t]
  <2>1. t \notin ProvenanceTables
    BY TablesAre
  <2>2. t \in Table /\ Columns(t) = DataColumns(t)
    BY <2>1 DEF Table, Columns
  <2>3. catalog[t] = ToSet(DataColumns(t))
    BY <2>2 DEF Complete
  <2>4. QED
    BY <2>3, AskedForAreThere
<1>5. QED
  BY <1>2, <1>3, <1>4 DEF Writable

----------------------------------------------------------------------------
(* The tasks.                                                              *)

\* A task of the bootstrap DAG is the bootstrap or that of a dataset.
LEMMA TasksAre ==
  /\ Bootstrap \in Task
  /\ \A task \in Task : task[1] \in Dags /\ task[2] \in Commands
  /\ \A task \in DatasetTask : task \in Task /\ task # Bootstrap /\ task[2] \in Datasets
<1>1. \A task \in Task :
        /\ task = <<task[1], task[2]>> /\ task[1] \in Dags
        /\ task[1] = BootstrapDag => task[2] \in {BootstrapRaw} \cup Datasets
        /\ task[1] # BootstrapDag => task[2] \in Datasets
  BY DEF Task, Commanded, Dags
<1>2. Bootstrap \in Task
  BY DEF Bootstrap, Task, Commanded, Dags
<1>3. QED
  BY <1>1, <1>2 DEF DatasetTask, Bootstrap, Commands

\* The command a DAG gives a task has the options of its parser, and is
\* refused for a value only.
LEMMA RefusedForAValue ==
  ASSUME NEW task \in Task, ~IsAccepted(task)
  PROVE  \/ wrong # {}
         \/ task[2] \in Everef \ {"everef references"} /\ ~DatesInOrder(range[task[1]])
<1>1. task[2] \in Commands
  BY TasksAre
<1>2. Arguments(task) \subseteq Options(task[2])
  BY <1>1 DEF Arguments, SharedArguments, Options, Commands, Everef, BootstrapRaw, DateRange,
              Runtime, DuckLake
<1>3. Required(task[2]) \subseteq Arguments(task)
  BY <1>1 DEF Required, Arguments, SharedArguments, Options, Commands, Everef, BootstrapRaw,
              DateRange, Runtime, DuckLake
<1>4. Required(task[2]) # {} => task[2] \in Everef \ {"everef references"}
  BY <1>1 DEF Required, Options, Commands, Everef, BootstrapRaw, DateRange, Runtime, DuckLake
<1>5. QED
  BY <1>1, <1>2, <1>3, <1>4 DEF IsAccepted, Accepted

----------------------------------------------------------------------------
(* The inductive invariant.                                                *)

\* What the bootstrap has come past is complete.
Behind ==
  \A i \in 1..at - 1 :
    /\ Statements[i][1] = "columns" => catalog[Statements[i][2]] = ToSet(Columns(Statements[i][2]))
    /\ Statements[i][1] = "partition" => layout[Statements[i][2]] = "expected"

\* A dataset of the bootstrap DAG is under way over complete tables only.
Underway == {"discovering", "acquiring", "waiting", "publishing"}
Prepared ==
  \A task \in DatasetTask : task[1] = BootstrapDag /\ stage[task] \in Underway => Complete

IInv == Behind /\ BootstrapCompletes /\ Prepared /\ TasksGoThrough

\* The invariant holds at the beginning.
LEMMA Initially == Init => TypeOK /\ IInv
<1> SUFFICES ASSUME Init PROVE TypeOK /\ IInv
  OBVIOUS
<1>1. TypeOK
  <2>1. TablesOK
    BY CatalogsAssumption DEF Init, TablesOK
  <2>2. range \in [Dags -> Ranges]
    BY RangesAssumption DEF Init
  <2>3. at \in 1..Len(Statements) + 1
    BY StatementsAre DEF Init
  <2>4. QED
    BY <2>1, <2>2, <2>3, MaxFaultsAssumption DEF Init, TypeOK, Stages
<1>2. IInv
  BY TasksAre DEF Init, IInv, Behind, BootstrapCompletes, Prepared, Underway, TasksGoThrough
<1>3. QED
  BY <1>1, <1>2

\* Every step keeps the types, and takes nothing from the tables.
LEMMA TypesKept == ASSUME TypeOK, Next PROVE TypeOK' /\ Grown
<1> USE DEF TypeOK, Go, LeaveBootstrap, Stages, Ended
<1>1. UNCHANGED tables => TablesOK' /\ Grown
  BY DEF tables, TablesOK, Tables, Grown
<1>2. Len(Statements) \in Nat /\ 1 \in 1..Len(Statements) + 1
  BY StatementsAre
<1>3. at <= Len(Statements) => Statements[at] \in Statement
  BY StatementsAre
<1>4. Bootstrap \in Task
  BY TasksAre
<1>5. ASSUME NEW task \in DatasetTask PROVE task \in Task
  BY TasksAre
<1>6. ASSUME NEW dag \in Dags, NEW r \in Ranges, Trigger(dag, r) PROVE TypeOK' /\ Grown
  BY <1>1, <1>6 DEF Trigger
<1>7. ASSUME BootstrapStep PROVE TypeOK' /\ Grown
  <2>1. CASE ImportFails(Bootstrap) \/ Start(Bootstrap) \/ Reject(Bootstrap)
    BY <1>1, <1>4, <2>1 DEF ImportFails, Start, Reject
  <2>2. CASE BuildBootstrapAttachConfig \/ EnterBootstrap
    BY <1>1, <1>4, <2>2 DEF BuildBootstrapAttachConfig, EnterBootstrap
  <2>3. CASE Execute
    BY <1>2, <1>3, <2>3, Executing DEF Execute
  <2>4. CASE ExitBootstrap
    BY <1>1, <1>2, <1>4, <2>4 DEF ExitBootstrap
  <2>5. CASE RefuseLayout
    BY <1>1, <1>2, <1>4, <2>5 DEF RefuseLayout, Refused
  <2>6. QED
    BY <1>7, <2>1, <2>2, <2>3, <2>4, <2>5 DEF BootstrapStep
<1>8. ASSUME BreakOff PROVE TypeOK' /\ Grown
  <2>1. TablesOK' /\ Grown
    BY <1>3, <1>8, Breaking DEF BreakOff
  <2>2. QED
    BY <1>2, <1>4, <1>8, <2>1, MaxFaultsAssumption DEF BreakOff
<1>9. ASSUME NEW dataset \in Datasets, TakeBootstrapLock(dataset) PROVE TypeOK' /\ Grown
  BY <1>1, <1>9 DEF TakeBootstrapLock
<1>10. ASSUME NEW task \in DatasetTask, DatasetStep(task) PROVE TypeOK' /\ Grown
  <2>1. CASE UpstreamFailed(task) \/ ImportFails(task) \/ Start(task) \/ Reject(task)
    BY <1>1, <1>5, <2>1 DEF UpstreamFailed, ImportFails, Start, Reject
  <2>2. CASE Discover(task) \/ Acquire(task) \/ TakeScopeLocks(task)
    BY <1>1, <1>5, <2>2 DEF Discover, Acquire, TakeScopeLocks
  <2>3. CASE PublishScope(task)
    BY <1>1, <1>5, <2>3 DEF PublishScope
  <2>4. QED
    BY <1>10, <2>1, <2>2, <2>3 DEF DatasetStep
<1>11. ASSUME NEW task \in DatasetTask, TimeOut(task) PROVE TypeOK' /\ Grown
  BY <1>1, <1>5, <1>11, MaxFaultsAssumption DEF TimeOut
<1>12. ASSUME NEW task \in Task, Kill(task) PROVE TypeOK' /\ Grown
  <2>1. CASE task = Bootstrap
    BY <1>1, <1>2, <1>4, <1>12, <2>1, MaxFaultsAssumption DEF Kill
  <2>2. CASE task # Bootstrap
    BY <1>1, <1>12, <2>2, MaxFaultsAssumption DEF Kill
  <2>3. QED
    BY <2>1, <2>2
<1>13. QED
  BY <1>6, <1>7, <1>8, <1>9, <1>10, <1>11, <1>12 DEF Next

\* What is behind the bootstrap stays complete.
LEMMA BehindStays ==
  ASSUME TypeOK, TypeOK', Grown, Behind, NEW i \in 1..at - 1
  PROVE  /\ Statements[i][1] = "columns" =>
              catalog'[Statements[i][2]] = ToSet(Columns(Statements[i][2]))
         /\ Statements[i][1] = "partition" => layout'[Statements[i][2]] = "expected"
<1>1. i \in 1..Len(Statements) /\ Statements[i] \in Statement
  BY StatementsAre DEF TypeOK
<1>2. Statements[i][2] \in Table /\ (Statements[i][1] = "partition" => Statements[i][2] \in Partitioned)
  BY <1>1 DEF Statement, Partitioned
<1>3. /\ \A t \in Table : catalog[t] \subseteq catalog'[t]
      /\ \A t \in Table : catalog'[t] \subseteq ToSet(Columns(t))
      /\ \A t \in Partitioned : layout[t] = "expected" => layout'[t] = "expected"
  BY DEF Grown, TypeOK, TablesOK, Tables
<1>4. ASSUME Statements[i][1] = "columns"
      PROVE  catalog'[Statements[i][2]] = ToSet(Columns(Statements[i][2]))
  <2>1. catalog[Statements[i][2]] = ToSet(Columns(Statements[i][2]))
    BY <1>4 DEF Behind
  <2>2. QED
    BY <1>2, <1>3, <2>1
<1>5. ASSUME Statements[i][1] = "partition" PROVE layout'[Statements[i][2]] = "expected"
  BY <1>2, <1>3, <1>5 DEF Behind
<1>6. QED
  BY <1>4, <1>5

\* At the end of its statements the bootstrap leaves complete tables.
LEMMA NothingAhead ==
  ASSUME TypeOK, Behind, at > Len(Statements)
  PROVE  Complete
<1>1. at - 1 = Len(Statements)
  BY StatementsAre DEF TypeOK
<1>2. ASSUME NEW t \in Table PROVE catalog[t] = ToSet(Columns(t))
  <2>1. PICK i \in 1..Len(Statements) : Statements[i] = <<"columns", t>>
    BY StatementsAre
  <2>2. Statements[i][1] = "columns" /\ Statements[i][2] = t
    BY <2>1
  <2>3. QED
    BY <1>1, <2>2 DEF Behind
<1>3. ASSUME NEW t \in Partitioned PROVE layout[t] = "expected"
  <2>1. PICK i \in 1..Len(Statements) : Statements[i] = <<"partition", t>>
    BY StatementsAre
  <2>2. Statements[i][1] = "partition" /\ Statements[i][2] = t
    BY <2>1
  <2>3. QED
    BY <1>1, <2>2 DEF Behind
<1>4. QED
  BY <1>2, <1>3 DEF Complete

\* Every step keeps what the bootstrap has come past complete.
LEMMA BehindKept == ASSUME TypeOK, Behind, Next PROVE Behind'
<1> USE DEF LeaveBootstrap
<1>1. TypeOK' /\ Grown
  BY TypesKept
<1>2. CASE at' = at
  BY <1>1, <1>2, BehindStays DEF Behind
<1>3. CASE at' = 1
  BY <1>3 DEF Behind
<1>4. CASE Execute
  <2>1. at \in 1..Len(Statements) /\ Statements[at] \in Statement /\ at' = at + 1
    BY <1>4, StatementsAre DEF Execute, TypeOK
  <2>2. /\ Statements[at][1] = "columns" =>
             catalog'[Statements[at][2]] = ToSet(Columns(Statements[at][2]))
        /\ Statements[at][1] = "partition" => layout'[Statements[at][2]] = "expected"
    BY <1>4, <2>1, Executing DEF Execute, TypeOK
  <2>3. \A i \in 1..at' - 1 : i \in 1..at - 1 \/ i = at
    BY <2>1
  <2>4. QED
    BY <1>1, <2>2, <2>3, BehindStays DEF Behind
<1>5. Execute \/ at' = at \/ at' = 1
  BY DEF Next, Trigger, BootstrapStep, ImportFails, Start, Reject, BuildBootstrapAttachConfig,
         EnterBootstrap, ExitBootstrap, RefuseLayout, BreakOff, TakeBootstrapLock, DatasetStep,
         UpstreamFailed, Discover, Acquire, TakeScopeLocks, PublishScope, TimeOut, Kill
<1>6. QED
  BY <1>2, <1>3, <1>4, <1>5

\* A step that leaves a task where it is, or brings it where the tables do not matter.
Settled(task) ==
  \/ stage'[task] = stage[task] /\ range'[task[1]] = range[task[1]]
  \/ stage'[task] \in {"queued", "attaching", "locking", "ddl", "failed", "upstream_failed"}

\* The rest of the invariant, for one task.
LEMMA TaskKept ==
  ASSUME TypeOK, IInv, Next, NEW task \in Task
  PROVE  \/ Settled(task)
         \/ task = Bootstrap /\ stage'[task] = "success" /\ Complete
         \/ /\ task # Bootstrap /\ stage'[task] \in Underway \cup {"success"}
            /\ task[1] = BootstrapDag => Complete
         \/ task # Bootstrap /\ stage'[task] = "missing" /\ task[1] # BootstrapDag
         \/ /\ stage'[task] = "usage" /\ UNCHANGED <<wrong, range>>
            /\ \/ wrong # {}
               \/ task[2] \in Everef \ {"everef references"} /\ ~DatesInOrder(range[task[1]])
<1> USE DEF Go, LeaveBootstrap, TypeOK, Stages, Underway
<1>1. /\ Bootstrap \in Task
      /\ \A other \in DatasetTask : other \in Task /\ other # Bootstrap /\ other[2] \in Datasets
  BY TasksAre
<1>2. \A other \in Task :
         \/ IsAccepted(other)
         \/ wrong # {}
         \/ other[2] \in Everef \ {"everef references"} /\ ~DatesInOrder(range[other[1]])
  BY RefusedForAValue
<1>3. ASSUME NEW dag \in Dags, NEW r \in Ranges, Trigger(dag, r) PROVE Settled(task)
  BY <1>3 DEF Trigger, Settled
<1>4. CASE BootstrapStep
  <2>1. CASE ImportFails(Bootstrap) \/ Start(Bootstrap)
    BY <1>1, <2>1 DEF ImportFails, Start, Settled
  <2>2. CASE Reject(Bootstrap)
    BY <1>1, <1>2, <2>2 DEF Reject, Settled
  <2>3. CASE BuildBootstrapAttachConfig \/ EnterBootstrap \/ Execute \/ RefuseLayout
    BY <1>1, <2>3 DEF BuildBootstrapAttachConfig, EnterBootstrap, Execute, RefuseLayout, Settled
  <2>4. CASE ExitBootstrap
    BY <1>1, <2>4, NothingAhead DEF ExitBootstrap, IInv, Settled
  <2>5. QED
    BY <1>4, <2>1, <2>2, <2>3, <2>4 DEF BootstrapStep
<1>5. CASE BreakOff
  BY <1>1, <1>5 DEF BreakOff, Settled
<1>6. ASSUME NEW dataset \in Datasets, TakeBootstrapLock(dataset) PROVE Settled(task)
  BY <1>6 DEF TakeBootstrapLock, Settled
<1>7. ASSUME NEW other \in DatasetTask, DatasetStep(other), other # task PROVE Settled(task)
  BY <1>1, <1>7 DEF DatasetStep, UpstreamFailed, ImportFails, Start, Reject, Discover, Acquire,
                    TakeScopeLocks, PublishScope, Settled
<1>8. CASE task \in DatasetTask /\ DatasetStep(task)
  <2>1. CASE UpstreamFailed(task) \/ ImportFails(task)
    BY <1>1, <1>8, <2>1 DEF UpstreamFailed, ImportFails, Settled
  <2>2. CASE Start(task)
    BY <1>1, <1>8, <2>2 DEF Start, Ready, IInv, BootstrapCompletes
  <2>3. CASE Reject(task)
    BY <1>1, <1>2, <1>8, <2>3 DEF Reject
  <2>4. CASE Discover(task) \/ Acquire(task) \/ TakeScopeLocks(task)
    BY <1>1, <1>8, <2>4 DEF Discover, Acquire, TakeScopeLocks, IInv, Prepared, Settled
  <2>5. CASE PublishScope(task)
    <3>1. task[1] = BootstrapDag => Complete
      BY <1>8, <2>5 DEF PublishScope, IInv, Prepared
    <3>2. PICK written \in WrittenBy(task[2]) :
            IF Writable(task[2], written)
              THEN \E s \in {"success", "failed"} : Go(task, s)
              ELSE Go(task, "missing")
      BY <2>5 DEF PublishScope
    <3>3. task[1] = BootstrapDag => Writable(task[2], written)
      BY <1>1, <1>8, <3>1, CompleteIsWritable
    <3>4. QED
      BY <1>1, <1>8, <3>1, <3>2, <3>3 DEF Settled
  <2>6. QED
    BY <1>8, <2>1, <2>2, <2>3, <2>4, <2>5 DEF DatasetStep
<1>9. ASSUME NEW other \in DatasetTask, TimeOut(other) PROVE Settled(task)
  BY <1>1, <1>9 DEF TimeOut, Settled
<1>10. ASSUME NEW other \in Task, Kill(other) PROVE Settled(task)
  BY <1>1, <1>10 DEF Kill, Settled
<1>11. QED
  BY <1>3, <1>4, <1>5, <1>6, <1>7, <1>8, <1>9, <1>10 DEF Next

\* The invariant is inductive.
LEMMA Kept == ASSUME TypeOK, IInv, Next PROVE IInv'
<1>1. TypeOK' /\ Grown /\ Behind'
  BY TypesKept, BehindKept DEF IInv
<1>2. Complete => Complete'
  BY <1>1, CompleteStays DEF TypeOK
<1>3. Bootstrap \in Task /\ \A task \in DatasetTask : task \in Task /\ task # Bootstrap
  BY TasksAre
<1>4. wrong' = wrong
  BY DEF Next, Trigger, BootstrapStep, ImportFails, Start, Reject, BuildBootstrapAttachConfig,
         EnterBootstrap, Execute, ExitBootstrap, RefuseLayout, BreakOff, TakeBootstrapLock,
         DatasetStep, UpstreamFailed, Discover, Acquire, TakeScopeLocks, PublishScope, TimeOut,
         Kill
<1>5. BootstrapCompletes'
  BY <1>2, <1>3, TaskKept DEF IInv, BootstrapCompletes, Settled, Underway
<1>6. Prepared'
  BY <1>2, <1>3, TaskKept DEF IInv, Prepared, Settled, Underway
<1>7. TasksGoThrough'
  BY <1>3, <1>4, TaskKept DEF IInv, TasksGoThrough, Settled, Underway
<1>8. QED
  BY <1>1, <1>5, <1>6, <1>7 DEF IInv

----------------------------------------------------------------------------
(* The theorems.                                                           *)

\* The inductive invariant holds in every state.
THEOREM Invariant == Spec => [](TypeOK /\ IInv)
<1>1. TypeOK /\ IInv /\ UNCHANGED vars => (TypeOK /\ IInv)'
  BY DEF vars, tables, TypeOK, TablesOK, Tables, IInv, Behind, BootstrapCompletes, Prepared,
         TasksGoThrough, Complete, Column
<1>2. TypeOK /\ IInv /\ [Next]_vars => (TypeOK /\ IInv)'
  BY <1>1, TypesKept, Kept
<1>3. QED
  BY <1>2, Initially, PTL DEF Spec

\* The state stays in its types: tables have columns of theirs only, and
\* tasks are in the stages the DAGs bring them to.
THEOREM TypeCorrect == Spec => []TypeOK
BY Invariant, PTL

\* A bootstrap that succeeded has completed every table, for good.
THEOREM BootstrapCompletesHolds == Spec => []BootstrapCompletes
BY Invariant, PTL DEF IInv

\* No task is refused but for a wrong value, and none of the bootstrap DAG
\* finds a table or a column missing.
THEOREM TasksGoThroughHolds == Spec => []TasksGoThrough
BY Invariant, PTL DEF IInv

\* Nothing that runs takes completeness from the tables again.
THEOREM StaysComplete == Spec => [][Complete => Complete']_vars
<1>1. TypeOK /\ IInv /\ [Next]_vars => [Complete => Complete']_vars
  BY TypesKept, CompleteStays DEF TypeOK
<1>2. QED
  BY <1>1, Invariant, PTL DEF Spec
=============================================================================
