-------------------------- MODULE MCDuckLakeLocks --------------------------
(***************************************************************************)
(* Two publishers and a bootstrap, over two datasets: orders (one data     *)
(* table) and references (two), each with its provenance table.  The       *)
(* string order of the names interleaves the two datasets.                 *)
(***************************************************************************)
EXTENDS DuckLakeLocks

CONSTANTS orders, refTypes, refRegions, ordersObjects, refObjects,
          ordersScope, refScope

MCScopeData ==
  [s \in {ordersScope, refScope} |->
     IF s = ordersScope THEN {orders} ELSE {refTypes, refRegions}]

MCScopeProvenance ==
  [s \in {ordersScope, refScope} |->
     IF s = ordersScope THEN {ordersObjects} ELSE {refObjects}]

MCNameOrder ==
  [t \in {Migration, orders, ordersObjects, refObjects, refRegions, refTypes} |->
     CASE t = Migration     -> 1
       [] t = orders        -> 2
       [] t = ordersObjects -> 3
       [] t = refObjects    -> 4
       [] t = refRegions    -> 5
       [] t = refTypes      -> 6]
============================================================================
