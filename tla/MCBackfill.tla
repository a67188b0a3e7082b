----------------------------- MODULE MCBackfill ------------------------------
(* A listed dataset and the references; catalogs without tables, without   *)
(* one table, and with tables older than some of their columns.            *)
EXTENDS Backfill

Full == [t \in Table |-> ToSet(Columns(t))]
MCCatalogs ==
  {[t \in Table |-> {}],
   [Full EXCEPT !["raw_reference_objects"] = {}],
   [Full EXCEPT !["raw_market_orders"] = @ \ {"snapshot_ts", "expires"}],
   [Full EXCEPT !["raw_reference_objects"] = @ \ {"status_reason"}]}
MCRanges == {<<1, 2>>, <<2, 1>>}
MCSettings ==
  {{}, {"--raw-ledger-url"}, {"--ducklake-catalog"}, {"EVE_DUCKLAKE_LOCK_WAIT_TIMEOUT_SECONDS"}}
=============================================================================
