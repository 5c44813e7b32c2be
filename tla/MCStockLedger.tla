--------------------------- MODULE MCStockLedger --------------------------
(* One product in one branch, so that every request contends for the same *)
(* row, and one caller who may do everything.                             *)
EXTENDS StockLedger, TLC

CONSTANTS p1, b1, t1

MCTenantOf == [x \in {p1, b1} |-> t1]
MCCallers == {[tenant |-> t1, role |-> "STAFF", scope |-> {b1}]}
RequestSymmetry == Permutations(Requests)
=============================================================================
