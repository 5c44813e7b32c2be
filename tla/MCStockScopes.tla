--------------------------- MODULE MCStockScopes --------------------------
(* Two distributors with a product and a main branch each.  The first has *)
(* a second branch, which may be deactivated, a manager of all branches,  *)
(* a seller in the second branch and a clerk without any branch.          *)
EXTENDS StockLedger

CONSTANTS p1, p2, b1, b2, b3, t1, t2

MCTenantOf ==
    [x \in {p1, p2, b1, b2, b3} |-> IF x \in {p2, b2} THEN t2 ELSE t1]
MCCallers ==
    {[tenant |-> t1, role |-> "STAFF", scope |-> Branches],
     [tenant |-> t1, role |-> "SALES", scope |-> {b3}],
     [tenant |-> t1, role |-> "STAFF", scope |-> {}]}
=============================================================================
