------------------------------ MODULE Figures -----------------------------
(***************************************************************************)
(* The figures that stock.service.ts, dashboard.service.ts,               *)
(* products.service.ts and alerts.service.ts work out, each in its own    *)
(* way, from the same rows.                                               *)
(*                                                                         *)
(* stock maps the pairs <<product, branch>> that have a row to their      *)
(* current level, journal is the bag of the movements in the period, and  *)
(* scope the branches asked for.  minStockOverride and reserved, which no *)
(* code writes, are left out.                                             *)
(***************************************************************************)
EXTENDS Integers, FiniteSets, Functions

CONSTANTS MinStock     \* the minimum of each product

LevelFor(current, min) ==
    IF current <= 0 THEN "out" ELSE IF current < min THEN "low" ELSE "ok"

CellsIn(stock, scope) == {c \in DOMAIN stock : c[2] \in scope}
Total(stock, cells) == SumFunctionOnSet(stock, cells)
LevelAt(stock, c) == LevelFor(stock[c], MinStock[c[1]])

Operational(cells, products, branches) ==
    {c \in cells : c[1] \in products /\ c[2] \in branches}

(* StockService.summary, and the same figures of StockService.list, for   *)
(* the active products and branches.                                      *)
Summary(stock, products, branches, scope) ==
    LET cells == CellsIn(stock, scope)
        at(level) == {c \in Operational(cells, products, branches) : LevelAt(stock, c) = level}
    IN  [totalItems |-> Total(stock, cells),
         lowCount |-> Cardinality(at("low")),
         outCount |-> Cardinality(at("out"))]

(* StockService.alerts                                                    *)
Alerts(stock, products, branches, scope) ==
    {c \in Operational(CellsIn(stock, scope), products, branches) : LevelAt(stock, c) # "ok"}

(* The sums over the movements of the period.                             *)
QtySum(journal, ms) == SumFunction([m \in ms |-> m.qty * journal[m]])
CountOf(journal, ms) == SumFunctionOnSet(journal, ms)

DeltaInPeriod(journal, scope) ==
    QtySum(journal, {m \in DOMAIN journal : m.cell[2] \in scope})

(* DashboardService.stockByBranch: its own SQL, grouped by branch.        *)
BranchRow(stock, journal, products, branches, b) ==
    LET cells == CellsIn(stock, {b})
        ofActive == {c \in cells : c[1] \in products}
        low == {c \in ofActive : stock[c] > 0 /\ stock[c] < MinStock[c[1]]}
        out == {c \in ofActive : stock[c] <= 0}
        moved(type) == {m \in DOMAIN journal : m.cell[2] = b /\ m.type = type}
    IN  [items |-> Total(stock, cells),
         lowCount |-> IF b \in branches THEN Cardinality(low) ELSE 0,
         outCount |-> IF b \in branches THEN Cardinality(out) ELSE 0,
         entries |-> QtySum(journal, moved("ENTRADA")),
         exits |-> QtySum(journal, moved("SAIDA")),
         adjustments |-> CountOf(journal, moved("AJUSTE"))]

(* Mutant: inactive branches are not shown, whatever they have in stock.  *)
StockByBranchActive(stock, journal, products, branches, scope) ==
    [b \in scope \cap branches |-> BranchRow(stock, journal, products, branches, b)]

(* An inactive branch is shown as long as it has stock.                   *)
StockByBranch(stock, journal, products, branches, scope) ==
    LET rows == [b \in scope |-> BranchRow(stock, journal, products, branches, b)]
    IN  [b \in {x \in scope : x \in branches \/ rows[x].items > 0} |-> rows[b]]

SumOver(rows, field) == SumFunction([b \in DOMAIN rows |-> rows[b][field]])

(* ProductsService.list: the level of a product over the whole scope,     *)
(* inactive branches included, and the tab of the products in alert.      *)
ProductStock(stock, p, scope) == Total(stock, {c \in CellsIn(stock, scope) : c[1] = p})

ProductLevel(stock, p, scope) ==
    LET rows == Cardinality({c \in CellsIn(stock, scope) : c[1] = p})
    IN  LevelFor(ProductStock(stock, p, scope), rows * MinStock[p])

AlertTab(stock, products, scope) ==
    {p \in products : ProductLevel(stock, p, scope) \in {"low", "out"}}
=============================================================================
