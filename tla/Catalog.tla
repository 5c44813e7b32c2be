------------------------------ MODULE Catalog -----------------------------
(***************************************************************************)
(* The products and branches of one distributor: products.service.ts,     *)
(* branches.service.ts, onboarding.service.ts, the plan limits and the    *)
(* stock rows that stock.service.ts opens for every active pair.          *)
(*                                                                         *)
(* Operations that may add an active product or branch lock the tenant    *)
(* row FOR UPDATE, count, write, open the missing rows and commit.  Every *)
(* insert also locks the tenant row FOR KEY SHARE (its foreign key), and  *)
(* so waits for those operations and holds them up.  A plain product      *)
(* update takes no lock and rests on a product read before.  The SKU of   *)
(* a new product is worked out before its transaction waits for any lock, *)
(* and the unique index refuses it if it was taken meanwhile.             *)
(***************************************************************************)
EXTENDS Integers, Sku

CONSTANTS
    Products, Branches,           \* identifiers that creations draw from
    Requests, NoRequest,          \* one call each
    Bases,                        \* the abbreviated category and name of a product
    Plans,
    MaxProducts, MaxBranches      \* the limits of each plan

ASSUME NoRequestAssumption == NoRequest \notin Requests
ASSUME PlansAssumption ==
    /\ MaxProducts \in [Plans -> Nat \ {0}]
    /\ MaxBranches \in [Plans -> Nat \ {0}]
ASSUME FiniteAssumption == IsFiniteSet(Products) /\ IsFiniteSet(Branches)
ASSUME BasesAssumption == Bases \subseteq Seq(Nat \ {0}) /\ <<>> \notin Bases

VARIABLES
    product,     \* each product: "none" until created, then by its active flag
    branch,      \* the same for branches
    sku,         \* the SKU of each product, empty until it is created
    main,        \* the branches created with isMain
    rows,        \* the pairs that have a stock row
    plan,        \* the plan of the subscription
    tenantLock,  \* the transaction that holds the tenant row FOR UPDATE
    pc,          \* where each request is
    op,          \* what each accepted request does
    found,       \* the branches or products for which it will open rows
    stale,       \* history: products that a plain update reactivated
    early        \* history: products active before the first branch existed

vars == <<product, branch, sku, main, rows, plan, tenantLock, pc, op, found, stale, early>>
data == <<product, branch, sku, main, rows, stale, early>>

-----------------------------------------------------------------------------
Existence == {"none", "active", "inactive"}
Flag(a) == IF a THEN "active" ELSE "inactive"
ActiveProducts == {p \in Products : product[p] = "active"}
ActiveBranches == {b \in Branches : branch[b] = "active"}

NoOp == [kind |-> "none"]
CreateOps == [kind: {"newProduct", "newInactive"}, id: Products, sku: Seq(Nat)]
ReactivateOps == [kind: {"reactivate"}, id: Products]
PlainOps == [kind: {"plain"}, id: Products, to: BOOLEAN]
BranchOps == [kind: {"newBranch", "onboard"}, id: Branches]
UpdateOps == [kind: {"updateBranch"}, id: Branches, to: BOOLEAN]
Ops == CreateOps \cup ReactivateOps \cup PlainOps \cup BranchOps \cup UpdateOps

Waiting == {"lock", "plain"}
InTx == {"check", "insert", "share", "ensure", "commit"}
Creates(o) == o.kind \in {"newProduct", "newInactive"}
Taken == {sku[p] : p \in {q \in Products : product[q] # "none"}}

(* A transaction that has inserted a row holds the tenant FOR KEY SHARE;  *)
(* one that inserts an inactive product holds nothing stronger.           *)
Sharers == {r \in Requests : pc[r] \in {"ensure", "commit"} /\ op[r].kind = "newInactive"}

(* The other transactions that have inserted a product with the SKU of r  *)
(* and not ended.  Who inserts it again waits for them.                   *)
SkuHolders(r) ==
    {q \in Requests \ {r} : /\ pc[q] \in {"share", "ensure", "commit"}
                            /\ Creates(op[q])
                            /\ op[q].sku = op[r].sku}

(* A transaction that has updated a product row and not ended.            *)
Writers(p) == {r \in Requests : /\ pc[r] \in {"ensure", "commit"}
                                /\ op[r].kind = "reactivate"
                                /\ op[r].id = p}

Init ==
    /\ product = [p \in Products |-> "none"]
    /\ branch = [b \in Branches |-> "none"]
    /\ sku = [p \in Products |-> <<>>]
    /\ main = {}
    /\ rows = {}
    /\ plan \in Plans
    /\ tenantLock = NoRequest
    /\ pc = [r \in Requests |-> "idle"]
    /\ op = [r \in Requests |-> NoOp]
    /\ found = [r \in Requests |-> {}]
    /\ stale = {}
    /\ early = {}

Goto(r, where) == pc' = [pc EXCEPT ![r] = where]

Start(r, o, where) ==
    /\ pc[r] = "idle"
    /\ Goto(r, where)
    /\ op' = [op EXCEPT ![r] = o]
    /\ UNCHANGED <<data, plan, tenantLock, found>>

(* A refused or aborted transaction leaves nothing behind.                *)
End(r) ==
    /\ Goto(r, "done")
    /\ tenantLock' = IF tenantLock = r THEN NoRequest ELSE tenantLock
    /\ UNCHANGED <<data, plan, op, found>>

-----------------------------------------------------------------------------
(* The calls, with what they read before any transaction.                 *)
Fresh(x, taken) == taken = "none" /\ \A q \in Requests : op[q] # NoOp => op[q].id # x

StartCreate(r, p, isActive, s) ==
    /\ Fresh(p, product[p])
    /\ IF isActive THEN Start(r, [kind |-> "newProduct", id |-> p, sku |-> s], "lock")
                   ELSE Start(r, [kind |-> "newInactive", id |-> p, sku |-> s], "insert")

CreateProduct(r, p, isActive, base) ==
    StartCreate(r, p, isActive, GenerateSku(Taken, base))

(* The copy is as active as its source was when it was read.              *)
DuplicateProduct(r, source, p) ==
    /\ product[source] # "none"
    /\ StartCreate(r, p, product[source] = "active", CopySku(Taken, sku[source]))

UpdateProduct(r, p, to) ==
    /\ product[p] # "none"
    /\ IF to /\ product[p] = "inactive"
         THEN Start(r, [kind |-> "reactivate", id |-> p], "lock")
         ELSE Start(r, [kind |-> "plain", id |-> p, to |-> to], "plain")

RemoveProduct(r, p) ==
    /\ product[p] # "none"
    /\ Start(r, [kind |-> "plain", id |-> p, to |-> FALSE], "plain")

CreateBranch(r, b) ==
    /\ Fresh(b, branch[b])
    /\ Start(r, [kind |-> "newBranch", id |-> b], "lock")

UpdateBranch(r, b, to) ==
    /\ branch[b] # "none"
    /\ Start(r, [kind |-> "updateBranch", id |-> b, to |-> to], "lock")

RemoveBranch(r, b) ==
    /\ branch[b] # "none"
    /\ Start(r, [kind |-> "updateBranch", id |-> b, to |-> FALSE], "lock")

OnboardBranch(r, b) ==
    /\ Fresh(b, branch[b])
    /\ Start(r, [kind |-> "onboard", id |-> b], "lock")

-----------------------------------------------------------------------------
(* Mutant: SELECT without FOR UPDATE.                                     *)
LockTenantNot(r) ==
    /\ pc[r] = "lock"
    /\ Goto(r, "check")
    /\ UNCHANGED <<data, plan, tenantLock, op, found>>

(* The steps.  LockTenant waits for every lock on the tenant row.         *)
LockTenant(r) ==
    /\ pc[r] = "lock"
    /\ tenantLock = NoRequest
    /\ Sharers = {}
    /\ tenantLock' = r
    /\ Goto(r, "check")
    /\ UNCHANGED <<data, plan, op, found>>

Pass(r, where) ==
    /\ Goto(r, where)
    /\ UNCHANGED <<data, plan, tenantLock, op, found>>

(* Mutant: one product too many.                                          *)
ProductSlotFreeUpTo == Cardinality(ActiveProducts) <= MaxProducts[plan]

ProductSlotFree == Cardinality(ActiveProducts) < MaxProducts[plan]
BranchSlotFree == Cardinality(ActiveBranches) < MaxBranches[plan]

(* Mutant: only a new product gets stock rows.                            *)
CheckProductNewOnly(r) ==
    /\ op[r].kind \in {"newProduct", "reactivate"}
    /\ IF ProductSlotFree
         THEN Pass(r, IF op[r].kind = "newProduct" THEN "insert" ELSE "commit")
         ELSE End(r)

CheckProduct(r) ==
    /\ op[r].kind \in {"newProduct", "reactivate"}
    /\ IF ProductSlotFree
         THEN Pass(r, IF op[r].kind = "newProduct" THEN "insert" ELSE "ensure")
         ELSE End(r)

CheckNewBranch(r) ==
    /\ op[r].kind = "newBranch"
    /\ IF BranchSlotFree THEN Pass(r, "ensure") ELSE End(r)

(* Mutant: only the main branch is protected.                             *)
MayDeactivateUncounted(b) == b \notin main

MayDeactivate(b) == b \notin main /\ Cardinality(ActiveBranches) > 1

(* The branch is read again under the lock.                               *)
CheckUpdateBranch(r) ==
    LET b == op[r].id
        to == op[r].to
    IN  /\ op[r].kind = "updateBranch"
        /\ \/ /\ to /\ branch[b] = "inactive"
              /\ IF BranchSlotFree THEN Pass(r, "ensure") ELSE End(r)
           \/ /\ ~to /\ branch[b] = "active"
              /\ IF MayDeactivate(b) THEN Pass(r, "commit") ELSE End(r)
           \/ /\ branch[b] = Flag(to)
              /\ Pass(r, "commit")

CheckOnboard(r) ==
    /\ op[r].kind = "onboard"
    /\ IF \A b \in Branches : branch[b] = "none" THEN Pass(r, "commit") ELSE End(r)

Check(r) ==
    /\ pc[r] = "check"
    /\ \/ CheckProduct(r)
       \/ CheckNewBranch(r)
       \/ CheckUpdateBranch(r)
       \/ CheckOnboard(r)

(* The insert enters the SKU into the unique index first.  An inactive    *)
(* product, inserted without counting, then waits for the tenant row.     *)
InsertProduct(r) ==
    /\ pc[r] = "insert"
    /\ SkuHolders(r) = {}
    /\ IF op[r].sku \in Taken THEN End(r)
       ELSE Pass(r, IF op[r].kind = "newInactive" THEN "share" ELSE "ensure")

ShareTenant(r) ==
    /\ pc[r] = "share"
    /\ tenantLock = NoRequest
    /\ Pass(r, "ensure")

OfProduct(o) == Creates(o) \/ o.kind = "reactivate"

(* Mutant: called without tx, so that the rows are inserted by another    *)
(* connection, whose foreign key waits for the tenant row.                *)
EnsureStockOutsideTx(r) ==
    /\ pc[r] = "ensure"
    /\ tenantLock = NoRequest
    /\ found' = [found EXCEPT ![r] =
          IF OfProduct(op[r]) THEN ActiveBranches ELSE ActiveProducts]
    /\ Goto(r, "commit")
    /\ UNCHANGED <<data, plan, tenantLock, op>>

(* ensureStockForNewProduct reads the active branches and                 *)
(* ensureStockForNewBranch the active products, as committed now.         *)
EnsureStock(r) ==
    /\ pc[r] = "ensure"
    /\ found' = [found EXCEPT ![r] =
          IF OfProduct(op[r]) THEN ActiveBranches ELSE ActiveProducts]
    /\ Goto(r, "commit")
    /\ UNCHANGED <<data, plan, tenantLock, op>>

(* Mutant: the arguments of ensureStockForNewBranch are swapped.          *)
StockRowsSwapped(o, others) ==
    {<<o.id, x>> : x \in others}

(* The rows opened for the new product or branch.                         *)
StockRows(o, others) ==
    IF OfProduct(o) THEN {<<o.id, b>> : b \in others} ELSE {<<p, o.id>> : p \in others}

Commit(r) ==
    LET o == op[r]
    IN  /\ pc[r] = "commit"
        /\ IF OfProduct(o)
             THEN /\ product' = [product EXCEPT ![o.id] = Flag(o.kind # "newInactive")]
                  /\ sku' = IF Creates(o) THEN [sku EXCEPT ![o.id] = o.sku] ELSE sku
                  /\ stale' = stale \ {o.id}
                  /\ UNCHANGED <<branch, main, early>>
             ELSE /\ branch' = [branch EXCEPT ![o.id] =
                        Flag(IF o.kind = "updateBranch" THEN o.to ELSE TRUE)]
                  /\ main' = IF o.kind = "onboard" THEN main \cup {o.id} ELSE main
                  /\ early' = IF o.kind = "onboard" THEN ActiveProducts ELSE early
                  /\ UNCHANGED <<product, sku, stale>>
        /\ rows' = rows \cup StockRows(o, found[r])
        /\ tenantLock' = IF tenantLock = r THEN NoRequest ELSE tenantLock
        /\ Goto(r, "done")
        /\ UNCHANGED <<plan, op, found>>

(* products.update outside of a transaction: one UPDATE statement, which  *)
(* waits for a transaction that has updated the same product.             *)
PlainUpdate(r) ==
    LET p == op[r].id
        to == op[r].to
    IN  /\ pc[r] = "plain"
        /\ Writers(p) = {}
        /\ product' = [product EXCEPT ![p] = Flag(to)]
        /\ stale' = IF ~to THEN stale \ {p}
                    ELSE IF product[p] = "inactive" THEN stale \cup {p} ELSE stale
        /\ Goto(r, "done")
        /\ UNCHANGED <<branch, sku, main, rows, plan, tenantLock, op, found, early>>

(* A transaction times out or loses its connection.                       *)
Abort(r) ==
    /\ pc[r] \in InTx
    /\ End(r)

(* The activation script changes the plan.  Its invoice waits for the     *)
(* tenant row, and the new plan is visible when both commit.              *)
ChangePlan(pl) ==
    /\ tenantLock = NoRequest
    /\ plan' = pl
    /\ UNCHANGED <<data, tenantLock, pc, op, found>>

-----------------------------------------------------------------------------
Step(r) ==
    \/ LockTenant(r)
    \/ Check(r)
    \/ InsertProduct(r)
    \/ ShareTenant(r)
    \/ EnsureStock(r)
    \/ Commit(r)
    \/ PlainUpdate(r)

CallProduct(r) ==
    \E p \in Products :
        \/ \E a \in BOOLEAN, base \in Bases : CreateProduct(r, p, a, base)
        \/ \E a \in BOOLEAN : UpdateProduct(r, p, a)
        \/ \E source \in Products : DuplicateProduct(r, source, p)
        \/ RemoveProduct(r, p)

CallBranch(r) ==
    \E b \in Branches :
        \/ CreateBranch(r, b)
        \/ \E a \in BOOLEAN : UpdateBranch(r, b, a)
        \/ RemoveBranch(r, b)
        \/ OnboardBranch(r, b)

Next ==
    \/ \E r \in Requests : CallProduct(r) \/ CallBranch(r) \/ Step(r) \/ Abort(r)
    \/ \E pl \in Plans : ChangePlan(pl)

Spec == Init /\ [][Next]_vars

-----------------------------------------------------------------------------
(* Types, and: the tenant row is locked by a transaction under way.       *)
TypeOK ==
    /\ product \in [Products -> Existence]
    /\ branch \in [Branches -> Existence]
    /\ sku \in [Products -> Seq(Nat)]
    /\ main \subseteq Branches
    /\ rows \subseteq Products \X Branches
    /\ plan \in Plans
    /\ tenantLock \in Requests \cup {NoRequest}
    /\ pc \in [Requests -> {"idle", "done"} \cup Waiting \cup InTx]
    /\ op \in [Requests -> Ops \cup {NoOp}]
    /\ found \in [Requests -> (SUBSET Products) \cup (SUBSET Branches)]
    /\ stale \subseteq Products
    /\ early \subseteq Products
    /\ tenantLock # NoRequest => pc[tenantLock] \in InTx

(* A branch becomes active only while the plan has room for it, whatever  *)
(* other creations, reactivations and plan changes are under way.         *)
BranchSlots ==
    [][ActiveBranches' \ ActiveBranches # {} =>
          Cardinality(ActiveBranches') <= MaxBranches[plan]]_vars

(* The same for products, but for those a plain update reactivated: that  *)
(* update decides on a product read earlier and takes no slot.            *)
ProductSlots ==
    [][(ActiveProducts \ stale)' \ (ActiveProducts \ stale) # {} =>
          Cardinality((ActiveProducts \ stale)') <= MaxProducts[plan]]_vars

(* Every active product has a stock row in every active branch, so that   *)
(* movements find it.  The exceptions are the products reactivated by a   *)
(* plain update, and in the main branch those older than it, because the  *)
(* onboarding opens no rows.                                              *)
PairsStocked ==
    \A p \in ActiveProducts, b \in ActiveBranches :
        <<p, b>> \in rows \/ p \in stale \/ (b \in main /\ p \in early)

(* A distributor that ever had a branch has an active one, and its main   *)
(* branch, if it has one, is single and active.                           *)
BranchesAnchored ==
    /\ (\E b \in Branches : branch[b] # "none") => ActiveBranches # {}
    /\ main \subseteq ActiveBranches
    /\ \A a, b \in main : a = b

(* The next SKU of a base that has only numbered SKUs is free, and so is  *)
(* that of every copy: a creation is refused for its SKU only when it was *)
(* overtaken.  Where copies, NaN, four digits or a longer base mix in,    *)
(* the code gives no such guarantee.                                      *)
NextSkuIsFree ==
    /\ \A base \in Bases :
          Regular(Taken, base) => GenerateSku(Taken, base) \notin Taken
    /\ \A s \in Taken : CopySku(Taken, s) \notin Taken

(* An active product to be inserted holds the tenant row and waits for an *)
(* inactive one with the same SKU, which waits for the tenant row.        *)
SkuDeadlock ==
    \E r, q \in Requests :
        /\ tenantLock = r /\ pc[r] = "insert"
        /\ q \in SkuHolders(r) /\ pc[q] = "share"

(* The locks on the tenant and product rows never make requests wait for  *)
(* each other: somebody can go on, but for the one deadlock of two SKUs,  *)
(* which Postgres breaks by an abort.                                     *)
LocksNeverCycle ==
    (\E r \in Requests : pc[r] \notin {"idle", "done"})
        => SkuDeadlock \/ \E r \in Requests : ENABLED Step(r)
=============================================================================
