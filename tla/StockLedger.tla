---------------------------- MODULE StockLedger ---------------------------
(***************************************************************************)
(* movements.service.ts: requests that record or reverse stock movements, *)
(* interleaved at every database statement.  Each request validates with  *)
(* plain reads, then runs one READ COMMITTED transaction: read the stock  *)
(* row, update it only if its balance is still the one read (retrying at  *)
(* most MaxAttempts times), insert the movement, commit.                  *)
(*                                                                         *)
(* The state holds committed data.  What a transaction has written and    *)
(* not committed is known from its pc: from "insert" on it has updated    *)
(* the row of its cell and holds that row's lock.                         *)
(***************************************************************************)
EXTENDS Integers, Sequences, FiniteSets

CONSTANTS
    Products, Branches,
    MainBranches,  \* branches.isMain, set by the onboarding and never changed
    TenantOf,      \* the tenant of each product and branch
    Callers,       \* who may call: [tenant, role, scope], scope a set of branches
    Requests,      \* one call each; also the identifier of the movement it records
    NoRequest,     \* null
    Qtys,          \* quantities a request may ask for
    MaxInt,        \* the largest value of a Postgres INT4 column
    MaxAttempts    \* MAX_CAS_ATTEMPTS

ASSUME NoRequestAssumption == NoRequest \notin Requests
ASSUME MainBranchesAssumption == MainBranches \subseteq Branches
ASSUME QtysAssumption == Qtys \subseteq Nat \ {0}
ASSUME MaxIntAssumption == MaxInt \in Nat
ASSUME MaxAttemptsAssumption == MaxAttempts \in Nat \ {0}

VARIABLES
    active,    \* branches.active
    stock,     \* stocks.current of each cell, NoRow while there is no row
    log,       \* the committed movements of each cell, in commit order
    rowLock,   \* the transaction that has updated the row and not ended
    pc,        \* where each request is
    order,     \* what each accepted request asks for
    attempt,   \* failed conditional updates of each request
    before,    \* the balance each request read last
    outcome,   \* how each request was answered
    seen,      \* history: how many movements its cell had at that read
    since      \* history: how many movements its cell had at acceptance

vars == <<active, stock, log, rowLock, pc, order, attempt, before, outcome,
          seen, since>>
local == <<order, attempt, before, seen, since>>

-----------------------------------------------------------------------------
Cells == Products \X Branches
BranchOf(c) == c[2]
NoRow == -1
SameTenant(c) == TenantOf[c[1]] = TenantOf[c[2]]
Levels == 0..MaxInt
InitialLevels == (Qtys \cup {0}) \cap Levels
Types == {"ENTRADA", "SAIDA", "AJUSTE"}
Ids == Requests \cup {NoRequest}

(* The amount is the quantity of an entry or an exit, the new balance of  *)
(* an adjustment, and the quantity of the original for a reversal, which  *)
(* is an order with a target.                                             *)
Orders == [caller: Callers, cell: Cells, type: Types, amount: Int, target: Ids]
NoOrder == [caller |-> NoRequest]

Movements == [id: Requests, qty: Int, before: Int, after: Int, reverses: Ids]
Outcomes == {"none", "ok", "refused", "notFound", "insufficient", "overflow",
             "conflict", "aborted"}
InTx == {"read", "update", "insert", "commit"}

EntriesOf(c) == {log[c][i] : i \in DOMAIN log[c]}
Logged == UNION {EntriesOf(c) : c \in Cells}
Reversed(id) == \E m \in Logged : m.reverses = id

(* The balance an order leaves in a row that holds n.                     *)
AfterOrder(o, n) ==
    CASE o.target # NoRequest -> n - o.amount
      [] o.target = NoRequest /\ o.type = "AJUSTE" -> o.amount
      [] o.target = NoRequest /\ o.type = "ENTRADA" -> n + o.amount
      [] OTHER -> n - o.amount

-----------------------------------------------------------------------------
Init ==
    /\ active \in [Branches -> BOOLEAN]
    /\ \A b \in MainBranches : active[b]
    /\ stock \in [Cells -> {NoRow, 0}]
    /\ \A c \in Cells : stock[c] # NoRow => SameTenant(c)
    /\ log = [c \in Cells |-> <<>>]
    /\ rowLock = [c \in Cells |-> NoRequest]
    /\ pc = [r \in Requests |-> "idle"]
    /\ order = [r \in Requests |-> NoOrder]
    /\ attempt = [r \in Requests |-> 0]
    /\ before = [r \in Requests |-> 0]
    /\ outcome = [r \in Requests |-> "none"]
    /\ seen = [r \in Requests |-> 0]
    /\ since = [r \in Requests |-> 0]

(* Mutant: the connection is dropped without ending its transaction.      *)
FailKeepsLock(r, why) ==
    /\ pc' = [pc EXCEPT ![r] = "done"]
    /\ outcome' = [outcome EXCEPT ![r] = why]
    /\ UNCHANGED <<active, stock, log, rowLock, local>>

(* The request ends with an error; nothing it did is kept.                *)
Fail(r, why) ==
    /\ pc' = [pc EXCEPT ![r] = "done"]
    /\ outcome' = [outcome EXCEPT ![r] = why]
    /\ rowLock' = [c \in Cells |-> IF rowLock[c] = r THEN NoRequest ELSE rowLock[c]]
    /\ UNCHANGED <<active, stock, log, local>>

(* Validation passed: the transaction is opened.                          *)
Accept(r, o) ==
    /\ pc' = [pc EXCEPT ![r] = "read"]
    /\ order' = [order EXCEPT ![r] = o]
    /\ since' = [since EXCEPT ![r] = Len(log[o.cell])]
    /\ UNCHANGED <<active, stock, log, rowLock, attempt, before, outcome, seen>>

(* Mutant: the rows found are not compared with the caller's tenant.      *)
InScopeAnyTenant(u, c) == BranchOf(c) \in u.scope

InScope(u, c) ==
    /\ TenantOf[c[1]] = u.tenant
    /\ TenantOf[c[2]] = u.tenant
    /\ BranchOf(c) \in u.scope

MayCreate(u, t, c) ==
    /\ u.role = "SALES" => t = "SAIDA"
    /\ InScope(u, c)
    /\ active[BranchOf(c)]

Create(r, u, t, c, n) ==
    /\ pc[r] = "idle"
    /\ t = "AJUSTE" \/ n > 0
    /\ \/ /\ MayCreate(u, t, c)
          /\ Accept(r, [caller |-> u, cell |-> c, type |-> t, amount |-> n,
                        target |-> NoRequest])
       \/ /\ ~MayCreate(u, t, c)
          /\ Fail(r, "refused")

(* The tenant and the branch of the original are those of its cell.       *)
MayReverse(u, c, m) ==
    /\ InScope(u, c)
    /\ u.role # "SALES"
    /\ m.reverses = NoRequest
    /\ ~Reversed(m.id)

Reverse(r, u, c, m) ==
    /\ pc[r] = "idle"
    /\ \/ /\ MayReverse(u, c, m)
          /\ Accept(r, [caller |-> u, cell |-> c, type |-> order[m.id].type,
                        amount |-> m.qty, target |-> m.id])
       \/ /\ ~MayReverse(u, c, m)
          /\ Fail(r, "refused")

(* Mutant: no look at the sign of the balance the order leaves.           *)
ReadStockUnchecked(r) ==
    LET c == order[r].cell
    IN  /\ pc[r] = "read"
        /\ stock[c] # NoRow
        /\ pc' = [pc EXCEPT ![r] = "update"]
        /\ before' = [before EXCEPT ![r] = stock[c]]
        /\ seen' = [seen EXCEPT ![r] = Len(log[c])]
        /\ UNCHANGED <<active, stock, log, rowLock, order, attempt, outcome, since>>

(* One turn of the loop of applyStockChange: read the committed row.      *)
ReadStock(r) ==
    LET c == order[r].cell
        n == AfterOrder(order[r], stock[c])
    IN  /\ pc[r] = "read"
        /\ \/ /\ stock[c] = NoRow
              /\ Fail(r, "notFound")
           \/ /\ stock[c] # NoRow /\ n < 0
              /\ Fail(r, "insufficient")
           \/ /\ stock[c] # NoRow /\ n > MaxInt
              /\ Fail(r, "overflow")
           \/ /\ stock[c] # NoRow /\ n \in Levels
              /\ pc' = [pc EXCEPT ![r] = "update"]
              /\ before' = [before EXCEPT ![r] = stock[c]]
              /\ seen' = [seen EXCEPT ![r] = Len(log[c])]
              /\ UNCHANGED <<active, stock, log, rowLock, order, attempt,
                             outcome, since>>

(* Mutant: UPDATE ... WHERE id, without the balance read.                 *)
UpdateHitBlindly(r) ==
    LET c == order[r].cell
    IN  /\ pc[r] = "update"
        /\ rowLock[c] = NoRequest
        /\ rowLock' = [rowLock EXCEPT ![c] = r]
        /\ pc' = [pc EXCEPT ![r] = "insert"]
        /\ UNCHANGED <<active, stock, log, outcome, local>>

(* UPDATE ... WHERE id AND current = before.  It waits for a transaction  *)
(* that has updated the row, then looks at the row again.                 *)
UpdateHit(r) ==
    LET c == order[r].cell
    IN  /\ pc[r] = "update"
        /\ stock[c] = before[r]
        /\ rowLock[c] = NoRequest
        /\ rowLock' = [rowLock EXCEPT ![c] = r]
        /\ pc' = [pc EXCEPT ![r] = "insert"]
        /\ UNCHANGED <<active, stock, log, outcome, local>>

(* Mutant: a row locked by another transaction counts as a lost update.   *)
UpdateMissWhenLocked(r) ==
    /\ pc[r] = "update"
    /\ stock[order[r].cell] # before[r] \/ rowLock[order[r].cell] # NoRequest
    /\ attempt' = [attempt EXCEPT ![r] = @ + 1]
    /\ IF attempt[r] + 1 < MaxAttempts
         THEN /\ pc' = [pc EXCEPT ![r] = "read"]
              /\ UNCHANGED outcome
         ELSE /\ pc' = [pc EXCEPT ![r] = "done"]
              /\ outcome' = [outcome EXCEPT ![r] = "conflict"]
    /\ UNCHANGED <<active, stock, log, rowLock, order, before, seen, since>>

UpdateMiss(r) ==
    /\ pc[r] = "update"
    /\ stock[order[r].cell] # before[r]
    /\ attempt' = [attempt EXCEPT ![r] = @ + 1]
    /\ IF attempt[r] + 1 < MaxAttempts
         THEN /\ pc' = [pc EXCEPT ![r] = "read"]
              /\ UNCHANGED outcome
         ELSE /\ pc' = [pc EXCEPT ![r] = "done"]
              /\ outcome' = [outcome EXCEPT ![r] = "conflict"]
    /\ UNCHANGED <<active, stock, log, rowLock, order, before, seen, since>>

(* Mutant: no unique index on reversesMovementId.                         *)
InsertMovementUnindexed(r) ==
    /\ pc[r] = "insert"
    /\ pc' = [pc EXCEPT ![r] = "commit"]
    /\ UNCHANGED <<active, stock, log, rowLock, outcome, local>>

(* Mutant: the movement is inserted outside of the transaction.           *)
InsertMovementAtOnce(r) ==
    LET n == AfterOrder(order[r], before[r])
    IN  /\ pc[r] = "insert"
        /\ log' = [log EXCEPT ![order[r].cell] =
              Append(@, [id |-> r, qty |-> n - before[r], before |-> before[r],
                         after |-> n, reverses |-> order[r].target])]
        /\ pc' = [pc EXCEPT ![r] = "commit"]
        /\ UNCHANGED <<active, stock, rowLock, outcome, local>>

(* The unique index on reversesMovementId refuses a second reversal, and  *)
(* the transaction is rolled back.                                        *)
InsertMovement(r) ==
    /\ pc[r] = "insert"
    /\ \/ /\ order[r].target # NoRequest /\ Reversed(order[r].target)
          /\ Fail(r, "refused")
       \/ /\ ~(order[r].target # NoRequest /\ Reversed(order[r].target))
          /\ pc' = [pc EXCEPT ![r] = "commit"]
          /\ UNCHANGED <<active, stock, log, rowLock, outcome, local>>

(* The row and the movement become visible together; the lock is freed.   *)
Commit(r) ==
    LET c == order[r].cell
        n == AfterOrder(order[r], before[r])
    IN  /\ pc[r] = "commit"
        /\ stock' = [stock EXCEPT ![c] = n]
        /\ log' = [log EXCEPT ![c] =
              Append(@, [id |-> r, qty |-> n - before[r], before |-> before[r],
                         after |-> n, reverses |-> order[r].target])]
        /\ rowLock' = [rowLock EXCEPT ![c] = NoRequest]
        /\ pc' = [pc EXCEPT ![r] = "done"]
        /\ outcome' = [outcome EXCEPT ![r] = "ok"]
        /\ UNCHANGED <<active, local>>

(* The transaction times out or its connection is lost: rolled back.      *)
Abort(r) ==
    /\ pc[r] \in InTx
    /\ Fail(r, "aborted")

-----------------------------------------------------------------------------
(* The rest of the program, as far as it touches this data: branches are  *)
(* deactivated (never a tenant's main branch or its last active one) and  *)
(* reactivated, and rows are opened for the pairs that have none, with 0  *)
(* or with the initial stock of a new product.                            *)
CanDeactivate(b) ==
    /\ b \notin MainBranches
    /\ \E other \in Branches \ {b} : active[other] /\ TenantOf[other] = TenantOf[b]

Deactivate(b) ==
    /\ active[b]
    /\ CanDeactivate(b)
    /\ active' = [active EXCEPT ![b] = FALSE]
    /\ UNCHANGED <<stock, log, rowLock, pc, outcome, local>>

Reactivate(b, ps) ==
    /\ ~active[b]
    /\ active' = [active EXCEPT ![b] = TRUE]
    /\ stock' = [c \in Cells |->
          IF c[2] = b /\ c[1] \in ps /\ SameTenant(c) /\ stock[c] = NoRow
            THEN 0 ELSE stock[c]]
    /\ UNCHANGED <<log, rowLock, pc, outcome, local>>

EnsureStockForNewProduct(p, initial) ==
    /\ stock' = [c \in Cells |->
          IF c[1] = p /\ SameTenant(c) /\ active[c[2]] /\ stock[c] = NoRow
            THEN initial[c[2]] ELSE stock[c]]
    /\ UNCHANGED <<active, log, rowLock, pc, outcome, local>>

-----------------------------------------------------------------------------
Step(r) ==
    \/ ReadStock(r)
    \/ UpdateHit(r)
    \/ UpdateMiss(r)
    \/ InsertMovement(r)
    \/ Commit(r)

Call(r) ==
    \/ \E u \in Callers, t \in Types, c \in Cells, n \in Qtys \cup {0} :
          Create(r, u, t, c, n)
    \/ \E u \in Callers, c \in Cells : \E m \in EntriesOf(c) : Reverse(r, u, c, m)

Next ==
    \/ \E r \in Requests : Call(r) \/ Step(r) \/ Abort(r)
    \/ \E b \in Branches : Deactivate(b) \/ \E ps \in SUBSET Products : Reactivate(b, ps)
    \/ \E p \in Products, initial \in [Branches -> InitialLevels] :
          EnsureStockForNewProduct(p, initial)

Spec == Init /\ [][Next]_vars

(* A transaction that can take its next statement eventually does; nobody *)
(* has to call, and nothing has to fail.                                  *)
FairSpec == Spec /\ \A r \in Requests : WF_vars(Step(r))

-----------------------------------------------------------------------------
TypeOK ==
    /\ active \in [Branches -> BOOLEAN]
    /\ stock \in [Cells -> Levels \cup {NoRow}]
    /\ log \in [Cells -> Seq(Movements)]
    /\ rowLock \in [Cells -> Ids]
    /\ pc \in [Requests -> {"idle", "done"} \cup InTx]
    /\ order \in [Requests -> Orders \cup {NoOrder}]
    /\ attempt \in [Requests -> 0..MaxAttempts]
    /\ before \in [Requests -> Levels]
    /\ outcome \in [Requests -> Outcomes]
    /\ seen \in [Requests -> Nat]
    /\ since \in [Requests -> Nat]

(* The abstract ledger: a commit is one atomic posting, everything else a *)
(* request does is invisible, and rows are opened once.                   *)
Abs == INSTANCE Ledger WITH
    Ids <- Requests, NoId <- NoRequest, balance <- stock, journal <- log

LedgerSpec == Abs!Spec

(* However requests interleave, the balances found and left chain up in   *)
(* every cell to the balance of the row, no movement is recorded twice,   *)
(* and a movement is cancelled at most once, by a reversal of its exact   *)
(* quantity in its own cell.                                              *)
Books == Abs!Books

(* A request is answered with success exactly when its movement is kept.  *)
AllOrNothing ==
    \A r \in Requests : outcome[r] = "ok" <=> \E m \in Logged : m.id = r

(* A recorded movement does what its request asked for, on the balance it *)
(* took effect on, however often the loop had to start over.              *)
EffectAsOrdered ==
    \A c \in Cells : \A m \in EntriesOf(c) :
        LET o == order[m.id]
        IN  /\ o.cell = c
            /\ o.target = m.reverses
            /\ m.after = AfterOrder(o, m.before)
            /\ o.target = NoRequest =>
                  CASE o.type = "AJUSTE" -> m.after = o.amount
                    [] o.type = "ENTRADA" -> m.qty = o.amount /\ m.qty > 0
                    [] OTHER -> m.qty = -o.amount /\ m.qty < 0

(* The answer a caller gets can be relied upon: success is answered for   *)
(* exactly the movements that are kept, and each of them did what its     *)
(* request asked for, whatever failed or had to start over in between.    *)
AnswersHold == AllOrNothing /\ EffectAsOrdered

(* No movement touches a product or a branch of another tenant or outside *)
(* the caller's branches, and a seller only takes stock out and never     *)
(* reverses, whatever movement identifiers a caller presents.             *)
CallersKeepToTheirCells ==
    \A c \in Cells : \A m \in EntriesOf(c) :
        LET u == order[m.id].caller
        IN  /\ TenantOf[c[1]] = u.tenant /\ TenantOf[c[2]] = u.tenant
            /\ c[2] \in u.scope
            /\ u.role = "SALES" => m.qty < 0 /\ m.reverses = NoRequest

(* "Try again" is only answered when, since the request was accepted, at  *)
(* least MaxAttempts other movements were committed in its cell: a        *)
(* request alone on its cell is never turned away.                        *)
ConflictMeansContention ==
    \A r \in Requests : outcome[r] = "conflict" =>
        Len(log[order[r].cell]) - since[r] >= MaxAttempts

(* Every accepted request is answered: nobody waits for ever on a row.    *)
EveryRequestAnswered ==
    \A r \in Requests : pc[r] \in InTx ~> pc[r] = "done"

(* The message of Create's refusal: an inactive branch receives no        *)
(* movement.  Reverse does not look, and Create looks before its          *)
(* transaction.                                                           *)
InactiveBranchReceivesNoMovement ==
    [][\A c \in Cells : log'[c] # log[c] => active[BranchOf(c)]]_vars
=============================================================================
