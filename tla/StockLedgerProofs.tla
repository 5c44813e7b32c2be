-------------------------- MODULE StockLedgerProofs -----------------------
(***************************************************************************)
(* StockLedger, for every value of its constants: its inductive invariant,*)
(* the safety properties that follow from it, and that it implements      *)
(* Ledger, whose books balance (LedgerProofs).                            *)
(***************************************************************************)
EXTENDS StockLedger, SequenceTheorems, TLAPS

AbsP == INSTANCE LedgerProofs WITH
    Ids <- Requests, NoId <- NoRequest, balance <- stock, journal <- log

Holding == {"insert", "commit"}
Checked == {"update", "insert", "commit"}

(* A row is locked exactly by the request that has updated it.            *)
LockInv ==
    /\ \A c \in Cells : rowLock[c] # NoRequest =>
          pc[rowLock[c]] \in Holding /\ order[rowLock[c]].cell = c
    /\ \A r \in Requests : pc[r] \in Holding => rowLock[order[r].cell] = r

Permitted(o) ==
    /\ InScope(o.caller, o.cell)
    /\ o.caller.role = "SALES" => o.type = "SAIDA" /\ o.target = NoRequest
    /\ o.target = NoRequest => o.type = "AJUSTE" \/ o.amount > 0

(* What a request in its transaction, or recorded, asked for.             *)
OrderInv ==
    /\ \A r \in Requests : pc[r] \in InTx => order[r] \in Orders /\ Permitted(order[r])
    /\ \A c \in Cells : \A m \in EntriesOf(c) :
          /\ order[m.id] \in Orders /\ Permitted(order[m.id])
          /\ order[m.id].cell = c
          /\ order[m.id].target = m.reverses
          /\ m.after = AfterOrder(order[m.id], m.before)
          /\ m.qty = m.after - m.before

(* The balance a request carries to its update was checked, and once the  *)
(* request holds the row that balance is the committed one.               *)
BalanceInv ==
    \A r \in Requests : pc[r] \in Checked =>
        /\ stock[order[r].cell] # NoRow
        /\ AfterOrder(order[r], before[r]) \in Levels
        /\ pc[r] \in Holding => stock[order[r].cell] = before[r]

(* The original of a reversal under way is in the ledger, and once the    *)
(* index let the reversal in, nothing else cancels that original.         *)
TargetInv ==
    \A r \in Requests : pc[r] \in InTx /\ order[r].target # NoRequest =>
        /\ \E m \in EntriesOf(order[r].cell) :
              /\ m.id = order[r].target
              /\ m.reverses = NoRequest
              /\ m.qty = order[r].amount
        /\ pc[r] = "commit" => ~Reversed(order[r].target)

(* Success is answered for recorded movements and for no others.          *)
AnswerInv ==
    /\ \A c \in Cells : \A m \in EntriesOf(c) : pc[m.id] = "done" /\ outcome[m.id] = "ok"
    /\ \A r \in Requests : outcome[r] = "ok" => \E m \in Logged : m.id = r
    /\ \A r \in Requests : pc[r] # "done" => outcome[r] = "none"

(* The balance a cell had after its first n movements.                    *)
BalanceAt(c, n) == IF n < Len(log[c]) THEN log[c][n + 1].before ELSE stock[c]

(* Each failed update was overtaken by a movement of its own.             *)
ContentionInv ==
    \A r \in Requests :
        /\ pc[r] = "idle" => attempt[r] = 0
        /\ pc[r] = "read" =>
              /\ attempt[r] < MaxAttempts
              /\ since[r] + attempt[r] <= Len(log[order[r].cell])
        /\ pc[r] = "update" =>
              /\ attempt[r] < MaxAttempts
              /\ since[r] + attempt[r] <= seen[r]
              /\ seen[r] <= Len(log[order[r].cell])
              /\ before[r] = BalanceAt(order[r].cell, seen[r])
        /\ outcome[r] = "conflict" =>
              /\ order[r] \in Orders
              /\ since[r] + MaxAttempts <= Len(log[order[r].cell])

IInv ==
    /\ TypeOK
    /\ LockInv
    /\ OrderInv
    /\ BalanceInv
    /\ TargetInv
    /\ AnswerInv
    /\ ContentionInv

-----------------------------------------------------------------------------
(* The states a request can be in are distinct, null is not a request and *)
(* a missing row has no level.                                            *)
LEMMA Basics ==
    /\ NoRequest \notin Requests
    /\ NoRow \notin Levels
    /\ Levels \subseteq Nat
    /\ Holding \subseteq Checked /\ Checked \subseteq InTx
    /\ "idle" \notin InTx /\ "done" \notin InTx
    /\ "read" \notin Checked /\ "update" \notin Holding
BY NoRequestAssumption, MaxIntAssumption DEF NoRow, Levels, Holding, Checked, InTx

(* Reading a typed log: lengths are numbers and entries are movements.    *)
LEMMA LogTyped ==
    ASSUME TypeOK, NEW c \in Cells
    PROVE  /\ log[c] \in Seq(Movements)
           /\ Len(log[c]) \in Nat
           /\ DOMAIN log[c] = 1..Len(log[c])
           /\ \A m \in EntriesOf(c) : m \in Movements /\ m.id \in Requests
<1>1. log[c] \in Seq(Movements)
  BY DEF TypeOK
<1>2. Len(log[c]) \in Nat /\ DOMAIN log[c] = 1..Len(log[c])
  BY <1>1, LenProperties
<1>3. \A i \in 1..Len(log[c]) : log[c][i] \in Movements
  BY <1>1, ElementOfSeq
<1> QED BY <1>1, <1>2, <1>3 DEF EntriesOf, Movements

LEMMA InitIInv == Init => IInv
<1> SUFFICES ASSUME Init PROVE IInv
  OBVIOUS
<1> USE DEF Init
<1>1. \A c \in Cells : EntriesOf(c) = {}
  <2>1. DOMAIN <<>> = {}
    <3>1. <<>> \in Seq(Movements) /\ Len(<<>>) = 0
      BY EmptySeq
    <3>2. DOMAIN <<>> = 1..Len(<<>>)
      BY <3>1, LenProperties
    <3> QED BY <3>1, <3>2
  <2> QED BY <2>1 DEF EntriesOf
<1>2. TypeOK
  BY NoRequestAssumption, MaxIntAssumption, MaxAttemptsAssumption
  DEF TypeOK, Levels, Ids, Outcomes
<1>3. LockInv /\ OrderInv /\ BalanceInv /\ TargetInv
  BY <1>1 DEF LockInv, OrderInv, BalanceInv, TargetInv, Holding, Checked, InTx
<1>4. AnswerInv /\ ContentionInv
  BY <1>1 DEF AnswerInv, ContentionInv, Logged
<1> QED BY <1>2, <1>3, <1>4 DEF IInv

(* A failed request leaves its transaction and frees the row it held.     *)
LEMMA FailIInv ==
    ASSUME IInv, NEW r \in Requests, pc[r] # "done",
           NEW why \in Outcomes \ {"none", "ok", "conflict"}, Fail(r, why)
    PROVE  IInv'
<1> USE Basics DEF Fail, local
<1>1. /\ pc' = [pc EXCEPT ![r] = "done"]
      /\ outcome' = [outcome EXCEPT ![r] = why]
      /\ \A c \in Cells : EntriesOf(c)' = EntriesOf(c)
      /\ Logged' = Logged
      /\ \A id : Reversed(id)' = Reversed(id)
  BY DEF EntriesOf, Logged, Reversed
<1>2. /\ \A q \in Requests : pc'[q] = IF q = r THEN "done" ELSE pc[q]
      /\ \A q \in Requests : outcome'[q] = IF q = r THEN why ELSE outcome[q]
      /\ why # "none" /\ why # "ok" /\ why # "conflict"
  BY DEF IInv, TypeOK
<1>3. TypeOK'
  BY <1>1 DEF IInv, TypeOK, Ids
<1>4. LockInv'
  <2>1. \A c \in Cells : rowLock'[c] = IF rowLock[c] = r THEN NoRequest ELSE rowLock[c]
    BY DEF IInv, TypeOK
  <2>2. \A c \in Cells : rowLock[c] # NoRequest => rowLock[c] \in Requests
    BY DEF IInv, TypeOK, Ids
  <2>3. \A q \in Requests : q # r /\ pc[q] \in Holding => order[q].cell \in Cells
    BY DEF IInv, OrderInv, Orders
  <2> QED BY <1>2, <2>1, <2>2, <2>3 DEF IInv, LockInv
<1>5. OrderInv'
  BY <1>1, <1>2 DEF IInv, OrderInv
<1>6. BalanceInv'
  BY <1>2 DEF IInv, BalanceInv, Checked, Holding
<1>7. TargetInv'
  BY <1>2 DEF IInv, TargetInv, EntriesOf, Reversed, Logged
<1>8. AnswerInv'
  <2>2. \A c \in Cells : \A m \in EntriesOf(c) : m.id \in Requests /\ m.id # r
    BY LogTyped DEF IInv, AnswerInv
  <2> QED BY <1>1, <1>2, <2>2 DEF IInv, AnswerInv
<1>9. ContentionInv'
  <2>1. \A q \in Requests : pc'[q] # "done" => q # r /\ pc'[q] = pc[q]
    BY <1>2
  <2>2. \A q \in Requests : outcome'[q] = "conflict" => outcome[q] = "conflict"
    BY <1>2
  <2> QED BY <2>1, <2>2 DEF IInv, ContentionInv, BalanceAt
<1> QED BY <1>3, <1>4, <1>5, <1>6, <1>7, <1>8, <1>9 DEF IInv

(* Opening a transaction for a permitted order.                           *)
LEMMA AcceptIInv ==
    ASSUME IInv, NEW r \in Requests, pc[r] = "idle",
           NEW o \in Orders, Permitted(o), Accept(r, o),
           o.target # NoRequest =>
              \E m \in EntriesOf(o.cell) :
                 m.id = o.target /\ m.reverses = NoRequest /\ m.qty = o.amount
    PROVE  IInv'
<1> USE Basics DEF Accept
<1>1. /\ \A q \in Requests : pc'[q] = IF q = r THEN "read" ELSE pc[q]
      /\ \A q \in Requests : order'[q] = IF q = r THEN o ELSE order[q]
      /\ \A q \in Requests : since'[q] = IF q = r THEN Len(log[o.cell]) ELSE since[q]
  BY DEF IInv, TypeOK
<1>2. o.cell \in Cells /\ Len(log[o.cell]) \in Nat
  BY LogTyped DEF IInv, Orders
<1>3. outcome[r] = "none"
  BY DEF IInv, AnswerInv
<1>4. \A c \in Cells : \A m \in EntriesOf(c) : m.id \in Requests /\ m.id # r
  BY LogTyped DEF IInv, AnswerInv
<1>5. TypeOK'
  BY <1>2 DEF IInv, TypeOK, InTx
<1>6. LockInv'
  <2>1. \A c \in Cells : rowLock[c] # NoRequest => rowLock[c] \in Requests /\ rowLock[c] # r
    <3>1. \A c \in Cells : rowLock[c] # NoRequest => rowLock[c] \in Requests
      BY DEF IInv, TypeOK, Ids
    <3>2. \A c \in Cells : rowLock[c] # NoRequest => pc[rowLock[c]] \in Holding
      BY DEF IInv, LockInv
    <3> QED BY <3>1, <3>2
  <2>2. \A q \in Requests : pc'[q] \in Holding => q # r /\ pc[q] \in Holding
    BY <1>1 DEF Holding
  <2>3. \A c \in Cells : rowLock'[c] # NoRequest =>
           pc'[rowLock'[c]] \in Holding /\ order'[rowLock'[c]].cell = c
    BY <1>1, <2>1 DEF IInv, LockInv
  <2>4. \A q \in Requests : pc'[q] \in Holding => rowLock'[order'[q].cell] = q
    BY <1>1, <2>2 DEF IInv, LockInv
  <2> QED BY <2>3, <2>4 DEF LockInv
<1>7. OrderInv'
  BY <1>1, <1>4 DEF IInv, OrderInv, EntriesOf
<1>8. BalanceInv'
  BY <1>1 DEF IInv, BalanceInv, Checked
<1>9. TargetInv'
  <2> SUFFICES ASSUME NEW q \in Requests, pc'[q] \in InTx, order'[q].target # NoRequest
               PROVE  /\ \E m \in EntriesOf(order[q].cell)' :
                           /\ m.id = order'[q].target
                           /\ m.reverses = NoRequest
                           /\ m.qty = order'[q].amount
                      /\ pc'[q] = "commit" => ~Reversed(order[q].target)'
    BY DEF TargetInv
  <2>1. CASE q = r
    BY <1>1, <2>1 DEF EntriesOf
  <2>2. CASE q # r
    BY <1>1, <2>2 DEF IInv, TargetInv, EntriesOf, Reversed, Logged
  <2> QED BY <2>1, <2>2
<1>10. AnswerInv'
  BY <1>1, <1>3, <1>4 DEF IInv, AnswerInv, EntriesOf, Logged
<1>11. ContentionInv'
  <2>1. attempt[r] = 0
    BY DEF IInv, ContentionInv
  <2>2. 0 < MaxAttempts
    BY MaxAttemptsAssumption
  <2> QED BY <1>1, <1>2, <1>3, <2>1, <2>2 DEF IInv, ContentionInv, BalanceAt
<1> QED BY <1>5, <1>6, <1>7, <1>8, <1>9, <1>10, <1>11 DEF IInv

LEMMA CreateIInv ==
    ASSUME IInv, NEW r \in Requests, NEW u \in Callers, NEW t \in Types,
           NEW c \in Cells, NEW n \in Qtys \cup {0}, Create(r, u, t, c, n)
    PROVE  IInv'
<1> DEFINE o == [caller |-> u, cell |-> c, type |-> t, amount |-> n,
                 target |-> NoRequest]
<1>1. CASE MayCreate(u, t, c) /\ Accept(r, o)
  <2>1. o \in Orders
    BY QtysAssumption DEF Orders, Ids
  <2>2. Permitted(o)
    BY <1>1 DEF Permitted, MayCreate, Create
  <2> QED BY <1>1, <2>1, <2>2, AcceptIInv DEF Create
<1>2. CASE Fail(r, "refused")
  BY <1>2, FailIInv DEF Create, Outcomes
<1> QED BY <1>1, <1>2 DEF Create

LEMMA ReverseIInv ==
    ASSUME IInv, NEW r \in Requests, NEW u \in Callers, NEW c \in Cells,
           NEW m \in EntriesOf(c), Reverse(r, u, c, m)
    PROVE  IInv'
<1> DEFINE o == [caller |-> u, cell |-> c, type |-> order[m.id].type,
                 amount |-> m.qty, target |-> m.id]
<1>1. m \in Movements /\ m.id \in Requests /\ m.id # NoRequest
  BY LogTyped, Basics DEF IInv
<1>2. CASE MayReverse(u, c, m) /\ Accept(r, o)
  <2>1. o \in Orders
    BY <1>1 DEF Orders, Ids, Movements, IInv, OrderInv
  <2>2. Permitted(o)
    BY <1>1, <1>2 DEF Permitted, MayReverse
  <2> QED BY <1>2, <2>1, <2>2, AcceptIInv DEF Reverse, MayReverse
<1>3. CASE Fail(r, "refused")
  BY <1>3, FailIInv DEF Reverse, Outcomes
<1> QED BY <1>2, <1>3 DEF Reverse

(* Reading the row, when the balance the order leaves is a level.         *)
LEMMA ReadStockIInv ==
    ASSUME IInv, NEW r \in Requests, ReadStock(r)
    PROVE  IInv'
<1> DEFINE c == order[r].cell
           n == AfterOrder(order[r], stock[c])
<1> USE Basics
<1>1. CASE \/ Fail(r, "notFound")
           \/ Fail(r, "insufficient")
           \/ Fail(r, "overflow")
  BY <1>1, FailIInv DEF Outcomes, ReadStock
<1>2. CASE /\ stock[c] # NoRow /\ n \in Levels
           /\ pc' = [pc EXCEPT ![r] = "update"]
           /\ before' = [before EXCEPT ![r] = stock[c]]
           /\ seen' = [seen EXCEPT ![r] = Len(log[c])]
           /\ UNCHANGED <<active, stock, log, rowLock, order, attempt, outcome, since>>
  <2>0. pc[r] = "read" /\ pc[r] \in InTx
    BY DEF ReadStock, InTx
  <2>1. /\ order[r] \in Orders /\ c \in Cells
        /\ stock[c] \in Levels
        /\ Len(log[c]) \in Nat
    BY <2>0, <1>2, LogTyped DEF IInv, OrderInv, Orders, TypeOK
  <2>2. /\ \A q \in Requests : pc'[q] = IF q = r THEN "update" ELSE pc[q]
        /\ \A q \in Requests : before'[q] = IF q = r THEN stock[c] ELSE before[q]
        /\ \A q \in Requests : seen'[q] = IF q = r THEN Len(log[c]) ELSE seen[q]
    BY <1>2 DEF IInv, TypeOK
  <2>3. TypeOK'
    BY <1>2, <2>1 DEF IInv, TypeOK, InTx
  <2>4. LockInv'
    <3>1. \A d \in Cells : rowLock[d] # NoRequest =>
             rowLock[d] \in Requests /\ pc[rowLock[d]] \in Holding
      BY DEF IInv, LockInv, TypeOK, Ids
    <3>2. \A d \in Cells : rowLock[d] # r
      BY <2>0, <3>1 DEF Holding
    <3>3. \A q \in Requests : pc'[q] \in Holding => q # r /\ pc[q] \in Holding
      BY <2>2
    <3> QED BY <1>2, <2>2, <3>1, <3>2, <3>3 DEF IInv, LockInv
  <2>5. OrderInv'
    BY <1>2, <2>0, <2>2 DEF IInv, OrderInv, EntriesOf
  <2>6. BalanceInv'
    BY <1>2, <2>2 DEF IInv, BalanceInv
  <2>7. TargetInv'
    BY <1>2, <2>0, <2>2 DEF IInv, TargetInv, EntriesOf, Reversed, Logged
  <2>8. AnswerInv'
    BY <1>2, <2>0, <2>2 DEF IInv, AnswerInv, EntriesOf, Logged
  <2>9. ContentionInv'
    BY <1>2, <2>0, <2>1, <2>2 DEF IInv, ContentionInv, BalanceAt
  <2> QED BY <2>3, <2>4, <2>5, <2>6, <2>7, <2>8, <2>9 DEF IInv
<1> QED BY <1>1, <1>2 DEF ReadStock

(* Taking the row: no other request held it.                              *)
LEMMA UpdateHitIInv ==
    ASSUME IInv, NEW r \in Requests, UpdateHit(r)
    PROVE  IInv'
<1> DEFINE c == order[r].cell
<1> USE Basics DEF UpdateHit, local
<1>1. /\ pc[r] = "update" /\ pc[r] \in InTx /\ pc[r] \in Checked
      /\ order[r] \in Orders /\ c \in Cells
  BY DEF InTx, Checked, IInv, OrderInv, Orders
<1>2. /\ \A q \in Requests : pc'[q] = IF q = r THEN "insert" ELSE pc[q]
      /\ \A d \in Cells : rowLock'[d] = IF d = c THEN r ELSE rowLock[d]
  BY DEF IInv, TypeOK
<1>3. TypeOK'
  BY DEF IInv, TypeOK, InTx, Ids
<1>4. LockInv'
  <2>1. \A d \in Cells : rowLock[d] # NoRequest =>
           rowLock[d] \in Requests /\ pc[rowLock[d]] \in Holding
    BY DEF IInv, LockInv, TypeOK, Ids
  <2>2. \A q \in Requests : q # r /\ pc[q] \in Holding =>
           rowLock[order[q].cell] = q /\ order[q].cell # c /\ order[q].cell \in Cells
    BY DEF IInv, LockInv, OrderInv, Orders
  <2>3. "insert" \in Holding
    BY DEF Holding
  <2> QED BY <1>1, <1>2, <2>1, <2>2, <2>3 DEF IInv, LockInv
<1>5. OrderInv'
  BY <1>1, <1>2 DEF IInv, OrderInv, EntriesOf
<1>6. BalanceInv'
  BY <1>1, <1>2 DEF IInv, BalanceInv
<1>7. TargetInv'
  BY <1>1, <1>2 DEF IInv, TargetInv, EntriesOf, Reversed, Logged
<1>8. AnswerInv'
  BY <1>1, <1>2 DEF IInv, AnswerInv, EntriesOf, Logged
<1>9. ContentionInv'
  BY <1>1, <1>2 DEF IInv, ContentionInv, BalanceAt
<1> QED BY <1>3, <1>4, <1>5, <1>6, <1>7, <1>8, <1>9 DEF IInv

(* A failed update: the balance read is no longer that of the row, so the *)
(* cell had a movement since the read.                                    *)
LEMMA UpdateMissIInv ==
    ASSUME IInv, NEW r \in Requests, UpdateMiss(r)
    PROVE  IInv'
<1> DEFINE c == order[r].cell
<1> USE Basics DEF UpdateMiss
<1>1. /\ pc[r] = "update" /\ pc[r] \in InTx /\ pc[r] \in Checked
      /\ order[r] \in Orders /\ c \in Cells
      /\ outcome[r] = "none"
  BY DEF InTx, Checked, IInv, OrderInv, Orders, AnswerInv
<1>2. /\ \A q \in Requests : pc'[q] # pc[q] => q = r
      /\ \A q \in Requests : outcome'[q] # outcome[q] => q = r
      /\ \A q \in Requests : attempt'[q] = IF q = r THEN attempt[r] + 1 ELSE attempt[q]
      /\ \/ pc'[r] = "read" /\ outcome'[r] = "none" /\ attempt[r] + 1 < MaxAttempts
         \/ pc'[r] = "done" /\ outcome'[r] = "conflict" /\ attempt[r] + 1 >= MaxAttempts
  BY <1>1, MaxAttemptsAssumption DEF IInv, TypeOK
<1>3. UNCHANGED <<active, stock, log, rowLock, order, before, seen, since>>
  OBVIOUS
<1>4. attempt[r] \in Nat /\ attempt[r] < MaxAttempts
  BY <1>1 DEF IInv, TypeOK, ContentionInv
<1> HIDE DEF UpdateMiss
<1>5. TypeOK'
  <2>1. pc' \in [Requests -> {"idle", "done"} \cup InTx] /\ outcome' \in [Requests -> Outcomes]
    BY DEF IInv, TypeOK, InTx, Outcomes, UpdateMiss
  <2>2. attempt' \in [Requests -> 0..MaxAttempts]
    <3>1. attempt[r] + 1 \in 0..MaxAttempts
      BY <1>4, MaxAttemptsAssumption
    <3> QED BY <3>1 DEF IInv, TypeOK, UpdateMiss
  <2> QED BY <1>3, <2>1, <2>2 DEF IInv, TypeOK
<1>6. LockInv'
  <2>1. \A d \in Cells : rowLock[d] # NoRequest =>
           rowLock[d] \in Requests /\ pc[rowLock[d]] \in Holding /\ rowLock[d] # r
    BY <1>1 DEF IInv, LockInv, TypeOK, Ids, Holding
  <2>2. \A q \in Requests : pc'[q] \in Holding => q # r /\ pc[q] \in Holding
    BY <1>2 DEF Holding
  <2> QED BY <1>2, <1>3, <2>1, <2>2 DEF IInv, LockInv
<1>7. OrderInv'
  <2>1. \A q \in Requests : pc'[q] \in InTx => pc[q] \in InTx
    BY <1>1, <1>2
  <2> QED BY <1>3, <2>1 DEF IInv, OrderInv, EntriesOf
<1>8. BalanceInv'
  <2>1. \A q \in Requests : pc'[q] \in Checked => pc'[q] = pc[q]
    BY <1>1, <1>2 DEF Checked
  <2> QED BY <1>3, <2>1 DEF IInv, BalanceInv
<1>9. TargetInv'
  <2>1. \A q \in Requests : pc'[q] \in InTx => pc[q] \in InTx /\ (pc'[q] = "commit" => pc[q] = "commit")
    BY <1>1, <1>2
  <2> QED BY <1>3, <2>1 DEF IInv, TargetInv, EntriesOf, Reversed, Logged
<1>10. AnswerInv'
  <2>1. \A d \in Cells : \A m \in EntriesOf(d) : m.id \in Requests /\ m.id # r
    BY <1>1, LogTyped DEF IInv, AnswerInv
  <2> QED BY <1>1, <1>2, <1>3, <2>1 DEF IInv, AnswerInv, EntriesOf, Logged
<1>11. ContentionInv'
  <2>1. /\ since[r] \in Nat /\ seen[r] \in Nat /\ Len(log[c]) \in Nat
        /\ since[r] + attempt[r] <= seen[r] /\ seen[r] <= Len(log[c])
        /\ before[r] = BalanceAt(c, seen[r])
    BY <1>1, LogTyped DEF IInv, TypeOK, ContentionInv
  <2>2. seen[r] < Len(log[c])
    BY <2>1 DEF BalanceAt, UpdateMiss
  <2>3. since[r] + attempt[r] + 1 <= Len(log[c])
    BY <1>4, <2>1, <2>2
  <2>4. ASSUME NEW q \in Requests, q # r
        PROVE  pc'[q] = pc[q] /\ outcome'[q] = outcome[q] /\ attempt'[q] = attempt[q]
    BY <1>2, <2>4
  <2> SUFFICES ASSUME NEW q \in Requests
        PROVE /\ pc'[q] = "idle" => attempt'[q] = 0
              /\ pc'[q] = "read" =>
                    /\ attempt'[q] < MaxAttempts
                    /\ since'[q] + attempt'[q] <= Len(log'[order'[q].cell])
              /\ pc'[q] = "update" =>
                    /\ attempt'[q] < MaxAttempts
                    /\ since'[q] + attempt'[q] <= seen'[q]
                    /\ seen'[q] <= Len(log'[order'[q].cell])
                    /\ before'[q] = BalanceAt(order[q].cell, seen[q])'
              /\ outcome'[q] = "conflict" =>
                    /\ order'[q] \in Orders
                    /\ since'[q] + MaxAttempts <= Len(log'[order'[q].cell])
    BY DEF ContentionInv
  <2>5. CASE q # r
    BY <1>3, <2>4, <2>5 DEF IInv, ContentionInv, BalanceAt
  <2>6. CASE q = r
    <3>1. attempt'[r] = attempt[r] + 1 /\ since'[r] = since[r]
      BY <1>2, <1>3
    <3>2. order'[r] = order[r] /\ Len(log'[order'[r].cell]) = Len(log[c])
      BY <1>3
    <3>3. CASE pc'[r] = "read" /\ outcome'[r] = "none" /\ attempt[r] + 1 < MaxAttempts
      <4>1. since[r] + (attempt[r] + 1) <= Len(log[c])
        BY <1>4, <2>1, <2>3
      <4> QED BY <4>1, <3>1, <3>2, <3>3, <2>6
    <3>4. CASE pc'[r] = "done" /\ outcome'[r] = "conflict" /\ attempt[r] + 1 >= MaxAttempts
      <4>1. since[r] + MaxAttempts <= Len(log[c])
        BY <1>4, <2>1, <2>3, <3>4, MaxAttemptsAssumption
      <4> QED BY <4>1, <3>1, <3>2, <3>4, <1>1, <2>6
    <3> QED BY <3>3, <3>4, <1>2
  <2> QED BY <2>5, <2>6
<1> QED BY <1>5, <1>6, <1>7, <1>8, <1>9, <1>10, <1>11 DEF IInv

(* The index decides on a reversal while the row is held.                 *)
LEMMA InsertIInv ==
    ASSUME IInv, NEW r \in Requests, InsertMovement(r)
    PROVE  IInv'
<1> USE Basics
<1>1. pc[r] = "insert" /\ pc[r] \in InTx /\ pc[r] \in Checked /\ pc[r] \in Holding
  BY DEF InsertMovement, InTx, Checked, Holding
<1>2. CASE Fail(r, "refused")
  BY <1>1, <1>2, FailIInv DEF Outcomes
<1>3. CASE /\ ~(order[r].target # NoRequest /\ Reversed(order[r].target))
           /\ pc' = [pc EXCEPT ![r] = "commit"]
           /\ UNCHANGED <<active, stock, log, rowLock, outcome, local>>
  <2>1. \A q \in Requests : pc'[q] = IF q = r THEN "commit" ELSE pc[q]
    BY <1>3 DEF IInv, TypeOK
  <2>2. "commit" \in Holding
    BY DEF Holding
  <2>3. UNCHANGED <<active, stock, log, rowLock, outcome, order, attempt, before, seen, since>>
    BY <1>3 DEF local
  <2>4. TypeOK'
    BY <1>3, <2>3 DEF IInv, TypeOK, InTx
  <2>5. LockInv'
    <3>1. \A d \in Cells : rowLock[d] # NoRequest => rowLock[d] \in Requests
      BY DEF IInv, TypeOK, Ids
    <3> QED BY <1>1, <2>1, <2>2, <2>3, <3>1 DEF IInv, LockInv
  <2>6. OrderInv'
    BY <1>1, <2>1, <2>3 DEF IInv, OrderInv, EntriesOf
  <2>7. BalanceInv'
    BY <1>1, <2>1, <2>3 DEF IInv, BalanceInv
  <2>8. TargetInv'
    <3> SUFFICES ASSUME NEW q \in Requests, pc'[q] \in InTx, order'[q].target # NoRequest
                 PROVE  /\ \E m \in EntriesOf(order[q].cell)' :
                             /\ m.id = order'[q].target
                             /\ m.reverses = NoRequest
                             /\ m.qty = order'[q].amount
                        /\ pc'[q] = "commit" => ~Reversed(order[q].target)'
      BY DEF TargetInv
    <3>1. pc[q] \in InTx /\ order[q].target # NoRequest
      BY <1>1, <2>1, <2>3
    <3>2. pc'[q] = "commit" => ~Reversed(order[q].target)
      BY <3>1, <1>3, <2>1 DEF IInv, TargetInv
    <3>3. pc'[q] = "commit" => ~Reversed(order[q].target)'
      BY <3>2, <2>3 DEF Reversed, EntriesOf, Logged
    <3>4. \E m \in EntriesOf(order[q].cell) :
             m.id = order[q].target /\ m.reverses = NoRequest /\ m.qty = order[q].amount
      BY <3>1 DEF IInv, TargetInv
    <3> QED BY <3>3, <3>4, <2>3 DEF EntriesOf
  <2>9. AnswerInv'
    <3>1. outcome[r] = "none"
      BY <1>1 DEF IInv, AnswerInv
    <3>2. \A d \in Cells : \A m \in EntriesOf(d) : m.id \in Requests /\ m.id # r
      BY <1>1, LogTyped DEF IInv, AnswerInv
    <3> QED BY <2>1, <2>3, <3>1, <3>2 DEF IInv, AnswerInv, EntriesOf, Logged
  <2>10. ContentionInv'
    BY <1>1, <2>1, <2>3 DEF IInv, ContentionInv, BalanceAt
  <2> QED BY <2>4, <2>5, <2>6, <2>7, <2>8, <2>9, <2>10 DEF IInv
<1> QED BY <1>2, <1>3 DEF InsertMovement

(* What a commit adds: the entry of the request, on the balance of its    *)
(* row, and nothing anywhere else.                                        *)
LEMMA CommitFacts ==
    ASSUME IInv, NEW r \in Requests, Commit(r),
           NEW c, c = order[r].cell,
           NEW n, n = AfterOrder(order[r], before[r]),
           NEW e, e = [id |-> r, qty |-> n - before[r], before |-> before[r],
                       after |-> n, reverses |-> order[r].target]
    PROVE  /\ order[r] \in Orders /\ Permitted(order[r]) /\ c \in Cells
           /\ before[r] = stock[c] /\ stock[c] \in Levels /\ n \in Levels
           /\ e \in Movements
           /\ \A d \in Cells : stock'[d] = IF d = c THEN n ELSE stock[d]
           /\ \A d \in Cells : d # c => log'[d] = log[d]
           /\ log'[c] = Append(log[c], e)
           /\ Len(log[c]) \in Nat /\ Len(log'[c]) = Len(log[c]) + 1
           /\ DOMAIN log[c] = 1..Len(log[c])
           /\ DOMAIN log'[c] = 1..(Len(log[c]) + 1)
           /\ \A i \in 1..Len(log[c]) : log'[c][i] = log[c][i]
           /\ log'[c][Len(log[c]) + 1] = e
           /\ log' \in [Cells -> Seq(Movements)]
           /\ \A q \in Requests : q # r /\ pc[q] \in Holding => order[q].cell # c
<1> USE Basics
<1>1. pc[r] = "commit" /\ pc[r] \in Holding /\ pc[r] \in Checked /\ pc[r] \in InTx
  BY DEF Commit, Holding, Checked, InTx
<1>2. order[r] \in Orders /\ Permitted(order[r]) /\ c \in Cells
  BY <1>1 DEF IInv, OrderInv, Orders
<1>3. before[r] = stock[c] /\ stock[c] \in Levels /\ n \in Levels
  BY <1>1, <1>2 DEF IInv, BalanceInv, TypeOK
<1>4. e \in Movements
  BY <1>2, <1>3 DEF Movements, Orders, Levels, Ids
<1>5. log[c] \in Seq(Movements) /\ log'[c] = Append(log[c], e)
  BY <1>2 DEF IInv, TypeOK, Commit
<1>6. log' = [log EXCEPT ![c] = Append(log[c], e)]
  BY DEF Commit
<1>7. \A d \in Cells : stock'[d] = IF d = c THEN n ELSE stock[d]
  BY DEF Commit, IInv, TypeOK
<1>8. \A d \in Cells : d # c => log'[d] = log[d]
  BY <1>6 DEF IInv, TypeOK
<1>9. /\ Append(log[c], e) \in Seq(Movements)
      /\ Len(log[c]) \in Nat /\ Len(log'[c]) = Len(log[c]) + 1
      /\ DOMAIN log[c] = 1..Len(log[c])
      /\ DOMAIN log'[c] = 1..(Len(log[c]) + 1)
      /\ \A i \in 1..Len(log[c]) : log'[c][i] = log[c][i]
      /\ log'[c][Len(log[c]) + 1] = e
  BY <1>4, <1>5, AbsP!AppendIndices
<1>10. log' \in [Cells -> Seq(Movements)]
  BY <1>6, <1>9 DEF IInv, TypeOK
<1>11. \A q \in Requests : q # r /\ pc[q] \in Holding => order[q].cell # c
  BY <1>1 DEF IInv, LockInv
<1> QED BY <1>2, <1>3, <1>4, <1>5, <1>7, <1>8, <1>9, <1>10, <1>11

LEMMA CommitIInv ==
    ASSUME IInv, NEW r \in Requests, Commit(r)
    PROVE  IInv'
<1>a. PICK c : c = order[r].cell
  OBVIOUS
<1>b. PICK n : n = AfterOrder(order[r], before[r])
  OBVIOUS
<1>c. PICK e : e = [id |-> r, qty |-> n - before[r], before |-> before[r],
                    after |-> n, reverses |-> order[r].target]
  OBVIOUS
<1>d. PICK k : k = Len(log[c])
  OBVIOUS
<1> USE Basics
<1>1. pc[r] = "commit" /\ pc[r] \in InTx
  BY DEF Commit, InTx
<1>2. /\ order[r] \in Orders /\ Permitted(order[r]) /\ c \in Cells
      /\ before[r] = stock[c] /\ stock[c] \in Levels /\ n \in Levels
      /\ e \in Movements
      /\ \A d \in Cells : stock'[d] = IF d = c THEN n ELSE stock[d]
      /\ \A d \in Cells : d # c => log'[d] = log[d]
      /\ k \in Nat /\ Len(log'[c]) = k + 1
      /\ DOMAIN log[c] = 1..k
      /\ DOMAIN log'[c] = 1..(k + 1)
      /\ \A i \in 1..k : log'[c][i] = log[c][i]
      /\ log'[c][k + 1] = e
      /\ log' \in [Cells -> Seq(Movements)]
      /\ \A q \in Requests : q # r /\ pc[q] \in Holding => order[q].cell # c
  BY <1>a, <1>b, <1>c, <1>d, CommitFacts
<1>3. /\ e.id = r /\ e.qty = n - before[r] /\ e.before = before[r]
      /\ e.after = n /\ e.reverses = order[r].target
  BY <1>c
<1>4. /\ \A q \in Requests : pc'[q] = IF q = r THEN "done" ELSE pc[q]
      /\ \A q \in Requests : outcome'[q] = IF q = r THEN "ok" ELSE outcome[q]
      /\ \A d \in Cells : rowLock'[d] = IF d = c THEN NoRequest ELSE rowLock[d]
      /\ UNCHANGED <<active, order, attempt, before, seen, since>>
  BY <1>a DEF Commit, local, IInv, TypeOK
<1>5. TypeOK'
  <2>1. stock' \in [Cells -> Levels \cup {NoRow}]
    BY <1>2 DEF IInv, TypeOK, Commit
  <2>2. /\ rowLock' \in [Cells -> Ids]
        /\ pc' \in [Requests -> {"idle", "done"} \cup InTx]
        /\ outcome' \in [Requests -> Outcomes]
    BY DEF Commit, IInv, TypeOK, Ids, Outcomes
  <2> QED BY <1>2, <1>4, <2>1, <2>2 DEF IInv, TypeOK
<1>6. \A d \in Cells : \A m : m \in EntriesOf(d)' <=>
          m \in EntriesOf(d) \/ (d = c /\ m = e)
  <2>1. \A d \in Cells : d # c => EntriesOf(d)' = EntriesOf(d)
    BY <1>2 DEF EntriesOf
  <2>2. ASSUME NEW m, m \in EntriesOf(c)' PROVE m \in EntriesOf(c) \/ m = e
    <3>1. PICK i \in 1..(k + 1) : m = log'[c][i]
      BY <2>2, <1>2 DEF EntriesOf
    <3>2. CASE i = k + 1
      BY <3>1, <3>2, <1>2
    <3>3. CASE i \in 1..k
      BY <3>1, <3>3, <1>2 DEF EntriesOf
    <3> QED BY <3>2, <3>3, <1>2
  <2>3. ASSUME NEW m, m \in EntriesOf(c) \/ m = e PROVE m \in EntriesOf(c)'
    <3>1. CASE m = e
      <4>1. k + 1 \in DOMAIN log'[c]
        BY <1>2
      <4> QED BY <4>1, <3>1, <1>2 DEF EntriesOf
    <3>2. CASE m \in EntriesOf(c)
      <4>1. PICK i \in 1..k : m = log[c][i]
        BY <3>2, <1>2 DEF EntriesOf
      <4>2. i \in DOMAIN log'[c] /\ log'[c][i] = m
        BY <4>1, <1>2
      <4> QED BY <4>2 DEF EntriesOf
    <3> QED BY <2>3, <3>1, <3>2
  <2> QED BY <2>1, <2>2, <2>3, <1>2
<1>7. \A d \in Cells : \A m \in EntriesOf(d) : m.id \in Requests /\ m.id # r
  BY <1>1, LogTyped DEF IInv, AnswerInv
<1>8. LockInv'
  <2>1. \A d \in Cells : rowLock[d] # NoRequest => rowLock[d] \in Requests
    BY DEF IInv, TypeOK, Ids
  <2>2. rowLock[c] = r
    BY <1>1, <1>a DEF IInv, LockInv, Holding
  <2>3. \A d \in Cells : rowLock'[d] # NoRequest =>
           d # c /\ rowLock'[d] = rowLock[d] /\ rowLock[d] # r
    <3>1. \A d \in Cells : rowLock[d] = r => d = c
      BY <1>a DEF IInv, LockInv
    <3> QED BY <3>1, <1>4
  <2>4. \A q \in Requests : pc'[q] \in Holding =>
           q # r /\ pc[q] \in Holding /\ order[q].cell # c /\ order[q].cell \in Cells
    BY <1>2, <1>4 DEF IInv, OrderInv, Orders
  <2> QED BY <1>4, <2>1, <2>3, <2>4 DEF IInv, LockInv
<1>9. OrderInv'
  <2>1. \A q \in Requests : pc'[q] \in InTx => order'[q] \in Orders /\ Permitted(order'[q])
    BY <1>4 DEF IInv, OrderInv
  <2>2. ASSUME NEW d \in Cells, NEW m \in EntriesOf(d)'
        PROVE  /\ order'[m.id] \in Orders /\ Permitted(order'[m.id])
               /\ order'[m.id].cell = d
               /\ order'[m.id].target = m.reverses
               /\ m.after = AfterOrder(order'[m.id], m.before)
               /\ m.qty = m.after - m.before
    <3>1. CASE m \in EntriesOf(d)
      BY <3>1, <1>4 DEF IInv, OrderInv
    <3>2. CASE d = c /\ m = e
      BY <3>2, <1>2, <1>3, <1>4, <1>a, <1>b
    <3> QED BY <3>1, <3>2, <1>6
  <2> QED BY <2>1, <2>2 DEF OrderInv
<1>10. BalanceInv'
  <2> SUFFICES ASSUME NEW q \in Requests, pc'[q] \in Checked
               PROVE  /\ stock'[order[q].cell] # NoRow
                      /\ AfterOrder(order[q], before[q]) \in Levels
                      /\ pc'[q] \in Holding => stock'[order[q].cell] = before[q]
    BY <1>4 DEF BalanceInv
  <2>1. q # r /\ pc[q] \in Checked /\ pc'[q] = pc[q] /\ order[q].cell \in Cells
    BY <1>4 DEF IInv, OrderInv, Orders
  <2>2. stock'[order[q].cell] # NoRow
    BY <1>2, <2>1 DEF IInv, BalanceInv
  <2>3. pc[q] \in Holding => stock'[order[q].cell] = stock[order[q].cell]
    BY <1>2, <2>1
  <2> QED BY <2>1, <2>2, <2>3 DEF IInv, BalanceInv
<1>11. TargetInv'
  <2> SUFFICES ASSUME NEW q \in Requests, pc'[q] \in InTx, order[q].target # NoRequest
               PROVE  /\ \E m \in EntriesOf(order[q].cell)' :
                           /\ m.id = order[q].target
                           /\ m.reverses = NoRequest
                           /\ m.qty = order[q].amount
                      /\ pc'[q] = "commit" => ~Reversed(order[q].target)'
    BY <1>4 DEF TargetInv, EntriesOf, Reversed, Logged
  <2>1. q # r /\ pc[q] \in InTx /\ pc'[q] = pc[q] /\ order[q].cell \in Cells
    BY <1>4 DEF IInv, OrderInv, Orders
  <2>2. PICK o \in EntriesOf(order[q].cell) :
           o.id = order[q].target /\ o.reverses = NoRequest /\ o.qty = order[q].amount
    BY <2>1 DEF IInv, TargetInv
  <2>3. o \in EntriesOf(order[q].cell)'
    <3>1. PICK b : b = order[q].cell
      OBVIOUS
    <3>2. o \in EntriesOf(b)'
      BY <1>6, <2>1, <2>2, <3>1
    <3> QED BY <3>1, <3>2, <1>4 DEF EntriesOf
  <2>4. ASSUME pc[q] = "commit" PROVE ~Reversed(order[q].target)'
    <3>1. order[q].cell # c
      BY <1>2, <2>1, <2>4 DEF Holding
    <3>2. order[r].target # order[q].target
      <4> SUFFICES ASSUME order[r].target = order[q].target PROVE FALSE
        OBVIOUS
      <4>1. PICK p \in EntriesOf(c) : p.id = order[r].target
        BY <1>1, <1>a DEF IInv, TargetInv
      <4>2. order[p.id].cell = c /\ order[o.id].cell = order[q].cell
        BY <1>2, <2>1, <2>2, <4>1 DEF IInv, OrderInv
      <4> QED BY <2>2, <3>1, <4>1, <4>2
    <3>3. ~Reversed(order[q].target)
      BY <2>1, <2>4 DEF IInv, TargetInv
    <3>4. \A d \in Cells : \A m \in EntriesOf(d)' : m.reverses # order[q].target
      BY <1>3, <1>6, <3>2, <3>3 DEF Reversed, Logged
    <3> QED BY <3>4, <1>4 DEF Reversed, Logged
  <2> QED BY <2>1, <2>2, <2>3, <2>4
<1>12. AnswerInv'
  <2>1. \A d \in Cells : \A m \in EntriesOf(d)' : pc'[m.id] = "done" /\ outcome'[m.id] = "ok"
    BY <1>3, <1>4, <1>6, <1>7 DEF IInv, AnswerInv
  <2>2. ASSUME NEW q \in Requests, outcome'[q] = "ok"
        PROVE  \E d \in Cells : \E m \in EntriesOf(d)' : m.id = q
    <3>1. CASE q = r
      BY <3>1, <1>2, <1>3, <1>6
    <3>2. CASE q # r
      BY <3>2, <2>2, <1>4, <1>6 DEF IInv, AnswerInv, Logged
    <3> QED BY <3>1, <3>2
  <2>3. \A q \in Requests : pc'[q] # "done" => outcome'[q] = "none"
    BY <1>4 DEF IInv, AnswerInv
  <2> QED BY <2>1, <2>2, <2>3 DEF AnswerInv, Logged
<1>13. ContentionInv'
  <2> SUFFICES ASSUME NEW q \in Requests
        PROVE /\ pc'[q] = "idle" => attempt[q] = 0
              /\ pc'[q] = "read" =>
                    /\ attempt[q] < MaxAttempts
                    /\ since[q] + attempt[q] <= Len(log'[order[q].cell])
              /\ pc'[q] = "update" =>
                    /\ attempt[q] < MaxAttempts
                    /\ since[q] + attempt[q] <= seen[q]
                    /\ seen[q] <= Len(log'[order[q].cell])
                    /\ before[q] = BalanceAt(order[q].cell, seen[q])'
              /\ outcome'[q] = "conflict" =>
                    /\ order[q] \in Orders
                    /\ since[q] + MaxAttempts <= Len(log'[order[q].cell])
    BY <1>4 DEF ContentionInv, BalanceAt
  <2>1. CASE q = r
    BY <1>4, <2>1
  <2>2. CASE q # r
    <3>1. pc'[q] = pc[q] /\ outcome'[q] = outcome[q]
      BY <1>4, <2>2
    <3>2. pc[q] \in InTx \/ outcome[q] = "conflict" => order[q].cell \in Cells
      BY DEF IInv, OrderInv, ContentionInv, Orders
    <3>3. ASSUME order[q].cell \in Cells
          PROVE  /\ Len(log[order[q].cell]) \in Nat
                 /\ Len(log[order[q].cell]) <= Len(log'[order[q].cell])
      BY <1>2, <3>3, LogTyped DEF IInv
    <3>4. seen[q] \in Nat /\ since[q] \in Nat /\ attempt[q] \in Nat
      BY DEF IInv, TypeOK
    <3>5. ASSUME pc[q] = "update"
          PROVE  before[q] = BalanceAt(order[q].cell, seen[q])'
      <4>1. /\ order[q].cell \in Cells /\ seen[q] <= Len(log[order[q].cell])
            /\ before[q] = BalanceAt(order[q].cell, seen[q])
        BY <3>2, <3>5 DEF IInv, ContentionInv, InTx
      <4>2. CASE order[q].cell # c
        BY <4>1, <4>2, <1>2, <1>4 DEF BalanceAt
      <4>3. CASE order[q].cell = c /\ seen[q] < k
        <5>1. seen[q] + 1 \in 1..k /\ seen[q] < k + 1
          BY <3>4, <4>3, <1>2
        <5>2. before[q] = log[c][seen[q] + 1].before
          BY <4>1, <4>3, <1>d DEF BalanceAt
        <5> QED BY <5>1, <5>2, <4>3, <1>2, <1>4 DEF BalanceAt
      <4>4. CASE order[q].cell = c /\ seen[q] = k
        <5>1. before[q] = stock[c]
          BY <4>1, <4>4, <1>2, <1>d DEF BalanceAt
        <5> QED BY <5>1, <4>4, <1>2, <1>3, <1>4 DEF BalanceAt
      <4> QED BY <4>1, <4>2, <4>3, <4>4, <3>4, <1>2, <1>d
    <3>6. MaxAttempts \in Nat
      BY MaxAttemptsAssumption
    <3>7. pc'[q] = "idle" => attempt[q] = 0
      BY <3>1 DEF IInv, ContentionInv
    <3>8. pc[q] = "read" =>
             attempt[q] < MaxAttempts /\ since[q] + attempt[q] <= Len(log'[order[q].cell])
      BY <3>2, <3>3, <3>4 DEF IInv, ContentionInv, InTx
    <3>9. pc[q] = "update" =>
             /\ attempt[q] < MaxAttempts
             /\ since[q] + attempt[q] <= seen[q]
             /\ seen[q] <= Len(log'[order[q].cell])
      BY <3>2, <3>3, <3>4 DEF IInv, ContentionInv, InTx
    <3>10. outcome[q] = "conflict" =>
             /\ order[q] \in Orders
             /\ since[q] + MaxAttempts <= Len(log'[order[q].cell])
      BY <3>2, <3>3, <3>4, <3>6 DEF IInv, ContentionInv
    <3> QED BY <3>1, <3>5, <3>7, <3>8, <3>9, <3>10
  <2> QED BY <2>1, <2>2
<1> QED BY <1>5, <1>8, <1>9, <1>10, <1>11, <1>12, <1>13 DEF IInv

(* Opening missing rows and switching branches leaves every row that a    *)
(* request may have read as it is.                                        *)
LEMMA RowsIInv ==
    ASSUME IInv,
           active' \in [Branches -> BOOLEAN],
           stock' \in [Cells -> Levels \cup {NoRow}],
           \A c \in Cells : stock[c] # NoRow => stock'[c] = stock[c],
           UNCHANGED <<log, rowLock, pc, outcome, local>>
    PROVE  IInv'
<1> USE Basics DEF local
<1>1. TypeOK'
  BY DEF IInv, TypeOK
<1>2. LockInv'
  BY DEF IInv, LockInv
<1>3. OrderInv'
  BY DEF IInv, OrderInv, EntriesOf
<1>4. \A q \in Requests : pc[q] \in Checked =>
         stock[order[q].cell] # NoRow /\ stock'[order[q].cell] = stock[order[q].cell]
  BY DEF IInv, OrderInv, BalanceInv, Orders
<1>5. BalanceInv'
  BY <1>4 DEF IInv, BalanceInv
<1>6. TargetInv'
  BY DEF IInv, TargetInv, EntriesOf, Reversed, Logged
<1>7. AnswerInv'
  BY DEF IInv, AnswerInv, EntriesOf, Logged
<1>8. ContentionInv'
  <2>1. \A q \in Requests : pc[q] = "update" =>
           stock'[order[q].cell] = stock[order[q].cell]
    BY <1>4 DEF Checked
  <2> QED BY <2>1 DEF IInv, ContentionInv, BalanceAt
<1> QED BY <1>1, <1>2, <1>3, <1>5, <1>6, <1>7, <1>8 DEF IInv

(* What the rest of the program does to rows and branches.                *)
LEMMA EnvironmentOpensRows ==
    ASSUME IInv,
           \/ \E b \in Branches : Deactivate(b)
           \/ \E b \in Branches : \E ps \in SUBSET Products : Reactivate(b, ps)
           \/ \E p \in Products, initial \in [Branches -> InitialLevels] :
                 EnsureStockForNewProduct(p, initial)
           \/ UNCHANGED vars
    PROVE  /\ active' \in [Branches -> BOOLEAN]
           /\ stock' \in [Cells -> Levels \cup {NoRow}]
           /\ \A c \in Cells : stock[c] # NoRow => stock'[c] = stock[c]
           /\ UNCHANGED <<log, rowLock, pc, outcome, local>>
<1> USE DEF IInv, TypeOK
<1>0. 0 \in Levels
  BY MaxIntAssumption DEF Levels
<1>1. CASE \E b \in Branches : Deactivate(b)
  BY <1>1 DEF Deactivate
<1>2. CASE \E b \in Branches : \E ps \in SUBSET Products : Reactivate(b, ps)
  BY <1>0, <1>2 DEF Reactivate
<1>3. CASE \E p \in Products, initial \in [Branches -> InitialLevels] :
              EnsureStockForNewProduct(p, initial)
  <2>1. PICK p \in Products, initial \in [Branches -> InitialLevels] :
             EnsureStockForNewProduct(p, initial)
    BY <1>3
  <2>2. \A c \in Cells : initial[c[2]] \in Levels
    BY DEF Cells, InitialLevels
  <2> QED BY <2>1, <2>2 DEF EnsureStockForNewProduct
<1>4. CASE UNCHANGED vars
  BY <1>4 DEF vars, local
<1> QED BY <1>1, <1>2, <1>3, <1>4

(* The invariant is inductive.                                            *)
LEMMA NextIInv == IInv /\ [Next]_vars => IInv'
<1> SUFFICES ASSUME IInv, [Next]_vars PROVE IInv'
  OBVIOUS
<1>1. ASSUME NEW r \in Requests, Call(r) PROVE IInv'
  BY <1>1, CreateIInv, ReverseIInv DEF Call
<1>2. ASSUME NEW r \in Requests, Step(r) PROVE IInv'
  BY <1>2, ReadStockIInv, UpdateHitIInv, UpdateMissIInv, InsertIInv, CommitIInv DEF Step
<1>3. ASSUME NEW r \in Requests, Abort(r) PROVE IInv'
  BY <1>3, FailIInv, Basics DEF Abort, Outcomes
<1>4. ASSUME \/ \E b \in Branches : Deactivate(b)
             \/ \E b \in Branches : \E ps \in SUBSET Products : Reactivate(b, ps)
             \/ \E p \in Products, initial \in [Branches -> InitialLevels] :
                   EnsureStockForNewProduct(p, initial)
             \/ UNCHANGED vars
      PROVE  IInv'
  BY <1>4, EnvironmentOpensRows, RowsIInv
<1> QED BY <1>1, <1>2, <1>3, <1>4 DEF Next

-----------------------------------------------------------------------------
(* The inductive invariant holds in every reachable state of the          *)
(* movement service.                                                      *)
THEOREM Invariance == Spec => []IInv
BY InitIInv, NextIInv, PTL DEF Spec

(* Every balance fits its INT4 column and is never negative, and every    *)
(* other part of the state keeps its type.                                *)
THEOREM TypeCorrect == Spec => []TypeOK
<1>1. IInv => TypeOK
  BY DEF IInv
<1> QED BY <1>1, Invariance, PTL

(* Answers hold: a request is answered with success exactly when its      *)
(* movement is in the ledger, nothing being half done whatever fails, and *)
(* retrying after a lost update never changes what it asked for.          *)
THEOREM AnswersAlwaysHold == Spec => []AnswersHold
<1>1. IInv => AllOrNothing
  BY LogTyped DEF IInv, AllOrNothing, AnswerInv, Logged
<1>2. ASSUME IInv PROVE EffectAsOrdered
  <2> SUFFICES ASSUME NEW c \in Cells, NEW m \in EntriesOf(c), NEW o, o = order[m.id]
               PROVE  /\ o.cell = c
                      /\ o.target = m.reverses
                      /\ m.after = AfterOrder(o, m.before)
                      /\ o.target = NoRequest =>
                            CASE o.type = "AJUSTE" -> m.after = o.amount
                              [] o.type = "ENTRADA" -> m.qty = o.amount /\ m.qty > 0
                              [] OTHER -> m.qty = -o.amount /\ m.qty < 0
    BY DEF EffectAsOrdered
  <2>1. /\ o \in Orders /\ Permitted(o) /\ o.cell = c /\ o.target = m.reverses
        /\ m.after = AfterOrder(o, m.before) /\ m.qty = m.after - m.before
    BY <1>2 DEF IInv, OrderInv
  <2>2. m.before \in Int /\ o.amount \in Int /\ o.type \in Types
    BY <1>2, <2>1, LogTyped DEF IInv, Movements, Orders
  <2>3. ASSUME o.target = NoRequest, o.type = "AJUSTE" PROVE m.after = o.amount
    BY <2>1, <2>3 DEF AfterOrder
  <2>4. ASSUME o.target = NoRequest, o.type = "ENTRADA"
        PROVE  m.qty = o.amount /\ m.qty > 0
    <3>1. m.after = m.before + o.amount
      BY <2>1, <2>4 DEF AfterOrder
    <3>2. o.amount > 0
      BY <2>1, <2>4 DEF Permitted
    <3> QED BY <2>1, <2>2, <3>1, <3>2
  <2>5. ASSUME o.target = NoRequest, o.type = "SAIDA"
        PROVE  m.qty = -o.amount /\ m.qty < 0
    <3>1. m.after = m.before - o.amount
      BY <2>1, <2>5 DEF AfterOrder
    <3>2. o.amount > 0
      BY <2>1, <2>5 DEF Permitted
    <3> QED BY <2>1, <2>2, <3>1, <3>2
  <2> QED BY <2>1, <2>2, <2>3, <2>4, <2>5 DEF Types
<1>3. IInv => AnswersHold
  BY <1>1, <1>2 DEF AnswersHold
<1> QED BY <1>3, Invariance, PTL

(* Tenants and branch scopes are respected by every recorded movement,    *)
(* and a seller's only ever lowers a balance.                             *)
THEOREM CallersConfined == Spec => []CallersKeepToTheirCells
<1>1. ASSUME IInv PROVE CallersKeepToTheirCells
  <2> SUFFICES ASSUME NEW c \in Cells, NEW m \in EntriesOf(c), NEW u,
                      u = order[m.id].caller
               PROVE  /\ TenantOf[c[1]] = u.tenant /\ TenantOf[c[2]] = u.tenant
                      /\ c[2] \in u.scope
                      /\ u.role = "SALES" => m.qty < 0 /\ m.reverses = NoRequest
    BY DEF CallersKeepToTheirCells
  <2>1. /\ order[m.id] \in Orders /\ Permitted(order[m.id]) /\ order[m.id].cell = c
        /\ order[m.id].target = m.reverses
    BY <1>1 DEF IInv, OrderInv
  <2>2. InScope(u, c)
    BY <2>1 DEF Permitted
  <2>3. ASSUME u.role = "SALES" PROVE m.qty < 0 /\ m.reverses = NoRequest
    <3>1. order[m.id].type = "SAIDA" /\ order[m.id].target = NoRequest
      BY <2>1, <2>3 DEF Permitted
    <3>2. /\ m.after = m.before - order[m.id].amount /\ m.qty = m.after - m.before
          /\ order[m.id].amount > 0
      BY <1>1, <2>1, <3>1 DEF IInv, OrderInv, AfterOrder, Permitted
    <3>3. m.before \in Int /\ order[m.id].amount \in Int
      BY <1>1, <2>1, LogTyped DEF IInv, Movements, Orders
    <3> QED BY <2>1, <3>1, <3>2, <3>3
  <2> QED BY <2>2, <2>3 DEF InScope, BranchOf
<1> QED BY <1>1, Invariance, PTL

(* MAX_CAS_ATTEMPTS bounds the work without turning away a request that   *)
(* fewer than MAX_CAS_ATTEMPTS movements of its cell have overtaken.      *)
THEOREM ConflictJustified == Spec => []ConflictMeansContention
<1>1. ASSUME IInv PROVE ConflictMeansContention
  <2> SUFFICES ASSUME NEW r \in Requests, outcome[r] = "conflict"
               PROVE  Len(log[order[r].cell]) - since[r] >= MaxAttempts
    BY DEF ConflictMeansContention
  <2>1. order[r].cell \in Cells /\ since[r] + MaxAttempts <= Len(log[order[r].cell])
    BY <1>1 DEF IInv, ContentionInv, Orders
  <2>2. since[r] \in Nat /\ MaxAttempts \in Nat /\ Len(log[order[r].cell]) \in Nat
    BY <1>1, <2>1, LogTyped, MaxAttemptsAssumption DEF IInv, TypeOK
  <2> QED BY <2>1, <2>2
<1> QED BY <1>1, Invariance, PTL

-----------------------------------------------------------------------------
(* A commit posts one entry to the abstract ledger.                       *)
LEMMA CommitPosts ==
    ASSUME IInv, NEW r \in Requests, Commit(r)
    PROVE  AbsP!Next
<1>a. PICK c : c = order[r].cell
  OBVIOUS
<1>b. PICK n : n = AfterOrder(order[r], before[r])
  OBVIOUS
<1>c. PICK e : e = [id |-> r, qty |-> n - before[r], before |-> before[r],
                    after |-> n, reverses |-> order[r].target]
  OBVIOUS
<1>d. PICK t : t = order[r].target
  OBVIOUS
<1>e. PICK q : q = n - before[r]
  OBVIOUS
<1>1. /\ order[r] \in Orders /\ c \in Cells
      /\ before[r] = stock[c] /\ stock[c] \in Levels /\ n \in Levels
      /\ log'[c] = Append(log[c], e)
  BY <1>a, <1>b, <1>c, CommitFacts
<1>2. /\ q \in AbsP!Deltas /\ t \in Requests \cup {NoRequest}
      /\ stock[c] + q = n
  BY <1>1, <1>d, <1>e, MaxIntAssumption DEF Levels, AbsP!Deltas, Orders, Ids
<1>3. pc[r] = "commit" /\ pc[r] \in InTx
  BY DEF Commit, InTx
<1>4. AbsP!Posted = Logged
  BY DEF AbsP!Posted, AbsP!EntriesOf, Logged, EntriesOf
<1>5. \A x \in Logged : x.id # r
  BY <1>3 DEF IInv, AnswerInv, Logged
<1>6. ASSUME t # NoRequest PROVE AbsP!MayCancel(c, q, t)
  <2>1. PICK m \in EntriesOf(c) : m.id = t /\ m.reverses = NoRequest /\ m.qty = order[r].amount
    BY <1>3, <1>6, <1>a, <1>d DEF IInv, TargetInv
  <2>2. n = before[r] - order[r].amount
    BY <1>6, <1>b, <1>d DEF AfterOrder
  <2>3. q = -m.qty
    BY <1>1, <1>e, <2>1, <2>2 DEF Levels, Orders
  <2>4. \A x \in Logged : x.reverses # t
    BY <1>3, <1>6, <1>d DEF IInv, TargetInv, Reversed
  <2>5. m \in AbsP!EntriesOf(c)
    BY <2>1 DEF AbsP!EntriesOf, EntriesOf
  <2> QED BY <2>1, <2>3, <2>4, <2>5, <1>4 DEF AbsP!MayCancel
<1>7. /\ stock' = [stock EXCEPT ![c] = stock[c] + q]
      /\ log' = [log EXCEPT ![c] =
            Append(log[c], [id |-> r, qty |-> q, before |-> stock[c],
                            after |-> stock[c] + q, reverses |-> t])]
  BY <1>a, <1>b, <1>d, <1>e, <1>1, <1>2 DEF Commit
<1>8. AbsP!Post(c, r, q, t)
  <2>1. stock[c] # -1 /\ stock[c] + q \in AbsP!Levels
    BY <1>1, <1>2 DEF Levels, AbsP!Levels
  <2> QED BY <2>1, <1>4, <1>5, <1>6, <1>7 DEF AbsP!Post, AbsP!NoRow
<1> QED BY <1>1, <1>2, <1>8 DEF AbsP!Next

(* Every step of the service is a step of the abstract ledger or leaves   *)
(* it alone.                                                              *)
LEMMA StepSimulation == IInv /\ [Next]_vars => [AbsP!Next]_(AbsP!vars)
<1> SUFFICES ASSUME IInv, [Next]_vars PROVE [AbsP!Next]_(AbsP!vars)
  OBVIOUS
<1> USE DEF AbsP!vars
<1>1. ASSUME NEW r \in Requests, Call(r) PROVE UNCHANGED <<stock, log>>
  BY <1>1 DEF Call, Create, Reverse, Accept, Fail
<1>2. ASSUME NEW r \in Requests, Step(r)
      PROVE  UNCHANGED <<stock, log>> \/ AbsP!Next
  <2>1. CASE ReadStock(r)
    BY <2>1 DEF ReadStock, Fail
  <2>2. CASE UpdateHit(r)
    BY <2>2 DEF UpdateHit
  <2>3. CASE UpdateMiss(r)
    BY <2>3 DEF UpdateMiss
  <2>4. CASE InsertMovement(r)
    BY <2>4 DEF InsertMovement, Fail
  <2>5. CASE Commit(r)
    BY <2>5, CommitPosts
  <2> QED BY <1>2, <2>1, <2>2, <2>3, <2>4, <2>5 DEF Step
<1>3. ASSUME NEW r \in Requests, Abort(r) PROVE UNCHANGED <<stock, log>>
  BY <1>3 DEF Abort, Fail
<1>4. ASSUME \/ \E b \in Branches : Deactivate(b)
             \/ \E b \in Branches : \E ps \in SUBSET Products : Reactivate(b, ps)
             \/ \E p \in Products, initial \in [Branches -> InitialLevels] :
                   EnsureStockForNewProduct(p, initial)
             \/ UNCHANGED vars
      PROVE  [AbsP!Next]_(AbsP!vars)
  <2>1. /\ stock' \in [Cells -> Levels \cup {NoRow}]
        /\ \A c \in Cells : stock[c] # NoRow => stock'[c] = stock[c]
        /\ UNCHANGED log
    BY <1>4, EnvironmentOpensRows
  <2>2. PICK new : new = stock'
    OBVIOUS
  <2>3. AbsP!Open(new)
    BY <2>1, <2>2 DEF AbsP!Open, AbsP!NoRow, NoRow
  <2>4. new \in [Cells -> AbsP!Levels \cup {AbsP!NoRow}]
    BY <2>1, <2>2 DEF AbsP!Levels, AbsP!NoRow, Levels, NoRow
  <2> QED BY <2>3, <2>4 DEF AbsP!Next
<1> QED BY <1>1, <1>2, <1>3, <1>4 DEF Next

(* The movement service implements the ledger: however requests           *)
(* interleave, fail and retry, what is visible is a sequence of atomic    *)
(* postings.                                                              *)
THEOREM ImplementsLedger == Spec => LedgerSpec
<1>1. Init => Abs!Init
  BY MaxIntAssumption DEF Init, Abs!Init, Levels, NoRow, Abs!Levels, Abs!NoRow
<1>2. IInv /\ [Next]_vars => [Abs!Next]_(Abs!vars)
  <2>1. Abs!Levels = AbsP!Levels /\ Abs!Deltas = AbsP!Deltas /\ Abs!NoRow = AbsP!NoRow
    BY DEF Abs!Levels, AbsP!Levels, Abs!Deltas, AbsP!Deltas, Abs!NoRow, AbsP!NoRow
  <2>2. AbsP!Next => Abs!Next
    <3>1. AbsP!Posted = Abs!Posted /\ \A c : AbsP!EntriesOf(c) = Abs!EntriesOf(c)
      BY DEF AbsP!Posted, Abs!Posted, AbsP!EntriesOf, Abs!EntriesOf
    <3>2. \A c, qty, target : AbsP!MayCancel(c, qty, target) <=> Abs!MayCancel(c, qty, target)
      BY <3>1 DEF AbsP!MayCancel, Abs!MayCancel
    <3>3. \A new : AbsP!Open(new) => Abs!Open(new)
      BY <2>1 DEF AbsP!Open, Abs!Open
    <3>4. \A c, id, qty, target : AbsP!Post(c, id, qty, target) => Abs!Post(c, id, qty, target)
      BY <2>1, <3>1, <3>2 DEF AbsP!Post, Abs!Post
    <3> QED BY <2>1, <3>3, <3>4 DEF AbsP!Next, Abs!Next
  <2> QED BY <2>2, StepSimulation DEF Abs!vars, AbsP!vars
<1> QED BY <1>1, <1>2, Invariance, PTL DEF Spec, LedgerSpec, Abs!Spec

(* In every reachable state of the service the balances of a cell chain   *)
(* up, movements are recorded once and cancelled at most once.            *)
THEOREM BooksBalance == Spec => []Books
<1>1. Spec => AbsP!Spec
  <2>1. Init => AbsP!Init
    BY MaxIntAssumption
    DEF Init, AbsP!Init, Levels, NoRow, AbsP!Levels, AbsP!NoRow
  <2> QED BY <2>1, StepSimulation, Invariance, PTL DEF Spec, AbsP!Spec
<1>2. AbsP!Spec => [](AbsP!TypeOK /\ AbsP!Books)
  BY AbsP!LedgerBooks, MaxIntAssumption, NoRequestAssumption
<1>3. AbsP!Books => Books
  BY DEF Books, Abs!Books, AbsP!Books, Abs!Chained, AbsP!Chained,
         Abs!IdsUnique, AbsP!IdsUnique, Abs!CancelsOnce, AbsP!CancelsOnce
<1> QED BY <1>1, <1>2, <1>3, PTL
-----------------------------------------------------------------------------
(* Inactive branches.                                                     *)

Creating(r) == pc[r] \in InTx /\ order[r].target = NoRequest

(* A branch is deactivated while a creation that looked at it is under    *)
(* way.                                                                   *)
Overtakes ==
    \E r \in Requests :
        Creating(r) /\ active[BranchOf(order[r].cell)] /\ ~active'[BranchOf(order[r].cell)]

CreatesInActive == \A r \in Requests : Creating(r) => active[BranchOf(order[r].cell)]

(* A request that goes on with the order it has, while no branch changes. *)
LEMMA GoesOnInActive ==
    ASSUME CreatesInActive, active' = active, order' = order,
           \A r \in Requests : pc'[r] \in InTx => pc[r] \in InTx
    PROVE  CreatesInActive'
BY DEF CreatesInActive, Creating

LEMMA AcceptInActive ==
    ASSUME TypeOK, CreatesInActive, NEW r \in Requests, NEW o, Accept(r, o),
           o.target = NoRequest => active[BranchOf(o.cell)]
    PROVE  CreatesInActive'
<1>1. /\ active' = active /\ order'[r] = o
      /\ \A q \in Requests \ {r} : pc'[q] = pc[q] /\ order'[q] = order[q]
  BY DEF Accept, TypeOK
<1>2. ASSUME NEW q \in Requests, Creating(q)' PROVE active'[BranchOf(order'[q].cell)]
  <2>1. CASE q = r
    BY <1>1, <1>2, <2>1 DEF Creating
  <2>2. CASE q # r
    BY <1>1, <1>2, <2>2 DEF Creating, CreatesInActive
  <2> QED BY <2>1, <2>2
<1> QED BY <1>2 DEF CreatesInActive

LEMMA StepInActive ==
    ASSUME IInv, CreatesInActive, [Next]_vars, ~Overtakes
    PROVE  CreatesInActive'
<1>1. TypeOK /\ pc \in [Requests -> {"idle", "done"} \cup InTx]
  BY DEF IInv, TypeOK
<1>2. ASSUME NEW r \in Requests, NEW why, Fail(r, why) PROVE CreatesInActive'
  <2>1. \A q \in Requests : pc'[q] \in InTx => pc[q] \in InTx
    BY <1>1, <1>2, Basics DEF Fail
  <2> QED BY <1>2, <2>1, GoesOnInActive DEF Fail, local
<1>3. ASSUME NEW r \in Requests, Call(r) PROVE CreatesInActive'
  <2>1. ASSUME NEW u \in Callers, NEW t \in Types, NEW c \in Cells, NEW n \in Qtys \cup {0},
               Create(r, u, t, c, n), ~Fail(r, "refused")
        PROVE  CreatesInActive'
    <3> DEFINE o == [caller |-> u, cell |-> c, type |-> t, amount |-> n, target |-> NoRequest]
    <3>1. Accept(r, o) /\ active[BranchOf(c)]
      BY <2>1 DEF Create, MayCreate
    <3>2. o.cell = c
      OBVIOUS
    <3> HIDE DEF o
    <3> QED BY <1>1, <3>1, <3>2, AcceptInActive
  <2>2. ASSUME NEW u \in Callers, NEW c \in Cells, NEW m \in EntriesOf(c), Reverse(r, u, c, m),
               ~Fail(r, "refused")
        PROVE  CreatesInActive'
    <3> DEFINE o == [caller |-> u, cell |-> c, type |-> order[m.id].type, amount |-> m.qty,
                     target |-> m.id]
    <3>1. Accept(r, o)
      BY <2>2 DEF Reverse
    <3>2. o.target # NoRequest
      BY <1>1, LogTyped, Basics
    <3> HIDE DEF o
    <3> QED BY <1>1, <3>1, <3>2, AcceptInActive
  <2> QED BY <1>2, <1>3, <2>1, <2>2 DEF Call
<1>4. ASSUME NEW r \in Requests, Step(r) PROVE CreatesInActive'
  <2>1. CASE \E why : Fail(r, why)
    BY <1>2, <2>1
  <2>2. CASE ~\E why : Fail(r, why)
    <3>1. /\ active' = active /\ order' = order /\ pc[r] \in InTx
          /\ \A q \in Requests \ {r} : pc'[q] = pc[q]
      BY <1>1, <1>4, <2>2 DEF Step, ReadStock, UpdateHit, UpdateMiss, InsertMovement, Commit,
         local, InTx
    <3> QED BY <3>1, GoesOnInActive
  <2> QED BY <2>1, <2>2
<1>5. ASSUME NEW r \in Requests, Abort(r) PROVE CreatesInActive'
  BY <1>2, <1>5 DEF Abort
<1>6. ASSUME \/ \E b \in Branches : Deactivate(b)
             \/ \E b \in Branches : \E ps \in SUBSET Products : Reactivate(b, ps)
             \/ \E p \in Products, initial \in [Branches -> InitialLevels] :
                   EnsureStockForNewProduct(p, initial)
             \/ UNCHANGED vars
      PROVE  CreatesInActive'
  BY <1>6, EnvironmentOpensRows DEF CreatesInActive, Creating, Overtakes, local
<1> QED BY <1>3, <1>4, <1>5, <1>6 DEF Next

(* Only the movement of a request that is answered with it is recorded.   *)
LEMMA RecordedByCommit ==
    ASSUME IInv, [Next]_vars, NEW c \in Cells, log'[c] # log[c]
    PROVE  \E r \in Requests : /\ pc[r] = "commit" /\ order[r].cell = c
                               /\ log'[c][Len(log'[c])].reverses = order[r].target
<1>1. PICK r \in Requests : Commit(r)
  <2>1. ASSUME NEW r \in Requests, Call(r) \/ Abort(r) \/ Step(r), ~Commit(r)
        PROVE  log' = log
    BY <2>1 DEF Call, Create, Reverse, Accept, Abort, Fail, Step, ReadStock, UpdateHit,
       UpdateMiss, InsertMovement
  <2>2. ASSUME \/ \E b \in Branches : Deactivate(b)
               \/ \E b \in Branches : \E ps \in SUBSET Products : Reactivate(b, ps)
               \/ \E p \in Products, initial \in [Branches -> InitialLevels] :
                     EnsureStockForNewProduct(p, initial)
               \/ UNCHANGED vars
        PROVE  log' = log
    BY <2>2, EnvironmentOpensRows
  <2> QED BY <2>1, <2>2 DEF Next
<1>2. PICK e : e = [id |-> r, qty |-> AfterOrder(order[r], before[r]) - before[r],
                    before |-> before[r], after |-> AfterOrder(order[r], before[r]),
                    reverses |-> order[r].target]
  OBVIOUS
<1>3. /\ log' = [log EXCEPT ![order[r].cell] = Append(@, e)] /\ pc[r] = "commit"
      /\ e.reverses = order[r].target
  BY <1>1, <1>2 DEF Commit
<1>4. order[r].cell = c /\ log'[c] = Append(log[c], e)
  BY <1>3 DEF IInv, TypeOK
<1>5. log[c] \in Seq(Movements)
  BY DEF IInv, TypeOK
<1>6. Append(log[c], e)[Len(Append(log[c], e))] = e
  BY <1>5
<1> QED BY <1>3, <1>4, <1>6

(* The finding about inactive branches, delimited: unless a branch is     *)
(* deactivated between the look of movements.create and its commit, no    *)
(* movement but a reversal is recorded in an inactive branch.             *)
THEOREM OnlyReversalsInInactive ==
    Spec /\ [][~Overtakes]_vars =>
        [][\A c \in Cells : log'[c] # log[c] /\ ~active[BranchOf(c)] =>
              log'[c][Len(log'[c])].reverses # NoRequest]_vars
<1>1. Init => CreatesInActive
  BY DEF Init, CreatesInActive, Creating, InTx
<1>2. IInv /\ CreatesInActive /\ [Next]_vars /\ [~Overtakes]_vars => CreatesInActive'
  <2>1. ASSUME CreatesInActive, UNCHANGED vars PROVE CreatesInActive'
    BY <2>1 DEF vars, CreatesInActive, Creating
  <2> QED BY <2>1, StepInActive
<1>3. IInv /\ CreatesInActive /\ [Next]_vars =>
         [\A c \in Cells : log'[c] # log[c] /\ ~active[BranchOf(c)] =>
             log'[c][Len(log'[c])].reverses # NoRequest]_vars
  <2>1. "commit" \in InTx
    BY DEF InTx
  <2> QED BY <2>1, RecordedByCommit DEF CreatesInActive, Creating
<1> QED BY <1>1, <1>2, <1>3, Invariance, PTL DEF Spec
=============================================================================
