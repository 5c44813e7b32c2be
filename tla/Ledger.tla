------------------------------ MODULE Ledger ------------------------------
(***************************************************************************)
(* What the stock of a distributor promises, with no concurrency in it.   *)
(* A cell is a product in a branch.  Its balance starts when its stock    *)
(* row is opened; after that it changes only by posting one entry, which  *)
(* carries the balance it found and the balance it left.  An entry may    *)
(* cancel an earlier one of the same cell, once, and is never cancelled   *)
(* itself.  StockLedger is shown to implement this specification.         *)
(***************************************************************************)
EXTENDS Integers, Sequences

CONSTANTS
    Cells,    \* product and branch pairs
    Ids,      \* movement identifiers
    NoId,     \* the null of Movement.reversesMovementId
    MaxInt    \* the largest value of a Postgres INT4 column

VARIABLES
    balance,  \* stocks.current of each cell, NoRow while there is no row
    journal   \* the movements of each cell, in the order they took effect

vars == <<balance, journal>>

NoRow == -1
Levels == 0..MaxInt
Deltas == -MaxInt..MaxInt
Entries == [id: Ids, qty: Deltas, before: Levels, after: Levels,
            reverses: Ids \cup {NoId}]

EntriesOf(c) == {journal[c][i] : i \in DOMAIN journal[c]}
Posted == UNION {EntriesOf(c) : c \in Cells}

Init ==
    /\ balance \in [Cells -> Levels \cup {NoRow}]
    /\ journal = [c \in Cells |-> <<>>]

(* Opening writes rows that were missing and touches no other.            *)
Open(new) ==
    /\ \A c \in Cells : new[c] # balance[c] => balance[c] = NoRow
    /\ balance' = new
    /\ UNCHANGED journal

(* An entry cancels an earlier entry of its cell that nothing cancelled   *)
(* yet and that cancels nothing.                                          *)
MayCancel(c, qty, target) ==
    /\ \E o \in EntriesOf(c) : o.id = target /\ o.reverses = NoId /\ qty = -o.qty
    /\ \A x \in Posted : x.reverses # target

Post(c, id, qty, target) ==
    /\ balance[c] # NoRow
    /\ balance[c] + qty \in Levels
    /\ \A x \in Posted : x.id # id
    /\ target # NoId => MayCancel(c, qty, target)
    /\ balance' = [balance EXCEPT ![c] = @ + qty]
    /\ journal' = [journal EXCEPT ![c] =
          Append(@, [id |-> id, qty |-> qty, before |-> balance[c],
                     after |-> balance[c] + qty, reverses |-> target])]

Next ==
    \/ \E new \in [Cells -> Levels \cup {NoRow}] : Open(new)
    \/ \E c \in Cells, id \in Ids, qty \in Deltas, target \in Ids \cup {NoId} :
          Post(c, id, qty, target)

Spec == Init /\ [][Next]_vars

-----------------------------------------------------------------------------
TypeOK ==
    /\ balance \in [Cells -> Levels \cup {NoRow}]
    /\ journal \in [Cells -> Seq(Entries)]

(* Each entry starts from the balance the previous one of its cell left,  *)
(* and the row holds what the last one left.                              *)
Chained(c) ==
    /\ \A i \in DOMAIN journal[c] :
          /\ journal[c][i].after = journal[c][i].before + journal[c][i].qty
          /\ i > 1 => journal[c][i].before = journal[c][i - 1].after
    /\ journal[c] # <<>> => balance[c] = journal[c][Len(journal[c])].after

(* A movement is identified once in the whole ledger.                     *)
IdsUnique ==
    \A c, d \in Cells : \A i \in DOMAIN journal[c], j \in DOMAIN journal[d] :
        journal[c][i].id = journal[d][j].id => c = d /\ i = j

(* A reversal cancels an earlier plain entry of its own cell, and no two  *)
(* reversals cancel the same one.                                         *)
CancelsOnce ==
    \A c \in Cells : \A i \in DOMAIN journal[c] :
        journal[c][i].reverses # NoId =>
            /\ \E j \in 1..(i - 1) :
                  /\ journal[c][j].id = journal[c][i].reverses
                  /\ journal[c][j].reverses = NoId
                  /\ journal[c][i].qty = -journal[c][j].qty
            /\ \A d \in Cells : \A j \in DOMAIN journal[d] :
                  journal[d][j].reverses = journal[c][i].reverses => c = d /\ i = j

Books ==
    /\ \A c \in Cells : Chained(c)
    /\ IdsUnique
    /\ CancelsOnce
=============================================================================
