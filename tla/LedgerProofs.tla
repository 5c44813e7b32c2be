---------------------------- MODULE LedgerProofs --------------------------
(* The books of the abstract ledger balance, for every value of its       *)
(* constants.  TypeOK and Books together are inductive.                   *)
EXTENDS Ledger, SequenceTheorems, TLAPS

LInv == TypeOK /\ Books

(* What appending one entry to a journal does, index by index.            *)
LEMMA AppendIndices ==
    ASSUME NEW S, NEW s \in Seq(S), NEW e \in S
    PROVE  /\ Append(s, e) \in Seq(S)
           /\ Len(s) \in Nat
           /\ Len(Append(s, e)) = Len(s) + 1
           /\ DOMAIN s = 1..Len(s)
           /\ DOMAIN Append(s, e) = 1..(Len(s) + 1)
           /\ \A i \in 1..Len(s) : Append(s, e)[i] = s[i]
           /\ Append(s, e)[Len(s) + 1] = e
           /\ Append(s, e) # <<>>
           /\ s = <<>> <=> Len(s) = 0
<1>1. Append(s, e) \in Seq(S) /\ Len(Append(s, e)) = Len(s) + 1
  BY AppendProperties
<1>2. Len(s) \in Nat /\ DOMAIN s = 1..Len(s)
  BY LenProperties
<1>3. DOMAIN Append(s, e) = 1..(Len(s) + 1)
  BY <1>1, LenProperties
<1>4. s = <<>> <=> Len(s) = 0
  BY EmptySeq
<1> QED BY <1>1, <1>2, <1>3, <1>4, AppendProperties

(* The ledger starts in the invariant.                                    *)
LEMMA InitLInv ==
    ASSUME MaxInt \in Nat
    PROVE  Init => LInv
<1> SUFFICES ASSUME Init PROVE LInv
  OBVIOUS
<1> USE DEF Init
<1>0. DOMAIN <<>> = {}
  <2>1. <<>> \in Seq(Entries) /\ Len(<<>>) = 0
    BY EmptySeq
  <2>2. DOMAIN <<>> = 1..Len(<<>>)
    BY <2>1, LenProperties
  <2> QED BY <2>1, <2>2
<1>1. \A c \in Cells : journal[c] = <<>> /\ DOMAIN journal[c] = {}
  BY <1>0
<1>2. TypeOK
  BY DEF TypeOK
<1>3. Books
  BY <1>1 DEF Books, Chained, IdsUnique, CancelsOnce
<1> QED BY <1>2, <1>3 DEF LInv

(* Opening rows touches no balance that has entries: those cells have a   *)
(* row, because the last entry left a level in it.                        *)
LEMMA OpenLInv ==
    ASSUME MaxInt \in Nat, LInv,
           NEW new \in [Cells -> Levels \cup {NoRow}], Open(new)
    PROVE  LInv'
<1> USE DEF LInv
<1>1. TypeOK'
  BY DEF TypeOK, Open
<1>2. ASSUME NEW c \in Cells PROVE Chained(c)'
  <2>1. journal' = journal
    BY DEF Open
  <2>2. ASSUME journal[c] # <<>> PROVE balance'[c] = balance[c]
    <3>1. journal[c] \in Seq(Entries) /\ Len(journal[c]) \in DOMAIN journal[c]
      BY <2>2 DEF TypeOK
    <3>2. journal[c][Len(journal[c])].after \in Levels
      <4>1. journal[c][Len(journal[c])] \in Entries
        BY <3>1, LenProperties, ElementOfSeq
      <4> QED BY <4>1 DEF Entries
    <3>3. balance[c] \in Levels
      BY <2>2, <3>2 DEF Books, Chained
    <3>4. balance[c] # NoRow
      BY <3>3 DEF Levels, NoRow
    <3> QED BY <3>4 DEF Open
  <2>3. Chained(c)
    BY DEF Books
  <2> QED BY <2>1, <2>2, <2>3 DEF Chained
<1>3. IdsUnique' /\ CancelsOnce'
  BY DEF Books, Open, IdsUnique, CancelsOnce
<1> QED BY <1>1, <1>2, <1>3 DEF Books

(* Posting one entry keeps the books.                                     *)
LEMMA PostLInv ==
    ASSUME MaxInt \in Nat, NoId \notin Ids, LInv,
           NEW c \in Cells, NEW id \in Ids, NEW qty \in Deltas,
           NEW target \in Ids \cup {NoId}, Post(c, id, qty, target)
    PROVE  LInv'
<1> DEFINE e == [id |-> id, qty |-> qty, before |-> balance[c],
                 after |-> balance[c] + qty, reverses |-> target]
           n == Len(journal[c])
<1> USE DEF LInv
<1>1. balance[c] \in Levels /\ e \in Entries
  BY DEF TypeOK, Post, Entries
<1>2. /\ journal[c] \in Seq(Entries)
      /\ journal' = [journal EXCEPT ![c] = Append(journal[c], e)]
      /\ balance' = [balance EXCEPT ![c] = balance[c] + qty]
  BY DEF TypeOK, Post
<1>3. /\ Append(journal[c], e) \in Seq(Entries)
      /\ n \in Nat
      /\ Len(journal'[c]) = n + 1
      /\ DOMAIN journal[c] = 1..n
      /\ DOMAIN journal'[c] = 1..(n + 1)
      /\ \A i \in 1..n : journal'[c][i] = journal[c][i]
      /\ journal'[c][n + 1] = e
      /\ journal'[c] # <<>>
      /\ journal[c] = <<>> <=> n = 0
  BY <1>1, <1>2, AppendIndices DEF TypeOK
<1>4. \A d \in Cells : d # c => journal'[d] = journal[d] /\ balance'[d] = balance[d]
  BY <1>2 DEF TypeOK
<1> HIDE DEF e, n
<1>5. /\ e.id = id /\ e.qty = qty /\ e.before = balance[c]
      /\ e.after = balance[c] + qty /\ e.reverses = target
  BY DEF e
<1>6. TypeOK'
  BY <1>1, <1>2, <1>3 DEF TypeOK, Post
<1>7. ASSUME NEW d \in Cells PROVE Chained(d)'
  <2>1. CASE d # c
    BY <2>1, <1>4 DEF Books, Chained
  <2>2. CASE d = c
    <3>1. balance'[c] = e.after
      BY <1>2, <1>5 DEF TypeOK
    <3>2. n > 0 => e.before = journal[c][n].after
      BY <1>3, <1>5 DEF Books, Chained
    <3>3. ASSUME NEW i \in 1..(n + 1)
          PROVE  /\ journal'[c][i].after = journal'[c][i].before + journal'[c][i].qty
                 /\ i > 1 => journal'[c][i].before = journal'[c][i - 1].after
      <4>1. CASE i \in 1..n
        <5>1. i > 1 => i - 1 \in 1..n
          BY <4>1, <1>3
        <5> QED BY <4>1, <5>1, <1>3 DEF Books, Chained
      <4>2. CASE i = n + 1
        <5>1. journal'[c][i] = e
          BY <4>2, <1>3
        <5>2. i > 1 => i - 1 = n /\ n \in 1..n
          BY <4>2, <1>3
        <5>3. i > 1 => journal'[c][i - 1] = journal[c][n]
          BY <5>2, <1>3
        <5> QED BY <5>1, <5>2, <5>3, <3>2, <1>5
      <4> QED BY <4>1, <4>2, <1>3
    <3> QED BY <2>2, <3>1, <3>3, <1>3 DEF Chained
  <2> QED BY <2>1, <2>2
<1>8. \A d \in Cells : \A j \in DOMAIN journal[d] :
          /\ journal[d][j].id # id
          /\ target # NoId => journal[d][j].reverses # target
  BY <1>3 DEF Post, MayCancel, Posted, EntriesOf
<1>9. \A d \in Cells : \A j \in DOMAIN journal'[d] :
          \/ j \in DOMAIN journal[d] /\ journal'[d][j] = journal[d][j]
          \/ d = c /\ j = n + 1 /\ journal'[d][j] = e
  BY <1>3, <1>4
<1>10. IdsUnique'
  BY <1>8, <1>9, <1>5, <1>3 DEF Books, IdsUnique
<1>11. ASSUME NEW d \in Cells, NEW i \in DOMAIN journal'[d],
              journal'[d][i].reverses # NoId
       PROVE  /\ \E j \in 1..(i - 1) :
                    /\ journal'[d][j].id = journal'[d][i].reverses
                    /\ journal'[d][j].reverses = NoId
                    /\ journal'[d][i].qty = -journal'[d][j].qty
              /\ \A k \in Cells : \A j \in DOMAIN journal'[k] :
                    journal'[k][j].reverses = journal'[d][i].reverses => d = k /\ i = j
  <2>1. CASE i \in DOMAIN journal[d] /\ journal'[d][i] = journal[d][i]
    <3>1. journal[d][i].reverses # NoId
      BY <2>1, <1>11
    <3>2. PICK j \in 1..(i - 1) :
             /\ journal[d][j].id = journal[d][i].reverses
             /\ journal[d][j].reverses = NoId
             /\ journal[d][i].qty = -journal[d][j].qty
      BY <3>1, <2>1 DEF Books, CancelsOnce
    <3>3. journal'[d][j] = journal[d][j]
      <4>1. CASE d # c
        BY <4>1, <1>4
      <4>2. CASE d = c
        BY <4>2, <2>1, <1>3
      <4> QED BY <4>1, <4>2
    <3>4. ASSUME NEW k \in Cells, NEW l \in DOMAIN journal'[k],
                 journal'[k][l].reverses = journal'[d][i].reverses
          PROVE  d = k /\ i = l
      <4>1. CASE l \in DOMAIN journal[k] /\ journal'[k][l] = journal[k][l]
        BY <4>1, <3>1, <3>4, <2>1 DEF Books, CancelsOnce
      <4>2. CASE k = c /\ l = n + 1 /\ journal'[k][l] = e
        BY <4>2, <3>1, <3>4, <2>1, <1>5, <1>8
      <4> QED BY <4>1, <4>2, <1>9
    <3> QED BY <3>2, <3>3, <3>4, <2>1
  <2>2. CASE d = c /\ i = n + 1 /\ journal'[d][i] = e
    <3>1. target # NoId
      BY <2>2, <1>5, <1>11
    <3>2. PICK o \in EntriesOf(c) : o.id = target /\ o.reverses = NoId /\ qty = -o.qty
      BY <3>1 DEF Post, MayCancel
    <3>3. PICK j \in 1..n : journal[c][j] = o
      BY <3>2, <1>3 DEF EntriesOf
    <3>4. j \in 1..(i - 1) /\ journal'[d][j] = o
      BY <2>2, <3>3, <1>3
    <3>5. ASSUME NEW k \in Cells, NEW l \in DOMAIN journal'[k],
                 journal'[k][l].reverses = journal'[d][i].reverses
          PROVE  d = k /\ i = l
      BY <3>5, <3>1, <2>2, <1>5, <1>8, <1>9
    <3> QED BY <3>2, <3>4, <3>5, <2>2, <1>5
  <2> QED BY <2>1, <2>2, <1>9
<1>12. CancelsOnce'
  BY <1>11 DEF CancelsOnce
<1> QED BY <1>6, <1>7, <1>10, <1>12 DEF Books

(* In every behaviour of the ledger the balances chain up, identifiers    *)
(* are used once and a movement is cancelled at most once, exactly.       *)
THEOREM LedgerBooks ==
    ASSUME MaxInt \in Nat, NoId \notin Ids
    PROVE  Spec => [](TypeOK /\ Books)
<1>1. Init => LInv
  BY InitLInv
<1>2. LInv /\ [Next]_vars => LInv'
  <2> SUFFICES ASSUME LInv, [Next]_vars PROVE LInv'
    OBVIOUS
  <2>1. CASE Next
    BY <2>1, OpenLInv, PostLInv DEF Next
  <2>2. CASE UNCHANGED vars
    BY <2>2 DEF vars, LInv, TypeOK, Books, Chained, IdsUnique, CancelsOnce
  <2> QED BY <2>1, <2>2
<1>3. LInv => TypeOK /\ Books
  BY DEF LInv
<1> QED BY <1>1, <1>2, <1>3, PTL DEF Spec
=============================================================================
