---------------------------- MODULE CatalogProofs ---------------------------
(***************************************************************************)
(* Theorems about Sku and Catalog, for any products, branches, requests,  *)
(* bases and plans: the SKUs that are generated, the plan's limits, the   *)
(* stock rows of active pairs and the branches that must stay active.     *)
(***************************************************************************)
EXTENDS Catalog, FiniteSetTheorems, SequenceTheorems, TLAPS

(* The operations that lock the tenant row.                               *)
Locked == {"newProduct", "reactivate", "newBranch", "onboard", "updateBranch"}

(* Where each kind of operation can be, and what its checks have seen.    *)
Phase(r) ==
    /\ pc[r] \in {"lock", "check"} => op[r].kind \in Locked
    /\ pc[r] = "plain" => op[r].kind = "plain" /\ product[op[r].id] # "none"
    /\ pc[r] = "insert" => op[r].kind \in {"newProduct", "newInactive"}
    /\ pc[r] = "share" => op[r].kind = "newInactive"
    /\ pc[r] \in {"ensure", "commit"} => op[r].kind \in Locked \cup {"newInactive"}
    /\ pc[r] = "ensure" =>
          /\ op[r].kind # "onboard"
          /\ op[r].kind = "updateBranch" => op[r].to /\ branch[op[r].id] = "inactive"
    /\ op[r].kind = "updateBranch" => branch[op[r].id] # "none"
    /\ pc[r] \notin {"commit", "done"} => found[r] = {}

(* What was counted under the tenant's lock still holds: nothing else     *)
(* takes a slot meanwhile, a plain update not counted.                    *)
Counted(r) ==
    /\ pc[r] \in {"insert", "ensure", "commit"} /\ op[r].kind \in {"newProduct", "reactivate"} =>
          Cardinality(ActiveProducts \ stale) < MaxProducts[plan]
    /\ pc[r] \in {"ensure", "commit"} /\ op[r].kind = "newBranch" => BranchSlotFree
    /\ pc[r] \in {"ensure", "commit"} /\ op[r].kind = "updateBranch" =>
          IF op[r].to THEN branch[op[r].id] = "active" \/ BranchSlotFree
                      ELSE branch[op[r].id] = "inactive" \/ MayDeactivate(op[r].id)
    /\ pc[r] = "commit" /\ op[r].kind = "onboard" => \A b \in Branches : branch[b] = "none"

(* The rows to be opened are those the other side still asks for.         *)
RowsFound(r) ==
    pc[r] = "commit" =>
        /\ found[r] \subseteq IF OfProduct(op[r]) THEN Branches ELSE Products
        /\ op[r].kind \in {"newProduct", "reactivate"} => ActiveBranches \subseteq found[r]
        /\ op[r].kind = "newBranch" => ActiveProducts \ stale \subseteq found[r]
        /\ op[r].kind = "updateBranch" /\ op[r].to /\ branch[op[r].id] = "inactive" =>
              ActiveProducts \ stale \subseteq found[r]

(* The tenant row is held by exactly the operation whose phase says so,   *)
(* and nobody else has a share of it.                                     *)
LockInv ==
    /\ \A r \in Requests : pc[r] \in InTx /\ op[r].kind \in Locked => tenantLock = r
    /\ tenantLock # NoRequest =>
          /\ op[tenantLock].kind \in Locked /\ pc[tenantLock] \in InTx
          /\ Sharers = {}

Ready(r) == Phase(r) /\ Counted(r) /\ RowsFound(r)

IInv ==
    /\ TypeOK
    /\ LockInv
    /\ \A r \in Requests : Ready(r)
    /\ BranchesAnchored
    /\ PairsStocked
-----------------------------------------------------------------------------
(* The order of SKUs.                                                     *)

(* A finite set with a total and transitive relation has a last element:  *)
(* the smallest subset without one would have one.                        *)
LEMMA FiniteTop ==
    ASSUME NEW S, IsFiniteSet(S), S # {}, NEW R,
           \A x, y \in S : x # y => <<x, y>> \in R \/ <<y, x>> \in R,
           \A x, y, z \in S : <<x, y>> \in R /\ <<y, z>> \in R => <<x, z>> \in R
    PROVE  \E m \in S : \A x \in S \ {m} : <<x, m>> \in R
<1> DEFINE Topped(T) == \E m \in T : \A x \in T \ {m} : <<x, m>> \in R
           Bad == {T \in SUBSET S : T # {} /\ ~Topped(T)}
<1>1. SUFFICES ASSUME Bad # {} PROVE FALSE
  <2>1. S \notin Bad => Topped(S)
    OBVIOUS
  <2> QED BY <2>1
<1>2. Bad \subseteq FiniteSubsetsOf(S)
  BY FS_FiniteSubsetsOfFinite
<1>3. PICK T \in Bad : \A U \in Bad : <<U, T>> \notin StrictSubsetOrdering(S)
  <2> HIDE DEF Bad
  <2> QED BY <1>1, <1>2, FS_StrictSubsetOrderingWellFounded, WFMin
<1>4. PICK x \in T : TRUE
  OBVIOUS
<1>5. T \ {x} \notin Bad
  <2>1. <<T \ {x}, T>> \in (SUBSET S) \X (SUBSET S) /\ T \ {x} \subseteq T /\ T \ {x} # T
    BY <1>4
  <2>2. <<T \ {x}, T>> \in StrictSubsetOrdering(S)
    BY <2>1 DEF StrictSubsetOrdering
  <2> QED BY <1>3, <2>2
<1>6. CASE T = {x}
  BY <1>6
<1>7. CASE T # {x}
  <2>1. PICK m \in T \ {x} : \A y \in T \ {x, m} : <<y, m>> \in R
    BY <1>4, <1>5, <1>7
  <2>2. CASE <<x, m>> \in R
    BY <2>1, <2>2
  <2>3. CASE <<m, x>> \in R
    <3>1. \A y \in T \ {x} : <<y, x>> \in R
      BY <2>1, <2>3
    <3> QED BY <1>4, <3>1
  <2> QED BY <1>4, <2>1, <2>2, <2>3
<1> QED BY <1>6, <1>7

LEMMA LeastNumber ==
    ASSUME NEW S, IsFiniteSet(S), S # {}, S \subseteq Nat
    PROVE  \E m \in S : \A x \in S : m <= x
<1> DEFINE R == {pair \in S \X S : pair[1] > pair[2]}
<1>1. \A x, y \in S : <<x, y>> \in R <=> x > y
  OBVIOUS
<1>2. /\ \A x, y \in S : x # y => <<x, y>> \in R \/ <<y, x>> \in R
      /\ \A x, y, z \in S : <<x, y>> \in R /\ <<y, z>> \in R => <<x, z>> \in R
  <2> HIDE DEF R
  <2> QED BY <1>1
<1>3. PICK m \in S : \A x \in S \ {m} : <<x, m>> \in R
  <2> HIDE DEF R
  <2> QED BY <1>2, FiniteTop
<1>4. \A x \in S \ {m} : x > m
  <2> HIDE DEF R
  <2> QED BY <1>1, <1>3
<1> QED BY <1>4

(* The order of the texts of two parts is one: total, and not confused by *)
(* numbers with one digit more.                                           *)
LEMMA PartOrder ==
    /\ \A x, y \in Nat : x # y => PartBefore(x, y) \/ PartBefore(y, x)
    /\ \A x \in Nat : ~PartBefore(x, x)
    /\ \A x, y, z \in Nat : PartBefore(x, y) /\ PartBefore(y, z) => PartBefore(x, z)
<1>1. /\ Radix \in Nat \ {0} /\ Limit \in Nat /\ FirstWord \in Nat
      /\ \A x \in Nat : x * Radix \in Nat
      /\ \A x, y \in Nat : x < y <=> x * Radix < y * Radix
  BY PartsAssumption
<1> DEFINE Times(x) == x * Radix
<1>2. /\ \A x \in Nat : Times(x) \in Nat
      /\ \A x, y \in Nat : x < y <=> Times(x) < Times(y)
      /\ \A x, y : PartBefore(x, y) <=>
            \/ (x < Limit <=> y < Limit) /\ x < y
            \/ x < Limit /\ y >= Limit /\ (y >= FirstWord \/ Times(x) <= y)
            \/ x >= Limit /\ y < Limit /\ ~(x >= FirstWord) /\ x < Times(y)
  BY <1>1 DEF PartBefore, IsWord
<1> HIDE DEF Times
<1>3. \A x, y \in Nat : x # y => PartBefore(x, y) \/ PartBefore(y, x)
  BY <1>1, <1>2
<1>4. \A x \in Nat : ~PartBefore(x, x)
  BY <1>1, <1>2
<1>5. ASSUME NEW x \in Nat, NEW y \in Nat, NEW z \in Nat,
             PartBefore(x, y), PartBefore(y, z)
      PROVE  PartBefore(x, z)
  BY <1>1, <1>2, <1>5
<1> QED BY <1>3, <1>4, <1>5

LEMMA SkuTotal ==
    ASSUME NEW s \in Seq(Nat), NEW t \in Seq(Nat), s # t
    PROVE  SkuBefore(s, t) \/ SkuBefore(t, s)
<1> DEFINE D == {i \in (1..Len(s)) \cup (1..Len(t)) :
                    ~(i \in DOMAIN s /\ i \in DOMAIN t /\ s[i] = t[i])}
<1>1. /\ DOMAIN s = 1..Len(s) /\ DOMAIN t = 1..Len(t)
      /\ Len(s) \in Nat /\ Len(t) \in Nat
      /\ \A i \in 1..Len(s) : s[i] \in Nat
      /\ \A i \in 1..Len(t) : t[i] \in Nat
  BY LenProperties, ElementOfSeq
<1>0. Len(s) \in Nat /\ Len(t) \in Nat
  BY LenProperties
<1>2. D # {}
  <2>1. SUFFICES ASSUME D = {} PROVE s = t
    OBVIOUS
  <2>2. \A i \in (1..Len(s)) \cup (1..Len(t)) :
            i \in 1..Len(s) /\ i \in 1..Len(t) /\ s[i] = t[i]
    BY <1>1, <2>1
  <2>3. Len(s) = Len(t)
    <3>1. Len(s) <= Len(t)
      BY <1>1, <2>2
    <3>2. Len(t) <= Len(s)
      BY <1>1, <2>2
    <3> HIDE DEF D
    <3> QED BY <1>0, <3>1, <3>2
  <2> QED BY <2>2, <2>3, SeqEqual
<1>3. IsFiniteSet(D) /\ D \subseteq Nat
  <2>1. IsFiniteSet((1..Len(s)) \cup (1..Len(t)))
    <3>1. IsFiniteSet(1..Len(s)) /\ IsFiniteSet(1..Len(t))
      BY <1>0, FS_Interval
    <3> QED BY <3>1, FS_Union
  <2>2. D \subseteq (1..Len(s)) \cup (1..Len(t)) /\ D \subseteq Nat
    BY <1>1
  <2> HIDE DEF D
  <2> QED BY <2>1, <2>2, FS_Subset
<1>4. PICK i \in D : \A j \in D : i <= j
  <2> HIDE DEF D
  <2> QED BY <1>2, <1>3, LeastNumber
<1>5. \A j \in 1..(i - 1) : j \in DOMAIN s /\ j \in DOMAIN t /\ s[j] = t[j]
  BY <1>1, <1>3, <1>4
<1>6. CASE i \notin DOMAIN s \/ i \notin DOMAIN t
  BY <1>1, <1>5, <1>6 DEF SkuBefore
<1>7. CASE i \in DOMAIN s /\ i \in DOMAIN t
  <2>1. PartBefore(s[i], t[i]) \/ PartBefore(t[i], s[i])
    BY <1>1, <1>4, <1>7, PartOrder
  <2> QED BY <1>5, <1>7, <2>1 DEF SkuBefore
<1> QED BY <1>6, <1>7

LEMMA SkuTransitive ==
    ASSUME NEW s \in Seq(Nat), NEW t \in Seq(Nat), NEW u \in Seq(Nat),
           SkuBefore(s, t), SkuBefore(t, u)
    PROVE  SkuBefore(s, u)
<1>1. /\ DOMAIN s = 1..Len(s) /\ DOMAIN t = 1..Len(t) /\ DOMAIN u = 1..Len(u)
      /\ Len(s) \in Nat /\ Len(t) \in Nat /\ Len(u) \in Nat
      /\ \A i \in DOMAIN s : s[i] \in Nat
      /\ \A i \in DOMAIN t : t[i] \in Nat
      /\ \A i \in DOMAIN u : u[i] \in Nat
  BY LenProperties, ElementOfSeq
<1>2. PICK i \in DOMAIN t :
        /\ \A j \in 1..(i - 1) : j \in DOMAIN s /\ s[j] = t[j]
        /\ i \in DOMAIN s => PartBefore(s[i], t[i])
  BY DEF SkuBefore
<1>3. PICK k \in DOMAIN u :
        /\ \A j \in 1..(k - 1) : j \in DOMAIN t /\ t[j] = u[j]
        /\ k \in DOMAIN t => PartBefore(t[k], u[k])
  BY DEF SkuBefore
<1>4. CASE i < k
  <2>1. i \in DOMAIN u /\ t[i] = u[i]
    <3>1. i \in 1..(k - 1) /\ i \in 1..Len(u)
      BY <1>1, <1>4
    <3> QED BY <1>1, <1>3, <3>1
  <2>2. \A j \in 1..(i - 1) : j \in 1..(k - 1)
    <3>1. i \in Nat /\ k \in Nat
      BY <1>1
    <3> QED BY <1>4, <3>1
  <2>3. \A j \in 1..(i - 1) : j \in DOMAIN s /\ s[j] = u[j]
    BY <1>2, <1>3, <2>2
  <2> QED BY <1>2, <2>1, <2>3 DEF SkuBefore
<1>5. CASE k < i
  <2>1. k \in DOMAIN s /\ s[k] = t[k] /\ k \in DOMAIN t
    BY <1>1, <1>2, <1>3, <1>5
  <2>2. \A j \in 1..(k - 1) : j \in 1..(i - 1)
    BY <1>1, <1>5
  <2>3. \A j \in 1..(k - 1) : j \in DOMAIN s /\ s[j] = u[j]
    BY <1>2, <1>3, <2>2
  <2> QED BY <1>3, <2>1, <2>3 DEF SkuBefore
<1>6. CASE i = k
  <2>1. i \in DOMAIN s => PartBefore(s[i], u[i])
    BY <1>1, <1>2, <1>3, <1>6, PartOrder
  <2>2. \A j \in 1..(i - 1) : j \in DOMAIN s /\ s[j] = u[j]
    BY <1>1, <1>2, <1>3, <1>6
  <2> QED BY <1>3, <1>6, <2>1, <2>2 DEF SkuBefore
<1> QED BY <1>1, <1>4, <1>5, <1>6

LEMMA LatestSku ==
    ASSUME NEW S, IsFiniteSet(S), S # {}, S \subseteq Seq(Nat)
    PROVE  \E s \in S : \A t \in S \ {s} : SkuBefore(t, s)
<1> DEFINE R == {pair \in S \X S : SkuBefore(pair[1], pair[2])}
<1>1. \A s, t \in S : <<s, t>> \in R <=> SkuBefore(s, t)
  OBVIOUS
<1> HIDE DEF R
<1>2. \A s, t \in S : s # t => <<s, t>> \in R \/ <<t, s>> \in R
  BY <1>1, SkuTotal
<1>3. \A s, t, u \in S : <<s, t>> \in R /\ <<t, u>> \in R => <<s, u>> \in R
  BY <1>1, SkuTransitive
<1>4. \E s \in S : \A t \in S \ {s} : <<t, s>> \in R
  BY ONLY IsFiniteSet(S), S # {}, <1>2, <1>3, FiniteTop
<1> QED BY <1>1, <1>4

-----------------------------------------------------------------------------
(* The SKUs that are generated.                                           *)

(* The SKUs of a family are longer than their base and begin with it.     *)
LEMMA FamilyMember ==
    ASSUME NEW base \in Seq(Nat), NEW s \in Seq(Nat)
    PROVE  IsStrictPrefix(base, s) <=>
              /\ Len(base) < Len(s)
              /\ \A i \in 1..Len(base) : s[i] = base[i]
<1>1. Len(base) \in Nat /\ Len(s) \in Nat
  BY LenProperties
<1>2. SubSeq(base, 1, Len(base)) = base
  BY SubSeqFull
<1>3. ASSUME Len(base) <= Len(s)
      PROVE  SubSeq(s, 1, Len(base)) = base <=> \A i \in 1..Len(base) : s[i] = base[i]
  <2>1. \A i \in 1..Len(base) : s[i] \in Nat
    BY <1>1, <1>3, ElementOfSeq
  <2>2. /\ SubSeq(s, 1, Len(base)) \in Seq(Nat)
        /\ Len(SubSeq(s, 1, Len(base))) = Len(base)
        /\ \A i \in 1..Len(base) : SubSeq(s, 1, Len(base))[i] = s[i]
    BY <1>1, <2>1
  <2> QED BY <2>2, SeqEqual
<1>4. ASSUME Len(base) = Len(s), \A i \in 1..Len(base) : s[i] = base[i]
      PROVE  s = base
  BY <1>4, SeqEqual
<1> QED BY <1>1, <1>2, <1>3, <1>4 DEF IsStrictPrefix, IsPrefix

LEMMA FamilyLatest ==
    ASSUME NEW taken, IsFiniteSet(taken), taken \subseteq Seq(Nat), NEW base \in Seq(Nat),
           Family(taken, base) # {}
    PROVE  LET latest == CHOOSE s \in Family(taken, base) :
                            \A t \in Family(taken, base) \ {s} : SkuBefore(t, s)
           IN  /\ latest \in Family(taken, base)
               /\ \A t \in Family(taken, base) \ {latest} : SkuBefore(t, latest)
<1>1. Family(taken, base) \subseteq taken
  BY DEF Family
<1>2. IsFiniteSet(Family(taken, base)) /\ Family(taken, base) \subseteq Seq(Nat)
  BY <1>1, FS_Subset
<1>3. \E s \in Family(taken, base) : \A t \in Family(taken, base) \ {s} : SkuBefore(t, s)
  BY <1>2, LatestSku
<1> QED BY <1>3

(* What is generated is a SKU, whatever SKUs there are.                   *)
LEMMA GenerateSkuType ==
    ASSUME NEW taken, IsFiniteSet(taken), taken \subseteq Seq(Nat), NEW base \in Seq(Nat)
    PROVE  GenerateSku(taken, base) \in Seq(Nat)
<1>1. CASE Family(taken, base) = {}
  BY <1>1 DEF GenerateSku
<1>2. CASE Family(taken, base) # {}
  <2> DEFINE latest == CHOOSE s \in Family(taken, base) :
                          \A t \in Family(taken, base) \ {s} : SkuBefore(t, s)
  <2>1. latest \in Family(taken, base)
    BY <1>2, FamilyLatest
  <2>2. GenerateSku(taken, base) = Append(base, Increment(Last(latest)))
    BY <1>2 DEF GenerateSku
  <2> HIDE DEF latest
  <2>3. latest \in Seq(Nat) /\ IsStrictPrefix(base, latest)
    BY <2>1 DEF Family
  <2>4. Len(latest) \in Nat \ {0}
    BY <2>3, FamilyMember, LenProperties
  <2>5. Last(latest) \in Nat
    BY <2>3, <2>4, ElementOfSeq DEF Last
  <2>6. Increment(Last(latest)) \in Nat
    BY <2>5, PartsAssumption DEF Increment
  <2> QED BY <2>2, <2>6
<1> QED BY <1>1, <1>2

(* A base with one more part is in the base's family.                     *)
LEMMA NumberedInFamily ==
    ASSUME NEW taken, NEW base \in Seq(Nat), NEW n \in Nat, Append(base, n) \in taken
    PROVE  Append(base, n) \in Family(taken, base)
<1>1. /\ Append(base, n) \in Seq(Nat)
      /\ Len(Append(base, n)) = Len(base) + 1
      /\ \A i \in 1..Len(base) : Append(base, n)[i] = base[i]
  OBVIOUS
<1>2. Len(base) < Len(Append(base, n))
  BY <1>1, LenProperties
<1> QED BY <1>1, <1>2, FamilyMember DEF Family

LEMMA GenerateSkuFree ==
    ASSUME NEW taken, IsFiniteSet(taken), taken \subseteq Seq(Nat), NEW base \in Seq(Nat),
           Regular(taken, base)
    PROVE  GenerateSku(taken, base) \notin taken
<1> DEFINE family == Family(taken, base)
<1>1. CASE family = {}
  <2>1. GenerateSku(taken, base) = Append(base, 1)
    BY <1>1 DEF GenerateSku
  <2> QED BY <1>1, <2>1, NumberedInFamily
<1>2. CASE family # {}
  <2> DEFINE latest == CHOOSE s \in Family(taken, base) :
                          \A t \in Family(taken, base) \ {s} : SkuBefore(t, s)
  <2>1. latest \in family /\ \A t \in family \ {latest} : SkuBefore(t, latest)
    BY <1>2, FamilyLatest
  <2>2. GenerateSku(taken, base) = Append(base, Increment(Last(latest)))
    BY <1>2 DEF GenerateSku
  <2> HIDE DEF latest, family
  <2>3. /\ latest \in Seq(Nat) /\ Len(base) \in Nat
        /\ \A i \in 1..Len(base) : latest[i] = base[i] /\ base[i] \in Nat
        /\ Len(latest) = Len(base) + 1 /\ Last(latest) < Limit
    BY <2>1, FamilyMember, LenProperties, ElementOfSeq DEF family, Family, Regular
  <2>4. Last(latest) = latest[Len(base) + 1] /\ Last(latest) \in Nat
    BY <2>3, ElementOfSeq DEF Last
  <2>5. Increment(Last(latest)) = Last(latest) + 1
    <3>1. Limit <= FirstWord
      BY PartsAssumption
    <3> QED BY <2>3, <2>4, <3>1, PartsAssumption DEF Increment, IsWord
  <2> DEFINE next == Append(base, Last(latest) + 1)
  <2>6. SUFFICES ASSUME next \in taken PROVE FALSE
    BY <2>2, <2>5
  <2>7. /\ next \in Seq(Nat) /\ DOMAIN next = 1..(Len(base) + 1)
        /\ next[Len(base) + 1] = Last(latest) + 1 /\ Last(next) = Last(latest) + 1
        /\ \A i \in 1..Len(base) : next[i] = base[i]
    BY <2>3, <2>4 DEF Last
  <2>8. next \in family
    BY <2>4, <2>6, NumberedInFamily DEF family
  <2> HIDE DEF next
  <2>9. Last(latest) + 1 < Limit
    BY <2>7, <2>8 DEF Regular, family
  <2>10. SkuBefore(next, latest)
    BY <2>1, <2>4, <2>7, <2>8
  <2>11. PICK i \in 1..(Len(base) + 1) : PartBefore(next[i], latest[i])
    BY <2>3, <2>7, <2>10, LenProperties DEF SkuBefore
  <2>12. CASE i \in 1..Len(base)
    BY <2>3, <2>7, <2>11, <2>12, PartOrder
  <2>13. CASE i = Len(base) + 1
    BY <2>4, <2>7, <2>9, <2>11, <2>13, PartsAssumption DEF PartBefore
  <2> QED BY <2>3, <2>12, <2>13
<1> QED BY <1>1, <1>2

(* The number of candidates exceeds that of the SKUs taken.               *)
LEMMA CopySkuFree ==
    ASSUME NEW taken, IsFiniteSet(taken), NEW s \in Seq(Nat)
    PROVE  CopySku(taken, s) \in Seq(Nat) /\ CopySku(taken, s) \notin taken
<1> DEFINE candidate(k) == s \o (IF k = 1 THEN <<Copia>> ELSE <<Copia, k>>)
           n == Cardinality(taken) + 1
           Free == {k \in 1..n : candidate(k) \notin taken}
<1>1. n \in Nat /\ Cardinality(taken) \in Nat /\ n > Cardinality(taken)
  BY FS_CardinalityType
<1>2. \A k \in 1..n : candidate(k) \in Seq(Nat)
  <2>1. \A k \in 1..n : <<Copia, k>> \in Seq(Nat) /\ <<Copia>> \in Seq(Nat)
    BY <1>1, PartsAssumption
  <2> QED BY <2>1, ConcatProperties
<1>3. \A j, k \in 1..n : candidate(j) = candidate(k) => j = k
  <2> SUFFICES ASSUME NEW j \in 1..n, NEW k \in 1..n, candidate(j) = candidate(k)
               PROVE  j = k
    OBVIOUS
  <2> DEFINE tail(i) == IF i = 1 THEN <<Copia>> ELSE <<Copia, i>>
  <2>1. tail(j) \in Seq(Nat) /\ tail(k) \in Seq(Nat)
    BY <1>1, PartsAssumption
  <2>2. tail(j) = tail(k)
    <3>1. s \o tail(j) = s \o tail(k)
      OBVIOUS
    <3> HIDE DEF tail
    <3>2. \A t, v \in Seq(Nat) : s \o t = s \o v => t = v
      BY ConcatSimplifications
    <3> QED BY <2>1, <3>1, <3>2
  <2> QED BY <2>2
<1>4. Free # {}
  <2>1. SUFFICES ASSUME \A k \in 1..n : candidate(k) \in taken PROVE FALSE
    OBVIOUS
  <2>2. IsFiniteSet(1..n) /\ Cardinality(1..n) = n
    BY <1>1, FS_Interval
  <2> DEFINE f == [k \in 1..n |-> candidate(k)]
  <2>3. f \in [1..n -> taken] /\ \A k \in 1..n : f[k] = candidate(k)
    <3> HIDE DEF candidate, n
    <3> QED BY <2>1
  <2>4. f \in Injection(1..n, taken)
    BY <1>3, <2>3 DEF Injection, IsInjective
  <2> HIDE DEF f, n
  <2>5. Cardinality(1..n) <= Cardinality(taken)
    BY <2>4, FS_Injection
  <2> QED BY <1>1, <2>2, <2>5
<1>5. CopySku(taken, s) = candidate(Min(Free))
  BY DEF CopySku
<1>6. Min(Free) \in Free
  <2>1. IsFiniteSet(Free) /\ Free \subseteq Nat
    <3>1. IsFiniteSet(1..n)
      BY <1>1, FS_Interval
    <3>2. Free \subseteq 1..n /\ 1..n \subseteq Nat
      OBVIOUS
    <3> HIDE DEF Free, n
    <3> QED BY <3>1, <3>2, FS_Subset
  <2> HIDE DEF Free
  <2>2. \E m \in Free : \A k \in Free : m <= k
    BY <1>4, <2>1, LeastNumber
  <2> QED BY <2>2 DEF Min
<1> QED BY <1>2, <1>5, <1>6
-----------------------------------------------------------------------------
(* What the operations and the SKUs taken are.                            *)

LEMMA OpFields ==
    ASSUME NEW o \in Ops \cup {NoOp}
    PROVE  /\ o.kind \in {"none", "newProduct", "newInactive", "reactivate", "plain",
                          "newBranch", "onboard", "updateBranch"}
           /\ OfProduct(o) <=> o.kind \in {"newProduct", "newInactive", "reactivate"}
           /\ OfProduct(o) \/ o.kind = "plain" => o.id \in Products
           /\ Creates(o) => o.sku \in Seq(Nat)
           /\ o.kind \in {"plain", "updateBranch"} => o.to \in BOOLEAN
           /\ o.kind \in {"newBranch", "onboard", "updateBranch"} => o.id \in Branches
<1>1. CASE o \in CreateOps
  BY <1>1 DEF CreateOps, OfProduct, Creates
<1>2. CASE o \in ReactivateOps
  BY <1>2 DEF ReactivateOps, OfProduct, Creates
<1>3. CASE o \in PlainOps
  BY <1>3 DEF PlainOps, OfProduct, Creates
<1>4. CASE o \in BranchOps
  BY <1>4 DEF BranchOps, OfProduct, Creates
<1>5. CASE o \in UpdateOps
  BY <1>5 DEF UpdateOps, OfProduct, Creates
<1>6. CASE o = NoOp
  BY <1>6 DEF NoOp, OfProduct, Creates
<1> QED BY <1>1, <1>2, <1>3, <1>4, <1>5, <1>6 DEF Ops

LEMMA OpOf ==
    ASSUME TypeOK, NEW r \in Requests
    PROVE  /\ op[r].kind \in {"none", "newProduct", "newInactive", "reactivate", "plain",
                              "newBranch", "onboard", "updateBranch"}
           /\ OfProduct(op[r]) <=> op[r].kind \in {"newProduct", "newInactive", "reactivate"}
           /\ OfProduct(op[r]) \/ op[r].kind = "plain" => op[r].id \in Products
           /\ Creates(op[r]) => op[r].sku \in Seq(Nat)
           /\ op[r].kind \in {"plain", "updateBranch"} => op[r].to \in BOOLEAN
           /\ op[r].kind \in {"newBranch", "onboard", "updateBranch"} => op[r].id \in Branches
<1>1. op[r] \in Ops \cup {NoOp}
  BY DEF TypeOK
<1> QED BY <1>1, OpFields

LEMMA TakenType ==
    ASSUME TypeOK
    PROVE  IsFiniteSet(Taken) /\ Taken \subseteq Seq(Nat)
<1> DEFINE Created == {q \in Products : product[q] # "none"}
           f == [p \in Created |-> sku[p]]
<1>1. IsFiniteSet(Created)
  BY FiniteAssumption, FS_Subset
<1>2. Taken \subseteq Seq(Nat)
  BY DEF Taken, TypeOK
<1>3. f \in Surjection(Created, Taken)
  <2>1. f \in [Created -> Taken]
    BY DEF Taken
  <2>2. \A t \in Taken : \E p \in Created : f[p] = t
    BY DEF Taken
  <2> HIDE DEF f, Created
  <2> QED BY <2>1, <2>2 DEF Surjection
<1> QED BY <1>1, <1>2, <1>3, FS_Surjection

LEMMA BaseType ==
    ASSUME NEW base \in Bases
    PROVE  base \in Seq(Nat)
<1>1. base \in Seq(Nat \ {0})
  BY BasesAssumption
<1>2. Len(base) \in Nat /\ base \in [1..Len(base) -> Nat \ {0}]
  BY <1>1
<1>3. base \in [1..Len(base) -> Nat]
  BY <1>2
<1> QED BY <1>2, <1>3, SeqDef

LEMMA FiniteActive ==
    /\ IsFiniteSet(ActiveProducts) /\ IsFiniteSet(ActiveBranches)
    /\ IsFiniteSet(ActiveProducts \ stale)
<1>1. /\ ActiveProducts \subseteq Products /\ ActiveBranches \subseteq Branches
      /\ ActiveProducts \ stale \subseteq Products
  BY DEF ActiveProducts, ActiveBranches
<1> QED BY <1>1, FiniteAssumption, FS_Subset

-----------------------------------------------------------------------------
(* The steps that change no row.                                          *)

LEMMA NoRowMoves ==
    ASSUME IInv, NEW r \in Requests, UNCHANGED <<data, plan>>,
           \A q \in Requests \ {r} : pc'[q] = pc[q] /\ op'[q] = op[q] /\ found'[q] = found[q],
           TypeOK', LockInv', Ready(r)'
    PROVE  IInv'
<1>1. /\ product' = product /\ branch' = branch /\ rows' = rows /\ main' = main
      /\ stale' = stale /\ early' = early /\ plan' = plan
      /\ ActiveProducts' = ActiveProducts /\ ActiveBranches' = ActiveBranches
      /\ BranchSlotFree' <=> BranchSlotFree
      /\ \A b : MayDeactivate(b)' <=> MayDeactivate(b)
  BY DEF data, ActiveProducts, ActiveBranches, BranchSlotFree, MayDeactivate
<1>2. BranchesAnchored' /\ PairsStocked'
  BY <1>1 DEF IInv, BranchesAnchored, PairsStocked
<1>3. ASSUME NEW q \in Requests \ {r}
      PROVE  Ready(q)'
  <2>1. Ready(q) /\ pc'[q] = pc[q] /\ op'[q] = op[q] /\ found'[q] = found[q]
    BY DEF IInv
  <2>2. Phase(q)'
    BY <1>1, <2>1 DEF Ready, Phase
  <2>3. Counted(q)'
    BY <1>1, <2>1 DEF Ready, Counted
  <2>4. RowsFound(q)'
    BY <1>1, <2>1 DEF Ready, RowsFound
  <2> QED BY <2>2, <2>3, <2>4 DEF Ready
<1> QED BY <1>2, <1>3 DEF IInv

(* A call is accepted.                                                    *)
LEMMA StartIInv ==
    ASSUME IInv, NEW r \in Requests, NEW o \in Ops, NEW where \in {"lock", "insert", "plain"},
           Start(r, o, where),
           where = "lock" => o.kind \in Locked,
           where = "insert" => o.kind = "newInactive",
           where = "plain" => o.kind = "plain" /\ product[o.id] # "none",
           o.kind = "updateBranch" => branch[o.id] # "none"
    PROVE  IInv'
<1>1. /\ pc[r] = "idle" /\ pc \in [Requests -> {"idle", "done"} \cup Waiting \cup InTx]
      /\ op \in [Requests -> Ops \cup {NoOp}]
      /\ pc' = [pc EXCEPT ![r] = where] /\ op' = [op EXCEPT ![r] = o]
      /\ product' = product /\ branch' = branch
      /\ found' = found /\ tenantLock' = tenantLock /\ UNCHANGED <<data, plan>>
  BY DEF Start, Goto, IInv, TypeOK, data
<1>2. /\ pc'[r] = where /\ op'[r] = o /\ found[r] = {}
      /\ \A q \in Requests \ {r} : pc'[q] = pc[q] /\ op'[q] = op[q] /\ found'[q] = found[q]
  BY <1>1 DEF IInv, Ready, Phase
<1>3. tenantLock # r
  BY <1>1, NoRequestAssumption DEF IInv, LockInv, InTx
<1>4. TypeOK'
  BY <1>1, <1>2, <1>3 DEF IInv, TypeOK, data, Waiting, InTx
<1>5. LockInv'
  BY <1>1, <1>2, <1>3 DEF IInv, LockInv, TypeOK, Sharers, InTx, Locked
<1>6. Ready(r)'
  BY <1>1, <1>2 DEF Ready, Phase, Counted, RowsFound
<1> QED BY <1>1, <1>2, <1>4, <1>5, <1>6, NoRowMoves

LEMMA CallIInv ==
    ASSUME IInv, NEW r \in Requests, CallProduct(r) \/ CallBranch(r)
    PROVE  IInv'
<1>1. TypeOK
  BY DEF IInv
<1>2. ASSUME NEW p \in Products, NEW a \in BOOLEAN, NEW s \in Seq(Nat), StartCreate(r, p, a, s)
      PROVE  IInv'
  <2>1. CASE a
    <3> DEFINE o == [kind |-> "newProduct", id |-> p, sku |-> s]
    <3>1. o \in Ops /\ o.kind \in Locked /\ o.kind = "newProduct"
      BY DEF Ops, CreateOps, Locked
    <3>2. Start(r, o, "lock")
      BY <1>2, <2>1 DEF StartCreate
    <3> HIDE DEF o
    <3> QED BY <3>1, <3>2, StartIInv
  <2>2. CASE ~a
    <3> DEFINE o == [kind |-> "newInactive", id |-> p, sku |-> s]
    <3>1. o \in Ops /\ o.kind = "newInactive"
      BY DEF Ops, CreateOps
    <3>2. Start(r, o, "insert")
      BY <1>2, <2>2 DEF StartCreate
    <3> HIDE DEF o
    <3> QED BY <3>1, <3>2, StartIInv
  <2> QED BY <2>1, <2>2
<1>3. ASSUME NEW p \in Products, NEW a \in BOOLEAN, NEW base \in Bases,
             CreateProduct(r, p, a, base)
      PROVE  IInv'
  <2>1. GenerateSku(Taken, base) \in Seq(Nat)
    BY <1>1, BaseType, TakenType, GenerateSkuType
  <2> QED BY <1>2, <1>3, <2>1 DEF CreateProduct
<1>4. ASSUME NEW p \in Products, NEW source \in Products, DuplicateProduct(r, source, p)
      PROVE  IInv'
  <2>1. sku[source] \in Seq(Nat)
    BY <1>1 DEF TypeOK
  <2>2. CopySku(Taken, sku[source]) \in Seq(Nat)
    BY <1>1, <2>1, TakenType, CopySkuFree
  <2>3. (product[source] = "active") \in BOOLEAN
    OBVIOUS
  <2> QED BY <1>2, <1>4, <2>2, <2>3 DEF DuplicateProduct
<1>5. ASSUME NEW p \in Products, NEW a \in BOOLEAN, product[p] # "none",
             Start(r, [kind |-> "plain", id |-> p, to |-> a], "plain")
      PROVE  IInv'
  <2> DEFINE o == [kind |-> "plain", id |-> p, to |-> a]
  <2>1. o \in Ops /\ o.kind = "plain" /\ o.id = p
    BY DEF Ops, PlainOps
  <2>2. Start(r, o, "plain")
    BY <1>5
  <2> HIDE DEF o
  <2> QED BY <1>5, <2>1, <2>2, StartIInv
<1>6. ASSUME NEW p \in Products, NEW a \in BOOLEAN, UpdateProduct(r, p, a)
      PROVE  IInv'
  <2> DEFINE o == [kind |-> "reactivate", id |-> p]
  <2>1. o \in Ops /\ o.kind \in Locked /\ o.kind = "reactivate"
    BY DEF Ops, ReactivateOps, Locked
  <2>2. CASE Start(r, o, "lock")
    <3> HIDE DEF o
    <3> QED BY <2>1, <2>2, StartIInv
  <2>3. CASE Start(r, [kind |-> "plain", id |-> p, to |-> a], "plain")
    BY <1>5, <1>6, <2>3 DEF UpdateProduct
  <2> QED BY <1>6, <2>2, <2>3 DEF UpdateProduct
<1>7. ASSUME NEW p \in Products, RemoveProduct(r, p)
      PROVE  IInv'
  BY <1>5, <1>7 DEF RemoveProduct
<1>8. ASSUME NEW b \in Branches, NEW kind \in {"newBranch", "onboard"},
             Start(r, [kind |-> kind, id |-> b], "lock")
      PROVE  IInv'
  <2> DEFINE o == [kind |-> kind, id |-> b]
  <2>1. o \in Ops /\ o.kind \in Locked /\ o.kind # "updateBranch"
    BY DEF Ops, BranchOps, Locked
  <2>2. Start(r, o, "lock")
    BY <1>8
  <2> HIDE DEF o
  <2> QED BY <2>1, <2>2, StartIInv
<1>9. ASSUME NEW b \in Branches, NEW a \in BOOLEAN, branch[b] # "none",
             Start(r, [kind |-> "updateBranch", id |-> b, to |-> a], "lock")
      PROVE  IInv'
  <2> DEFINE o == [kind |-> "updateBranch", id |-> b, to |-> a]
  <2>1. o \in Ops /\ o.kind \in Locked /\ o.id = b
    BY DEF Ops, UpdateOps, Locked
  <2>2. Start(r, o, "lock")
    BY <1>9
  <2> HIDE DEF o
  <2> QED BY <1>9, <2>1, <2>2, StartIInv
<1>10. ASSUME CallProduct(r) PROVE IInv'
  BY <1>3, <1>4, <1>6, <1>7, <1>10 DEF CallProduct
<1>11. ASSUME CallBranch(r) PROVE IInv'
  BY <1>8, <1>9, <1>11 DEF CallBranch, CreateBranch, UpdateBranch, RemoveBranch, OnboardBranch
<1> QED BY <1>10, <1>11

(* A transaction that ends early, and so gives up the tenant row.         *)
LEMMA EndIInv ==
    ASSUME IInv, NEW r \in Requests, pc[r] \in InTx, End(r)
    PROVE  IInv'
<1>1. /\ pc \in [Requests -> {"idle", "done"} \cup Waiting \cup InTx]
      /\ op \in [Requests -> Ops \cup {NoOp}]
      /\ pc' = [pc EXCEPT ![r] = "done"] /\ op' = op /\ found' = found
      /\ tenantLock' = IF tenantLock = r THEN NoRequest ELSE tenantLock
      /\ product' = product /\ branch' = branch /\ UNCHANGED <<data, plan>>
  BY DEF End, Goto, IInv, TypeOK, data
<1>2. /\ pc'[r] = "done"
      /\ \A q \in Requests \ {r} : pc'[q] = pc[q] /\ op'[q] = op[q] /\ found'[q] = found[q]
  BY <1>1
<1>3. TypeOK'
  BY <1>1, <1>2, NoRequestAssumption DEF IInv, TypeOK, data, Waiting, InTx
<1>4. LockInv'
  BY <1>1, <1>2, NoRequestAssumption DEF IInv, LockInv, TypeOK, Sharers, InTx, Locked
<1>5. Ready(r)'
  BY <1>1, <1>2 DEF IInv, Ready, Phase, Counted, RowsFound
<1> QED BY <1>1, <1>2, <1>3, <1>4, <1>5, NoRowMoves

(* A transaction goes on with what it has seen.                           *)
LEMMA PassIInv ==
    ASSUME IInv, NEW r \in Requests, NEW where \in InTx, Pass(r, where),
           pc[r] \in InTx, pc[r] # "commit", Ready(r)',
           where \in {"ensure", "commit"} /\ op[r].kind = "newInactive" => tenantLock = NoRequest
    PROVE  IInv'
<1>1. /\ pc \in [Requests -> {"idle", "done"} \cup Waiting \cup InTx]
      /\ pc' = [pc EXCEPT ![r] = where] /\ op' = op /\ found' = found
      /\ tenantLock' = tenantLock /\ product' = product /\ branch' = branch
      /\ UNCHANGED <<data, plan>>
  BY DEF Pass, Goto, IInv, TypeOK, data
<1>2. /\ pc'[r] = where
      /\ \A q \in Requests \ {r} : pc'[q] = pc[q] /\ op'[q] = op[q] /\ found'[q] = found[q]
  BY <1>1
<1>3. TypeOK'
  BY <1>1, <1>2, NoRequestAssumption DEF IInv, TypeOK, data, Waiting, InTx
<1>4. LockInv'
  <2>1. \A q \in Requests : pc'[q] \in InTx /\ op'[q].kind \in Locked => tenantLock' = q
    BY <1>1, <1>2 DEF IInv, LockInv
  <2>2. tenantLock # NoRequest => op'[tenantLock].kind \in Locked /\ pc'[tenantLock] \in InTx
    BY <1>1, <1>2 DEF IInv, LockInv, TypeOK
  <2>3. tenantLock # NoRequest => Sharers' \subseteq Sharers
    BY <1>1, <1>2 DEF IInv, LockInv, Sharers
  <2> QED BY <1>1, <2>1, <2>2, <2>3 DEF IInv, LockInv
<1> QED BY <1>1, <1>2, <1>3, <1>4, NoRowMoves

LEMMA LockTenantIInv ==
    ASSUME IInv, NEW r \in Requests, LockTenant(r)
    PROVE  IInv'
<1>1. /\ pc \in [Requests -> {"idle", "done"} \cup Waiting \cup InTx]
      /\ pc[r] = "lock" /\ Sharers = {} /\ tenantLock = NoRequest
      /\ pc' = [pc EXCEPT ![r] = "check"] /\ op' = op /\ found' = found
      /\ tenantLock' = r /\ product' = product /\ branch' = branch
      /\ UNCHANGED <<data, plan>>
  BY DEF LockTenant, Goto, IInv, TypeOK, data
<1>2. /\ pc'[r] = "check"
      /\ \A q \in Requests \ {r} : pc'[q] = pc[q] /\ op'[q] = op[q] /\ found'[q] = found[q]
  BY <1>1
<1>3. op[r].kind \in Locked
  BY <1>1 DEF IInv, Ready, Phase
<1>4. TypeOK'
  BY <1>1, <1>2 DEF IInv, TypeOK, data, Waiting, InTx
<1>5. LockInv'
  BY <1>1, <1>2, <1>3, NoRequestAssumption DEF IInv, LockInv, Sharers, InTx
<1>6. Ready(r)'
  BY <1>1, <1>2, <1>3 DEF IInv, Ready, Phase, Counted, RowsFound
<1> QED BY <1>1, <1>2, <1>4, <1>5, <1>6, NoRowMoves

LEMMA CheckIInv ==
    ASSUME IInv, NEW r \in Requests, Check(r)
    PROVE  IInv'
<1>1. /\ TypeOK /\ Ready(r) /\ pc[r] = "check" /\ pc[r] \in InTx /\ op[r].kind \in Locked
      /\ pc \in [Requests -> {"idle", "done"} \cup Waiting \cup InTx]
      /\ op[r].kind = "updateBranch" => branch[op[r].id] # "none"
      /\ found[r] = {}
  BY DEF IInv, Check, Ready, Phase, InTx, TypeOK
<1>2. ASSUME End(r) PROVE IInv'
  BY <1>1, <1>2, EndIInv
<1>3. ASSUME NEW where \in {"insert", "ensure", "commit"}, Pass(r, where),
             op[r].kind \in {"newProduct", "reactivate"} => ProductSlotFree /\ where # "commit",
             op[r].kind = "newBranch" => BranchSlotFree /\ where = "ensure",
             op[r].kind = "updateBranch" =>
                /\ IF op[r].to THEN branch[op[r].id] = "active" \/ BranchSlotFree
                               ELSE branch[op[r].id] = "inactive" \/ MayDeactivate(op[r].id)
                /\ where # "insert"
                /\ where = "ensure" <=> op[r].to /\ branch[op[r].id] = "inactive",
             op[r].kind = "onboard" =>
                where = "commit" /\ \A b \in Branches : branch[b] = "none",
             where = "insert" => op[r].kind = "newProduct"
      PROVE  IInv'
  <2>1. /\ pc' = [pc EXCEPT ![r] = where] /\ op' = op /\ found' = found /\ pc'[r] = where
        /\ UNCHANGED <<product, branch, main, stale, plan>>
    BY <1>1, <1>3 DEF Pass, Goto, data
  <2>2. /\ ActiveProducts' = ActiveProducts /\ ActiveBranches' = ActiveBranches
        /\ BranchSlotFree' <=> BranchSlotFree
        /\ \A b : MayDeactivate(b)' <=> MayDeactivate(b)
    BY <2>1 DEF ActiveProducts, ActiveBranches, BranchSlotFree, MayDeactivate
  <2>3. Phase(r)'
    BY <1>1, <1>3, <2>1 DEF Phase, Locked
  <2>4. Counted(r)'
    <3>1. ProductSlotFree => Cardinality(ActiveProducts \ stale) < MaxProducts[plan]
      <4>1. Cardinality(ActiveProducts \ stale) <= Cardinality(ActiveProducts)
        BY FiniteActive, FS_Subset
      <4>2. /\ Cardinality(ActiveProducts \ stale) \in Nat
            /\ Cardinality(ActiveProducts) \in Nat
            /\ MaxProducts[plan] \in Nat
        BY <1>1, FiniteActive, FS_CardinalityType, PlansAssumption DEF TypeOK
      <4> QED BY <4>1, <4>2 DEF ProductSlotFree
    <3> QED BY <1>3, <2>1, <2>2, <3>1 DEF Counted
  <2>5. RowsFound(r)'
    BY <1>1, <1>3, <2>1, <2>2 DEF RowsFound, Locked
  <2>6. where \in InTx /\ op[r].kind # "newInactive"
    BY <1>1 DEF InTx, Locked
  <2> QED BY <1>1, <1>3, <2>3, <2>4, <2>5, <2>6, PassIInv DEF Ready
<1>4. CASE CheckProduct(r)
  BY <1>2, <1>3, <1>4 DEF CheckProduct
<1>5. CASE CheckNewBranch(r)
  BY <1>2, <1>3, <1>5 DEF CheckNewBranch
<1>6. CASE CheckUpdateBranch(r)
  <2>1. op[r].kind = "updateBranch" /\ op[r].to \in BOOLEAN
    BY <1>1, <1>6, OpOf DEF CheckUpdateBranch
  <2>2. CASE op[r].to /\ branch[op[r].id] = "inactive"
    BY <1>2, <1>3, <1>6, <2>1, <2>2 DEF CheckUpdateBranch, Flag
  <2>3. CASE ~op[r].to /\ branch[op[r].id] = "active"
    BY <1>2, <1>3, <1>6, <2>1, <2>3 DEF CheckUpdateBranch, Flag
  <2>4. CASE branch[op[r].id] = Flag(op[r].to) /\ Pass(r, "commit")
    BY <1>3, <2>1, <2>4 DEF Flag
  <2> QED BY <1>6, <2>2, <2>3, <2>4 DEF CheckUpdateBranch
<1>7. CASE CheckOnboard(r)
  BY <1>2, <1>3, <1>7 DEF CheckOnboard
<1> QED BY <1>4, <1>5, <1>6, <1>7 DEF Check

LEMMA InsertIInv ==
    ASSUME IInv, NEW r \in Requests, InsertProduct(r)
    PROVE  IInv'
<1>1. /\ TypeOK /\ Ready(r) /\ pc[r] = "insert" /\ pc[r] \in InTx
      /\ op[r].kind \in {"newProduct", "newInactive"}
      /\ pc \in [Requests -> {"idle", "done"} \cup Waiting \cup InTx]
  BY DEF IInv, InsertProduct, Ready, Phase, InTx, TypeOK
<1>2. CASE End(r)
  BY <1>1, <1>2, EndIInv
<1>3. ASSUME NEW where \in {"share", "ensure"}, Pass(r, where),
             where = IF op[r].kind = "newInactive" THEN "share" ELSE "ensure"
      PROVE  IInv'
  <2>1. /\ pc'[r] = where /\ op' = op /\ found' = found
        /\ UNCHANGED <<product, branch, main, stale, plan>>
    BY <1>1, <1>3 DEF Pass, Goto, data
  <2>2. ActiveProducts' = ActiveProducts
    BY <2>1 DEF ActiveProducts
  <2>3. Ready(r)'
    BY <1>1, <1>3, <2>1, <2>2 DEF Ready, Phase, Counted, RowsFound, Locked
  <2>4. where \in InTx
    BY DEF InTx
  <2> QED BY <1>1, <1>3, <2>3, <2>4, PassIInv
<1> QED BY <1>2, <1>3 DEF InsertProduct

LEMMA ShareIInv ==
    ASSUME IInv, NEW r \in Requests, ShareTenant(r)
    PROVE  IInv'
<1>1. /\ Ready(r) /\ pc[r] = "share" /\ pc[r] \in InTx /\ "ensure" \in InTx
      /\ op[r].kind = "newInactive" /\ tenantLock = NoRequest /\ Pass(r, "ensure")
      /\ pc \in [Requests -> {"idle", "done"} \cup Waiting \cup InTx]
  BY DEF IInv, ShareTenant, Ready, Phase, InTx, TypeOK
<1>2. pc'[r] = "ensure" /\ op' = op /\ found' = found
  BY <1>1 DEF Pass, Goto
<1>3. Ready(r)'
  BY <1>1, <1>2 DEF Ready, Phase, Counted, RowsFound, Locked
<1> QED BY <1>1, <1>3, PassIInv

LEMMA EnsureIInv ==
    ASSUME IInv, NEW r \in Requests, EnsureStock(r)
    PROVE  IInv'
<1> DEFINE others == IF OfProduct(op[r]) THEN ActiveBranches ELSE ActiveProducts
<1>1. /\ TypeOK /\ Ready(r) /\ pc[r] = "ensure"
      /\ pc \in [Requests -> {"idle", "done"} \cup Waiting \cup InTx]
      /\ found \in [Requests -> (SUBSET Products) \cup (SUBSET Branches)]
      /\ pc' = [pc EXCEPT ![r] = "commit"] /\ op' = op /\ tenantLock' = tenantLock
      /\ found' = [found EXCEPT ![r] = others]
      /\ UNCHANGED <<data, plan>> /\ UNCHANGED <<product, branch, main, stale, plan>>
  BY DEF IInv, EnsureStock, Goto, TypeOK, data
<1>2. others \subseteq IF OfProduct(op[r]) THEN Branches ELSE Products
  BY DEF ActiveProducts, ActiveBranches
<1>3. /\ pc'[r] = "commit" /\ found'[r] = others
      /\ \A q \in Requests \ {r} : pc'[q] = pc[q] /\ op'[q] = op[q] /\ found'[q] = found[q]
  <2> HIDE DEF others
  <2> QED BY <1>1
<1>4. /\ ActiveProducts' = ActiveProducts /\ ActiveBranches' = ActiveBranches
      /\ BranchSlotFree' <=> BranchSlotFree
      /\ \A b : MayDeactivate(b)' <=> MayDeactivate(b)
  BY <1>1 DEF ActiveProducts, ActiveBranches, BranchSlotFree, MayDeactivate
<1>5. Ready(r)'
  <2>1. Phase(r)' /\ Counted(r)'
    BY <1>1, <1>3, <1>4 DEF Ready, Phase, Counted
  <2>2. RowsFound(r)'
    BY <1>1, <1>2, <1>3, <1>4 DEF RowsFound, OfProduct, Creates
  <2> QED BY <2>1, <2>2 DEF Ready
<1>6. TypeOK'
  <2>1. others \in (SUBSET Products) \cup (SUBSET Branches)
    <3>1. ActiveProducts \in SUBSET Products /\ ActiveBranches \in SUBSET Branches
      BY DEF ActiveProducts, ActiveBranches
    <3> QED BY <3>1
  <2>2. found' \in [Requests -> (SUBSET Products) \cup (SUBSET Branches)]
    <3> HIDE DEF others
    <3> QED BY <1>1, <2>1
  <2>3. pc' \in [Requests -> {"idle", "done"} \cup Waiting \cup InTx]
    BY <1>1 DEF InTx
  <2>4. tenantLock # NoRequest => pc'[tenantLock] \in InTx
    BY <1>1 DEF InTx, TypeOK
  <2> QED BY <1>1, <2>2, <2>3, <2>4 DEF TypeOK, data
<1>7. LockInv'
  <2>1. \A q \in Requests : pc'[q] \in InTx <=> pc[q] \in InTx
    BY <1>1 DEF InTx
  <2>2. Sharers' = Sharers
    BY <1>1 DEF Sharers
  <2> QED BY <1>1, <2>1, <2>2 DEF IInv, LockInv, TypeOK
<1> QED BY <1>1, <1>3, <1>5, <1>6, <1>7, NoRowMoves

-----------------------------------------------------------------------------
(* The steps that change rows.                                            *)

(* A plain update gives nobody a slot.                                    *)
LEMMA PlainShrinks ==
    ASSUME IInv, NEW r \in Requests, PlainUpdate(r)
    PROVE  /\ (ActiveProducts \ stale)' \subseteq ActiveProducts \ stale
           /\ Cardinality((ActiveProducts \ stale)') <= Cardinality(ActiveProducts \ stale)
<1> DEFINE p == op[r].id
<1>1. /\ pc[r] = "plain" /\ p \in Products /\ op[r].to \in BOOLEAN
      /\ product[p] \in {"active", "inactive"}
      /\ product \in [Products -> Existence]
      /\ product' = [product EXCEPT ![p] = Flag(op[r].to)]
      /\ stale' = IF ~op[r].to THEN stale \ {p}
                  ELSE IF product[p] = "inactive" THEN stale \cup {p} ELSE stale
  BY OpOf DEF PlainUpdate, IInv, Ready, Phase, TypeOK, Existence
<1>2. (ActiveProducts \ stale)' \subseteq ActiveProducts \ stale
  <2> HIDE DEF p
  <2>1. \A q \in Products : product'[q] = IF q = p THEN Flag(op[r].to) ELSE product[q]
    BY <1>1
  <2> QED BY <1>1, <2>1 DEF ActiveProducts, Flag
<1>3. Cardinality((ActiveProducts \ stale)') <= Cardinality(ActiveProducts \ stale)
  BY <1>2, FiniteActive, FS_Subset
<1> QED BY <1>2, <1>3

LEMMA PlainIInv ==
    ASSUME IInv, NEW r \in Requests, PlainUpdate(r)
    PROVE  IInv'
<1> DEFINE p == op[r].id
           Slots == ActiveProducts \ stale
<1>1. /\ pc[r] = "plain" /\ op[r].kind = "plain" /\ p \in Products /\ op[r].to \in BOOLEAN
      /\ product \in [Products -> Existence]
      /\ pc \in [Requests -> {"idle", "done"} \cup Waiting \cup InTx]
      /\ product' = [product EXCEPT ![p] = Flag(op[r].to)]
      /\ stale' \subseteq stale \cup {p}
      /\ pc' = [pc EXCEPT ![r] = "done"]
      /\ UNCHANGED <<branch, sku, main, rows, plan, tenantLock, op, found, early>>
  BY OpOf DEF PlainUpdate, Goto, IInv, Ready, Phase, TypeOK
<1>2. /\ pc'[r] = "done" /\ \A q \in Requests \ {r} : pc'[q] = pc[q]
      /\ \A q \in Products : product[q] # "none" => product'[q] # "none"
  BY <1>1 DEF Flag
<1>3. /\ ActiveBranches' = ActiveBranches
      /\ BranchSlotFree' <=> BranchSlotFree
      /\ \A b : MayDeactivate(b)' <=> MayDeactivate(b)
  BY <1>1 DEF ActiveBranches, BranchSlotFree, MayDeactivate
<1>4. Slots' \subseteq Slots /\ Cardinality(Slots') <= Cardinality(Slots)
  BY PlainShrinks
<1>5. TypeOK'
  <2>1. product' \in [Products -> Existence]
    BY <1>1 DEF Existence, Flag
  <2>2. stale' \subseteq Products
    BY <1>1 DEF IInv, TypeOK
  <2>3. pc' \in [Requests -> {"idle", "done"} \cup Waiting \cup InTx]
    BY <1>1
  <2>4. tenantLock # NoRequest => tenantLock # r
    BY <1>1 DEF IInv, TypeOK, InTx
  <2> QED BY <1>1, <1>2, <2>1, <2>2, <2>3, <2>4 DEF IInv, TypeOK
<1>6. LockInv'
  <2>1. \A q \in Requests : pc'[q] \in InTx <=> pc[q] \in InTx
    BY <1>1 DEF InTx
  <2>2. Sharers' = Sharers
    BY <1>1 DEF Sharers
  <2> QED BY <1>1, <2>1, <2>2 DEF IInv, LockInv, TypeOK
<1>7. ASSUME NEW q \in Requests PROVE Ready(q)'
  <2>1. Ready(q) /\ (q # r => pc'[q] = pc[q]) /\ op'[q] = op[q] /\ found'[q] = found[q]
    BY <1>1, <1>2 DEF IInv
  <2>2. op[q].kind = "plain" => op[q].id \in Products
    BY OpOf DEF IInv
  <2>3. Phase(q)'
    BY <1>1, <1>2, <2>1, <2>2 DEF Ready, Phase
  <2>4. Counted(q)'
    <3>1. /\ Cardinality(Slots') \in Nat /\ Cardinality(Slots) \in Nat
          /\ MaxProducts[plan] \in Nat
      <4>1. IsFiniteSet(Slots) /\ IsFiniteSet(Slots')
        BY <1>4, FiniteActive, FS_Subset
      <4> QED BY <4>1, FS_CardinalityType, PlansAssumption DEF IInv, TypeOK
    <3>2. ASSUME Cardinality(Slots) < MaxProducts[plan] PROVE Cardinality(Slots') < MaxProducts[plan]
      <4> HIDE DEF Slots
      <4> QED BY <1>4, <3>1, <3>2
    <3> QED BY <1>1, <1>2, <1>3, <2>1, <3>2 DEF Ready, Counted
  <2>5. RowsFound(q)'
    BY <1>1, <1>2, <1>3, <1>4, <2>1 DEF Ready, RowsFound, OfProduct, Creates
  <2> QED BY <2>3, <2>4, <2>5 DEF Ready
<1>8. branch' = branch /\ main' = main /\ rows' = rows /\ early' = early
  BY <1>1
<1>9. BranchesAnchored'
  BY <1>3, <1>8 DEF IInv, BranchesAnchored
<1>10. PairsStocked'
  <2> SUFFICES ASSUME NEW q \in ActiveProducts', NEW b \in ActiveBranches', q \notin stale'
               PROVE  <<q, b>> \in rows' \/ (b \in main' /\ q \in early')
    BY DEF PairsStocked
  <2>1. q \in Slots /\ b \in ActiveBranches
    BY <1>3, <1>4
  <2> QED BY <1>8, <2>1 DEF IInv, PairsStocked
<1> QED BY <1>5, <1>6, <1>7, <1>9, <1>10 DEF IInv

(* Nobody else is in a transaction that locks the tenant row when one     *)
(* commits.                                                               *)
LEMMA CommitAlone ==
    ASSUME IInv, NEW r \in Requests, Commit(r)
    PROVE  /\ \A q \in Requests \ {r} : pc[q] \in InTx => op[q].kind \notin Locked
           /\ tenantLock' = NoRequest
           /\ op[r].kind = "newInactive" \/ (op[r].kind \in Locked /\ Sharers = {})
<1>1. /\ pc[r] = "commit" /\ pc[r] \in InTx /\ LockInv /\ Ready(r)
      /\ op[r].kind \in Locked \cup {"newInactive"}
      /\ tenantLock' = IF tenantLock = r THEN NoRequest ELSE tenantLock
  BY DEF Commit, IInv, InTx, Ready, Phase
<1>2. CASE op[r].kind \in Locked
  <2>1. tenantLock = r
    BY <1>1, <1>2 DEF LockInv
  <2> QED BY <1>1, <1>2, <2>1, NoRequestAssumption DEF LockInv
<1>3. CASE op[r].kind = "newInactive"
  <2>1. r \in Sharers
    BY <1>1, <1>3 DEF Sharers
  <2>2. tenantLock = NoRequest
    BY <1>1, <2>1 DEF LockInv
  <2> QED BY <1>1, <1>3, <2>2, NoRequestAssumption DEF LockInv
<1> QED BY <1>1, <1>2, <1>3

(* What a commit does to the branches, case by case.                      *)
LEMMA CommitBranches ==
    ASSUME IInv, NEW r \in Requests, Commit(r)
    PROVE  /\ BranchesAnchored'
           /\ ActiveBranches' \ ActiveBranches # {} =>
                 Cardinality(ActiveBranches') <= MaxBranches[plan]
           /\ \A b \in Branches : branch[b] # "none" => branch'[b] # "none"
           /\ branch' \in [Branches -> Existence] /\ main' \subseteq Branches
           /\ op[r].kind = "updateBranch" => branch'[op[r].id] # "none"
<1> DEFINE b == op[r].id
<1>1. /\ TypeOK /\ Ready(r) /\ BranchesAnchored /\ pc[r] = "commit"
      /\ branch \in [Branches -> Existence] /\ main \subseteq Branches
      /\ op[r].kind \in Locked \cup {"newInactive"}
  BY DEF Commit, IInv, Ready, Phase, TypeOK
<1>2. CASE OfProduct(op[r])
  <2>1. branch' = branch /\ main' = main
    BY <1>2 DEF Commit
  <2>2. ActiveBranches' = ActiveBranches
    BY <2>1 DEF ActiveBranches
  <2>3. op[r].kind # "updateBranch"
    BY <1>1, <1>2, OpOf
  <2> QED BY <1>1, <2>1, <2>2, <2>3 DEF BranchesAnchored
<1>3. CASE ~OfProduct(op[r])
  <2>1. /\ b \in Branches /\ op[r].kind \in {"newBranch", "onboard", "updateBranch"}
        /\ op[r].kind = "updateBranch" => op[r].to \in BOOLEAN
    BY <1>1, <1>3, OpOf DEF Locked
  <2>2. /\ branch' = [branch EXCEPT ![b] =
                         Flag(IF op[r].kind = "updateBranch" THEN op[r].to ELSE TRUE)]
        /\ main' = IF op[r].kind = "onboard" THEN main \cup {b} ELSE main
    BY <1>3 DEF Commit
  <2>3. IsFiniteSet(ActiveBranches) /\ Cardinality(ActiveBranches) \in Nat
    BY FiniteActive, FS_CardinalityType
  <2>4. plan \in Plans /\ MaxBranches[plan] \in Nat \ {0}
    BY <1>1, PlansAssumption DEF TypeOK
  <2>5. /\ branch' \in [Branches -> Existence]
        /\ \A c \in Branches \ {b} : branch'[c] = branch[c]
        /\ branch'[b] # "none"
    BY <1>1, <2>1, <2>2 DEF Flag, Existence
  <2> HIDE DEF b
  <2>6. ASSUME branch'[b] = "active",
               b \in main' => op[r].kind = "onboard" \/ b \in main,
               main' \subseteq main \cup {b}, \A x, y \in main' : x = y,
               b \in ActiveBranches \/ BranchSlotFree \/ ActiveBranches = {}
        PROVE  /\ BranchesAnchored'
               /\ ActiveBranches' \ ActiveBranches # {} =>
                     Cardinality(ActiveBranches') <= MaxBranches[plan]
    <3>1. ActiveBranches' = ActiveBranches \cup {b}
      BY <2>1, <2>5, <2>6 DEF ActiveBranches
    <3>2. BranchesAnchored'
      BY <1>1, <2>6, <3>1 DEF BranchesAnchored
    <3>3. CASE b \in ActiveBranches
      BY <3>1, <3>2, <3>3
    <3>4. CASE b \notin ActiveBranches /\ BranchSlotFree
      <4>1. Cardinality(ActiveBranches') = Cardinality(ActiveBranches) + 1
        BY <2>3, <3>1, <3>4, FS_AddElement
      <4>2. Cardinality(ActiveBranches) < MaxBranches[plan]
        BY <3>4 DEF BranchSlotFree
      <4> QED BY <2>3, <2>4, <3>2, <4>1, <4>2
    <3>5. CASE ActiveBranches = {}
      <4>1. Cardinality(ActiveBranches') = 1
        BY <3>1, <3>5, FS_Singleton
      <4> QED BY <2>4, <3>2, <4>1
    <3> QED BY <2>6, <3>3, <3>4, <3>5
  <2>7. CASE op[r].kind = "newBranch"
    <3>1. BranchSlotFree
      BY <1>1, <2>7 DEF Ready, Counted
    <3>2. branch'[b] = "active" /\ main' = main
      BY <1>1, <2>1, <2>2, <2>7 DEF Flag
    <3> QED BY <1>1, <2>5, <2>6, <2>7, <3>1, <3>2 DEF BranchesAnchored
  <2>8. CASE op[r].kind = "onboard"
    <3>1. \A c \in Branches : branch[c] = "none"
      BY <1>1, <2>8 DEF Ready, Counted
    <3>2. ActiveBranches = {} /\ main = {}
      BY <1>1, <3>1 DEF ActiveBranches, BranchesAnchored
    <3>3. branch'[b] = "active" /\ main' = {b}
      BY <1>1, <2>1, <2>2, <2>8, <3>2 DEF Flag
    <3> QED BY <1>1, <2>1, <2>5, <2>6, <2>8, <3>2, <3>3
  <2>9. CASE op[r].kind = "updateBranch" /\ op[r].to
    <3>1. branch[b] = "active" \/ BranchSlotFree
      BY <1>1, <2>9 DEF Ready, Counted, b
    <3>2. branch'[b] = "active" /\ main' = main
      BY <1>1, <2>1, <2>2, <2>9 DEF Flag
    <3>3. b \in ActiveBranches \/ BranchSlotFree
      BY <2>1, <3>1 DEF ActiveBranches
    <3> QED BY <1>1, <2>5, <2>6, <2>9, <3>2, <3>3 DEF BranchesAnchored, b
  <2>10. CASE op[r].kind = "updateBranch" /\ ~op[r].to
    <3>1. /\ branch[b] = "inactive" \/ MayDeactivate(b)
          /\ branch[b] # "none"
      BY <1>1, <2>10 DEF Ready, Counted, Phase, b
    <3>2. branch'[b] = "inactive" /\ main' = main
      BY <1>1, <2>1, <2>2, <2>10 DEF Flag
    <3>3. ActiveBranches' = ActiveBranches \ {b}
      BY <2>1, <2>5, <3>2 DEF ActiveBranches
    <3>4. CASE branch[b] = "inactive"
      <4>1. ActiveBranches' = ActiveBranches
        BY <3>3, <3>4 DEF ActiveBranches
      <4>2. BranchesAnchored'
        BY <1>1, <2>1, <3>1, <3>2, <4>1 DEF BranchesAnchored
      <4> QED BY <1>1, <2>5, <3>2, <4>1, <4>2 DEF b
    <3>5. CASE MayDeactivate(b)
      <4>1. b \notin main /\ Cardinality(ActiveBranches) > 1
        BY <3>5 DEF MayDeactivate
      <4>2. ActiveBranches \ {b} # {}
        <5>1. SUFFICES ASSUME ActiveBranches \subseteq {b} PROVE FALSE
          OBVIOUS
        <5>2. Cardinality({b}) = 1 /\ IsFiniteSet({b})
          BY FS_Singleton
        <5>3. Cardinality(ActiveBranches) <= 1
          BY <5>1, <5>2, FS_Subset
        <5> QED BY <2>3, <4>1, <5>3
      <4>3. BranchesAnchored'
        BY <1>1, <3>2, <3>3, <4>1, <4>2 DEF BranchesAnchored
      <4> QED BY <1>1, <2>5, <3>2, <3>3, <4>3 DEF b
    <3> QED BY <3>1, <3>4, <3>5
  <2> QED BY <2>1, <2>7, <2>8, <2>9, <2>10
<1> QED BY <1>2, <1>3

(* What a commit does to the products: only a slot that was counted is    *)
(* taken.                                                                 *)
LEMMA CommitProducts ==
    ASSUME IInv, NEW r \in Requests, Commit(r)
    PROVE  /\ (ActiveProducts \ stale)' \ (ActiveProducts \ stale) # {} =>
                 Cardinality((ActiveProducts \ stale)') <= MaxProducts[plan]
           /\ \A p \in Products : product[p] # "none" => product'[p] # "none"
           /\ product' \in [Products -> Existence] /\ sku' \in [Products -> Seq(Nat)]
           /\ stale' \subseteq Products /\ early' \subseteq Products
<1> DEFINE p == op[r].id
<1>1. /\ TypeOK /\ Ready(r) /\ pc[r] = "commit"
      /\ product \in [Products -> Existence] /\ sku \in [Products -> Seq(Nat)]
      /\ stale \subseteq Products /\ early \subseteq Products
  BY DEF Commit, IInv, TypeOK
<1>2. CASE ~OfProduct(op[r])
  <2>1. product' = product /\ stale' = stale /\ sku' = sku /\ early' \in {early, ActiveProducts}
    BY <1>2 DEF Commit
  <2>2. ActiveProducts' = ActiveProducts /\ ActiveProducts \subseteq Products
    BY <2>1 DEF ActiveProducts
  <2> QED BY <1>1, <2>1, <2>2
<1>3. CASE OfProduct(op[r])
  <2>1. /\ p \in Products /\ op[r].kind \in {"newProduct", "newInactive", "reactivate"}
        /\ Creates(op[r]) => op[r].sku \in Seq(Nat)
    BY <1>1, <1>3, OpOf
  <2>2. /\ product' = [product EXCEPT ![p] = Flag(op[r].kind # "newInactive")]
        /\ sku' = IF Creates(op[r]) THEN [sku EXCEPT ![p] = op[r].sku] ELSE sku
        /\ stale' = stale \ {p} /\ early' = early
    BY <1>3 DEF Commit
  <2> HIDE DEF p
  <2>3. /\ product' \in [Products -> Existence] /\ sku' \in [Products -> Seq(Nat)]
        /\ \A q \in Products \ {p} : product'[q] = product[q]
        /\ product'[p] = Flag(op[r].kind # "newInactive") /\ product'[p] # "none"
    BY <1>1, <2>1, <2>2 DEF Flag, Existence
  <2>4. CASE op[r].kind = "newInactive"
    <3>1. product'[p] = "inactive"
      BY <2>3, <2>4 DEF Flag
    <3>2. (ActiveProducts \ stale)' \subseteq ActiveProducts \ stale
      BY <2>1, <2>2, <2>3, <3>1 DEF ActiveProducts
    <3> QED BY <1>1, <2>2, <2>3, <3>2
  <2>5. CASE op[r].kind # "newInactive"
    <3>1. (ActiveProducts \ stale)' = (ActiveProducts \ stale) \cup {p}
      <4>1. product'[p] = "active"
        BY <2>3, <2>5 DEF Flag
      <4> QED BY <2>1, <2>2, <2>3, <4>1 DEF ActiveProducts
    <3>2. Cardinality(ActiveProducts \ stale) < MaxProducts[plan]
      BY <1>1, <2>1, <2>5 DEF Ready, Counted
    <3>3. /\ IsFiniteSet(ActiveProducts \ stale) /\ Cardinality(ActiveProducts \ stale) \in Nat
          /\ MaxProducts[plan] \in Nat
      BY <1>1, FiniteActive, FS_CardinalityType, PlansAssumption DEF TypeOK
    <3>4. CASE p \in ActiveProducts \ stale
      <4>1. (ActiveProducts \ stale)' = ActiveProducts \ stale
        BY <3>1, <3>4
      <4> QED BY <1>1, <2>2, <2>3, <4>1
    <3>5. CASE p \notin ActiveProducts \ stale
      <4>1. Cardinality((ActiveProducts \ stale)') = Cardinality(ActiveProducts \ stale) + 1
        BY <3>1, <3>3, <3>5, FS_AddElement
      <4>2. Cardinality((ActiveProducts \ stale)') <= MaxProducts[plan]
        BY <3>2, <3>3, <4>1
      <4> QED BY <1>1, <2>2, <2>3, <4>2
    <3> QED BY <3>4, <3>5
  <2> QED BY <2>4, <2>5
<1> QED BY <1>2, <1>3

(* A commit opens the rows of every pair it makes active.                 *)
LEMMA CommitRows ==
    ASSUME IInv, NEW r \in Requests, Commit(r)
    PROVE  PairsStocked' /\ rows' \subseteq Products \X Branches
<1> DEFINE x == op[r].id
<1>1. /\ TypeOK /\ Ready(r) /\ PairsStocked /\ BranchesAnchored /\ pc[r] = "commit"
      /\ product \in [Products -> Existence] /\ branch \in [Branches -> Existence]
      /\ op[r].kind \in Locked \cup {"newInactive"}
      /\ rows \subseteq Products \X Branches
      /\ rows' = rows \cup StockRows(op[r], found[r])
  BY DEF Commit, IInv, TypeOK, Ready, Phase
<1>2. CASE OfProduct(op[r])
  <2>1. x \in Products /\ op[r].kind \in {"newProduct", "newInactive", "reactivate"}
    BY <1>1, <1>2, OpOf
  <2>2. /\ product' = [product EXCEPT ![x] = Flag(op[r].kind # "newInactive")]
        /\ stale' = stale \ {x} /\ UNCHANGED <<branch, main, early>>
    BY <1>2 DEF Commit
  <2>3. /\ StockRows(op[r], found[r]) = {<<x, b>> : b \in found[r]}
        /\ found[r] \subseteq Branches
        /\ op[r].kind # "newInactive" => ActiveBranches \subseteq found[r]
    BY <1>1, <1>2, <2>1 DEF StockRows, Ready, RowsFound
  <2> HIDE DEF x
  <2>4. rows' \subseteq Products \X Branches
    BY <1>1, <2>1, <2>3
  <2>5. ActiveBranches' = ActiveBranches
    BY <2>2 DEF ActiveBranches
  <2>6. ASSUME NEW p \in ActiveProducts', NEW b \in ActiveBranches', p \notin stale'
        PROVE  <<p, b>> \in rows' \/ (b \in main' /\ p \in early')
    <3>1. CASE p = x
      <4>1. product'[x] = "active"
        BY <2>6, <3>1 DEF ActiveProducts
      <4>2. op[r].kind # "newInactive"
        BY <1>1, <2>1, <2>2, <4>1 DEF Flag
      <4> QED BY <1>1, <2>3, <2>5, <3>1, <4>2
    <3>2. CASE p # x
      <4>1. p \in ActiveProducts /\ p \notin stale
        BY <1>1, <2>1, <2>2, <2>6, <3>2 DEF ActiveProducts
      <4> QED BY <1>1, <2>2, <2>5, <4>1 DEF PairsStocked
    <3> QED BY <3>1, <3>2
  <2> QED BY <2>4, <2>6 DEF PairsStocked
<1>3. CASE ~OfProduct(op[r])
  <2>1. x \in Branches /\ op[r].kind \in {"newBranch", "onboard", "updateBranch"}
    BY <1>1, <1>3, OpOf DEF Locked
  <2>2. /\ branch' = [branch EXCEPT ![x] =
                         Flag(IF op[r].kind = "updateBranch" THEN op[r].to ELSE TRUE)]
        /\ main' = IF op[r].kind = "onboard" THEN main \cup {x} ELSE main
        /\ early' = IF op[r].kind = "onboard" THEN ActiveProducts ELSE early
        /\ product' = product /\ stale' = stale
    BY <1>3 DEF Commit
  <2>3. /\ StockRows(op[r], found[r]) = {<<p, x>> : p \in found[r]}
        /\ found[r] \subseteq Products
    BY <1>1, <1>3 DEF StockRows, Ready, RowsFound
  <2>4. ActiveProducts' = ActiveProducts
    BY <2>2 DEF ActiveProducts
  <2>5. rows' \subseteq Products \X Branches
    <3> HIDE DEF x
    <3> QED BY <1>1, <2>1, <2>3
  <2>6. ASSUME NEW p \in ActiveProducts', NEW b \in ActiveBranches', p \notin stale'
        PROVE  <<p, b>> \in rows' \/ (b \in main' /\ p \in early')
    <3>1. p \in ActiveProducts \ stale
      BY <2>2, <2>4, <2>6
    <3>2. CASE op[r].kind = "onboard"
      <4>1. ActiveBranches = {}
        BY <1>1, <3>2 DEF Ready, Counted, ActiveBranches
      <4>2. b = x
        <5> HIDE DEF x
        <5> QED BY <1>1, <2>1, <2>2, <2>6, <4>1 DEF ActiveBranches
      <4> QED BY <2>2, <3>1, <3>2, <4>2
    <3>3. CASE op[r].kind # "onboard" /\ b \in ActiveBranches
      BY <1>1, <2>2, <3>1, <3>3 DEF PairsStocked
    <3>4. CASE op[r].kind # "onboard" /\ b \notin ActiveBranches
      <4>1. b = x /\ branch[x] # "active" /\ branch'[x] = "active"
        <5> HIDE DEF x
        <5> QED BY <1>1, <2>1, <2>2, <2>6, <3>4 DEF ActiveBranches
      <4>2. op[r].kind = "updateBranch" => op[r].to /\ branch[x] = "inactive"
        <5>1. ASSUME op[r].kind = "updateBranch" PROVE op[r].to /\ branch[x] = "inactive"
          <6>1. op[r].to \in BOOLEAN /\ branch[x] # "none"
            BY <1>1, <5>1, OpOf DEF Ready, Phase
          <6>2. branch'[x] = Flag(op[r].to)
            <7> HIDE DEF x
            <7> QED BY <1>1, <2>1, <2>2, <5>1
          <6> QED BY <1>1, <2>1, <4>1, <6>1, <6>2 DEF Flag, Existence
        <5> QED BY <5>1
      <4>3. ActiveProducts \ stale \subseteq found[r]
        BY <1>1, <2>1, <3>4, <4>2 DEF Ready, RowsFound
      <4> QED BY <1>1, <2>3, <3>1, <4>1, <4>3
    <3> QED BY <3>2, <3>3, <3>4
  <2> QED BY <2>5, <2>6 DEF PairsStocked
<1> QED BY <1>2, <1>3

LEMMA CommitIInv ==
    ASSUME IInv, NEW r \in Requests, Commit(r)
    PROVE  IInv'
<1>1. /\ TypeOK /\ pc[r] = "commit"
      /\ pc \in [Requests -> {"idle", "done"} \cup Waiting \cup InTx]
      /\ pc' = [pc EXCEPT ![r] = "done"] /\ plan' = plan /\ op' = op /\ found' = found
      /\ tenantLock' = NoRequest
  BY CommitAlone DEF Commit, Goto, IInv, TypeOK
<1>2. pc'[r] = "done" /\ \A q \in Requests \ {r} : pc'[q] = pc[q]
  BY <1>1
<1>3. TypeOK'
  BY <1>1, CommitBranches, CommitProducts, CommitRows DEF TypeOK
<1>4. LockInv'
  BY <1>1, <1>2, CommitAlone DEF LockInv, InTx
<1>5. ASSUME NEW q \in Requests PROVE Ready(q)'
  <2>1. Ready(q) /\ (q # r => pc'[q] = pc[q] /\ (pc[q] \in InTx => op[q].kind \notin Locked))
    BY <1>2, CommitAlone DEF IInv
  <2>2. /\ op[q].kind = "plain" => op[q].id \in Products
        /\ op[q].kind = "updateBranch" => op[q].id \in Branches
    BY <1>1, OpOf
  <2>3. Phase(q)'
    <3>1. pc'[q] = "ensure" => op[q].kind \notin Locked
      BY <1>2, <2>1 DEF InTx
    <3> QED BY <1>1, <1>2, <2>1, <2>2, <3>1, CommitBranches, CommitProducts DEF Ready, Phase, Locked
  <2>4. Counted(q)'
    BY <1>1, <1>2, <2>1 DEF Counted, InTx, Locked
  <2>5. RowsFound(q)'
    BY <1>1, <1>2, <2>1 DEF Ready, RowsFound, InTx, Locked, OfProduct, Creates
  <2> QED BY <2>3, <2>4, <2>5 DEF Ready
<1> QED BY <1>3, <1>4, <1>5, CommitBranches, CommitRows DEF IInv

LEMMA PlanIInv ==
    ASSUME IInv, NEW pl \in Plans, ChangePlan(pl)
    PROVE  IInv'
<1>1. /\ tenantLock = NoRequest /\ plan' = pl /\ UNCHANGED <<data, tenantLock, pc, op, found>>
      /\ product' = product /\ branch' = branch /\ rows' = rows /\ main' = main
      /\ stale' = stale /\ early' = early
      /\ ActiveProducts' = ActiveProducts /\ ActiveBranches' = ActiveBranches
  BY DEF ChangePlan, data, ActiveProducts, ActiveBranches
<1>2. TypeOK' /\ LockInv' /\ BranchesAnchored' /\ PairsStocked'
  BY <1>1 DEF IInv, TypeOK, LockInv, Sharers, BranchesAnchored, PairsStocked, data
<1>3. ASSUME NEW r \in Requests PROVE Ready(r)'
  <2>1. Ready(r) /\ (pc[r] \in InTx => op[r].kind \notin Locked)
    BY <1>1, NoRequestAssumption DEF IInv, LockInv
  <2>2. Phase(r)' /\ RowsFound(r)'
    BY <1>1, <2>1 DEF Ready, Phase, RowsFound
  <2>3. Counted(r)'
    BY <1>1, <2>1 DEF Counted, InTx, Locked
  <2> QED BY <2>2, <2>3 DEF Ready
<1> QED BY <1>2, <1>3 DEF IInv

LEMMA StutterIInv ==
    ASSUME IInv, UNCHANGED vars
    PROVE  IInv'
<1>1. /\ product' = product /\ branch' = branch /\ sku' = sku /\ main' = main /\ rows' = rows
      /\ plan' = plan /\ tenantLock' = tenantLock /\ pc' = pc /\ op' = op /\ found' = found
      /\ stale' = stale /\ early' = early
      /\ ActiveProducts' = ActiveProducts /\ ActiveBranches' = ActiveBranches
  BY DEF vars, ActiveProducts, ActiveBranches
<1>2. TypeOK' /\ LockInv' /\ BranchesAnchored' /\ PairsStocked'
  BY <1>1 DEF IInv, TypeOK, LockInv, Sharers, BranchesAnchored, PairsStocked
<1>3. ASSUME NEW r \in Requests PROVE Ready(r)'
  BY <1>1 DEF IInv, Ready, Phase, Counted, RowsFound, BranchSlotFree, MayDeactivate
<1> QED BY <1>2, <1>3 DEF IInv

LEMMA InitIInv == Init => IInv
<1> SUFFICES ASSUME Init PROVE IInv
  OBVIOUS
<1>1. TypeOK
  <2>1. <<>> \in Seq(Nat)
    OBVIOUS
  <2> QED BY <2>1 DEF Init, TypeOK, Existence, InTx
<1>2. LockInv
  BY DEF Init, LockInv, InTx
<1>3. ASSUME NEW r \in Requests PROVE Ready(r)
  BY DEF Init, Ready, Phase, Counted, RowsFound, NoOp, Locked
<1>4. BranchesAnchored /\ PairsStocked
  BY DEF Init, BranchesAnchored, PairsStocked, ActiveProducts, ActiveBranches
<1> QED BY <1>1, <1>2, <1>3, <1>4 DEF IInv

LEMMA StepIInv ==
    ASSUME IInv, [Next]_vars
    PROVE  IInv'
<1>1. ASSUME NEW r \in Requests, Step(r) PROVE IInv'
  BY <1>1, LockTenantIInv, CheckIInv, InsertIInv, ShareIInv, EnsureIInv, CommitIInv, PlainIInv
     DEF Step
<1>2. ASSUME NEW r \in Requests, Abort(r) PROVE IInv'
  BY <1>2, EndIInv DEF Abort
<1> QED BY <1>1, <1>2, CallIInv, PlanIInv, StutterIInv DEF Next

-----------------------------------------------------------------------------
(* The theorems.                                                          *)

(* What the proofs below rest on: who holds the tenant row, and that what *)
(* it has counted and read under that lock stays true until it commits,   *)
(* whatever plain updates, inactive creations and aborts come between.    *)
THEOREM Invariance == Spec => []IInv
BY InitIInv, StepIInv, PTL DEF Spec

(* Every row, lock and request of products.service.ts, branches.service.ts *)
(* and onboarding.service.ts has its type, and only a transaction under    *)
(* way holds the tenant row.                                               *)
THEOREM TypeCorrect == Spec => []TypeOK
<1>1. IInv => TypeOK
  BY DEF IInv
<1> QED BY <1>1, Invariance, PTL

(* Every active product has a stock row in every active branch, but for   *)
(* those that a plain update reactivated and, in the main branch, those   *)
(* older than the onboarding: ensureStockForNewProduct and                *)
(* ensureStockForNewBranch together miss no pair, however the creations   *)
(* of both sides interleave.                                              *)
THEOREM PairsAlwaysStocked == Spec => []PairsStocked
<1>1. IInv => PairsStocked
  BY DEF IInv
<1> QED BY <1>1, Invariance, PTL

(* A distributor that ever had a branch keeps an active one, and its main *)
(* branch is single and active: update and remove of branches.service.ts  *)
(* cannot together deactivate the last one.                               *)
THEOREM BranchesAlwaysAnchored == Spec => []BranchesAnchored
<1>1. IInv => BranchesAnchored
  BY DEF IInv
<1> QED BY <1>1, Invariance, PTL

(* The SKU that createProduct generates for a base with numbered SKUs     *)
(* only, and the one that duplicate generates for a copy, are free when   *)
(* they are generated, for every set of SKUs taken.                       *)
THEOREM SkuAlwaysFree == Spec => []NextSkuIsFree
<1>1. TypeOK => NextSkuIsFree
  <2> SUFFICES ASSUME TypeOK PROVE NextSkuIsFree
    OBVIOUS
  <2>1. \A base \in Bases : Regular(Taken, base) => GenerateSku(Taken, base) \notin Taken
    BY BaseType, TakenType, GenerateSkuFree
  <2>2. \A s \in Taken : CopySku(Taken, s) \notin Taken
    BY TakenType, CopySkuFree
  <2> QED BY <2>1, <2>2 DEF NextSkuIsFree
<1> QED BY <1>1, TypeCorrect, PTL

(* A step other than a commit activates no branch.                        *)
LEMMA BranchStep ==
    ASSUME IInv, [Next]_vars
    PROVE  ActiveBranches' \ ActiveBranches # {} =>
              Cardinality(ActiveBranches') <= MaxBranches[plan]
<1>1. ASSUME NEW r \in Requests, Commit(r)
      PROVE  ActiveBranches' \ ActiveBranches # {} =>
                Cardinality(ActiveBranches') <= MaxBranches[plan]
  BY <1>1, CommitBranches
<1>2. ASSUME branch' = branch PROVE ActiveBranches' = ActiveBranches
  BY <1>2 DEF ActiveBranches
<1>3. ASSUME NEW r \in Requests, CallProduct(r) \/ CallBranch(r) PROVE branch' = branch
  BY <1>3 DEF CallProduct, CallBranch, CreateProduct, DuplicateProduct, StartCreate,
              UpdateProduct, RemoveProduct, CreateBranch, UpdateBranch, RemoveBranch,
              OnboardBranch, Start, data
<1>4. ASSUME NEW r \in Requests, Step(r), ~Commit(r) PROVE branch' = branch
  BY <1>4 DEF Step, LockTenant, Check, CheckProduct, CheckNewBranch, CheckUpdateBranch,
              CheckOnboard, InsertProduct, ShareTenant, EnsureStock, PlainUpdate, Pass, End, data
<1>5. ASSUME (\E r \in Requests : Abort(r)) \/ (\E pl \in Plans : ChangePlan(pl)) \/ UNCHANGED vars
      PROVE  branch' = branch
  BY <1>5 DEF Abort, End, ChangePlan, data, vars
<1> QED BY <1>1, <1>2, <1>3, <1>4, <1>5 DEF Next

(* A step other than a commit takes no product slot.                      *)
LEMMA ProductStep ==
    ASSUME IInv, [Next]_vars
    PROVE  (ActiveProducts \ stale)' \ (ActiveProducts \ stale) # {} =>
              Cardinality((ActiveProducts \ stale)') <= MaxProducts[plan]
<1>1. ASSUME NEW r \in Requests, Commit(r)
      PROVE  (ActiveProducts \ stale)' \ (ActiveProducts \ stale) # {} =>
                Cardinality((ActiveProducts \ stale)') <= MaxProducts[plan]
  BY <1>1, CommitProducts
<1>2. ASSUME NEW r \in Requests, PlainUpdate(r)
      PROVE  (ActiveProducts \ stale)' \ (ActiveProducts \ stale) = {}
  BY <1>2, PlainShrinks
<1>3. ASSUME product' = product, stale' = stale
      PROVE  (ActiveProducts \ stale)' = ActiveProducts \ stale
  BY <1>3 DEF ActiveProducts
<1>4. ASSUME NEW r \in Requests, CallProduct(r) \/ CallBranch(r)
      PROVE  product' = product /\ stale' = stale
  BY <1>4 DEF CallProduct, CallBranch, CreateProduct, DuplicateProduct, StartCreate,
              UpdateProduct, RemoveProduct, CreateBranch, UpdateBranch, RemoveBranch,
              OnboardBranch, Start, data
<1>5. ASSUME NEW r \in Requests, Step(r), ~Commit(r), ~PlainUpdate(r)
      PROVE  product' = product /\ stale' = stale
  BY <1>5 DEF Step, LockTenant, Check, CheckProduct, CheckNewBranch, CheckUpdateBranch,
              CheckOnboard, InsertProduct, ShareTenant, EnsureStock, Pass, End, data
<1>6. ASSUME (\E r \in Requests : Abort(r)) \/ (\E pl \in Plans : ChangePlan(pl)) \/ UNCHANGED vars
      PROVE  product' = product /\ stale' = stale
  BY <1>6 DEF Abort, End, ChangePlan, data, vars
<1> QED BY <1>1, <1>2, <1>3, <1>4, <1>5, <1>6 DEF Next

(* A branch becomes active only within the plan's limit in force at that  *)
(* step: assertCanActivateBranch counts under the tenant's lock, and the  *)
(* count holds until the commit.                                          *)
THEOREM BranchSlotsHold == Spec => BranchSlots
<1>1. IInv /\ [Next]_vars =>
         [ActiveBranches' \ ActiveBranches # {} =>
             Cardinality(ActiveBranches') <= MaxBranches[plan]]_vars
  BY BranchStep
<1> QED BY <1>1, Invariance, PTL DEF Spec, BranchSlots

(* The same for products, those aside that a plain update reactivated.    *)
THEOREM ProductSlotsHold == Spec => ProductSlots
<1>1. IInv /\ [Next]_vars =>
         [(ActiveProducts \ stale)' \ (ActiveProducts \ stale) # {} =>
             Cardinality((ActiveProducts \ stale)') <= MaxProducts[plan]]_vars
  BY ProductStep
<1> QED BY <1>1, Invariance, PTL DEF Spec, ProductSlots
-----------------------------------------------------------------------------
(* The locks.  Whoever is under way stands at a statement that waits for  *)
(* nothing, or for the locks named here: the guards of Step, in which     *)
(* LocksNeverCycle asks the same with ENABLED.                            *)
Unblocked(r) ==
    \/ pc[r] = "lock" /\ tenantLock = NoRequest /\ Sharers = {}
    \/ pc[r] = "insert" /\ SkuHolders(r) = {}
    \/ pc[r] = "share" /\ tenantLock = NoRequest
    \/ pc[r] = "plain" /\ Writers(op[r].id) = {}
    \/ pc[r] \in {"check", "ensure", "commit"}

UnderWay(r) == pc[r] \notin {"idle", "done"}

(* No step is taken by a call that waits.                                 *)
LEMMA StepsAreUnblocked ==
    ASSUME NEW r \in Requests, Step(r)
    PROVE  UnderWay(r) /\ Unblocked(r)
  BY DEF Step, LockTenant, Check, InsertProduct, ShareTenant, EnsureStock, Commit, PlainUpdate,
         UnderWay, Unblocked

(* Whoever holds a SKU goes on, or waits for the tenant row.              *)
LEMMA SkuHolderGoesOn ==
    ASSUME NEW r \in Requests, NEW q \in SkuHolders(r)
    PROVE  q \in Requests /\ (pc[q] = "share" \/ Unblocked(q))
  BY DEF SkuHolders, Unblocked

(* Whoever holds the tenant row goes on, or somebody does who holds its   *)
(* SKU, unless that one waits for the tenant row: the known deadlock.     *)
LEMMA TenantHolderGoesOn ==
    ASSUME IInv, tenantLock # NoRequest
    PROVE  SkuDeadlock \/ \E r \in Requests : Unblocked(r)
<1>1. tenantLock \in Requests /\ pc[tenantLock] \in InTx /\ op[tenantLock].kind \in Locked
  BY DEF IInv, TypeOK, LockInv
<1>2. CASE pc[tenantLock] \in {"check", "ensure", "commit"}
  BY <1>1, <1>2 DEF Unblocked
<1>3. CASE pc[tenantLock] = "share"
  BY <1>1, <1>3 DEF IInv, Ready, Phase, Locked
<1>4. CASE pc[tenantLock] = "insert"
  <2>1. CASE SkuHolders(tenantLock) = {}
    BY <1>1, <1>4, <2>1 DEF Unblocked
  <2>2. CASE SkuHolders(tenantLock) # {}
    <3>1. PICK q \in SkuHolders(tenantLock) : TRUE
      BY <2>2
    <3>2. CASE pc[q] = "share"
      BY <1>1, <1>4, <3>1, <3>2, SkuHolderGoesOn DEF SkuDeadlock
    <3>3. CASE Unblocked(q)
      BY <1>1, <3>3, SkuHolderGoesOn
    <3> QED BY <1>1, <3>2, <3>3, SkuHolderGoesOn
  <2> QED BY <2>1, <2>2
<1> QED BY <1>1, <1>2, <1>3, <1>4 DEF InTx

(* plan-limits.ts lockTenant and the implicit locks of inserts and        *)
(* updates: however many calls are under way, one of them waits for       *)
(* nobody, but in the deadlock of two creations with one SKU.             *)
THEOREM SomebodyAlwaysGoesOn ==
    Spec => []((\E r \in Requests : UnderWay(r))
                  => SkuDeadlock \/ \E r \in Requests : Unblocked(r))
<1>1. ASSUME IInv, NEW r \in Requests, UnderWay(r)
      PROVE  SkuDeadlock \/ \E q \in Requests : Unblocked(q)
  <2>1. CASE tenantLock # NoRequest
    BY <1>1, <2>1, TenantHolderGoesOn
  <2>2. CASE tenantLock = NoRequest
    <3>1. CASE Sharers # {}
      <4>1. PICK q \in Sharers : TRUE
        BY <3>1
      <4> QED BY <4>1 DEF Sharers, Unblocked
    <3>2. CASE pc[r] = "lock" /\ Sharers = {}
      BY <2>2, <3>2 DEF Unblocked
    <3>3. CASE pc[r] = "insert"
      <4>1. CASE SkuHolders(r) = {}
        BY <3>3, <4>1 DEF Unblocked
      <4>2. CASE SkuHolders(r) # {}
        <5>1. PICK q \in SkuHolders(r) : TRUE
          BY <4>2
        <5>2. pc[q] = "share" => Unblocked(q)
          BY <2>2 DEF Unblocked
        <5> QED BY <5>1, <5>2, SkuHolderGoesOn
      <4> QED BY <4>1, <4>2
    <3>4. CASE pc[r] = "plain"
      <4>1. CASE Writers(op[r].id) = {}
        BY <3>4, <4>1 DEF Unblocked
      <4>2. CASE Writers(op[r].id) # {}
        <5>1. PICK q \in Writers(op[r].id) : TRUE
          BY <4>2
        <5> QED BY <5>1 DEF Writers, Unblocked
      <4> QED BY <4>1, <4>2
    <3>5. CASE pc[r] \in {"share", "check", "ensure", "commit"}
      BY <2>2, <3>5 DEF Unblocked
    <3> QED
      BY <1>1, <3>1, <3>2, <3>3, <3>4, <3>5 DEF IInv, TypeOK, UnderWay, Waiting, InTx
  <2> QED BY <2>1, <2>2
<1>2. IInv => ((\E r \in Requests : UnderWay(r))
                  => SkuDeadlock \/ \E r \in Requests : Unblocked(r))
  BY <1>1
<1> QED BY <1>2, Invariance, PTL
=============================================================================
