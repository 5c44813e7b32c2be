-------------------------------- MODULE Sku -------------------------------
(***************************************************************************)
(* The SKUs that products.service.ts generates: from the abbreviated      *)
(* category and name for a new product, from the source's for a copy.     *)
(*                                                                         *)
(* A SKU is the sequence of its parts between dashes.  A part is coded by *)
(* an integer: a number below FirstWord is that number, the codes from    *)
(* FirstWord on are words in their order.  Numbers below Limit are padded *)
(* to one length, those from Limit on have one more digit.                *)
(***************************************************************************)
EXTENDS Integers, SequencesExt

CONSTANTS
    Radix, Limit,     \* 10 and 1000 in the code: padStart(3, '0')
    FirstWord,        \* above every number that occurs
    Copia, NaN        \* the words COPIA and NaN

ASSUME PartsAssumption ==
    /\ Radix \in Nat \ {0} /\ {Limit, FirstWord, Copia, NaN} \subseteq Nat
    /\ Limit * Radix <= FirstWord /\ FirstWord <= Copia /\ Copia < NaN

IsWord(x) == x >= FirstWord

(* The order of the texts of two parts: 1000 comes between 100 and 101.   *)
PartBefore(x, y) ==
    \/ (x < Limit <=> y < Limit) /\ x < y
    \/ x < Limit /\ y >= Limit /\ (IsWord(y) \/ x * Radix <= y)
    \/ x >= Limit /\ y < Limit /\ ~IsWord(x) /\ x < y * Radix

SkuBefore(s, t) ==
    \E i \in DOMAIN t :
        /\ \A j \in 1..(i - 1) : j \in DOMAIN s /\ s[j] = t[j]
        /\ i \in DOMAIN s => PartBefore(s[i], t[i])

(* The SKUs that start with base and a dash.                              *)
Family(taken, base) == {s \in taken : IsStrictPrefix(base, s)}

(* Number(...) + 1: a last part that is a word is no number.              *)
Increment(x) == IF IsWord(x) THEN NaN ELSE x + 1

(* Mutant: the number of the latest SKU is used as it is.                 *)
GenerateSkuAgain(taken, base) ==
    LET family == Family(taken, base)
        latest == CHOOSE s \in family : \A t \in family \ {s} : SkuBefore(t, s)
    IN  Append(base, IF family = {} THEN 1 ELSE Last(latest))

GenerateSku(taken, base) ==
    LET family == Family(taken, base)
        latest == CHOOSE s \in family : \A t \in family \ {s} : SkuBefore(t, s)
    IN  Append(base, IF family = {} THEN 1 ELSE Increment(Last(latest)))

CopySku(taken, sku) ==
    LET candidate(k) == sku \o (IF k = 1 THEN <<Copia>> ELSE <<Copia, k>>)
    IN  candidate(Min({k \in 1..(Cardinality(taken) + 1) : candidate(k) \notin taken}))

(* Only plain numbered SKUs have this base.                               *)
Regular(taken, base) ==
    \A s \in Family(taken, base) : Len(s) = Len(base) + 1 /\ Last(s) < Limit
=============================================================================
