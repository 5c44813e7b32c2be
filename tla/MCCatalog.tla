----------------------------- MODULE MCCatalog ----------------------------
(* A few calls on three products and two branches, under plans that allow   *)
(* one and two of each, and two bases of SKUs, one longer than the other. *)
EXTENDS Catalog, TLC

CONSTANTS small, large

MCLimit == [pl \in Plans |-> IF pl = small THEN 1 ELSE 2]
MCBases == {<<20>>, <<20, 21>>}
Symmetry == Permutations(Requests) \cup Permutations(Products) \cup Permutations(Branches)
=============================================================================
