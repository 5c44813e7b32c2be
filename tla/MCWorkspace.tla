---------------------------- MODULE MCWorkspace ---------------------------
(* An owner and one more member, who has one branch or all, two branches  *)
(* and a product that is new or has one piece in each branch.             *)
EXTENDS Workspace, TLC

MCMinStock == [p \in Products |-> 2]
MCInit ==
    /\ Init
    /\ ~readOnly
    /\ \A c \in DOMAIN stock : stock[c] = 1
    /\ \A m \in Members : Cardinality(member[m].branches) <= 1
MCSpec == MCInit /\ [][Next]_vars

Symmetry == Permutations(Requests) \cup Permutations(Products) \cup Permutations(Branches)
=============================================================================
