------------------------------ MODULE MCDigest ------------------------------
EXTENDS Digest, TLC

CONSTANTS t1, t2, m1, b1, b2, w1, w2

MCTenantOf == m1 :> t1
MCBranchesOf == t1 :> {b1, b2} @@ t2 :> {}
(* Bound: the first day tells of every branch, and the member has full     *)
(* access or one branch. The second day tells of one branch at most.       *)
MCInit == Init /\ moved[0] = Branches /\ Cardinality(member[m1].branches) <= 1
MCSpec == MCInit /\ [][Next]_vars

MCSymmetry == Permutations({b1, b2}) \cup Permutations({w1, w2})

(* Bound: of the last day no run is followed, only what is left of those   *)
(* before it, of their mails and of the jobs that are removed.             *)
MCLastDay == day = MaxDay => \A w \in Workers : run[w].today < MaxDay
=============================================================================
