----------------------------- MODULE MCAccounts -----------------------------
(* Overlapping requests of one account, which has the e-mail e1.           *)
EXTENDS Accounts, TLC

CONSTANTS e1, e2, e3

MCInit == Init /\ user.email = e1
MCSpec == MCInit /\ [][Next]_vars

Symmetry == Permutations(Requests) \cup Permutations(Links)
                \cup Permutations(Sessions) \cup Permutations({e2, e3})
=============================================================================
