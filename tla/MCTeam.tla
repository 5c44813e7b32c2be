------------------------------- MODULE MCTeam -----------------------------
(* An owner, one more account, and room for one more member.              *)
EXTENDS Team, TLC

Symmetry ==
    Permutations(Requests) \cup Permutations(Members \ {OwnerRow})
    \cup Permutations(Emails \ {OwnerEmail})
=============================================================================
