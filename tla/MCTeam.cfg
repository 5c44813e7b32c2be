SPECIFICATION Spec
CONSTANTS
    Members = {m0, m1, m2, m3}
    Accounts = {u0, u1}
    Emails = {e0, e1, e2}
    Branches = {b1}
    Requests = {r1, r2, r3}
    None = None
    OwnerRow = m0
    Owner = u0
    OwnerEmail = e0
    MaxUsers = 3
    MaxEmailChanges = 1
SYMMETRY Symmetry
INVARIANTS TypeOK SeatsWithinPlan PlacesHold DeadlocksAreOfUpdates
PROPERTIES InvitationsHold ConfinedHaveBranches
CHECK_DEADLOCK FALSE
