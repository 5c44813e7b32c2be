SPECIFICATION FairSpec
CONSTANTS
    p1 = p1
    p2 = p2
    b1 = b1
    b2 = b2
    b3 = b3
    t1 = t1
    t2 = t2
    Products = {p1, p2}
    Branches = {b1, b2, b3}
    MainBranches = {b1, b2}
    TenantOf <- MCTenantOf
    Callers <- MCCallers
    Requests = {r1, r2}
    NoRequest = NoRequest
    Qtys = {1}
    MaxInt = 1
    MaxAttempts = 2
PROPERTIES InactiveBranchReceivesNoMovement
CHECK_DEADLOCK FALSE
