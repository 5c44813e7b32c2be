SPECIFICATION Spec
CONSTANTS
    p1 = p1
    b1 = b1
    t1 = t1
    Products = {p1}
    Branches = {b1}
    MainBranches = {b1}
    TenantOf <- MCTenantOf
    Callers <- MCCallers
    Requests = {r1, r2, r3}
    NoRequest = NoRequest
    Qtys = {1, 2}
    MaxInt = 2
    MaxAttempts = 2
SYMMETRY RequestSymmetry
INVARIANTS TypeOK Books AnswersHold ConflictMeansContention
PROPERTIES LedgerSpec
CHECK_DEADLOCK FALSE
