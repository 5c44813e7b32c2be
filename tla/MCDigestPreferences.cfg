SPECIFICATION MCSpec
CONSTANTS
    t1 = t1
    t2 = t2
    m1 = m1
    b1 = b1
    b2 = b2
    w1 = w1
    w2 = w2
    Tenants = {t1, t2}
    Members = {m1}
    Branches = {b1, b2}
    Workers = {w1, w2}
    NoWorker = NoWorker
    TenantOf <- MCTenantOf
    BranchesOf <- MCBranchesOf
    Attempts = 2
    Retention = 2
    MaxDay = 2
    MaxChanges = 2
SYMMETRY MCSymmetry
PROPERTIES AlertsAsPreferred
CHECK_DEADLOCK FALSE
