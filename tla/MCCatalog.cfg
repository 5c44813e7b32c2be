SPECIFICATION Spec
CONSTANTS
    Products = {p1, p2, p3}
    Branches = {b1, b2}
    Requests = {r1, r2, r3, r4}
    NoRequest = NoRequest
    small = small
    large = large
    Plans = {small, large}
    MaxProducts <- MCLimit
    MaxBranches <- MCLimit
    Bases <- MCBases
    Radix = 3
    Limit = 3
    FirstWord = 9
    Copia = 22
    NaN = 23
SYMMETRY Symmetry
INVARIANTS TypeOK PairsStocked BranchesAnchored NextSkuIsFree LocksNeverCycle
PROPERTIES BranchSlots ProductSlots
CHECK_DEADLOCK FALSE
