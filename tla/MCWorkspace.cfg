SPECIFICATION MCSpec
CONSTANTS
    Branches = {b1, b2}
    Products = {p1}
    Members = {owner, m1}
    Owner = owner
    Requests = {r1, r2}
    NoBranch = NoBranch
    MinStock <- MCMinStock
    Quantities = {1}
    MaxLevel = 2
    MaxWrites = 3
SYMMETRY Symmetry
INVARIANTS TypeOK FiguresAgree
PROPERTIES AccessJustified PreferencesKept
CHECK_DEADLOCK FALSE
