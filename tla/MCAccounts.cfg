SPECIFICATION MCSpec
CONSTANTS
    Requests = {r1, r2}
    Links = {l1, l2}
    Sessions = {s1, s2, s3}
    Emails = {e1, e2, e3}
    e1 = e1
    e2 = e2
    e3 = e3
    None = None
    MaxPasswords = 2
    MaxOutside = 1
SYMMETRY Symmetry
INVARIANTS TypeOK OneSessionPerSignIn
PROPERTIES LinksHold EmailWasConfirmed NewPasswordEndsSessions
CHECK_DEADLOCK FALSE
