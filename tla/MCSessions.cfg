SPECIFICATION Spec
CONSTANTS
    Users = {u1, u2}
    Sids = {s1, s2}
    NoUser = NoUser
    NoSid = NoSid
    Requests = {r1, r2}
    Workers = {w1, w2}
    MaxLogins = 2
    MaxCrashes = 0
    Backups = TRUE
    Debug = TRUE
SYMMETRY Symmetry
VIEW View
INVARIANTS TypeOK GoneStaysGone LeftoversExplained
PROPERTY OnlyOwnersEndSessions
CHECK_DEADLOCK FALSE

