SPECIFICATION FairSpec
CONSTANTS
    Users = {u1}
    Sids = {s1, s2}
    NoUser = NoUser
    NoSid = NoSid
    Requests = {r1, r2}
    Workers = {w1, w2}
    MaxLogins = 1
    MaxCrashes = 1
    Backups = TRUE
    Debug = TRUE
INVARIANTS GoneStaysGone LeftoversExplained
PROPERTIES SavesFinish  RowsCleaned
CHECK_DEADLOCK FALSE
