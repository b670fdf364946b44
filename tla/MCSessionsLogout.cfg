SPECIFICATION Spec
CONSTANTS
    Users = {u1}
    Sids = {s1}
    NoUser = NoUser
    NoSid = NoSid
    Requests = {r1, r2}
    Workers = {w1, w2}
    MaxLogins = 1
    MaxCrashes = 0
    Backups = TRUE
    Debug = TRUE
PROPERTY LoggedOutFromAllDevices
CHECK_DEADLOCK FALSE
