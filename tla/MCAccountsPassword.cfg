SPECIFICATION Spec
CONSTANTS
    NoToken = NoToken
    NoRow = NoRow
    ActivationToken = ActivationToken
    Requests = {r1, r2}
    Passwords = {p1, p2}
    ResetTokens = {t1, t2}
    InitialStatuses = {"PENDING_ACTIVATION", "ACTIVE"}
    Limit = 3
    MaxFailures = 5
    Published = FALSE
    Backups = FALSE
PROPERTIES
    PasswordStays
CHECK_DEADLOCK FALSE
