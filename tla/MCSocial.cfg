SPECIFICATION SocialSpec
CONSTANTS
    u1 = u1
    u2 = u2
    u3 = u3
    g1 = g1
    Null = Null
    Nobody = Nobody
    Nothing = Nothing
    Users <- MCUsers
    People <- MCUsers
    Requests = {t1, t2}
    Threads = {t1, t2}
    Start <- MCStart
    Owner <- MCOwner
    Streamables = {g1}
    Comments = {}
    Contents = {c1}
    MaxChanges = 3
    MaxTasks = 3
    MaxTransactions = 3
    MaxCrashes = 0
SYMMETRY Symmetry
INVARIANTS
    SocialTypeOK
    FollowingKept
    EveryoneTold
    OwnersObeyed
    GroupsRight
CHECK_DEADLOCK FALSE
