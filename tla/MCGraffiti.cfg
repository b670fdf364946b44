SPECIFICATION GraffitiSpec
CONSTANTS
    u1 = u1
    u2 = u2
    g1 = g1
    k1 = k1
    Nobody = Nobody
    Nothing = Nothing
    People = {u1, u2}
    Streamables = {g1}
    Comments = {k1}
    Contents = {c1, c2, c3}
    Owner <- MCOwner
    Threads = {t1, t2}
    MaxTasks = 4
    MaxCrashes = 1
SYMMETRY Symmetry
INVARIANTS
    ItemsKept
    ImagesShown
    LikesKept
    FlagsReported
CHECK_DEADLOCK FALSE
