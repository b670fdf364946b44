SPECIFICATION Spec
CONSTANTS
    NoGuid = NoGuid
    NoPlace = NoPlace
    Guids = {g1, g2, g3, g4}
    UserFields = {}
    Streamables = {s1}
    Requests = {r1, r2}
    Workers = {w1, w2}
    MaxFailures = 1
    MaxRestarts = 1
SYMMETRY Symmetry
INVARIANTS
    ImagesStored
    TypeOK
    GraffitiRowsShown
    InputAvailable
    LeaksExplained
CHECK_DEADLOCK FALSE
