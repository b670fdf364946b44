SPECIFICATION Spec
CONSTANTS
    NoGuid = NoGuid
    NoPlace = NoPlace
    Guids = {g1, g2, g3}
    UserFields = {avatar, cover}
    Streamables = {}
    Requests = {r1, r2}
    Workers = {w1}
    MaxFailures = 0
    MaxRestarts = 0
SYMMETRY Symmetry
INVARIANTS
    ImagesStored
    LeaksExplained
CHECK_DEADLOCK FALSE
