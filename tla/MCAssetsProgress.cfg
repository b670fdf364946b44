SPECIFICATION FairSpec
CONSTANTS
    NoGuid = NoGuid
    NoPlace = NoPlace
    Guids = {g1, g2}
    UserFields = {avatar}
    Streamables = {s1}
    Requests = {r1, r2}
    Workers = {w1, w2}
    MaxFailures = 1
    MaxRestarts = 0
PROPERTIES
    ProcessingSettles
CHECK_DEADLOCK FALSE
