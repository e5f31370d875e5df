\* Two credentials of one list or of two, two lifecycle requests, the publisher.
SPECIFICATION StatusFairSpec
CONSTANTS
    c1 = c1
    c2 = c2
    r1 = r1
    r2 = r2
    p1 = p1
    p2 = p2
    Credentials = {c1, c2}
    Lists = {1, 2}
    Capacity = 2
    Requests = {r1, r2}
    Publishers = {p1}
INVARIANTS
    StatusTypeOK
    BitMatchesState
    CleanMeansPublished
PROPERTY DirtyListsArePublished
CHECK_DEADLOCK FALSE
