\* A suspend that read the credential before a revocation committed.
SPECIFICATION StatusSpec
CONSTANTS
    c1 = c1
    c2 = c2
    r1 = r1
    r2 = r2
    p1 = p1
    p2 = p2
    Credentials = {c1}
    Lists = {1}
    Capacity = 1
    Requests = {r1, r2}
    Publishers = {p1}
PROPERTY RevocationIsFinal
CHECK_DEADLOCK FALSE
