\* Two logins as two users, two overlapping requests, accounts of both.
SPECIFICATION BffSpec
CONSTANTS
    None = None
    t1 = t1
    t2 = t2
    a1 = a1
    a2 = a2
    a3 = a3
    u1 = u1
    u2 = u2
    l1 = l1
    l2 = l2
    w1 = w1
    w2 = w2
    Tenants = {t1, t2}
    Accounts = {a1, a2, a3}
    Identities = {u1, u2}
    Invitations = {}
    Requests = {}
    InvitationTtl = 1
    MaxTime = 0
    Logins = {l1, l2}
    WebRequests = {w1, w2}
    MaxSessions = 2
    Provisioned <- ThreeLinked
SYMMETRY Symmetry
INVARIANTS
    SessionCoherent
    OneSessionPerLogin
CHECK_DEADLOCK FALSE
