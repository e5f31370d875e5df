\* Two accounts of a tenant, two users, three invitations, two requests.
SPECIFICATION AccountSpec
CONSTANTS
    None = None
    t1 = t1
    t2 = t2
    a1 = a1
    a2 = a2
    u1 = u1
    u2 = u2
    i1 = i1
    i2 = i2
    i3 = i3
    r1 = r1
    r2 = r2
    Tenants = {t1}
    Accounts = {a1, a2}
    Identities = {u1, u2}
    Invitations = {i1, i2, i3}
    Requests = {r1, r2}
    InvitationTtl = 1
    MaxTime = 2
SYMMETRY Symmetry
INVARIANT LinkedByOneInvitation
PROPERTY LinkIsFinal
CHECK_DEADLOCK FALSE
