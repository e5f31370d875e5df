\* Two calls at a time, two keys, two changes of the realm's key set.
SPECIFICATION JwksFairSpec
CONSTANTS
    None = None
    c1 = c1
    c2 = c2
    t1 = t1
    t2 = t2
    t3 = t3
    u1 = u1
    u2 = u2
    a1 = a1
    a2 = a2
    i1 = i1
    i2 = i2
    Calls = {c1, c2}
    Kids = {1, 2}
    Ttl = 4
    Cooldown = 3
    Timeout = 1
    MaxVersion = 3
    Tenants = {t1, t2, t3}
    Users = {u1, u2}
    Accounts = {a1, a2}
    Issuers = {i1, i2}
    LinkedTo <- BothLinked
    AccountOf <- TwoOwners
    IssuerOf <- IssuerEach
PROPERTIES
    OutageKeepsKeys
    CacheNeverGoesBack
    UserReachesOwnTenants
    CacheFollowsRealm
CHECK_DEADLOCK FALSE
