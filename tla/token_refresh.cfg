\* Two callers on one replica and one on another.
SPECIFICATION TokenFairSpec
CONSTANTS
    c1 = c1
    c2 = c2
    c3 = c3
    r1 = r1
    r2 = r2
    s1 = s1
    s2 = s2
    Callers = {c1, c2, c3}
    Replicas = {r1, r2}
    Seeds = {s1}
    Home <- TwoAndOne
    MaxTokens = 3
INVARIANTS
    TokenTypeOK
    PresentedTokenIsAlive
    SingleFlight
PROPERTY CallsEnd
CHECK_DEADLOCK FALSE
