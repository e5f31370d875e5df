\* Two offers, two code exchanges, two credential requests.
SPECIFICATION IssuanceSpec
CONSTANTS
    o1 = o1
    o2 = o2
    x1 = x1
    x2 = x2
    q1 = q1
    q2 = q2
    Offers = {o1, o2}
    Exchanges = {x1, x2}
    Requests = {q1, q2}
    Capacity = 2
SYMMETRY Symmetry
INVARIANTS
    OneCredentialPerOffer
    SlotsWithoutGaps
    OldOffersDieWithIssuer
    LocksAreReleased
CHECK_DEADLOCK FALSE
