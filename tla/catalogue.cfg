CONSTANTS
    Types = {t1}
    Vcts = {v1}
    Schemas = {s1, s2}
    Issuers = {i1}
    Edits = {e1, e2}
    OfferCalls = {q1, q2}
    MaxClock = 4
SYMMETRY Symmetric
SPECIFICATION CatalogueSpec
INVARIANTS ValidatorOfReadRow MatchingEntryIsCurrent
