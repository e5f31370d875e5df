\* One creation, every step repeated.
SPECIFICATION CreateSpec
CONSTANTS
    t1 = t1
    t2 = t2
    w1 = w1
    Tasks = {t1}
    Workers = {w1}
    LastStep <- SevenSteps
    MaxMinted = 3
INVARIANTS
    IssuerRowMatchesLog
    CompletedIsUsable
PROPERTY GenesisIsStable
CHECK_DEADLOCK FALSE
