\* Two rotations of one issuer, overlapping or one after the other.
SPECIFICATION KeySpec
CONSTANTS
    t1 = t1
    t2 = t2
    w1 = w1
    Tasks = {t1, t2}
    Rotations = {t1, t2}
    Rotates <- SomeRoles
    Workers = {w1}
    LastStep <- SagaSteps
    Submitters = 2
    MaxKeys = 4
    MaxLog = 5
INVARIANTS
    IssuerKeysArePublished
    CompletedRotationIsInForce
CHECK_DEADLOCK FALSE
