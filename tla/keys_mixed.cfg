\* A rotation and a deactivation, submitted together.
SPECIFICATION KeyFairSpec
CONSTANTS
    t1 = t1
    t2 = t2
    w1 = w1
    Tasks = {t1, t2}
    Rotations = {t1}
    Rotates <- AllRoles
    Workers = {w1}
    LastStep <- SagaSteps
    Submitters = 2
    MaxKeys = 3
    MaxLog = 4
INVARIANTS
    TaskTypeOK
    CopyAgreesWithRow
    DeactivatedMeansClosed
    NoRepeatedTail
    EntriesSignedByPublishedKey
PROPERTIES
    DeactivatedIsFrozen
    ImplementsLifecycle
    EventuallySettled
CHECK_DEADLOCK FALSE
