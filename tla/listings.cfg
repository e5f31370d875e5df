CONSTANTS
    Ids = {1, 2, 3}
    Endpoints <- AllEndpoints
    Limit = 1
    Lifetime = 1
    MaxTime = 3
SPECIFICATION ListSpec
INVARIANTS NoRowTwice NothingSkipped ShownAsAsked
CHECK_DEADLOCK FALSE
