SPECIFICATION RequestsSpec
CONSTANTS
    Follows = {f1, f2}
    Operations = {o1, o2}
    Others = {x1}
    Broadcasts = {b1}
    MaxConnections = 3
    LateHalts = TRUE
    NKeys = 3
    PageSize = 2
    MaxSplits = 1
    Asked <- MCAsked
    MaxFollows = 3
    MaxBroadcasts = 1
SYMMETRY Symmetry
INVARIANTS
    RequestsAreRight
    SubscriptionsAreRight
    BroadcastsAreRight
    OperationsAreRight
CHECK_DEADLOCK FALSE
