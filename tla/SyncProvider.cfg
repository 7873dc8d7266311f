SPECIFICATION SyncFairSpec
CONSTANTS
    Follows = {f1}
    Operations = {o1}
    Others = {x1}
    Broadcasts = {b1}
    MaxConnections = 3
    LateHalts = FALSE
INVARIANTS
    OneWayBack
PROPERTIES
    DisconnectCancels
    NothingWaitsForever
    ImplementsSession
CHECK_DEADLOCK FALSE
