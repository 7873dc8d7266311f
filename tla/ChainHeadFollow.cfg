SPECIFICATION SubscriptionSpec
CONSTANTS
    Op = {o1}
    MaxDisturbances = 4
    Task = {t1, t2, t3}
    Urgent = {t3}
    Limit = 1
INVARIANTS
    SubscriptionsAreRight
    QueueMoves
    NoLeakedOperation
PROPERTIES
    NoFollowUnlessCrossed
    FollowComesThrough
    EveryTaskEnds
CHECK_DEADLOCK FALSE
