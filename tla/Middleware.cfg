SPECIFICATION MiddlewareSpec
CONSTANTS
    ParentOf <- MCParents
    MaxBests = 3
    NFollows = 3
    Ops = {o1, o2}
    NEvents = 2
    HeadParent <- MCHeadParents
    First = 1
    Tokens = {t1, t2}
    MaxInitial = 2
    MaxAsks = 2
    MaxWaiting = 2
INVARIANTS
    BlocksAreRight
    FollowsAreRight
    HeadsAreRight
PROPERTIES
    EndsQuietly
    ChainComesThrough
CHECK_DEADLOCK FALSE
