SPECIFICATION BlocksSpec
CONSTANTS
    root = root
    m1 = m1
    m2 = m2
    m3 = m3
    s2 = s2
    old = old
    new = new
    NoBlock = NoBlock
    NoCode = NoCode
    Genesis = root
    Block <- MCBlock
    Parent <- MCParent
    Height <- MCHeight
    Code <- TwinUpgrade
    Held = {m1, m2, s2}
    MaxHolds = 2
    MaxStops = 0
    MaxWindow = 2
    MayLag = FALSE
    c1 = c1
    c2 = c2
    Consumer = {c1, c2}
    Above <- MCAbove
    Present <- MCPresent
    Wanted <- MCWanted
    NKeys = 2
    Watched = TRUE
    MaxFaults = 2
INVARIANTS
    PinsAreCounted
    RuntimesServe
    QueriesAreRight
PROPERTIES
    UsedStaysPinned
    QueriesComeThrough
CHECK_DEADLOCK FALSE
