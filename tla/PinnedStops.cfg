SPECIFICATION Spec
CONSTANTS
    root = root
    m1 = m1
    m2 = m2
    m3 = m3
    s2 = s2
    old = old
    new = new
    NoBlock = NoBlock
    NoCode = NoCode
    Genesis = root
    Block <- MCBlock
    Parent <- MCParent
    Height <- MCHeight
    Code <- OneCode
    Held = {m2}
    MaxHolds = 1
    MaxStops = 2
    MaxWindow = 2
    MayLag = TRUE
INVARIANTS
    PinsAgree
    StopsAreSurvived
    NewBlocksAreRight
CHECK_DEADLOCK FALSE
