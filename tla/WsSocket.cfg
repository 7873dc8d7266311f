SPECIFICATION Spec
CONSTANTS
    NEndpoints = 2
    NUris = 3
    NSlots = 2
    MaxSends = 2
INVARIANTS
    SocketIsRight
PROPERTIES
    SocketComesThrough
CHECK_DEADLOCK FALSE
