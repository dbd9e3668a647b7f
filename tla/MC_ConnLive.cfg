\* Conn, one slot: liveness of pending host name lookups.
CONSTANTS
    s1 = s1
    g1 = g1
    NoGroup = NoGroup
    NONE = NONE
    Slots <- MC_OneSlot
    Servers <- MC_Servers
    Group <- MC_Group
    PingTimeout = 1
    PongTimeout = 1
    ConnectRetry = 2
    ReconnectDelay = 1
    MaxLines = 2
    MaxClients = 2
SPECIFICATION Spec
PROPERTIES
    PendingResolutionEnds
VIEW MC_View
