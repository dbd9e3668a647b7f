\* Conn: do client records outlive their connection?
CONSTANTS
    s1 = s1
    g1 = g1
    NoGroup = NoGroup
    NONE = NONE
    Slots <- MC_Slots
    Servers <- MC_Servers
    Group <- MC_Group
    PingTimeout = 1
    PongTimeout = 1
    ConnectRetry = 2
    ReconnectDelay = 1
    MaxLines = 1
    MaxClients = 2
SPECIFICATION Spec
INVARIANT
    ClientsOwnedByLiveSlots
VIEW MC_View
