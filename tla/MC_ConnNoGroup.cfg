\* Conn with one peer server configured without a group.
CONSTANTS
    s1 = s1
    g1 = g1
    NoGroup = NoGroup
    NONE = NONE
    Slots <- MC_Slots
    Servers <- MC_Servers
    Group <- MC_NoGroupConf
    PingTimeout = 1
    PongTimeout = 1
    ConnectRetry = 2
    ReconnectDelay = 1
    MaxLines = 1
    MaxClients = 2
SPECIFICATION Spec
INVARIANT
    OneLinkPerServer
VIEW MC_View
