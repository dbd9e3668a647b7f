\* Conn with one peer server in a server group.
CONSTANTS
    s1 = s1
    g1 = g1
    NoGroup = NoGroup
    NONE = NONE
    Slots <- MC_Slots
    Servers <- MC_Servers
    Group <- MC_Group
    PingTimeout = 1
    PongTimeout = 1
    ConnectRetry = 2
    ReconnectDelay = 1
    MaxLines = 2
    MaxClients = 2
SPECIFICATION Spec
INVARIANTS
    TypeOK
    SilenceBounded
    OneLinkPerServer
VIEW MC_View
