\* Config: two server entries, one operator, one predefined channel.
CONSTANTS
    s1 = s1
    s2 = s2
    v1 = v1
    v2 = v2
    c1 = c1
    c2 = c2
    NONE = NONE
    Values <- MC_Values
    Conns <- MC_Conns
    Files <- MC_OverflowFiles
    MAX_SERVERS = 2
    MAX_OPERATORS = 1
    MAX_DEFCHANNELS = 1
    Passive = FALSE
SPECIFICATION Spec

INVARIANT
    OperatorsAsConfigured
