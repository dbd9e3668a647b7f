\* Writer: a line longer than COMMAND_LEN allows is truncated, not refused.
CONSTANTS
    a = a
    b = b
    exact = exact
    long = long
    pass = pass
    server = server
    error = error
    EOL = EOL
    Msgs <- MC_Msgs
    MsgLen <- MC_MsgLen
    Pass = pass
    Server = server
    ErrorMsg = error
    WRITEBUFFER_LEN = 7
    COMMAND_LEN = 5
    MaxWrites = 4
SPECIFICATION Spec
INVARIANT
    LinesNotTruncated
CHECK_DEADLOCK FALSE
