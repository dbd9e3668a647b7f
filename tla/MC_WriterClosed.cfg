\* Writer: SERVER is written after PASS closed the link.
CONSTANTS
    a = a
    b = b
    exact = exact
    long = long
    pass = pass
    server = server
    error = error
    EOL = EOL
    Msgs <- MC_Msgs
    MsgLen <- MC_MsgLen
    Pass = pass
    Server = server
    ErrorMsg = error
    WRITEBUFFER_LEN = 7
    COMMAND_LEN = 5
    MaxWrites = 4
SPECIFICATION Spec
INVARIANT
    NoWriteOnClosed
CHECK_DEADLOCK FALSE
