\* Writer: order of output, the wbuf bound and flushing.
CONSTANTS
    a = a
    b = b
    exact = exact
    long = long
    pass = pass
    server = server
    error = error
    EOL = EOL
    Msgs <- MC_Msgs
    MsgLen <- MC_MsgLen
    Pass = pass
    Server = server
    ErrorMsg = error
    WRITEBUFFER_LEN = 7
    COMMAND_LEN = 5
    MaxWrites = 4
SPECIFICATION Spec
INVARIANTS
    TypeOK
    SentInOrder
PROPERTIES
    PendingOutputFlushed
CHECK_DEADLOCK FALSE
