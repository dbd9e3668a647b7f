CONSTANTS
    READBUFFER_LEN <- MC_READBUFFER_LEN
    COMMAND_LEN <- MC_COMMAND_LEN
    MaxSent <- MC_MaxSent
    Tokens <- MC_Tokens
SPECIFICATION Spec
INVARIANT TypeOK
PROPERTY LinesEventuallyParsed
CHECK_DEADLOCK FALSE
