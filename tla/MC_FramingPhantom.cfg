CONSTANTS
    READBUFFER_LEN <- MC_READBUFFER_LEN
    COMMAND_LEN <- MC_COMMAND_LEN
    MaxSent <- MC_MaxSent
    Tokens <- MC_RFCTokens
SPECIFICATION Spec
INVARIANT ParsedAreSentLines
CHECK_DEADLOCK FALSE
