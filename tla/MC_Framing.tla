---------------------------- MODULE MC_Framing ----------------------------
EXTENDS Framing

\* a buffer of 6 bytes holds 4 of data, one request of the longest
\* allowed (4 bytes); the client writes enough to fill it
MC_READBUFFER_LEN == 6
MC_COMMAND_LEN == 4
MC_MaxSent == 6

\* a client following RFC 2812, and one also ending lines with LF alone
MC_RFCTokens == {<<Char>>, <<CR, LF>>}
MC_Tokens == {<<Char>>, <<CR, LF>>, <<LF>>}
=============================================================================
