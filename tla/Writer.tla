------------------------------- MODULE Writer -------------------------------
(***************************************************************************)
(* The write side of one connection of conn.c: Conn_WriteStr formats a     *)
(* line into COMMAND_LEN - 2 bytes and appends CR LF, Conn_Write flushes   *)
(* what is pending (Try_Write), checks the room in wbuf, appends and       *)
(* flushes again, Handle_Write sends part of wbuf and moves the rest to    *)
(* the front, Conn_Handler selects sockets with pending output, and        *)
(* Conn_Close (InformClient) queues an ERROR line before closing.  An      *)
(* outbound link whose connect() succeeded is sent PASS and SERVER.        *)
(*                                                                         *)
(* A message is a model value with a length; its bytes are <<m, k>>.      *)
(***************************************************************************)
EXTENDS Integers, Sequences, SequencesExt

CONSTANTS
    WRITEBUFFER_LEN,  \* size of wbuf
    COMMAND_LEN,      \* size of the line buffer of Conn_WriteStr
    Msgs,             \* what handlers format and send
    MsgLen,           \* the length vsnprintf would produce for each
    Pass, Server,     \* the PASS and SERVER lines of an outbound link
    ErrorMsg,         \* the "ERROR :..." line of Conn_Close
    MaxWrites,        \* bound: lines handlers send in a behaviour
    EOL               \* marks the bytes of the line end (a model value)

ASSUME /\ {Pass, Server, ErrorMsg} \subseteq Msgs /\ EOL \notin Msgs
       /\ MsgLen \in [Msgs -> Nat \ {0}]

CR == <<EOL, 1>>
LF == <<EOL, 2>>

VARIABLES
    sock,        \* "open", or "none" once Conn_Close has run
    connecting,  \* the socket is in My_Connects (connect() in progress)
    wbuf,        \* My_Connections[Idx].wbuf[0 .. wdatalen - 1]
    out,         \* the bytes send() has handed to the kernel, in order
    queued,      \* history: the lines Conn_Write appended to wbuf
    fault,       \* Conn_WriteStr was entered for a closed slot (assert)
    writes       \* lines handlers have sent

vars == <<sock, connecting, wbuf, out, queued, fault, writes>>

\* what the peer should get for message m: all of it and CR LF
FullLine(m) == [k \in 1..MsgLen[m] |-> <<m, k>>] \o <<CR, LF>>

\* vsnprintf(buffer, COMMAND_LEN - 2, ...) keeps COMMAND_LEN - 3 bytes
\* and the NUL; strcat appends CR LF
Formatted(m) ==
    [k \in 1..Min({MsgLen[m], COMMAND_LEN - 3}) |-> <<m, k>>] \o <<CR, LF>>

\* the per-connection state Conn_Write and Handle_Write change
Cur == [sock |-> sock, wbuf |-> wbuf, out |-> out, queued |-> queued,
        fault |-> fault]

Apply(r) == /\ sock' = r.sock /\ wbuf' = r.wbuf /\ out' = r.out
            /\ queued' = r.queued /\ fault' = r.fault

\* Conn_Close(Idx, ..., FALSE): the socket is closed, wbuf is dropped
Close(r) == [r EXCEPT !.sock = "none"]

\* the mutant: memmove is left out, the sent bytes stay at the front
Send_NoMemmove(r) ==
    {Close(r)} \cup
    {[r EXCEPT !.out = @ \o SubSeq(r.wbuf, 1, k),
               !.wbuf = SubSeq(@, 1, Len(@) - k)] : k \in 1..Len(r.wbuf)}

\* Handle_Write on a writable socket with wdatalen > 0: send() fails and
\* the connection is closed, or it takes len > 0 bytes; wdatalen -= len
\* and memmove moves the rest to the front
Send(r) ==
    {Close(r)} \cup
    {[r EXCEPT !.out = @ \o SubSeq(r.wbuf, 1, k),
               !.wbuf = SubSeq(@, k + 1, Len(@))] : k \in 1..Len(r.wbuf)}

\* Try_Write: select() with a zero timeout reports the socket not
\* writable (or is interrupted), fails (Conn_Close), or Handle_Write runs
Try_Write(r) == {r, Close(r)} \cup Send(r)

\* the mutant: the room check is left out, memcpy appends whatever comes
Conn_Write_NoRoomCheck(r, data) ==
    LET flushed == IF Len(r.wbuf) > 0 THEN Try_Write(r) ELSE {r}
    IN UNION {IF r1.sock = "none" THEN {r1}
              ELSE Try_Write([r1 EXCEPT !.wbuf = @ \o data,
                                        !.queued = Append(@, data)])
              : r1 \in flushed}

\* Conn_Write(Idx, data): pending data is flushed first (a failure there
\* returns FALSE), a line that does not leave a byte free in wbuf closes
\* the connection, otherwise it is appended and flushed again
Conn_Write(r, data) ==
    LET flushed == IF Len(r.wbuf) > 0 THEN Try_Write(r) ELSE {r}
    IN UNION {IF r1.sock = "none" THEN {r1}
              ELSE IF WRITEBUFFER_LEN - Len(r1.wbuf) - Len(data) <= 0
              THEN {Close(r1)}
              ELSE Try_Write([r1 EXCEPT !.wbuf = @ \o data,
                                        !.queued = Append(@, data)])
              : r1 \in flushed}

\* Conn_WriteStr(Idx, m): asserts a socket; a formatted length of exactly
\* COMMAND_LEN - 2 is "Text too long to send" and closes the connection;
\* any other line is truncated by vsnprintf and written
Conn_WriteStr(r, m) ==
    IF r.sock = "none" THEN {[r EXCEPT !.fault = TRUE]}
    ELSE IF MsgLen[m] = COMMAND_LEN - 2 THEN {Close(r)}
    ELSE Conn_Write(r, Formatted(m))

-----------------------------------------------------------------------------
\* a command handler replies on a registered or registering connection
Handler_Write(m) ==
    /\ sock = "open" /\ ~connecting /\ writes < MaxWrites
    /\ \E r \in Conn_WriteStr(Cur, m) : Apply(r)
    /\ writes' = writes + 1
    /\ UNCHANGED connecting

\* Conn_Close(Idx, ..., TRUE): the ERROR line is written; if that closed
\* the connection already, Conn_Close returns, otherwise it closes
Conn_Close_Inform ==
    /\ sock = "open" /\ ~connecting
    /\ \E r \in Conn_WriteStr(Cur, ErrorMsg) :
          Apply(IF r.sock = "none" THEN r ELSE Close(r))
    /\ UNCHANGED <<connecting, writes>>

\* the mutant: the write set is built from the connecting sockets only
Loop_Write_ConnectsOnly ==
    /\ sock = "open" /\ connecting /\ Len(wbuf) > 0
    /\ \E r \in Send(Cur) : Apply(r)
    /\ UNCHANGED <<connecting, writes>>

\* Conn_Handler puts every socket with wdatalen > 0 in the write set;
\* select() reports it writable and Handle_Write sends
Loop_Write ==
    /\ sock = "open" /\ ~connecting /\ Len(wbuf) > 0
    /\ \E r \in Send(Cur) : Apply(r)
    /\ UNCHANGED <<connecting, writes>>

\* Handle_Write for a socket in My_Connects: connect() failed (the socket
\* is closed and Init_Conn_Struct empties wbuf), or it succeeded and PASS
\* and SERVER are written, the second whatever became of the first
Connect_Result ==
    /\ sock = "open" /\ connecting
    /\ \/ /\ sock' = "none" /\ wbuf' = <<>>
          /\ UNCHANGED <<out, queued, fault>>
       \/ \E r1 \in Conn_WriteStr(Cur, Pass) :
             \E r2 \in Conn_WriteStr(r1, Server) : Apply(r2)
    /\ connecting' = FALSE
    /\ UNCHANGED writes

\* an accepted client, or an outbound link waiting for connect()
Init ==
    /\ sock = "open" /\ connecting \in BOOLEAN
    /\ wbuf = <<>> /\ out = <<>> /\ queued = <<>>
    /\ fault = FALSE /\ writes = 0

Next ==
    \/ \E m \in Msgs : Handler_Write(m)
    \/ Conn_Close_Inform
    \/ Loop_Write
    \/ Connect_Result

\* the main loop runs every 50 ms and the peer keeps reading, so a socket
\* with pending output is reported writable
Fairness == WF_vars(Loop_Write)

Spec == Init /\ [][Next]_vars /\ Fairness

-----------------------------------------------------------------------------
\* wbuf[WRITEBUFFER_LEN]: memcpy in Conn_Write never writes past the array
TypeOK ==
    /\ sock \in {"open", "none"} /\ connecting \in BOOLEAN
    /\ Len(wbuf) \in 0..WRITEBUFFER_LEN
    /\ fault \in BOOLEAN /\ writes \in 0..MaxWrites

\* Output leaves in the order it was written: what send() took, followed
\* by what wbuf still holds, is exactly the lines Conn_Write accepted,
\* across partial sends, the flush before each append and the memmove.
SentInOrder ==
    /\ IsPrefix(out, FlattenSeq(queued))
    /\ sock = "open" => out \o wbuf = FlattenSeq(queued)

\* Pending output is eventually sent, unless the connection ends.
PendingOutputFlushed ==
    (sock = "open" /\ ~connecting /\ wbuf # <<>>) ~> (wbuf = <<>> \/ sock = "none")

\* Every line queued for the peer is a whole message with its CR LF: a
\* line too long for COMMAND_LEN closes the connection, it is not
\* truncated (spec: "not something to truncate silently").
LinesNotTruncated ==
    \A i \in 1..Len(queued) : \E m \in Msgs : queued[i] = FullLine(m)

\* Conn_WriteStr and Conn_Write are only called for a slot that still has
\* its socket (the assertions at conn.c:336 and 368).
NoWriteOnClosed == ~fault

=============================================================================
