------------------------------ MODULE Framing ------------------------------
(***************************************************************************)
(* The read side of one connection of conn.c, byte by byte: Read_Request  *)
(* appends what recv() returns to rbuf and NUL-terminates it, and         *)
(* Handle_Buffer takes one request off the front of the buffer, using the *)
(* C string functions strstr and strchr on rbuf.  Conn_Handler calls      *)
(* Handle_Buffer again on every pass while rdatalen > 0.                  *)
(*                                                                         *)
(* rbuf is the whole array, stale bytes included: the string functions    *)
(* read up to the first NUL, wherever it is.  The client writes what an   *)
(* RFC 2812 client writes (characters and CR LF pairs); TCP may cut the   *)
(* stream anywhere.                                                        *)
(***************************************************************************)
EXTENDS Integers, Sequences, SequencesExt

CONSTANTS
    READBUFFER_LEN,  \* size of rbuf
    COMMAND_LEN,     \* longest request, CR LF included
    MaxSent,         \* bytes the client writes in a behaviour
    Tokens           \* what the client writes in one go (see below)

ASSUME READBUFFER_LEN \in Nat /\ COMMAND_LEN \in Nat /\ MaxSent \in Nat

Char == "c"
CR == "cr"
LF == "lf"
NUL == "nul"
Byte == {Char, CR, LF, NUL}

\* Tokens holds some of these: a character, a CR LF as RFC 2812 asks, or a
\* lone LF as sent by the clients Handle_Buffer also accepts
AllTokens == {<<Char>>, <<CR, LF>>, <<LF>>}
ASSUME Tokens \subseteq AllTokens

VARIABLES
    rbuf,        \* My_Connections[Idx].rbuf
    rdatalen,    \* My_Connections[Idx].rdatalen
    wire,        \* bytes written by the client, not yet read
    sent,        \* every byte the client has written
    parsed,      \* the requests handed to Parse_Request, in order
    state,       \* "open", "closed" (Conn_Close) or "crashed"
    peerClosed   \* the client has shut down its side

vars == <<rbuf, rdatalen, wire, sent, parsed, state, peerClosed>>

Idx == 0..READBUFFER_LEN - 1

\* the length of the C string in b: the index of its first NUL (a buffer
\* with no NUL left is read to its end, where the model stops looking)
FirstNul(b) == Min({i \in Idx : b[i] = NUL} \cup {READBUFFER_LEN})

\* strstr(rbuf, "\r\n") and strchr(rbuf, c): positions before the NUL
StrStrCRLF(b) == {i \in 0..FirstNul(b) - 2 : b[i] = CR /\ b[i + 1] = LF}
StrChr(b, c) == {i \in 0..FirstNul(b) - 1 : b[i] = c}

\* memmove(b, b + len, n)
MemMove(b, len, n) == [i \in Idx |-> IF i < n THEN b[i + len] ELSE b[i]]

(***************************************************************************)
(* Handle_Buffer on buffer b of length n, with ok the result of           *)
(* Parse_Request (FALSE: the request closed the connection).  The end of  *)
(* the request is the first CR LF anywhere in the string, else the first  *)
(* CR or LF; it is overwritten with NUL.  A request longer than           *)
(* COMMAND_LEN closes the connection; an empty one is skipped.  Then      *)
(* rdatalen -= len and the rest is moved to the front, and nothing puts a *)
(* NUL after it.  A negative rdatalen makes memmove copy (size_t)-1      *)
(* bytes: the process crashes.                                            *)
(***************************************************************************)
Handle_Buffer(b, n, p, ok) ==
    LET crlf == StrStrCRLF(b)
        lone == StrChr(b, CR) \cup StrChr(b, LF)
        ptr == IF crlf # {} THEN Min(crlf) ELSE Min(lone)
        delta == IF crlf # {} THEN 2 ELSE 1
        len == ptr + delta
        b1 == [b EXCEPT ![ptr] = NUL]
        line == [i \in 1..ptr |-> b[i - 1]]
        p1 == IF len > delta THEN Append(p, line) ELSE p
    IN IF crlf = {} /\ lone = {}
       THEN [rbuf |-> b, rdatalen |-> n, parsed |-> p, state |-> "open"]
       ELSE IF len > COMMAND_LEN
       THEN [rbuf |-> b1, rdatalen |-> n, parsed |-> p, state |-> "closed"]
       ELSE IF len > delta /\ ~ok
       THEN [rbuf |-> b1, rdatalen |-> n, parsed |-> p1, state |-> "closed"]
       ELSE IF n - len < 0
       THEN [rbuf |-> b1, rdatalen |-> n - len, parsed |-> p1, state |-> "crashed"]
       ELSE [rbuf |-> MemMove(b1, len, n - len), rdatalen |-> n - len,
             parsed |-> p1, state |-> "open"]

\* the result of Handle_Buffer becomes the next state (r is bound to one
\* value with \E r \in {...} so that it is computed once)
Apply(r) == /\ rbuf' = r.rbuf
            /\ rdatalen' = r.rdatalen
            /\ parsed' = r.parsed
            /\ state' = r.state

\* the client writes a character or a CR LF
Client_Send ==
    /\ ~peerClosed
    /\ \E t \in Tokens :
          /\ Len(sent) + Len(t) <= MaxSent
          /\ wire' = wire \o t
          /\ sent' = sent \o t
    /\ UNCHANGED <<rbuf, rdatalen, parsed, state, peerClosed>>

Client_Close ==
    /\ ~peerClosed
    /\ peerClosed' = TRUE
    /\ UNCHANGED <<rbuf, rdatalen, wire, sent, parsed, state>>

\* the mutant: recv() offered the whole free space, no room for the NUL
ReadSize_NoReserve == READBUFFER_LEN - rdatalen

\* the size Read_Request passes to recv()
ReadSize == READBUFFER_LEN - rdatalen - 2

(***************************************************************************)
(* select() reports the socket readable (data, or the client's EOF).  A   *)
(* full buffer is refused; recv() of READBUFFER_LEN - rdatalen - 2 bytes  *)
(* returns 0 at EOF and also when that size is 0, and both close the      *)
(* connection; otherwise the bytes are appended, NUL-terminated, and      *)
(* Handle_Buffer runs.                                                     *)
(***************************************************************************)
Read_Request ==
    /\ state = "open"
    /\ wire # <<>> \/ peerClosed
    /\ LET size == ReadSize
       IN IF size < 0 \/ wire = <<>> \/ size = 0
          THEN /\ state' = "closed"
               /\ UNCHANGED <<rbuf, rdatalen, wire, parsed>>
          ELSE \E k \in 1..size :
                /\ k <= Len(wire)
                /\ LET b == [i \in Idx |-> IF rdatalen <= i /\ i < rdatalen + k
                                           THEN wire[i - rdatalen + 1] ELSE rbuf[i]]
                       n == rdatalen + k
                   IN \E ok \in BOOLEAN :
                        \E r \in {Handle_Buffer([b EXCEPT ![n] = NUL], n, parsed, ok)} :
                           Apply(r)
                /\ wire' = SubSeq(wire, k + 1, Len(wire))
    /\ UNCHANGED <<sent, peerClosed>>

\* the mutant: the loop tests the wrong buffer and never finds this one
Handler_Pass_Never ==
    /\ state = "open"
    /\ FALSE
    /\ UNCHANGED vars

\* Conn_Handler's loop: Handle_Buffer for a connection with buffered data
Handler_Pass ==
    /\ state = "open"
    /\ rdatalen > 0
    /\ \E ok \in BOOLEAN :
          \E r \in {Handle_Buffer(rbuf, rdatalen, parsed, ok)} : Apply(r)
    /\ UNCHANGED <<wire, sent, peerClosed>>

\* Init_Conn_Struct on a slot never used before (static storage is zero)
Init ==
    /\ rbuf = [i \in Idx |-> NUL]
    /\ rdatalen = 0
    /\ wire = <<>>
    /\ sent = <<>>
    /\ parsed = <<>>
    /\ state = "open"
    /\ peerClosed = FALSE

Next ==
    \/ Client_Send
    \/ Client_Close
    \/ Read_Request
    \/ Handler_Pass

\* select() reports a readable socket, and the loop passes every 50 ms
Fairness == WF_vars(Read_Request) /\ WF_vars(Handler_Pass)

Spec == Init /\ [][Next]_vars /\ Fairness

-----------------------------------------------------------------------------
\* The requests a byte stream holds: the text between line ends (CR or LF;
\* CR LF gives an empty line between them), empty lines dropped.
RECURSIVE Lines(_)
Lines(s) ==
    LET ends == {i \in 1..Len(s) : s[i] \in {CR, LF}}
    IN IF ends = {} THEN <<>>
       ELSE LET e == Min(ends)
                rest == Lines(SubSeq(s, e + 1, Len(s)))
            IN IF e = 1 THEN rest ELSE <<SubSeq(s, 1, e - 1)>> \o rest

TypeOK ==
    /\ DOMAIN rbuf = Idx /\ \A i \in Idx : rbuf[i] \in Byte
    /\ rdatalen \in 0..READBUFFER_LEN - 1 \/ state = "crashed"
    /\ wire \in Seq(Byte) /\ sent \in Seq(Byte)
    /\ state \in {"open", "closed", "crashed"}
    /\ peerClosed \in BOOLEAN

\* Every request Handle_Buffer hands to the parser is a whole line the
\* client sent, in order: the parser sees a prefix of Lines(sent).
ParsedAreSentLines == IsPrefix(parsed, Lines(sent))

\* A request handed to the parser holds no line end: each line the client
\* ends with LF is a request of its own, whatever follows it.
RequestsHaveNoLineEnd ==
    \A i \in 1..Len(parsed) : \A j \in 1..Len(parsed[i]) : parsed[i][j] = Char

\* a complete line the client has sent is still waiting for the parser
Pending == state = "open" /\ Len(parsed) < Len(Lines(sent))

\* Each complete line the client sends is eventually parsed, or the
\* connection ends: Conn_Handler keeps calling Handle_Buffer while bytes
\* remain, one request per call, so nothing waits for more input that may
\* never come.
LinesEventuallyParsed == Pending ~> ~Pending

=============================================================================
