-------------------------------- MODULE Conn --------------------------------
(***************************************************************************)
(* The connection manager of ngIRCd (src/ngircd/conn.c): the fixed table   *)
(* My_Connections, accepting clients, the forked resolver sub-processes    *)
(* and their pipes, reading and dispatching request lines, the keepalive   *)
(* check (Check_Connections), outbound server links (Check_Servers,        *)
(* New_Server, the connect() result in Handle_Write) and Conn_Close.       *)
(*                                                                         *)
(* Time is kept as ages: dataAge = now - lastdata, pingAge = now -         *)
(* lastping, tryAge = now - Conf_Server[].lasttry, capped where larger     *)
(* values no longer change any comparison the code makes.  Tick advances  *)
(* the clock by one second once Check_Connections and Check_Servers have  *)
(* run in the current second (the main loop runs every 50 ms).            *)
(*                                                                         *)
(* The client directory (client.c, not in this source tree) is the list   *)
(* My_Clients: new records are put at its head and Client_GetFromConn     *)
(* returns the first record bound to a connection.                        *)
(***************************************************************************)
EXTENDS Integers, Sequences, SequencesExt, FiniteSets

CONSTANTS
    Slots,          \* indices of My_Connections (MAX_CONNECTIONS of them)
    Servers,        \* configured peer servers (Conf_Server[])
    Group,          \* Conf_Server[].group, a group or NoGroup
    NoGroup,        \* group NONE
    NONE,           \* our_server of a connection that is not an outbound link
    PingTimeout,    \* Conf_PingTimeout
    PongTimeout,    \* Conf_PongTimeout
    ConnectRetry,   \* Conf_ConnectRetry
    ReconnectDelay, \* RECONNECT_DELAY
    MaxLines,       \* bound: complete lines held in one read buffer
    MaxClients      \* bound: records in the client list

ASSUME Slots = 1..Cardinality(Slots) /\ Slots # {}
ASSUME DOMAIN Group = Servers
ASSUME /\ PingTimeout \in Nat \ {0} /\ PongTimeout \in Nat \ {0}
       /\ ConnectRetry \in Nat \ {0} /\ ReconnectDelay \in 1..ConnectRetry
ASSUME MaxLines \in Nat \ {0} /\ MaxClients \in Nat

\* Ages beyond AgeCap behave like AgeCap in every comparison of the code.
AgeCap == PingTimeout + PongTimeout + 3

SockStates == {"none", "wait", "open"}      \* NONE, SERVER_WAIT, a socket
\* res_stat: none, lookup running, answer in the pipe (a name, or "" for a
\* failed ResolveName), freed by Conn_Close, or "lost": the pipe was closed
\* after a read error but res_stat still points to it
ResStates  == {"null", "pending", "ok", "fail", "freed", "lost"}
\* outcome of the system calls of New_Server: all succeed, socket(),
\* connect() or Client_NewLocal fails, or Init_Socket (fcntl) fails
NewServerResults == {"ok", "fail", "initsock"}
ClientTypes == {"unknown", "unknownserver", "user", "server"}
Registered  == {"user", "server"}           \* CLIENT_USER/SERVER/SERVICE

VARIABLES
    conn,       \* My_Connections[i] (plus membership of My_Connects)
    clients,    \* My_Clients: <<[conn, type]>>, newest first
    ip,         \* Conf_Server[s].ip # "" (address resolved)
    tryAge,     \* now - Conf_Server[s].lasttry, capped at ConnectRetry
    unchecked,  \* slots Check_Connections has not looked at this second
    unservers,  \* servers Check_Servers has not looked at this second
    closeFault, \* Conn_Close was entered with sock <= NONE (conn.c:407)
    failAge     \* history: seconds since the last failed connect() of s

vars == <<conn, clients, ip, tryAge, unchecked, unservers, closeFault, failAge>>

ConnRec == [sock : SockStates, connecting : BOOLEAN, res_stat : ResStates,
            host : BOOLEAN, our_server : Servers \cup {NONE},
            rlines : 0..MaxLines, dataAge : 0..AgeCap, pingAge : 0..AgeCap]

TypeOK ==
    /\ conn \in [Slots -> ConnRec]
    /\ clients \in Seq([conn : Slots, type : ClientTypes])
    /\ ip \in [Servers -> BOOLEAN]
    /\ tryAge \in [Servers -> 0..ConnectRetry]
    /\ unchecked \subseteq Slots /\ unservers \subseteq Servers
    /\ closeFault \in BOOLEAN
    /\ failAge \in [Servers -> 0..ConnectRetry]

-----------------------------------------------------------------------------
(* Helpers                                                                 *)

Older(a, cap) == IF a < cap THEN a + 1 ELSE cap

\* Init_Conn_Struct: lastdata = now, lastping = 0 (older than anything).
Init_Conn_Struct == [sock |-> "none", connecting |-> FALSE, res_stat |-> "null",
                     host |-> FALSE, our_server |-> NONE, rlines |-> 0,
                     dataAge |-> 0, pingAge |-> AgeCap]

\* Position of Client_GetFromConn(i) in My_Clients, 0 if there is none.
ClientOf(i) == SelectInSeq(clients, LAMBDA c : c.conn = i)

IsRegistered(i) == ClientOf(i) # 0 /\ clients[ClientOf(i)].type \in Registered

\* The lowest free slot, as the "for( idx = 0; ...)" searches find it.
FreeSlots(c) == {j \in Slots : c[j].sock = "none"}
LowestFree(c) == Min(FreeSlots(c))

\* Faulty variant of Conn_Close: lasttry is pushed RECONNECT_DELAY seconds
\* past ConnectRetry instead of before it (sign error).
Conn_Close_SignSwap(i, c) ==
    /\ conn' = [conn EXCEPT ![i] = [c EXCEPT !.sock = "none", !.connecting = FALSE,
                   !.res_stat = IF @ = "null" THEN "null" ELSE "freed"]]
    /\ clients' = IF ClientOf(i) = 0 THEN clients ELSE RemoveAt(clients, ClientOf(i))
    /\ tryAge' = IF c.our_server # NONE /\ tryAge[c.our_server] > 0
                 THEN [tryAge EXCEPT ![c.our_server] = ConnectRetry + ReconnectDelay]
                 ELSE tryAge
    /\ closeFault' = (closeFault \/ c.sock # "open")

\* Conn_Close(Idx, ...) applied to slot i whose record is now c: the
\* client is destroyed, the resolver pipe closed and res_stat freed (but
\* not reset), the retry time of an outbound link pushed back, the socket
\* released.  The ERROR line sent when InformClient is set may itself
\* overflow and close the slot first; the resulting state is the same.
Conn_Close(i, c) ==
    /\ conn' = [conn EXCEPT ![i] = [c EXCEPT !.sock = "none", !.connecting = FALSE,
                   !.res_stat = IF @ = "null" THEN "null" ELSE "freed"]]
    /\ clients' = IF ClientOf(i) = 0 THEN clients ELSE RemoveAt(clients, ClientOf(i))
    /\ tryAge' = IF c.our_server # NONE /\ tryAge[c.our_server] > 0
                 THEN [tryAge EXCEPT ![c.our_server] = ConnectRetry - ReconnectDelay]
                 ELSE tryAge
    /\ closeFault' = (closeFault \/ c.sock # "open")

\* Parse_Request of the first complete line of slot i (record c): the
\* handler either leaves the connection alone, completes the registration
\* of its client (Hello_User / IRC_SERVER), or closes it (QUIT, bad
\* password, a failed write), in which case the line is not consumed.
Dispatch(i, c) ==
    LET k == ClientOf(i)
        consumed == [c EXCEPT !.rlines = @ - 1]
    IN  \/ /\ conn' = [conn EXCEPT ![i] = consumed]
           /\ UNCHANGED <<clients, tryAge, closeFault>>
        \/ /\ k # 0 /\ clients[k].type \notin Registered
           /\ \E t \in IF clients[k].type = "unknown" THEN Registered ELSE {"server"} :
                 clients' = [clients EXCEPT ![k].type = t]
           /\ conn' = [conn EXCEPT ![i] = consumed]
           /\ UNCHANGED <<tryAge, closeFault>>
        \/ Conn_Close(i, c)

-----------------------------------------------------------------------------
(* Operations                                                              *)

\* New_Connection: accept() on a listener, take the lowest free slot,
\* create the CLIENT_UNKNOWN record, start ResolveAddr.  If the resolver
\* cannot be forked the numeric address becomes the host name at once.
\* With no free slot the new socket is closed and nothing changes.
New_Connection ==
    /\ FreeSlots(conn) # {}
    /\ Len(clients) < MaxClients
    /\ LET i == LowestFree(conn)
           c == [Init_Conn_Struct EXCEPT !.sock = "open"]
       IN  /\ \E forked \in BOOLEAN :
                 conn' = [conn EXCEPT ![i] = IF forked THEN [c EXCEPT !.res_stat = "pending"]
                                                       ELSE [c EXCEPT !.host = TRUE]]
           /\ clients' = <<[conn |-> i, type |-> "unknown"]>> \o clients
    /\ UNCHANGED <<ip, tryAge, unchecked, unservers, closeFault, failAge>>

\* The resolver sub-process writes its answer into the pipe (or hangs and
\* never does).  Do_ResolveAddr always writes a name, the numeric address
\* if the lookup failed; Do_ResolveName writes "" when the lookup failed.
Resolver_Answers(i) ==
    /\ conn[i].res_stat = "pending"
    /\ \E r \in IF conn[i].sock = "open" THEN {"ok"} ELSE {"ok", "fail"} :
          conn' = [conn EXCEPT ![i].res_stat = r]
    /\ UNCHANGED <<clients, ip, tryAge, unchecked, unservers, closeFault, failAge>>

\* Read_Resolver_Result: the pipe is readable and leaves My_Resolvers.  If
\* read() fails the pipe is closed and the function returns, leaving
\* res_stat set.  Otherwise find the live connection owning the pipe, free
\* the resolver, and set the host name of an inbound connection or the
\* address of the configured server of an outbound one.
Read_Resolver_Result(i) ==
    /\ conn[i].res_stat \in {"ok", "fail"}
    /\ conn[i].sock # "none"
    /\ \/ /\ conn' = [conn EXCEPT ![i].res_stat = "lost"]
          /\ UNCHANGED ip
       \/ /\ conn' = [conn EXCEPT ![i].res_stat = "null",
                                ![i].host = IF conn[i].sock = "open" THEN TRUE ELSE @]
          /\ ip' = IF conn[i].sock = "open" THEN ip
                   ELSE [ip EXCEPT ![conn[i].our_server] = (conn[i].res_stat = "ok")]
    /\ UNCHANGED <<clients, tryAge, unchecked, unservers, closeFault, failAge>>

\* Handle_Read on a client socket, which is in the read set only once its
\* host name is known and no connect() is in progress: Read_Request either
\* appends data (k complete lines, 0 for a partial line), updates lastdata
\* and runs Handle_Buffer, or sees EOF / a read error and closes.
Read_Request(i) ==
    /\ conn[i].sock = "open" /\ ~conn[i].connecting /\ conn[i].host
    /\ \/ \E k \in 0..(MaxLines - conn[i].rlines) :
             LET c == [conn[i] EXCEPT !.rlines = @ + k, !.dataAge = 0]
             IN  IF c.rlines > 0 THEN Dispatch(i, c)
                 ELSE /\ conn' = [conn EXCEPT ![i] = c]
                      /\ UNCHANGED <<clients, tryAge, closeFault>>
       \/ Conn_Close(i, conn[i])
    /\ UNCHANGED <<ip, unchecked, unservers, failAge>>

\* Conn_Handler, before select(): a read buffer still holding data gets
\* Handle_Buffer, which processes one line of it.
Handle_Buffer(i) ==
    /\ conn[i].sock = "open" /\ conn[i].rlines > 0
    /\ Dispatch(i, conn[i])
    /\ UNCHANGED <<ip, unchecked, unservers, failAge>>

\* A write to slot i fails: send() returns an error in Handle_Write, or
\* Conn_Write finds the write buffer too full; either closes the slot.
Write_Fails(i) ==
    /\ conn[i].sock = "open" /\ ~conn[i].connecting
    /\ Conn_Close(i, conn[i])
    /\ UNCHANGED <<ip, unchecked, unservers, failAge>>

\* Handle_Write for a socket in My_Connects: the asynchronous connect() has
\* a result.  On failure the socket is closed and the slot reinitialised;
\* the retry time is then written through our_server, which
\* Init_Conn_Struct has just set to NONE, so no server entry gets it, and
\* the CLIENT_UNKNOWNSERVER record created by New_Server is not destroyed.
\* On success PASS and SERVER are queued.
Handle_Write_Connect(i) ==
    /\ conn[i].sock = "open" /\ conn[i].connecting
    /\ \/ /\ conn' = [conn EXCEPT ![i] = Init_Conn_Struct]
          /\ failAge' = [failAge EXCEPT ![conn[i].our_server] = 0]
       \/ /\ conn' = [conn EXCEPT ![i].connecting = FALSE]
          /\ UNCHANGED failAge
    /\ UNCHANGED <<clients, ip, tryAge, unchecked, unservers, closeFault>>

\* Faulty variant of Check_Connection: the PING is sent but lastping is
\* not recorded, so no PONG timeout ever starts.
Check_Connection_NoLastping(i) ==
    LET c == conn[i] IN
    /\ unchecked' = unchecked \ {i}
    /\ IF c.sock # "none" /\ IsRegistered(i) /\ c.pingAge < c.dataAge /\ c.pingAge > PongTimeout
       THEN Conn_Close(i, c)
       ELSE IF c.sock # "none" /\ ~IsRegistered(i) /\ c.dataAge > PingTimeout
       THEN Conn_Close(i, c)
       ELSE UNCHANGED <<conn, clients, tryAge, closeFault>>
    /\ UNCHANGED <<ip, unservers, failAge>>

\* Faulty variant of Check_Connection: connections that have not
\* registered are never timed out.
Check_Connection_NoLoginTimeout(i) ==
    LET c == conn[i] IN
    /\ unchecked' = unchecked \ {i}
    /\ IF c.sock # "none" /\ IsRegistered(i) /\ c.pingAge < c.dataAge /\ c.pingAge > PongTimeout
       THEN Conn_Close(i, c)
       ELSE IF c.sock # "none" /\ IsRegistered(i) /\ c.pingAge >= c.dataAge /\ c.dataAge > PingTimeout
       THEN conn' = [conn EXCEPT ![i].pingAge = 0] /\ UNCHANGED <<clients, tryAge, closeFault>>
       ELSE UNCHANGED <<conn, clients, tryAge, closeFault>>
    /\ UNCHANGED <<ip, unservers, failAge>>

\* One iteration of Check_Connections, for slot i.  Registered peers are
\* sent a PING after PingTimeout seconds of silence and closed if no data
\* followed it within PongTimeout; any other slot that is not NONE
\* (SERVER_WAIT included) is closed after PingTimeout seconds.
Check_Connection(i) ==
    LET c == conn[i] IN
    /\ unchecked' = unchecked \ {i}
    /\ IF c.sock = "none" THEN UNCHANGED <<conn, clients, tryAge, closeFault>>
       ELSE IF IsRegistered(i)
       THEN IF c.pingAge < c.dataAge
            THEN IF c.pingAge > PongTimeout THEN Conn_Close(i, c)
                 ELSE UNCHANGED <<conn, clients, tryAge, closeFault>>
            ELSE IF c.dataAge > PingTimeout
                 THEN \/ /\ conn' = [conn EXCEPT ![i].pingAge = 0]
                         /\ UNCHANGED <<clients, tryAge, closeFault>>
                      \/ Conn_Close(i, [c EXCEPT !.pingAge = 0])
                 ELSE UNCHANGED <<conn, clients, tryAge, closeFault>>
       ELSE IF c.dataAge > PingTimeout THEN Conn_Close(i, c)
            ELSE UNCHANGED <<conn, clients, tryAge, closeFault>>
    /\ UNCHANGED <<ip, unservers, failAge>>

\* New_Server(s, n) on table c and client list cl, ok the outcome of its
\* system calls: with no resolved address, or when socket(), connect() or
\* Client_NewLocal fails, the slot is reinitialised; when Init_Socket fails
\* it returns and leaves the slot SERVER_WAIT with no resolver, so the next
\* Check_Servers calls New_Server again; otherwise the slot gets the
\* socket, is put in My_Connects, takes the configured host name and a
\* CLIENT_UNKNOWNSERVER record is created for it.
New_Server(s, n, c, cl, ok) ==
    IF ip[s] /\ ok = "initsock" THEN [conn |-> c, clients |-> cl]
    ELSE IF ip[s] /\ ok = "ok" /\ Len(cl) < MaxClients
    THEN [conn |-> [c EXCEPT ![n] = [@ EXCEPT !.sock = "open", !.connecting = TRUE,
                                              !.host = TRUE]],
          clients |-> <<[conn |-> n, type |-> "unknownserver"]>> \o cl]
    ELSE [conn |-> [c EXCEPT ![n] = Init_Conn_Struct], clients |-> cl]

\* Faulty variant of Scan that ignores server groups.
RECURSIVE Scan_NoGroup(_, _, _, _, _)
Scan_NoGroup(s, ok, n, c, cl) ==
    IF n > Cardinality(Slots) THEN [conn |-> c, clients |-> cl, found |-> FALSE]
    ELSE IF c[n].sock = "none" THEN Scan_NoGroup(s, ok, n + 1, c, cl)
    ELSE IF c[n].our_server = s /\ c[n].sock = "open"
         THEN [conn |-> c, clients |-> cl, found |-> TRUE]
    ELSE LET r == IF c[n].our_server = s /\ c[n].res_stat = "null"
                  THEN New_Server(s, n, c, cl, ok[n]) ELSE [conn |-> c, clients |-> cl]
         IN  Scan_NoGroup(s, ok, n + 1, r.conn, r.clients)

\* The "for( n = 0; n < MAX_CONNECTIONS; n++ )" loop of Check_Servers for
\* server s, from slot n on, over the table c and client list cl: a link of
\* s that is up ends the search; a SERVER_WAIT slot of s whose address
\* lookup has finished gets New_Server (ok[n]: the outcome of its system calls);
\* a slot linked to a server of the same group ends the search too.
\* found is TRUE when the loop ended with "break".
RECURSIVE Scan(_, _, _, _, _)
Scan(s, ok, n, c, cl) ==
    IF n > Cardinality(Slots) THEN [conn |-> c, clients |-> cl, found |-> FALSE]
    ELSE IF c[n].sock = "none" THEN Scan(s, ok, n + 1, c, cl)
    ELSE IF c[n].our_server = s /\ c[n].sock = "open"
         THEN [conn |-> c, clients |-> cl, found |-> TRUE]
    ELSE LET r == IF c[n].our_server = s /\ c[n].res_stat = "null"
                  THEN New_Server(s, n, c, cl, ok[n]) ELSE [conn |-> c, clients |-> cl]
             srv == r.conn[n].our_server
         IN  IF srv # NONE /\ Group[s] # NoGroup /\ Group[srv] = Group[s]
             THEN [conn |-> r.conn, clients |-> r.clients, found |-> TRUE]
             ELSE Scan(s, ok, n + 1, r.conn, r.clients)

\* One iteration of Check_Servers, for server s: after the scan, if no
\* link or group link was found and ConnectRetry seconds have passed since
\* the last attempt, record the attempt, prepare the lowest free slot as
\* SERVER_WAIT and start ResolveName (if it cannot be forked the slot is
\* released again).  With no free slot Check_Servers returns.
Check_Server(s) ==
    /\ \E ok \in [Slots -> NewServerResults], forked \in BOOLEAN :
         LET r == Scan(s, ok, 1, conn, clients)
             attempt == ~r.found /\ tryAge[s] >= ConnectRetry
             wait == [Init_Conn_Struct EXCEPT !.sock = "wait", !.our_server = s,
                                              !.res_stat = "pending"]
         IN  /\ clients' = r.clients
             /\ conn' = IF attempt /\ FreeSlots(r.conn) # {}
                        THEN [r.conn EXCEPT ![LowestFree(r.conn)] =
                                 IF forked THEN wait ELSE Init_Conn_Struct]
                        ELSE r.conn
             /\ tryAge' = IF attempt THEN [tryAge EXCEPT ![s] = 0] ELSE tryAge
    /\ unservers' = unservers \ {s}
    /\ UNCHANGED <<ip, unchecked, closeFault, failAge>>

\* One second passes.  Only live slots age: Init_Conn_Struct resets the
\* timestamps of a slot before it is used again.
Tick ==
    /\ unchecked = {} /\ unservers = {}
    /\ conn' = [i \in Slots |-> IF conn[i].sock = "none" THEN conn[i]
                    ELSE [conn[i] EXCEPT !.dataAge = Older(@, AgeCap),
                                         !.pingAge = Older(@, AgeCap)]]
    /\ tryAge' = [s \in Servers |-> Older(tryAge[s], ConnectRetry)]
    /\ failAge' = [s \in Servers |-> Older(failAge[s], ConnectRetry)]
    /\ unchecked' = Slots /\ unservers' = Servers
    /\ UNCHANGED <<clients, ip, closeFault>>

-----------------------------------------------------------------------------
\* Conn_Init: every slot NONE, no server address resolved, lasttry = 0.
Init ==
    /\ conn = [i \in Slots |-> Init_Conn_Struct]
    /\ clients = <<>>
    /\ ip = [s \in Servers |-> FALSE]
    /\ tryAge = [s \in Servers |-> ConnectRetry]
    /\ unchecked = Slots /\ unservers = Servers
    /\ closeFault = FALSE
    /\ failAge = [s \in Servers |-> ConnectRetry]

Next ==
    \/ New_Connection
    \/ \E i \in Slots :
          \/ Resolver_Answers(i) \/ Read_Resolver_Result(i)
          \/ Read_Request(i) \/ Handle_Buffer(i) \/ Write_Fails(i)
          \/ Handle_Write_Connect(i) \/ Check_Connection(i)
    \/ \E s \in Servers : Check_Server(s)
    \/ Tick

\* The main loop calls Check_Servers and Check_Connections on every pass
\* and select() returns within 50 ms, so the clock and both checks make
\* progress and a readable resolver pipe is read.  The resolver child
\* itself gets no fairness: a lookup may hang for ever.
Fairness ==
    /\ WF_vars(Tick)
    /\ \A i \in Slots : WF_vars(Check_Connection(i)) /\ WF_vars(Read_Resolver_Result(i))
    /\ \A s \in Servers : WF_vars(Check_Server(s))

Spec == Init /\ [][Next]_vars /\ Fairness

-----------------------------------------------------------------------------
(* Properties                                                              *)

Live(i) == conn[i].sock # "none"

\* Keepalive: Check_Connections sends a PING after PingTimeout seconds of
\* silence and closes PongTimeout seconds later, so no connection stays
\* in the table longer than that without having sent data.
SilenceBounded ==
    \A i \in Slots : Live(i) => conn[i].dataAge <= PingTimeout + PongTimeout + 2

\* Check_Servers never has two connections (pending or up) to the same
\* configured server.
OneLinkPerServer ==
    \A i, j \in Slots :
        (Live(i) /\ Live(j) /\ i # j /\ conn[i].our_server # NONE)
            => conn[i].our_server # conn[j].our_server

\* Conn_Close asserts that the slot holds a socket (conn.c:407); it is
\* never called for a SERVER_WAIT or NONE slot.
CloseOnlyOpenSockets == ~closeFault

\* Every client record of a local connection belongs to a slot in use:
\* when a connection ends, its client structure is destroyed.
ClientsOwnedByLiveSlots ==
    \A k \in 1..Len(clients) : Live(clients[k].conn)

\* A client whose host name lookup is pending is eventually served (its
\* host name is set) or dropped: a hanging resolver cannot keep it forever.
PendingResolutionEnds ==
    \A i \in Slots :
        (conn[i].sock = "open" /\ ~conn[i].host) ~> (conn[i].host \/ conn[i].sock = "none")

\* Handle_Write sets lasttry to "now" after a failed connect() (comment at
\* conn.c:575), so a new attempt to a server is started only ConnectRetry
\* seconds after the last failed connect to it.
RetryAfterConnectFailure ==
    [][\A s \in Servers :
         (tryAge[s] >= ConnectRetry /\ tryAge'[s] = 0) => failAge[s] >= ConnectRetry]_vars

=============================================================================
