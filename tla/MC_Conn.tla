------------------------------ MODULE MC_Conn ------------------------------
(* Model-checking instance of Conn: two connection slots, one configured  *)
(* peer server, timeouts scaled down so that PING, PONG timeout, connect  *)
(* retry and reconnect delay all fall within a few seconds.              *)
EXTENDS Conn

CONSTANTS s1, g1

MC_Slots == 1..2
\* a single connection slot
MC_OneSlot == 1..1
MC_Servers == {s1}
\* the server belongs to a server group
MC_Group == [s \in MC_Servers |-> g1]
\* the server belongs to no group
MC_NoGroupConf == [s \in MC_Servers |-> NoGroup]

\* The fields of a NONE slot are never read before Init_Conn_Struct
\* overwrites them, and the exact lastping of a connection with no PING
\* outstanding (lastping <= lastdata) is never read either: states that
\* differ only there behave alike.
Slot_View(c) ==
    IF c.sock = "none" THEN Init_Conn_Struct
    ELSE IF c.pingAge >= c.dataAge THEN [c EXCEPT !.pingAge = AgeCap]
    ELSE c
MC_View == <<[i \in Slots |-> Slot_View(conn[i])], clients, ip, tryAge,
             unchecked, unservers, closeFault, failAge>>
=============================================================================
