--------------------------- MODULE ClientLifecycle ---------------------------
(* What registration promises of a local client, independently of the      *)
(* commands that drive it: a client is registering until it becomes a      *)
(* full peer (user or server) or is disconnected; a full peer stays one   *)
(* until it is disconnected.  A full peer's role does not change.  A new   *)
(* connection may later take the place of a disconnected client.         *)
CONSTANTS Locals

VARIABLE phase   \* [Locals -> {"registering", "user", "server", "gone"}]

Phases == {"registering", "user", "server", "gone"}

Init == phase = [c \in Locals |-> "registering"]

Register(c) ==
    /\ phase[c] = "registering"
    /\ \E r \in {"user", "server"} : phase' = [phase EXCEPT ![c] = r]

Disconnect(c) ==
    /\ phase[c] # "gone"
    /\ phase' = [phase EXCEPT ![c] = "gone"]

Connect(c) ==
    /\ phase[c] = "gone"
    /\ phase' = [phase EXCEPT ![c] = "registering"]

Next == \E c \in Locals : Register(c) \/ Disconnect(c) \/ Connect(c)

Spec == Init /\ [][Next]_phase
=============================================================================
