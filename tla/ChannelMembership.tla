-------------------------- MODULE ChannelMembership --------------------------
(***************************************************************************)
(* The membership contract of the channel registry (spec 3 and 4.3): who  *)
(* is in which channel, a channel being a case-insensitive name.  A       *)
(* client joins channels and leaves them only by its own request, and a   *)
(* client that is destroyed leaves every channel at once.  A channel      *)
(* exists while it has members; nothing else is said here about it.      *)
(***************************************************************************)
CONSTANTS
    Clients,   \* users
    Classes    \* channel names up to case

VARIABLES
    mem,       \* <<c, k>>: client c is a member of channel k
    present    \* clients that exist

vars == <<mem, present>>

Init == mem = {} /\ present = Clients

\* a JOIN: the sender enters some channels
Join(c, ks) ==
    /\ c \in present
    /\ mem' = mem \cup ({c} \X ks)
    /\ UNCHANGED present

\* a PART: the sender leaves some channels
Leave(c, ks) ==
    /\ c \in present
    /\ mem' = mem \ ({c} \X ks)
    /\ UNCHANGED present

\* QUIT, KILL, a lost connection: the client leaves every channel
Quit(c) ==
    /\ c \in present
    /\ mem' = {p \in mem : p[1] # c}
    /\ present' = present \ {c}

\* a client of that name registers again
Return(c) ==
    /\ c \notin present
    /\ present' = present \cup {c}
    /\ UNCHANGED mem

Next ==
    \E c \in Clients :
       \/ \E ks \in SUBSET Classes : Join(c, ks) \/ Leave(c, ks)
       \/ Quit(c)
       \/ Return(c)

Spec == Init /\ [][Next]_vars

=============================================================================
