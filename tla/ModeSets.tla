------------------------------ MODULE ModeSets ------------------------------
(***************************************************************************)
(* What the channel registry promises about mode flags (spec 4.3): the    *)
(* modes of a channel, and of each of its members, are sets of flags.     *)
(* Adding a flag that is set, or removing one that is not, reports "no    *)
(* change".  A channel is created with no modes and dies with its last    *)
(* member.  Channel_Write lets a client speak unless the channel is +n    *)
(* and it is not a member, or +m and it has neither "o" nor "v".          *)
(***************************************************************************)
EXTENDS FiniteSets

CONSTANTS
    Clients,   \* users that may join the channel
    CModes,    \* channel mode flags
    UModes     \* member mode flags ("o", "v")

VARIABLES
    exists,    \* the channel is in the registry
    cmodes,    \* its flags
    members,   \* its members
    umodes,    \* umodes[c]: the flags of member c
    changed,   \* what the last mode change reported
    allowed    \* what the last Channel_Write decided

vars == <<exists, cmodes, members, umodes, changed, allowed>>

Init ==
    /\ exists = FALSE /\ cmodes = {} /\ members = {}
    /\ umodes = [c \in Clients |-> {}]
    /\ changed = FALSE /\ allowed = FALSE

\* a client joins, creating the channel if needed, with the given flags
Join(c, ms) ==
    /\ c \notin members
    /\ exists' = TRUE
    /\ cmodes' = IF exists THEN cmodes ELSE {}
    /\ members' = members \cup {c}
    /\ umodes' = [umodes EXCEPT ![c] = ms]
    /\ UNCHANGED <<changed, allowed>>

\* a member leaves; the last one takes the channel with it
Leave(c) ==
    /\ c \in members
    /\ members' = members \ {c}
    /\ umodes' = [umodes EXCEPT ![c] = {}]
    /\ exists' = (members' # {})
    /\ cmodes' = IF members' = {} THEN {} ELSE cmodes
    /\ UNCHANGED <<changed, allowed>>

\* a peer's channel information: the channel is created if needed and
\* takes the flags only while it has none
Inherit(ms) ==
    /\ exists' = TRUE
    /\ cmodes' = IF exists /\ cmodes # {} THEN cmodes ELSE ms
    /\ UNCHANGED <<members, umodes, changed, allowed>>

SetFlag(m, on) ==
    /\ exists
    /\ changed' = (on # (m \in cmodes))
    /\ cmodes' = IF on THEN cmodes \cup {m} ELSE cmodes \ {m}
    /\ UNCHANGED <<exists, members, umodes, allowed>>

SetMemberFlag(c, m, on) ==
    /\ c \in members
    /\ changed' = (on # (m \in umodes[c]))
    /\ umodes' = [umodes EXCEPT ![c] = IF on THEN @ \cup {m} ELSE @ \ {m}]
    /\ UNCHANGED <<exists, cmodes, members, allowed>>

MayWrite(c) ==
    /\ "n" \in cmodes => c \in members
    /\ "m" \in cmodes => umodes[c] \cap {"o", "v"} # {}

Write(c) ==
    /\ exists
    /\ allowed' = MayWrite(c)
    /\ UNCHANGED <<exists, cmodes, members, umodes, changed>>

Next ==
    \/ \E c \in Clients, ms \in SUBSET UModes : Join(c, ms)
    \/ \E c \in Clients : Leave(c) \/ Write(c)
    \/ \E ms \in SUBSET CModes : Inherit(ms)
    \/ \E m \in CModes, on \in BOOLEAN : SetFlag(m, on)
    \/ \E c \in Clients, m \in UModes, on \in BOOLEAN : SetMemberFlag(c, m, on)

Spec == Init /\ [][Next]_vars

=============================================================================
