---------------------------- MODULE ChannelModes ----------------------------
(***************************************************************************)
(* The mode strings of channel.c for one channel: Chan->modes and the     *)
(* modes of each membership record (CL2CHAN), as C strings changed by     *)
(* Channel_ModeAdd/ModeDel and Channel_UserModeAdd/UserModeDel, created   *)
(* empty by New_Chan and Add_Client, copied whole by IRC_CHANINFO, and    *)
(* read with strchr by Channel_Write.  A string is the sequence of its    *)
(* characters before the NUL.                                             *)
(*                                                                         *)
(* The callers of the mode functions for MODE requests are in irc-mode.c, *)
(* which is not in this tree: a MODE request is any flag, set or unset.   *)
(***************************************************************************)
EXTENDS Integers, Sequences, SequencesExt

CONSTANTS
    Clients,           \* users that may join the channel
    CModes,            \* channel mode flags
    UModes,            \* member mode flags
    CHANNEL_MODE_LEN,  \* size of the modes arrays, NUL included
    InfoArgs,          \* mode arguments of CHANINFO after the "+"
    FlagArgs           \* member flags after the BEL of a server's JOIN

ASSUME /\ {"n", "m"} \subseteq CModes /\ UModes = {"o", "v"}
       /\ InfoArgs \subseteq Seq(CModes) /\ FlagArgs \subseteq Seq(UModes)

VARIABLES
    exists,    \* the channel is in My_Channels
    cmode,     \* Chan->modes
    members,   \* clients with a CL2CHAN record for the channel
    umode,     \* umode[c]: cl2chan->modes of member c
    changed,   \* what the last Channel_(User)ModeAdd/Del returned
    allowed    \* what the last Channel_Write decided

vars == <<exists, cmode, members, umode, changed, allowed>>

\* strchr(s, x) # NULL, and the index it returns
Has(s, x) == \E i \in 1..Len(s) : s[i] = x
FirstAt(s, x) == Min({i \in 1..Len(s) : s[i] = x})

\* the mutant: the strchr check is left out, strcat always appends
ModeAdd_NoCheck(s, x) == [res |-> TRUE, s |-> Append(s, x)]

\* Channel_ModeAdd, Channel_UserModeAdd: strcat(modes, x) unless present
ModeAdd(s, x) ==
    IF Has(s, x) THEN [res |-> FALSE, s |-> s]
    ELSE [res |-> TRUE, s |-> Append(s, x)]

\* while( *p ) { *p = *(p + 1); p++; }: each character takes the next
\* one; copying the NUL down (at p = Len(s)) ends the string and the loop
RECURSIVE ShiftDown(_, _)
ShiftDown(s, p) ==
    IF p = Len(s) THEN SubSeq(s, 1, Len(s) - 1)
    ELSE ShiftDown([s EXCEPT ![p] = s[p + 1]], p + 1)

\* the mutant: the string is cut at the flag (*p = '\0')
ModeDel_Cut(s, x) ==
    IF ~Has(s, x) THEN [res |-> FALSE, s |-> s]
    ELSE [res |-> TRUE, s |-> SubSeq(s, 1, FirstAt(s, x) - 1)]

\* Channel_ModeDel, Channel_UserModeDel: the first x is shifted out
ModeDel(s, x) ==
    IF ~Has(s, x) THEN [res |-> FALSE, s |-> s]
    ELSE [res |-> TRUE, s |-> ShiftDown(s, FirstAt(s, x))]

ModeSet(s, x, on) == IF on THEN ModeAdd(s, x) ELSE ModeDel(s, x)

-----------------------------------------------------------------------------
\* IRC_JOIN for client c: Channel_Join creates the channel with modes ""
\* (New_Chan) if needed and a record with modes "" (Add_Client); then
\* Channel_UserModeAdd for every flag the server passed
Join(c, flags) ==
    /\ c \notin members
    /\ exists' = TRUE
    /\ cmode' = IF exists THEN cmode ELSE <<>>
    /\ members' = members \cup {c}
    /\ umode' = [umode EXCEPT ![c] =
                   FoldLeft(LAMBDA s, x : ModeAdd(s, x).s, <<>>, flags)]
    /\ UNCHANGED <<changed, allowed>>

\* Remove_Client: the record is freed; Delete_Channel frees the channel
\* with its last member
Part(c) ==
    /\ c \in members
    /\ members' = members \ {c}
    /\ umode' = [umode EXCEPT ![c] = <<>>]
    /\ exists' = (members' # {})
    /\ cmode' = IF members' = {} THEN <<>> ELSE cmode
    /\ UNCHANGED <<changed, allowed>>

\* IRC_CHANINFO with "+modes": search or create the channel; if it has
\* no modes, Channel_SetModes copies the argument, and without the key
\* and limit arguments (argc # 5) "l" and "k" are deleted again
Chaninfo(arg, argc5) ==
    LET s0 == IF exists THEN cmode ELSE <<>>
        s1 == IF argc5 THEN arg ELSE ModeDel(ModeDel(arg, "l").s, "k").s
    IN /\ exists' = TRUE
       /\ cmode' = IF s0 = <<>> THEN s1 ELSE s0
       /\ UNCHANGED <<members, umode, changed, allowed>>

\* a MODE request sets or unsets channel flag x
Mode_Channel(x, on) ==
    /\ exists
    /\ \E r \in {ModeSet(cmode, x, on)} : cmode' = r.s /\ changed' = r.res
    /\ UNCHANGED <<exists, members, umode, allowed>>

\* a MODE request sets or unsets flag x of member c (Get_Cl2Chan asserts
\* the record exists)
Mode_Member(c, x, on) ==
    /\ c \in members
    /\ \E r \in {ModeSet(umode[c], x, on)} :
          umode' = [umode EXCEPT ![c] = r.s] /\ changed' = r.res
    /\ UNCHANGED <<exists, cmode, members, allowed>>

\* Channel_Write: voice and op from the sender's member modes, then the
\* +n and +m checks on the channel's modes
Channel_Write(c) ==
    LET is_member == c \in members
        has_voice == is_member /\ Has(umode[c], "v")
        is_op == is_member /\ Has(umode[c], "o")
    IN /\ exists
       /\ allowed' = /\ ~(Has(cmode, "n") /\ ~is_member)
                     /\ ~(Has(cmode, "m") /\ ~is_op /\ ~has_voice)
       /\ UNCHANGED <<exists, cmode, members, umode, changed>>

Init ==
    /\ exists = FALSE /\ cmode = <<>> /\ members = {}
    /\ umode = [c \in Clients |-> <<>>]
    /\ changed = FALSE /\ allowed = FALSE

Next ==
    \/ \E c \in Clients, f \in FlagArgs : Join(c, f)
    \/ \E c \in Clients : Part(c) \/ Channel_Write(c)
    \/ \E a \in InfoArgs, argc5 \in BOOLEAN : Chaninfo(a, argc5)
    \/ \E x \in CModes, on \in BOOLEAN : Mode_Channel(x, on)
    \/ \E c \in Clients, x \in UModes, on \in BOOLEAN : Mode_Member(c, x, on)

Spec == Init /\ [][Next]_vars

-----------------------------------------------------------------------------
\* strcat has no bound: only the strchr check keeps each mode string, NUL
\* included, inside its CHANNEL_MODE_LEN array.
TypeOK ==
    /\ exists \in BOOLEAN /\ members \subseteq Clients
    /\ cmode \in Seq(CModes) /\ Len(cmode) < CHANNEL_MODE_LEN
    /\ \A c \in Clients : umode[c] \in Seq(UModes)
                          /\ Len(umode[c]) < CHANNEL_MODE_LEN
    /\ changed \in BOOLEAN /\ allowed \in BOOLEAN

\* The strings behave as the sets of flags the registry promises: read as
\* sets, every step of the mode functions, the channel life cycle and
\* Channel_Write is a step of ModeSets, with the same "changed" results
\* and the same write decisions.
Abs == INSTANCE ModeSets WITH
           cmodes <- ToSet(cmode),
           umodes <- [c \in Clients |-> ToSet(umode[c])]

ImplementsModeSets == Abs!Spec

=============================================================================
