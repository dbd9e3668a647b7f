------------------------------ MODULE Channels ------------------------------
(***************************************************************************)
(* The channel registry of channel.c (the channel list My_Channels and the *)
(* membership list My_Cl2Chan) under the channel commands of              *)
(* irc-channel.c: JOIN, PART, TOPIC and the server command CHANINFO.      *)
(*                                                                         *)
(* A channel is identified by the name it was created with; Fold gives    *)
(* the case-insensitive class of a name (Hash and strcasecmp).  Ban and   *)
(* invite lists and channel keys live in code that is not in this tree    *)
(* (lists.c, irc-mode.c): their verdict for a JOIN is an input of the     *)
(* request.  A write to a local client that fails closes its connection   *)
(* at once (Conn_Write -> Conn_Close -> Client_Destroy), which removes   *)
(* the client from every channel while the handler is still running.     *)
(***************************************************************************)
EXTENDS Integers, Sequences, FiniteSets

CONSTANTS
    Locals,      \* local users (CLIENT_USER with a connection)
    Remotes,     \* users introduced by a peer server
    IrcOps,      \* users with user mode "o"
    Names,       \* channel names a request can carry
    Valid,       \* the names Channel_IsValidName accepts
    Fold,        \* Fold[n] = Fold[m] iff strcasecmp(n, m) = 0
    NoChan,      \* NULL returned by Channel_Search
    ChanModes,   \* the channel modes the handlers read
    ModeArgs,    \* mode sets a CHANINFO can carry
    Limits,      \* values of a CHANINFO user-limit argument
    Requests,    \* comma lists of channel names (non-empty sequences)
    MaxJoins,    \* Conf_MaxJoins (0: no limit)
    PredefOnly   \* Conf_PredefChannelsOnly

ASSUME /\ Valid \subseteq Names
       /\ Fold \in [Names -> Names]
       /\ NoChan \notin Names
       /\ ModeArgs \subseteq SUBSET ChanModes
       /\ Requests \subseteq Seq(Names)
       /\ MaxJoins \in Nat
       /\ PredefOnly \in BOOLEAN

VARIABLES
    chans,    \* names of the channels in My_Channels
    cmodes,   \* cmodes[ch]: the mode string of channel ch
    topic,    \* topic[ch]: the topic of ch is not empty
    limit,    \* limit[ch]: Channel_MaxUsers
    cl2chan,  \* My_Cl2Chan: one record per membership
    present,  \* clients that exist (not destroyed)
    freed     \* a handler used a client or channel after it was freed

vars == <<chans, cmodes, topic, limit, cl2chan, present, freed>>

Clients == Locals \cup Remotes

\* CL2CHAN: client, channel and the member's "o" flag
Member == [client : Clients, channel : Names, op : BOOLEAN]

\* verdicts of the ban/invite lists and the key for one name of a JOIN:
\* banned (and not invited), invited, neither, or neither with a wrong
\* key; an invited client with a wrong key meets the same checks as
\* "badkey" wherever "k" is set and as "invited" elsewhere
Access == {"banned", "invited", "none", "badkey"}
UserArg == [access : Access, op : {FALSE}]
\* a server passes the member's modes after a BEL in the name
ServerArg == [access : {"none"}, op : BOOLEAN]

\* the whole registry as a record, so handlers can run in steps
Registry == [chans |-> chans, cmodes |-> cmodes, topic |-> topic,
             limit |-> limit, cl2chan |-> cl2chan, present |-> present,
             freed |-> freed]

Apply(s) == /\ chans' = s.chans
            /\ cmodes' = s.cmodes
            /\ topic' = s.topic
            /\ limit' = s.limit
            /\ cl2chan' = s.cl2chan
            /\ present' = s.present
            /\ freed' = s.freed

MembersOf(s, ch) == {m \in s.cl2chan : m.channel = ch}

\* Channel_CountForUser (not in this tree's channel.c)
CountForUser(s, c) == Cardinality({m \in s.cl2chan : m.client = c})

\* Get_Cl2Chan: the membership of c in ch, if any
Get_Cl2Chan(s, ch, c) == {m \in s.cl2chan : m.channel = ch /\ m.client = c}

IsMember(s, ch, c) == Get_Cl2Chan(s, ch, c) # {}

Channel_Search_Exact(s, n) ==
    IF n \in s.chans THEN n ELSE NoChan

\* Channel_Search: hash of the folded name, then strcasecmp
Channel_Search(s, n) ==
    IF \E c \in s.chans : Fold[c] = Fold[n]
    THEN CHOOSE c \in s.chans : Fold[c] = Fold[n]
    ELSE NoChan

\* New_Chan and the linking into My_Channels: empty modes and topic
New_Chan(s, n) ==
    [s EXCEPT !.chans = @ \cup {n}, !.cmodes[n] = {}, !.topic[n] = FALSE,
              !.limit[n] = 0]

\* Channel_Create (irc-channel.c calls it; not in this tree's channel.c)
Channel_Create(s, n) == IF n \in Valid THEN New_Chan(s, n) ELSE s

Delete_Channel(s, ch) ==
    [s EXCEPT !.chans = @ \ {ch}, !.cmodes[ch] = {}, !.topic[ch] = FALSE,
              !.limit[ch] = 0]

Add_Client(s, ch, c) ==
    [s EXCEPT !.cl2chan = @ \cup {[client |-> c, channel |-> ch, op |-> FALSE]}]

\* Channel_UserModeAdd(ch, c, 'o')
Channel_UserModeAdd(s, ch, c) ==
    [s EXCEPT !.cl2chan = {IF m.channel = ch /\ m.client = c
                           THEN [m EXCEPT !.op = TRUE] ELSE m : m \in @}]

Channel_Join_NoCheck(s, c, n) ==
    LET found == Channel_Search(s, n)
        ch == IF found = NoChan THEN n ELSE found
        s1 == IF found = NoChan THEN New_Chan(s, n) ELSE s
    IN IF n \notin Valid THEN [ok |-> FALSE, s |-> s]
       ELSE [ok |-> TRUE, s |-> Add_Client(s1, ch, c)]

Channel_Join_AnyName(s, c, n) ==
    LET found == Channel_Search(s, n)
        ch == IF found = NoChan THEN n ELSE found
        s1 == IF found = NoChan THEN New_Chan(s, n) ELSE s
    IN IF found # NoChan /\ IsMember(s, found, c)
       THEN [ok |-> FALSE, s |-> s]
       ELSE [ok |-> TRUE, s |-> Add_Client(s1, ch, c)]

\* Channel_Join: name check, search or create, refuse a second membership
Channel_Join(s, c, n) ==
    LET found == Channel_Search(s, n)
        ch == IF found = NoChan THEN n ELSE found
        s1 == IF found = NoChan THEN New_Chan(s, n) ELSE s
    IN IF n \notin Valid THEN [ok |-> FALSE, s |-> s]
       ELSE IF found # NoChan /\ IsMember(s, found, c)
            THEN [ok |-> FALSE, s |-> s]
            ELSE [ok |-> TRUE, s |-> Add_Client(s1, ch, c)]

Remove_Client_Swapped(s, ch, c) ==
    LET s1 == [s EXCEPT !.cl2chan = @ \ Get_Cl2Chan(s, ch, c)]
    IN IF ~IsMember(s, ch, c) THEN s
       ELSE IF {m \in s1.cl2chan : m.client = c} = {}
            THEN Delete_Channel(s1, ch) ELSE s1

\* the mutant: the records to unlink are matched by channel alone
Remove_Client_AnyMember(s, ch, c) ==
    LET s1 == [s EXCEPT !.cl2chan = @ \ MembersOf(s, ch)]
    IN IF ~IsMember(s, ch, c) THEN s
       ELSE IF MembersOf(s1, ch) = {} THEN Delete_Channel(s1, ch) ELSE s1

\* Remove_Client: unlink the membership; delete the channel once empty
Remove_Client(s, ch, c) ==
    LET s1 == [s EXCEPT !.cl2chan = @ \ Get_Cl2Chan(s, ch, c)]
    IN IF ~IsMember(s, ch, c) THEN s
       ELSE IF MembersOf(s1, ch) = {} THEN Delete_Channel(s1, ch) ELSE s1

RECURSIVE RemoveFrom_FirstOnly(_, _, _)
RemoveFrom_FirstOnly(s, c, cs) ==
    IF cs = {} THEN s
    ELSE LET ch == CHOOSE x \in cs : TRUE
         IN IF IsMember(s, ch, c) THEN Remove_Client(s, ch, c)
            ELSE RemoveFrom_FirstOnly(s, c, cs \ {ch})

\* Channel_RemoveClient: Remove_Client on every channel, next saved first
RECURSIVE RemoveFrom(_, _, _)
RemoveFrom(s, c, cs) ==
    IF cs = {} THEN s
    ELSE LET ch == CHOOSE x \in cs : TRUE
         IN RemoveFrom(Remove_Client(s, ch, c), c, cs \ {ch})

\* Client_Destroy (client.c): leave every channel, then the record is freed
Client_Destroy(s, c) ==
    [RemoveFrom(s, c, s.chans) EXCEPT !.present = @ \ {c}]

\* Channel_Part: no such channel or not a member is an error reply
Channel_Part(s, c, n) ==
    LET ch == Channel_Search(s, n)
    IN IF ch = NoChan THEN s ELSE Remove_Client(s, ch, c)

\* IRC_JOIN's checks for a local user on an existing channel, in order
Refused(s, ch, a) ==
    \/ a.access = "banned"
    \/ "i" \in s.cmodes[ch] /\ a.access # "invited"
    \/ "k" \in s.cmodes[ch] /\ a.access = "badkey"
    \/ "l" \in s.cmodes[ch] /\ s.limit[ch] <= Cardinality(MembersOf(s, ch))

(***************************************************************************)
(* IRC_JOIN's loop over the comma list, for sender c.  Every refusal       *)
(* "continue"s with channame = strchr(channame, ','), which is NULL since *)
(* the comma was overwritten: the loop ends there.  A write to a local    *)
(* sender failing at name number fail destroys it; the handler goes on    *)
(* with the freed client and channel.                                      *)
(***************************************************************************)
RECURSIVE JoinLoop(_, _, _, _, _)
JoinLoop(s, c, req, arg, fail) ==
    IF req = <<>> THEN s
    ELSE
    LET n == Head(req)
        a == Head(arg)
        found == Channel_Search(s, n)
        isNew == found = NoChan
        j == Channel_Join(s, c, n)
        chan == Channel_Search(j.s, n)
        flags == IF c \in Locals THEN isNew ELSE a.op
        s1 == IF flags THEN Channel_UserModeAdd(j.s, chan, c) ELSE j.s
        s2 == IF "P" \in s1.cmodes[chan] /\ c \in IrcOps
              THEN Channel_UserModeAdd(s1, chan, c) ELSE s1
    IN IF isNew /\ PredefOnly THEN s
       ELSE IF c \in Locals /\ MaxJoins > 0 /\ CountForUser(s, c) >= MaxJoins
            THEN s
       ELSE IF c \in Locals /\ ~isNew /\ Refused(s, found, a) THEN s
       ELSE IF ~j.ok THEN s
       ELSE IF fail = 1
            THEN [Client_Destroy(s2, c) EXCEPT !.freed = TRUE]
       ELSE JoinLoop(s2, c, Tail(req), Tail(arg), fail - 1)

\* JOIN from local user c, or from a server for the remote user c
IRC_JOIN(c) ==
    /\ c \in present
    /\ \E req \in Requests :
       \E arg \in [1..Len(req) -> IF c \in Locals THEN UserArg ELSE ServerArg] :
       \E fail \in IF c \in Locals THEN 0..Len(req) ELSE {0} :
          LET r == JoinLoop(Registry, c, req, arg, fail) IN Apply(r)

(***************************************************************************)
(* IRC_PART's strtok loop: a failed Channel_Part goes on with the next    *)
(* name.  Each name gets a reply to a local sender (an error or the PART  *)
(* echo); if it fails the client is destroyed, and a later name uses it.  *)
(***************************************************************************)
RECURSIVE PartLoop(_, _, _, _)
PartLoop(s, c, req, fail) ==
    IF req = <<>> THEN s
    ELSE LET s1 == Channel_Part(s, c, Head(req))
         IN IF fail = 1
            THEN [Client_Destroy(s1, c) EXCEPT !.freed = @ \/ Tail(req) # <<>>]
            ELSE PartLoop(s1, c, Tail(req), fail - 1)

IRC_PART(c) ==
    /\ c \in present
    /\ \E req \in Requests :
       \E fail \in IF c \in Locals THEN 0..Len(req) ELSE {0} :
          LET r == PartLoop(Registry, c, req, fail) IN Apply(r)

\* TOPIC with a new topic (t: not empty); only a member, only an op if +t
IRC_TOPIC(c) ==
    \E n \in Names, t \in BOOLEAN :
       LET ch == Channel_Search(Registry, n)
       IN /\ c \in present
          /\ ch # NoChan
          /\ IsMember(Registry, ch, c)
          /\ "t" \in cmodes[ch] => \E m \in Get_Cl2Chan(Registry, ch, c) : m.op
          /\ topic' = [topic EXCEPT ![ch] = t]
          /\ UNCHANGED <<chans, cmodes, limit, cl2chan, present, freed>>

(***************************************************************************)
(* CHANINFO from a peer: search or create the channel; take the modes if  *)
(* it has none (with argc 5 the limit too, else without "l" and "k");     *)
(* take the topic if it has none.  A mode argument without "+" is        *)
(* ignored, like "+" alone (ms = {}).                                      *)
(***************************************************************************)
IRC_CHANINFO ==
    \E n \in Names, argc \in {2, 3, 5}, ms \in ModeArgs \cup {{}},
       lim \in Limits, tpc \in BOOLEAN :
       LET s0 == IF Channel_Search(Registry, n) = NoChan
                 THEN Channel_Create(Registry, n) ELSE Registry
           ch == Channel_Search(s0, n)
           s1 == IF ms # {} /\ s0.cmodes[ch] = {}
                 THEN IF argc = 5
                      THEN [s0 EXCEPT !.cmodes[ch] = ms,
                               !.limit[ch] = IF "l" \in ms THEN lim ELSE @]
                      ELSE [s0 EXCEPT !.cmodes[ch] = ms \ {"l", "k"}]
                 ELSE s0
           s2 == IF argc \in {3, 5} /\ ~s1.topic[ch] /\ tpc
                 THEN [s1 EXCEPT !.topic[ch] = TRUE] ELSE s1
       IN /\ ch # NoChan
          /\ Apply(s2)

\* a client quits, is killed or loses its connection
Destroy(c) ==
    /\ c \in present
    /\ Apply(Client_Destroy(Registry, c))

\* a client of that name registers again
Client_New(c) ==
    /\ c \notin present
    /\ present' = present \cup {c}
    /\ UNCHANGED <<chans, cmodes, topic, limit, cl2chan, freed>>

Init ==
    /\ chans = {}
    /\ cmodes = [n \in Names |-> {}]
    /\ topic = [n \in Names |-> FALSE]
    /\ limit = [n \in Names |-> 0]
    /\ cl2chan = {}
    /\ present = Clients
    /\ freed = FALSE

Next ==
    \/ \E c \in Clients : IRC_JOIN(c) \/ IRC_PART(c) \/ IRC_TOPIC(c)
                          \/ Destroy(c) \/ Client_New(c)
    \/ IRC_CHANINFO

Spec == Init /\ [][Next]_vars

-----------------------------------------------------------------------------
TypeOK ==
    /\ chans \subseteq Valid
    /\ cmodes \in [Names -> SUBSET ChanModes]
    /\ topic \in [Names -> BOOLEAN]
    /\ limit \in [Names -> {0} \cup Limits]
    /\ cl2chan \subseteq Member
    /\ present \subseteq Clients
    /\ freed \in BOOLEAN

\* Channel_Search finds a channel whatever the case of the name, so JOIN
\* and CHANINFO never create two channels whose names differ only in case.
NamesUnique ==
    \A c1, c2 \in chans : Fold[c1] = Fold[c2] => c1 = c2

\* Channel_Join refuses a client that is already a member, so My_Cl2Chan
\* holds at most one record per client and channel, whatever the modes.
MembershipUnique ==
    \A m1, m2 \in cl2chan :
       m1.client = m2.client /\ m1.channel = m2.channel => m1 = m2

\* Remove_Client deletes a channel only when its last member has gone, so
\* no membership points to a freed channel.
MembersInLiveChannels ==
    \A m \in cl2chan : m.channel \in chans

\* Client_Destroy's Channel_RemoveClient visits every channel, so a
\* destroyed client keeps no membership anywhere.
NoMembershipOfDestroyed ==
    \A m \in cl2chan : m.client \in present

\* The registry's contract: a channel with no members does not persist.
NoEmptyChannel ==
    \A ch \in chans : MembersOf(Registry, ch) # {}

\* No handler goes on using a client or channel that a failed write has
\* freed under it.
NoUseAfterFree == ~freed

\* Before the request, name n would let sender c in: a valid name, a new
\* channel that may be created, or an existing one none of whose checks
\* refuses c.
Admitted(c, n, a) ==
    LET ch == Channel_Search(Registry, n)
    IN /\ n \in Valid
       /\ ch = NoChan => ~PredefOnly
       /\ ch # NoChan => ~Refused(Registry, ch, a)

\* IRC_JOIN's comments promise to "try next name, if any" after a refusal:
\* in every reachable state, a JOIN whose writes all succeed would leave
\* a local sender in every listed channel it is admitted to, unless it
\* reaches Conf_MaxJoins.
JoinTriesEveryName ==
    \A c \in Locals \cap present, req \in Requests :
       \A arg \in [1..Len(req) -> UserArg] :
          LET r == JoinLoop(Registry, c, req, arg, 0)
          IN \A i \in 1..Len(req) :
                Admitted(c, req[i], arg[i]) =>
                   \/ IsMember(r, Channel_Search(r, req[i]), c)
                   \/ MaxJoins > 0 /\ CountForUser(r, c) >= MaxJoins

\* Every step of the handlers, read as who is in which channel (up to
\* case), is a step of ChannelMembership: a JOIN only adds its sender, a
\* PART only removes its sender, TOPIC and CHANINFO change no membership,
\* and a destroyed client (QUIT, or a write failing in JOIN or PART)
\* leaves every channel in the same step.
Membership == INSTANCE ChannelMembership WITH
                  Classes <- {Fold[n] : n \in Names},
                  mem <- {<<m.client, Fold[m.channel]>> : m \in cl2chan}

ImplementsMembership == Membership!Spec

=============================================================================
