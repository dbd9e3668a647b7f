---------------------------- MODULE Registration ----------------------------
(***************************************************************************)
(* The registration state machine of ngIRCd (src/ngircd/irc-login.c):     *)
(* PASS, NICK, USER and QUIT from local connections, Hello_User, and the  *)
(* NICK and QUIT commands by which a linked peer server introduces,       *)
(* renames and removes remote users (with Kill_Nick on a collision).      *)
(*                                                                         *)
(* Each action is one command handler run to completion, as Parse_Request *)
(* calls them from the single main loop.  A failed write to a client      *)
(* closes its connection (Conn_Close, then Client_Destroy): the client    *)
(* becomes "gone".  Nicknames are model values; Fold gives their          *)
(* case-insensitive class, as strcasecmp and Client_Search compare them.  *)
(***************************************************************************)
EXTENDS FiniteSets

CONSTANTS
    Locals,     \* clients of local connections
    Nicks,      \* nicknames a command may carry
    Fold,       \* [Nicks -> classes]: nicknames equal under strcasecmp
    NoNick,     \* the ID of a client that has not sent a valid NICK
    Pwds,       \* passwords a PASS command may carry
    EmptyPwd,   \* the password of a client that sent no PASS
    ServerPwd,  \* Conf_ServerPwd
    Outbound    \* local clients of connections we opened to a peer

ASSUME Fold \in [Nicks -> Nicks] /\ NoNick \notin Nicks
ASSUME Outbound \subseteq Locals
ASSUME EmptyPwd \in Pwds /\ ServerPwd \in Pwds

Types == {"unknown", "gotpass", "gotnick", "gotuser", "user",
          "unknownserver", "gotpassserver", "server", "gone"}

VARIABLES
    type,       \* Client_Type of each local client ("gone": destroyed)
    nick,       \* Client_ID
    pwd,        \* Client_Password
    user,       \* a valid USER command set the user name
    remote,     \* remote users: <<nick, link that introduced it>>
    announced   \* nicks of local users this server announced to its peers

vars == <<type, nick, pwd, user, remote, announced>>

TypeOK ==
    /\ type \in [Locals -> Types]
    /\ nick \in [Locals -> Nicks \cup {NoNick}]
    /\ pwd \in [Locals -> Pwds]
    /\ user \in [Locals -> BOOLEAN]
    /\ remote \subseteq Nicks \X Locals
    /\ announced \subseteq Nicks

-----------------------------------------------------------------------------
(* The client directory (client.c)                                         *)

Live(c) == type[c] # "gone"

SameNick(m, n) == m # NoNick /\ n # NoNick /\ Fold[m] = Fold[n]

\* Client_Search: the (local or remote) client whose ID equals n ignoring case.
LocalNamed(n) == {c \in Locals : Live(c) /\ SameNick(nick[c], n)}
RemoteNamed(n) == {r \in remote : SameNick(r[1], n)}

\* Faulty variant of Client_CheckNick comparing nicknames case-sensitively.
Client_CheckNick_Exact(n) ==
    /\ \A c \in Locals : Live(c) => nick[c] # n
    /\ \A r \in remote : r[1] # n

\* Client_CheckNick: the nickname is not in use (ERR_NICKNAMEINUSE otherwise).
Client_CheckNick(n) == LocalNamed(n) = {} /\ RemoteNamed(n) = {}

\* Client_Destroy of local client c (called by Conn_Close): a registered
\* user is reported to the peers with QUIT, a server link takes all the
\* users it introduced with it.
Client_Destroy(c) ==
    /\ type' = [type EXCEPT ![c] = "gone"]
    /\ announced' = IF type[c] = "user" THEN announced \ {nick[c]} ELSE announced
    /\ remote' = IF type[c] = "server" THEN {r \in remote : r[2] # c} ELSE remote

\* Kill_Nick (IRC_KILL): the client using nickname n is disconnected; the
\* KILL is forwarded to the peers.
Kill_Nick(n) ==
    /\ type' = [c \in Locals |-> IF c \in LocalNamed(n) THEN "gone" ELSE type[c]]
    /\ announced' = {m \in announced : ~SameNick(m, n)}
    /\ remote' = remote \ RemoteNamed(n)

-----------------------------------------------------------------------------
(* Handlers                                                                *)

\* Faulty variant of Hello_User that announces the client's previous ID,
\* as if Client_SetID came after Hello_User in IRC_NICK.
Hello_User_OldId(c, n) ==
    IF pwd[c] # ServerPwd
    THEN /\ type' = [type EXCEPT ![c] = "gone"]
         /\ UNCHANGED <<announced, remote>>
    ELSE \/ /\ type' = [type EXCEPT ![c] = "user"]
            /\ announced' = announced \cup {nick[c]}
            /\ UNCHANGED remote
         \/ /\ type' = [type EXCEPT ![c] = "gone"]
            /\ UNCHANGED <<announced, remote>>

\* Faulty variant of Hello_User that does not check the password.
Hello_User_NoPwd(c, n) ==
    \/ /\ type' = [type EXCEPT ![c] = "user"]
       /\ announced' = announced \cup {n}
       /\ UNCHANGED remote
    \/ /\ type' = [type EXCEPT ![c] = "gone"]
       /\ UNCHANGED <<announced, remote>>

\* Hello_User for client c whose nickname is now n.  A wrong password
\* closes the connection.  Otherwise the user is announced to the peers
\* (NICK), then the welcome burst is written: a write failing before
\* Client_SetType(CLIENT_USER) closes a client that is not yet a user; one
\* failing after it (LUSERS, MOTD) closes a user, whose QUIT is sent.
Hello_User(c, n) ==
    IF pwd[c] # ServerPwd
    THEN /\ type' = [type EXCEPT ![c] = "gone"]
         /\ UNCHANGED <<announced, remote>>
    ELSE \/ /\ type' = [type EXCEPT ![c] = "user"]
            /\ announced' = announced \cup {n}
            /\ UNCHANGED remote
         \/ /\ type' = [type EXCEPT ![c] = "gone"]
            /\ announced' = announced \cup {n}
            /\ UNCHANGED remote
         \/ /\ type' = [type EXCEPT ![c] = "gone"]
            /\ UNCHANGED <<announced, remote>>

\* Faulty variant of IRC_PASS that does not check the client type of the
\* one-argument form.
IRC_PASS_AnyState(c, argc, p) ==
    /\ Live(c)
    /\ \/ /\ argc = 1
          /\ pwd' = [pwd EXCEPT ![c] = p]
          /\ type' = [type EXCEPT ![c] = "gotpass"]
       \/ /\ type[c] \in {"unknown", "unknownserver"} /\ argc \in {3, 4}
          /\ pwd' = [pwd EXCEPT ![c] = p]
          /\ type' = [type EXCEPT ![c] = "gotpassserver"]
    /\ UNCHANGED <<nick, user, remote, announced>>

\* IRC_PASS with argc arguments, the first being password p.
IRC_PASS(c, argc, p) ==
    /\ Live(c)
    /\ \/ /\ type[c] = "unknown" /\ argc = 1
          /\ pwd' = [pwd EXCEPT ![c] = p]
          /\ type' = [type EXCEPT ![c] = "gotpass"]
       \/ /\ type[c] \in {"unknown", "unknownserver"} /\ argc \in {3, 4}
          /\ pwd' = [pwd EXCEPT ![c] = p]
          /\ type' = [type EXCEPT ![c] = "gotpassserver"]
    /\ UNCHANGED <<nick, user, remote, announced>>

\* IRC_NICK with one argument n from local client c: registration or a
\* change of nickname.  The same nickname does nothing; a nickname in use
\* (other than a change of case of one's own) is refused.  A client that
\* is not yet registered takes the nickname and is registered by
\* Hello_User if USER came first; a user's new nickname is sent to the
\* peers.
IRC_NICK(c, n) ==
    /\ type[c] \in {"unknown", "gotpass", "gotnick", "gotuser", "user"}
    /\ nick[c] # n
    /\ SameNick(nick[c], n) \/ Client_CheckNick(n)
    /\ nick' = [nick EXCEPT ![c] = n]
    /\ IF type[c] = "user"
       THEN /\ announced' = (announced \ {nick[c]}) \cup {n}
            /\ UNCHANGED <<type, remote>>
       ELSE IF type[c] = "gotuser" THEN Hello_User(c, n)
       ELSE /\ type' = [type EXCEPT ![c] = "gotnick"]
            /\ UNCHANGED <<remote, announced>>
    /\ UNCHANGED <<pwd, user>>

\* IRC_USER from local client c (four arguments): the user name is set;
\* after NICK this completes the registration, otherwise the client waits
\* for NICK.
IRC_USER(c) ==
    /\ type[c] \in {"gotnick", "gotpass", "unknown"}
    /\ user' = [user EXCEPT ![c] = TRUE]
    /\ IF type[c] = "gotnick" THEN Hello_User(c, nick[c])
       ELSE /\ type' = [type EXCEPT ![c] = "gotuser"]
            /\ UNCHANGED <<remote, announced>>
    /\ UNCHANGED <<nick, pwd>>

\* IRC_SERVER (irc-server.c): a link that sent the server form of PASS
\* introduces itself and is accepted as a server, or is refused and closed.
IRC_SERVER(c) ==
    /\ type[c] = "gotpassserver"
    /\ \/ /\ type' = [type EXCEPT ![c] = "server"]
          /\ UNCHANGED <<remote, announced>>
       \/ Client_Destroy(c)
    /\ UNCHANGED <<nick, pwd, user>>

\* IRC_QUIT from a local client that is not a server: Conn_Close.
IRC_QUIT(c) ==
    /\ Live(c) /\ type[c] # "server"
    /\ Client_Destroy(c)
    /\ UNCHANGED <<nick, pwd, user>>

\* A reply or relayed message to client c cannot be written: Conn_Close.
Write_Fails(c) ==
    /\ Live(c)
    /\ Client_Destroy(c)
    /\ UNCHANGED <<nick, pwd, user>>

\* IRC_NICK with seven arguments from server link c: a new remote user n.
\* If the nickname is already known here, Kill_Nick disconnects its
\* holder and the new user is not created.
IRC_NICK_Introduce(c, n) ==
    /\ type[c] = "server"
    /\ IF Client_CheckNick(n)
       THEN /\ remote' = remote \cup {<<n, c>>}
            /\ UNCHANGED <<type, announced>>
       ELSE Kill_Nick(n)
    /\ UNCHANGED <<nick, pwd, user>>

\* IRC_NICK with one argument from server link c, prefixed with remote
\* user r introduced over c: r changes its nickname to n.
IRC_NICK_Remote(c, r, n) ==
    /\ type[c] = "server" /\ r \in remote /\ r[2] = c
    /\ r[1] # n
    /\ SameNick(r[1], n) \/ Client_CheckNick(n)
    /\ remote' = (remote \ {r}) \cup {<<n, c>>}
    /\ UNCHANGED <<type, nick, pwd, user, announced>>

\* IRC_QUIT from server link c, prefixed with remote user r introduced
\* over c: Client_Destroy(r).
IRC_QUIT_Remote(c, r) ==
    /\ type[c] = "server" /\ r \in remote /\ r[2] = c
    /\ remote' = remote \ {r}
    /\ UNCHANGED <<type, nick, pwd, user, announced>>

\* New_Connection or New_Server (conn.c) on the connection of a destroyed
\* client: Client_NewLocal creates a fresh client for it.
Client_NewLocal(c) ==
    /\ type[c] = "gone"
    /\ type' = [type EXCEPT ![c] = IF c \in Outbound THEN "unknownserver" ELSE "unknown"]
    /\ nick' = [nick EXCEPT ![c] = NoNick]
    /\ pwd' = [pwd EXCEPT ![c] = EmptyPwd]
    /\ user' = [user EXCEPT ![c] = FALSE]
    /\ UNCHANGED <<remote, announced>>

-----------------------------------------------------------------------------
\* Every connection starts with a fresh client (Client_NewLocal): unknown
\* if accepted, unknown-server if we connected to a configured peer.
Init ==
    /\ type = [c \in Locals |-> IF c \in Outbound THEN "unknownserver" ELSE "unknown"]
    /\ nick = [c \in Locals |-> NoNick]
    /\ pwd = [c \in Locals |-> EmptyPwd]
    /\ user = [c \in Locals |-> FALSE]
    /\ remote = {}
    /\ announced = {}

Next ==
    \/ \E c \in Locals :
          \/ \E argc \in {1, 3}, p \in Pwds : IRC_PASS(c, argc, p)
          \/ \E n \in Nicks : IRC_NICK(c, n) \/ IRC_NICK_Introduce(c, n)
          \/ IRC_USER(c) \/ IRC_SERVER(c) \/ IRC_QUIT(c) \/ Write_Fails(c)
          \/ Client_NewLocal(c)
          \/ \E r \in remote :
                \/ IRC_QUIT_Remote(c, r)
                \/ \E n \in Nicks : IRC_NICK_Remote(c, r, n)

Spec == Init /\ [][Next]_vars

-----------------------------------------------------------------------------
(* Properties                                                              *)

\* Nicknames identify clients: no two clients known to this server, local
\* or remote, registered or not, have nicknames equal ignoring case, even
\* when a peer introduces or renames users while local clients register.
NickUnique ==
    /\ \A c, d \in Locals : c # d /\ Live(c) /\ Live(d) => ~SameNick(nick[c], nick[d])
    /\ \A c \in Locals, r \in remote : Live(c) => ~SameNick(nick[c], r[1])
    /\ \A r, q \in remote : r # q => ~SameNick(r[1], q[1])

\* Hello_User admits only a client that has sent NICK and USER and whose
\* PASS matched the server password, whatever the order of the commands.
RegisteredIdentity ==
    \A c \in Locals :
        type[c] = "user" => nick[c] # NoNick /\ user[c] /\ pwd[c] = ServerPwd

\* Every user this server announced to its peers is still a user here
\* under that nickname: a local user that goes away is reported with QUIT.
NoGhostUsers ==
    \A n \in announced : \E c \in Locals : type[c] = "user" /\ nick[c] = n

\* The client types implement the abstract lifecycle: registering, then
\* user or server, then gone; no command takes a registered client back
\* to an unregistered type or turns a user into a server.
Phase(t) == CASE t = "gone" -> "gone" [] t = "user" -> "user"
              [] t = "server" -> "server" [] OTHER -> "registering"

Lifecycle == INSTANCE ClientLifecycle WITH phase <- [c \in Locals |-> Phase(type[c])]

ImplementsLifecycle == Lifecycle!Spec
=============================================================================
