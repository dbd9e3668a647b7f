------------------------------- MODULE Config -------------------------------
(***************************************************************************)
(* The configuration tables of conf.c and the operations that change them *)
(* while the server runs: Conf_Init and Conf_Rehash (Set_Defaults and     *)
(* Read_Config over a configuration file), and the server-table API used  *)
(* by the connection code and the operator commands: Conf_SetServer,      *)
(* Conf_UnsetServer, Conf_EnableServer, Conf_DisableServer and            *)
(* Conf_AddServer.                                                        *)
(*                                                                         *)
(* A configuration file is a sequence of items: a section header or a     *)
(* "Var = Arg" line (comments, blank lines and syntax errors change       *)
(* nothing and are left out).  Of a server entry the model keeps the name, *)
(* the link bound to it and the ONCE and DISABLED flags; of an operator   *)
(* its name, password and mask; of a predefined channel its name, modes   *)
(* and topic.  Host, port, group, passwords of servers, lasttry and the   *)
(* [Global] options are not modelled: no property reads them.              *)
(***************************************************************************)
EXTENDS Integers, Sequences, SequencesExt, FiniteSets

CONSTANTS
    MAX_SERVERS,      \* size of Conf_Server[]
    MAX_OPERATORS,    \* size of Conf_Oper[]
    MAX_DEFCHANNELS,  \* size of Conf_Channel[]
    Values,           \* names, passwords, masks, modes and topics (non-empty)
    Conns,            \* connection ids a server link can have
    NONE,             \* NONE (-1) of conn_id and of New_Server_Idx
    Files,            \* the configuration files the server may read
    Passive           \* NGIRCd_Passive (-p): servers start disabled

Empty == ""   \* an empty string field, and a NULL operator mask

Sections == {"GLOBAL", "OPERATOR", "SERVER", "CHANNEL", "OTHER"}
SecItem(s) == [kind |-> "sec", sec |-> s]
VarItem(v, a) == [kind |-> "var", var |-> v, arg |-> a]

VARIABLES
    srv,        \* Conf_Server[0 .. MAX_SERVERS-1]
    opers,      \* Conf_Oper[0 .. MAX_OPERATORS-1]
    operCount,  \* Conf_Oper_Count
    chans,      \* Conf_Channel[0 .. MAX_DEFCHANNELS-1]
    chanCount,  \* Conf_Channel_Count
    lastFile,   \* history: the file read last
    justRead    \* history: the last step read the file (Conf_Init, Conf_Rehash)

vars == <<srv, opers, operCount, chans, chanCount, lastFile, justRead>>

SrvIdx == 0..MAX_SERVERS - 1

\* the tables, and the reader's file-static state, as one record
Tables == [srv |-> srv, opers |-> opers, operCount |-> operCount,
           chans |-> chans, chanCount |-> chanCount]

ApplyTables(t) == /\ srv' = t.srv
                  /\ opers' = t.opers
                  /\ operCount' = t.operCount
                  /\ chans' = t.chans
                  /\ chanCount' = t.chanCount

\* Init_Server_Struct: zeroed, no link, disabled in passive mode
Init_Server_Struct == [name |-> Empty, conn |-> NONE, once |-> FALSE,
                       disabled |-> Passive]

\* the first unused entry ("! Conf_Server[i].name[0]"), or NONE
FirstFree(s) == IF \E i \in SrvIdx : s[i].name = Empty
                THEN Min({i \in SrvIdx : s[i].name = Empty}) ELSE NONE

\* the first entry whose name is n (strcasecmp), or NONE
FirstNamed(s, n) == IF \E i \in SrvIdx : s[i].name = n
                    THEN Min({i \in SrvIdx : s[i].name = n}) ELSE NONE

-----------------------------------------------------------------------------
(* Read_Config                                                             *)

\* the mutant: the duplicate check does not skip the entry itself
Cleanup_Step_NoSkip(s, i) ==
    IF s[i].conn = NONE THEN [s EXCEPT ![i] = Init_Server_Struct]
    ELSE IF s[i].once
         THEN [n \in SrvIdx |-> IF s[n].conn = s[i].conn
                                THEN Init_Server_Struct ELSE s[n]]
         ELSE [s EXCEPT ![i].once = TRUE]

\* One pass of the clean-up loop at the start of Read_Config: an entry with
\* no link is deleted; a linked ONCE entry deletes every other entry with
\* the same link; any other linked entry is marked ONCE.
Cleanup_Step(s, i) ==
    IF s[i].conn = NONE THEN [s EXCEPT ![i] = Init_Server_Struct]
    ELSE IF s[i].once
         THEN [n \in SrvIdx |-> IF n # i /\ s[n].conn = s[i].conn
                                THEN Init_Server_Struct ELSE s[n]]
         ELSE [s EXCEPT ![i].once = TRUE]

\* "Copy data to "real" server structure" if the pending section has a name
CopyNewServer(r) ==
    IF r.newSrv.name # Empty
    THEN [r EXCEPT !.srv[r.newIdx] = r.newSrv]
    ELSE r

\* the mutant: the operator bound is off by one
Handle_Section_OffByOne(r, s) ==
    LET r1 == [r EXCEPT !.section = s]
    IN CASE s = "GLOBAL" -> r1
         [] s = "OPERATOR" ->
              IF r.operCount > MAX_OPERATORS THEN r1
              ELSE [r1 EXCEPT !.opers[r.operCount] =
                                [name |-> Empty, pwd |-> Empty, mask |-> Empty],
                              !.operCount = @ + 1]
         [] s = "SERVER" ->
              LET r2 == CopyNewServer(r1)
              IN [r2 EXCEPT !.newSrv = Init_Server_Struct,
                            !.newIdx = FirstFree(r2.srv)]
         [] s = "CHANNEL" ->
              IF r.chanCount + 1 > MAX_DEFCHANNELS THEN r1
              ELSE [r1 EXCEPT !.chans[r.chanCount] =
                                [name |-> Empty, modes |-> Empty, topic |-> Empty],
                              !.chanCount = @ + 1]
         [] OTHER -> [r EXCEPT !.section = "BAD"]

\* a section header: the code at the top of the loop in Read_Config
Handle_Section(r, s) ==
    LET r1 == [r EXCEPT !.section = s]
    IN CASE s = "GLOBAL" -> r1
         [] s = "OPERATOR" ->
              IF r.operCount + 1 > MAX_OPERATORS THEN r1
              ELSE [r1 EXCEPT !.opers[r.operCount] =
                                [name |-> Empty, pwd |-> Empty, mask |-> Empty],
                              !.operCount = @ + 1]
         [] s = "SERVER" ->
              LET r2 == CopyNewServer(r1)
              IN [r2 EXCEPT !.newSrv = Init_Server_Struct,
                            !.newIdx = FirstFree(r2.srv)]
         [] s = "CHANNEL" ->
              IF r.chanCount + 1 > MAX_DEFCHANNELS THEN r1
              ELSE [r1 EXCEPT !.chans[r.chanCount] =
                                [name |-> Empty, modes |-> Empty, topic |-> Empty],
                              !.chanCount = @ + 1]
         [] OTHER -> [r EXCEPT !.section = "BAD"]

\* Handle_OPERATOR: writes Conf_Oper[Conf_Oper_Count - 1]; a mask that is
\* already set is kept
Handle_OPERATOR(r, v, a) ==
    LET k == r.operCount - 1
    IN CASE v = "Name" -> [r EXCEPT !.opers[k].name = a]
         [] v = "Password" -> [r EXCEPT !.opers[k].pwd = a]
         [] v = "Mask" -> IF r.opers[k].mask # Empty THEN r
                          ELSE [r EXCEPT !.opers[k].mask = a]
         [] OTHER -> r

\* Handle_SERVER: ignored when no entry was free; only the name is kept
Handle_SERVER(r, v, a) ==
    IF r.newIdx = NONE \/ v # "Name" THEN r
    ELSE [r EXCEPT !.newSrv.name = a]

\* Handle_CHANNEL: writes Conf_Channel[Conf_Channel_Count - 1]
Handle_CHANNEL(r, v, a) ==
    LET k == r.chanCount - 1
    IN CASE v = "Name" -> [r EXCEPT !.chans[k].name = a]
         [] v = "Modes" -> [r EXCEPT !.chans[k].modes = a]
         [] v = "Topic" -> [r EXCEPT !.chans[k].topic = a]
         [] OTHER -> r

\* one line of the file; a variable in [Global] sets an option not modelled,
\* one after an unknown section header or outside any section is skipped
Read_Item(r, it) ==
    IF it.kind = "sec" THEN Handle_Section(r, it.sec)
    ELSE CASE r.section = "OPERATOR" -> Handle_OPERATOR(r, it.var, it.arg)
           [] r.section = "SERVER" -> Handle_SERVER(r, it.var, it.arg)
           [] r.section = "CHANNEL" -> Handle_CHANNEL(r, it.var, it.arg)
           [] OTHER -> r

\* the mutant: the server of the last section is never copied
Read_Config_NoFinalCopy(t, f) ==
    LET cleaned == FoldLeft(Cleanup_Step, t.srv, [k \in 1..MAX_SERVERS |-> k - 1])
        r0 == [srv |-> cleaned, opers |-> t.opers, operCount |-> t.operCount,
               chans |-> t.chans, chanCount |-> t.chanCount, section |-> Empty,
               newSrv |-> Init_Server_Struct, newIdx |-> NONE]
        r == FoldLeft(Read_Item, r0, f)
    IN [srv |-> r.srv, opers |-> r.opers, operCount |-> r.operCount,
        chans |-> r.chans, chanCount |-> r.chanCount]

\* Read_Config: the clean-up loop, then every line of f, then the copy of
\* the last pending server
Read_Config(t, f) ==
    LET cleaned == FoldLeft(Cleanup_Step, t.srv, [k \in 1..MAX_SERVERS |-> k - 1])
        r0 == [srv |-> cleaned, opers |-> t.opers, operCount |-> t.operCount,
               chans |-> t.chans, chanCount |-> t.chanCount, section |-> Empty,
               newSrv |-> Init_Server_Struct, newIdx |-> NONE]
        r == CopyNewServer(FoldLeft(Read_Item, r0, f))
    IN [srv |-> r.srv, opers |-> r.opers, operCount |-> r.operCount,
        chans |-> r.chans, chanCount |-> r.chanCount]

\* Set_Defaults: the counts are reset (the arrays keep their contents); the
\* server table is initialised only at start-up
Set_Defaults(t, initServers) ==
    [t EXCEPT !.operCount = 0, !.chanCount = 0,
              !.srv = IF initServers THEN [i \in SrvIdx |-> Init_Server_Struct]
                      ELSE @]

-----------------------------------------------------------------------------
(* The server-table API                                                    *)

\* Conf_UnsetServer(Idx): every entry bound to the link is unbound; a ONCE
\* entry is deleted, any other gets its next connect time (not modelled)
UnsetServer(s, c) ==
    [i \in SrvIdx |-> IF s[i].conn # c THEN s[i]
                      ELSE IF s[i].once THEN Init_Server_Struct
                           ELSE [s[i] EXCEPT !.conn = NONE]]

\* Conf_SetServer(ConfServer, Idx) asserts only that both are indexes: a
\* caller binds connection c to the configured entry i it found by name
Conf_SetServer(i, c) ==
    /\ srv[i].name # Empty
    /\ srv' = [srv EXCEPT ![i].conn = c]
    /\ UNCHANGED <<opers, operCount, chans, chanCount, lastFile>>
    /\ justRead' = FALSE

\* Conf_UnsetServer(Idx) for any connection; one that is no server link is
\* "silently ignored"
Conf_UnsetServer(c) ==
    /\ srv' = UnsetServer(srv, c)
    /\ UNCHANGED <<opers, operCount, chans, chanCount, lastFile>>
    /\ justRead' = FALSE

\* Conf_EnableServer(Name, Port): the first entry of that name is enabled
Conf_EnableServer(n) ==
    /\ FirstNamed(srv, n) # NONE
    /\ srv' = [srv EXCEPT ![FirstNamed(srv, n)].disabled = FALSE]
    /\ UNCHANGED <<opers, operCount, chans, chanCount, lastFile>>
    /\ justRead' = FALSE

\* Conf_DisableServer(Name): the first entry of that name is disabled and
\* a link on it closed by this tree's Conn_Close, which leaves the table
\* alone: the entry keeps the connection id
Conf_DisableServer(n) ==
    /\ FirstNamed(srv, n) # NONE
    /\ srv' = [srv EXCEPT ![FirstNamed(srv, n)].disabled = TRUE]
    /\ UNCHANGED <<opers, operCount, chans, chanCount, lastFile>>
    /\ justRead' = FALSE

\* Conf_AddServer: a ONCE entry in the first unused place, if there is one
Conf_AddServer(n) ==
    /\ FirstFree(srv) # NONE
    /\ srv' = [srv EXCEPT ![FirstFree(srv)] =
                  [Init_Server_Struct EXCEPT !.name = n, !.once = TRUE,
                                             !.disabled = FALSE]]
    /\ UNCHANGED <<opers, operCount, chans, chanCount, lastFile>>
    /\ justRead' = FALSE

\* Conf_Rehash: Set_Defaults(false), Read_Config of the file found now
Conf_Rehash(f) ==
    /\ \E t \in {Read_Config(Set_Defaults(Tables, FALSE), f)} : ApplyTables(t)
    /\ lastFile' = f /\ justRead' = TRUE

\* Conf_Init: Set_Defaults(true) and Read_Config; no link exists yet.  The
\* tables start zeroed (static storage).
Init ==
    \E f \in Files :
       LET zero == [srv |-> [i \in SrvIdx |-> Init_Server_Struct],
                    opers |-> [k \in 0..MAX_OPERATORS - 1 |->
                                 [name |-> Empty, pwd |-> Empty, mask |-> Empty]],
                    operCount |-> 0,
                    chans |-> [k \in 0..MAX_DEFCHANNELS - 1 |->
                                 [name |-> Empty, modes |-> Empty, topic |-> Empty]],
                    chanCount |-> 0]
           t == Read_Config(Set_Defaults(zero, TRUE), f)
       IN /\ srv = t.srv /\ opers = t.opers /\ operCount = t.operCount
          /\ chans = t.chans /\ chanCount = t.chanCount
          /\ lastFile = f /\ justRead = TRUE

Next ==
    \/ \E f \in Files : Conf_Rehash(f)
    \/ \E i \in SrvIdx, c \in Conns : Conf_SetServer(i, c)
    \/ \E c \in Conns : Conf_UnsetServer(c)
    \/ \E n \in Values : Conf_EnableServer(n)
    \/ \E n \in Values : Conf_DisableServer(n)
    \/ \E n \in Values : Conf_AddServer(n)

Spec == Init /\ [][Next]_vars

-----------------------------------------------------------------------------
(* What a configuration file says, read independently of Read_Config       *)

Headers(f) == {p \in 1..Len(f) : f[p].kind = "sec"}

\* the lines of the section whose header is at position p
Body(f, p) == {j \in p + 1..Min({h \in Headers(f) : h > p} \cup {Len(f) + 1}) - 1 :
                  f[j].kind = "var"}

\* the value of variable v in the section at p: the last or the first one
LastArg(f, p, v) == LET js == {j \in Body(f, p) : f[j].var = v}
                    IN IF js = {} THEN Empty ELSE f[Max(js)].arg
FirstArg(f, p, v) == LET js == {j \in Body(f, p) : f[j].var = v}
                     IN IF js = {} THEN Empty ELSE f[Min(js)].arg

\* the [Operator] sections of f in order, as operator records
ConfiguredOpers(f) ==
    LET ps == SetToSortSeq({p \in 1..Len(f) : f[p] = SecItem("OPERATOR")}, <)
    IN [k \in 1..Len(ps) |-> [name |-> LastArg(f, ps[k], "Name"),
                              pwd |-> LastArg(f, ps[k], "Password"),
                              mask |-> FirstArg(f, ps[k], "Mask")]]

\* the server names the [Server] sections of f give
ConfiguredServers(f) ==
    {LastArg(f, p, "Name") : p \in {q \in 1..Len(f) : f[q] = SecItem("SERVER")}}
        \ {Empty}

-----------------------------------------------------------------------------
TypeOK ==
    /\ \A i \in SrvIdx : srv[i] \in [name : Values \cup {Empty},
                                      conn : Conns \cup {NONE},
                                      once : BOOLEAN, disabled : BOOLEAN]
    /\ operCount \in 0..MAX_OPERATORS /\ chanCount \in 0..MAX_DEFCHANNELS
    /\ lastFile \in Files /\ justRead \in BOOLEAN

\* A rehash keeps every link's entry and drops its duplicates: across the
\* clean-up loop of Read_Config, a connection bound to some entries is
\* bound to one at least afterwards, and to exactly one when one of them
\* was already ONCE ("servers which are duplicates of servers that are
\* already marked as once", conf.c:415-420).
RehashDeduplicatesLinks ==
    [][justRead' =>
         \A c \in Conns :
            LET before == {i \in SrvIdx : srv[i].conn = c}
                after == {i \in SrvIdx : srv'[i].conn = c}
            IN /\ before # {} => after # {}
               /\ (\E i \in before : srv[i].once) => Cardinality(after) = 1]_vars

\* The entries that are not ONCE are the servers of the file read last:
\* none comes from elsewhere, and right after reading every server of the
\* file has one unless the table was full.
ServersAsConfigured ==
    LET fixed == {i \in SrvIdx : srv[i].name # Empty /\ ~srv[i].once}
        named == {srv[i].name : i \in fixed}
    IN /\ named \subseteq ConfiguredServers(lastFile)
       /\ justRead => \/ ConfiguredServers(lastFile) \subseteq named
                      \/ \A i \in SrvIdx : srv[i].name # Empty

\* Conf_Oper holds the first MAX_OPERATORS [Operator] sections of the file
\* read last, each as written; a section beyond them is ignored ("Too many
\* operators configured").
OperatorsAsConfigured ==
    LET ref == ConfiguredOpers(lastFile)
        n == Min({Len(ref), MAX_OPERATORS})
    IN /\ operCount = n
       /\ \A k \in 1..n : opers[k - 1] = ref[k]

====
