# TLA+ models of ngIRCd

This directory holds TLA+ models of the ngIRCd sources in `src/ngircd/`, the
TLC configurations that check them, and `PROJECT.json`. `PROJECT.json` lists the
components, the runs, the mutants, the source lines each definition models,
the findings and the hazards.

## The system

ngIRCd is a single-threaded IRC server. One `select()` loop, `Conn_Handler`
(conn.c), drives everything. The sources in this tree are a snapshot with
files from different releases:

| part | source | state | operations |
|---|---|---|---|
| Connection manager | conn.c | `My_Connections[MAX_CONNECTIONS]`: socket (or `NONE`, or `SERVER_WAIT` for an outbound link whose address is being resolved), read/write buffers, `res_stat`, `our_server`, `lastdata`, `lastping`; the fd sets `My_Sockets`, `My_Connects`, `My_Resolvers` | `New_Connection`, `Read_Request`, `Handle_Buffer`, `Conn_Write`/`Conn_WriteStr`, `Handle_Write`, `Conn_Close`, `Check_Connections`, `Check_Servers`, `New_Server` |
| Resolver | conn.c | one forked child and one pipe per lookup (`RES_STAT`) | `ResolveAddr`, `ResolveName`, `Do_Resolve*` in the child, `Read_Resolver_Result` |
| Registration | irc-login.c | client type (`UNKNOWN`, `GOTPASS`, `GOTNICK`, `GOTUSER`, `USER`, `UNKNOWNSERVER`, `GOTPASSSERVER`, `SERVER`), password, nick | `IRC_PASS`, `IRC_NICK`, `IRC_USER`, `IRC_QUIT`, `Hello_User`, `Kill_Nick`, `IRC_PING`/`IRC_PONG` |
| Channels | channel.c, irc-channel.c | the channel list `My_Channels` and the membership list `My_Cl2Chan` | `Channel_Join`, `Channel_Part`, `Channel_RemoveClient`, `Remove_Client`, `Channel_ModeAdd`/`ModeDel`, `Channel_UserModeAdd`/`UserModeDel`, `Channel_Write`, `IRC_JOIN`, `IRC_PART`, `IRC_TOPIC`, `IRC_CHANINFO` |
| Configuration | conf.c | `Conf_Server[MAX_SERVERS]` (name, `conn_id`, flags ONCE and DISABLED), `Conf_Oper[]`/`Conf_Oper_Count`, `Conf_Channel[]`/`Conf_Channel_Count`, options | `Conf_Init`, `Conf_Rehash` (`Set_Defaults`, `Read_Config`), `Conf_SetServer`, `Conf_UnsetServer`, `Conf_EnableServer`, `Conf_DisableServer`, `Conf_AddServer` |
| Matching | match.h | none | declaration only |

How the parts interact:

- `Conn_Handler` runs on every pass of the loop, about every 50 ms. Each pass
  calls `Check_Servers` and `Check_Connections`. It then hands buffered lines
  to `Handle_Buffer`, and calls `select()` on the sockets, the connects in
  progress and the resolver pipes.
- A complete line goes to `Parse_Request`, which calls the command handlers
  of irc-login.c and irc-channel.c. The parser is not in this tree.
- A handler can change the connection table:
  - `QUIT`, a bad password or a failed write calls `Conn_Close`.
  - `Conn_Close` destroys the client (`Client_Destroy`, client.c, not in this
    tree), which removes it from every channel (`Channel_RemoveClient`).
- The resolver runs in child processes. It is the only concurrency.
- conf.c has an API that binds a server link to its `Conf_Server` entry
  (`Conf_SetServer`) and unbinds it (`Conf_UnsetServer`), and a rehash
  rereads the file while links are up, keeping the entries of live links.
  The conn.c of this tree predates that API: it never calls either
  function and keeps each link's entry in `our_server`. Its `Conn_Close`
  (conn.c:399-449), which `Conf_DisableServer` calls, leaves `conn_id` alone.

## Modules

### `Conn` (conn.c): connection table, resolver, keepalive, outbound links

**State**

| variable | what it models |
|---|---|
| `conn[i]` | slot `i` of `My_Connections` |
| `clients` | the client list `My_Clients`, newest record first |
| `ip[s]` | the resolved address of configured server `s` |
| `tryAge[s]` | `now - lasttry` |

The fields of `conn[i]`:

- `sock`: `none`, `wait` (`SERVER_WAIT`) or `open`.
- `connecting`: the slot's socket is in `My_Connects`.
- `res_stat`: `null`, a `pending` lookup, an answer `ok`/`fail` not yet read,
  `freed` (Conn_Close freed it and left the pointer), or `lost`: reading
  the pipe failed, so `Read_Resolver_Result` closed the pipe and left
  `res_stat` set (conn.c:1221). The slot then gets neither a host name nor,
  for a server, an address. It leaves only through the login timeout.
- `host`: the host name is known.
- `our_server`: the configured server this slot links to, or `NONE`.
- `rlines`: the number of complete lines in the read buffer.
- `dataAge` and `pingAge`: `now - lastdata` and `now - lastping`.

Time is kept as ages, capped where larger values no longer change any
comparison the code makes. `Tick` advances the clock by one second. It is
enabled only after `Check_Connection` has run for every slot and
`Check_Server` for every server in the current second (`unchecked`,
`unservers`). This is the main loop calling both checks many times a second.

**Actions, one per handler or event**

| action | code |
|---|---|
| `New_Connection` | `New_Connection` and `ResolveAddr` |
| `Resolver_Answers` | the child writes its answer |
| `Read_Resolver_Result` | `Read_Resolver_Result` |
| `Read_Request` | `Handle_Read` → `Read_Request` → `Handle_Buffer` |
| `Handle_Buffer` | the loop draining buffered lines |
| `Write_Fails` | a send error or a write buffer overflow |
| `Handle_Write_Connect` | the `connect()` result |
| `Check_Connection` | one iteration of `Check_Connections` |
| `Check_Server` | one iteration of `Check_Servers`, with the recursive `Scan` over the slots calling `New_Server`. `New_Server` ends in one of three ways (`NewServerResults`): the link is set up, `socket()`/`connect()` fails and the slot is freed, or `Init_Socket` fails and the slot stays SERVER_WAIT (conn.c:957). |
| `Tick` | one second passes |

`Dispatch` stands for `Parse_Request` of one line. It has three outcomes:

- the line is consumed;
- the line completes the registration of the client;
- the connection is closed (QUIT, bad password, a failed write). In this case
  the line is left in the buffer, as in `Handle_Buffer`.

The registration state machine itself is modelled in `Registration`.

**Fairness** is weak fairness of `Tick`, of `Check_Connection(i)`, of
`Check_Server(s)` and of `Read_Resolver_Result(i)`:

- `Tick`, `Check_Connection` and `Check_Server`: the loop calls both checks
  on every pass, and `select()` has a 50 ms timeout.
- `Read_Resolver_Result`: a readable pipe is in the read set.

The resolver child gets no fairness: a DNS lookup may hang for ever.

`MC_Conn` instantiates the model with two slots and one server `s1`. The
server is in group `g1`, or in no group for the run that needs it. The
timeouts are scaled down: PingTimeout 1, PongTimeout 1, ConnectRetry 2 and
RECONNECT_DELAY 1. These are enough for every timer of the code to expire
before and after the others. The other bounds are at most 2 complete lines
per read buffer and 2 client records.

`MC_View` identifies states that differ only in fields no action reads:

- the fields of a free slot, which `Init_Conn_Struct` overwrites before reuse;
- the exact `lastping` of a connection with no PING outstanding.

### `Registration` (irc-login.c): the registration state machine

**State**

| variable | what it models |
|---|---|
| `type[c]` | `Client_Type` of each local client, or `gone` once the client is destroyed |
| `nick[c]` | `Client_ID` |
| `pwd[c]` | `Client_Password` |
| `user[c]` | whether a valid USER has set the user name |
| `remote` | the remote users, each with the link that introduced it |
| `announced` | the local users this server has announced to its peers with NICK |

Nicknames are model values. `Fold` maps each to its case-insensitive class,
which is how `strcasecmp` and `Client_Search` compare them. `MC_Registration`
has two classes: `a` and `A` differ only in case, and `b` is a third nickname.

**Actions** are the handlers, each run to completion:

- `IRC_PASS` (one-argument and server forms).
- `IRC_NICK` (registration and nick change).
- `IRC_USER`.
- `IRC_QUIT`.
- From a server link: `IRC_NICK_Introduce` (seven-argument NICK, with
  `Kill_Nick` on a collision), `IRC_NICK_Remote` and `IRC_QUIT_Remote`.
- `Hello_User`, called from NICK or USER. It has every outcome of the code:
  - a wrong password closes the client;
  - a write fails before `Client_SetType(CLIENT_USER)`;
  - a write fails after it;
  - the user is registered.
- `Write_Fails`: any reply to a client fails, and `Conn_Close` destroys the
  client.
- `Client_NewLocal`: a new connection gets a fresh client.

Modelled from the spec, because client.c, parse.c and irc-server.c are not in
this tree:

- `Client_Search` and `Client_CheckNick`: case-insensitive lookups over all
  clients.
- `Client_Destroy`: a QUIT is sent to the peers only for a registered user,
  and a server takes its users with it.
- `IRC_SERVER`: accepts or refuses a link that sent the server PASS.

The model assumes that a prefix names a remote user introduced over the same
link.

**Abstract spec.** `ClientLifecycle` is the abstract specification: a client
is registering, then a user or a server, then gone. A new connection may later
take its place. `Registration` maps `type` to these phases (`Phase`), and the
run checks `Lifecycle!Spec` as a property.

### `Channels` (channel.c, irc-channel.c): channel registry and channel commands

**State**

| variable | what it models |
|---|---|
| `chans` | `My_Channels`, each channel by the name it was created with |
| `cmodes[ch]`, `topic[ch]`, `limit[ch]` | the channel's mode string, whether its topic is set, and `Channel_MaxUsers` |
| `cl2chan` | `My_Cl2Chan`: records `[client, channel, op]` |
| `present` | the clients that exist |
| `freed` | a history flag: a handler went on using a client or channel that was freed under it |

All registry helpers take and return the whole registry as a record
(`Registry`), so a handler's loop can be written as a recursive operator that
applies them one after another:

- `Channel_Search`: a case-insensitive lookup through `Fold`.
- `Channel_Join` and `Channel_Part`.
- `Remove_Client`, which deletes the channel when it becomes empty.
- `RemoveFrom`: the loop of `Channel_RemoveClient`.

**Actions**

- `IRC_JOIN(c)` with the recursive `JoinLoop`:
  - It follows the loop of the code.
  - A refusal, a failed `Channel_Join` or `Conf_MaxJoins` ends the loop, as
    the code does.
  - The ban/invite verdict and the key are an input per name (`Access`),
    because lists.c and irc-mode.c are not in this tree.
  - A write to the local sender that fails after a successful join destroys
    the sender inside the loop.
- `IRC_PART(c)` with `PartLoop`.
- `IRC_TOPIC(c)`: sets the topic.
- `IRC_CHANINFO`: a peer's channel sync.
- `Destroy(c)`: QUIT, KILL or a lost connection.
- `Client_New(c)`.

A write that fails in the middle of a handler destroys the client at once.
This is how conn.c behaves: `Conn_Write` → `Conn_Close` → `Client_Destroy`.
Other failed writes end their handler, so they are the same as a later
`Destroy`.

`MC_Channels` uses:

- one local user `u1`, who is an IRC operator, and one remote user `r1`;
- the names `a`, `A` (a case variant of `a`), `b` and an invalid `x`;
- the JOIN/PART lists `<<a>>`, `<<A>>`, `<<b>>`, `<<x>>` and `<<a, b>>`;
- the CHANINFO modes `+i`, `+kl` and `+tP`;
- `Conf_MaxJoins` 2.

Two channel classes and one two-name list are enough for every loop path:
stop, continue, and fail in the middle. The remote user can be an op through
the server flags, and can be in both channels when destroyed.

**Refinement.** `ChannelMembership` is the membership contract of the spec
(sections 3 and 4.3). It has two variables: the pairs `<<client, channel>>`
and the clients that exist. Its steps are:

- a client joins some channels;
- a client leaves some channels;
- a destroyed client leaves every channel at once;
- a client comes back.

`Channels` implements it under the mapping `mem <- {<<m.client,
Fold[m.channel]>> : m \in cl2chan}`, checked as the property
`ImplementsMembership`. This says more than the invariants: a JOIN adds
memberships only for its sender, a PART removes only its sender's, and TOPIC
and CHANINFO change no membership. A JOIN or PART whose write fails counts as
the sender's `Quit`.

### `ChannelModes` (channel.c): mode strings, refining `ModeSets`

`ChannelModes` models the mode strings of one channel as C strings
(sequences of flags): `Chan->modes` and the `modes` of each member's
`CL2CHAN` record.

| definition | code |
|---|---|
| `ModeAdd` | `Channel_ModeAdd`, `Channel_UserModeAdd`: `strcat` unless `strchr` finds the flag |
| `ModeDel`, `ShiftDown` | `Channel_ModeDel`, `Channel_UserModeDel`: `strchr`, then the recursive shift loop that copies each later character, and the NUL, one place down |
| `Join` | `IRC_JOIN`: `New_Chan` and `Add_Client` create empty strings, then `Channel_UserModeAdd` for each flag a server passed (`FoldLeft`) |
| `Part` | `Remove_Client`, with `Delete_Channel` for the last member |
| `Chaninfo` | `IRC_CHANINFO`: the peer's modes are copied if the channel has none; without argc 5, `l` and `k` are deleted again |
| `Mode_Channel`, `Mode_Member` | a MODE request calling the add/del functions; the callers are in irc-mode.c, which is not in this tree, so any flag may be set or unset |
| `Channel_Write` | the `+n`/`+m` decision from `strchr` on the modes |

`ModeSets` is the spec's view of modes (4.3): the modes are sets, and adding
a flag that is set, or removing one that is not, reports "no change".
`ImplementsModeSets` checks that `ChannelModes` implements `ModeSets` when the
strings are read as sets (`ToSet`). The check covers the returned values and
`Channel_Write`'s decisions. `TypeOK` bounds each string below
`CHANNEL_MODE_LEN`, because `strcat` does no length check.

`MC_ChannelModes` uses:

- two users;
- the channel flags `n`, `m`, `k` and `l`, and the member flags `o` and `v`;
- `CHANNEL_MODE_LEN` 5: exactly the four flags and the NUL (the real value is
  in defines.h, which is not in this tree);
- the CHANINFO arguments `+`, `+nl` and `+lmk`;
- server JOIN flags that include `oo`.

With these inputs:

- all orders of setting a flag are reached;
- CHANINFO runs both on a new channel and on one that has modes;
- the last member leaves a moded channel and a later JOIN recreates it.

The CHANINFO arguments have no repeated flags, as a peer's `Channel_Modes()`
string has none. With a repeated `l`, `Channel_ModeDel` would remove only the
first one, and a channel created without a limit argument would keep `+l`.

### `Framing` (conn.c): the read buffer and request splitting

`Framing` models the read side of one connection byte by byte. `Conn` only
counts lines. Bytes are abstracted to one character `c`, CR, LF and NUL.

| model | code |
|---|---|
| `rbuf`, `rdatalen` | `My_Connections[Idx].rbuf`, `.rdatalen`, the whole array with its stale bytes |
| `wire` | bytes the client wrote that `recv()` has not returned yet; TCP may cut them anywhere |
| `sent` | history: every byte the client wrote |
| `parsed` | the requests given to `Parse_Request`, in order |
| `state` | `open`, `closed` (`Conn_Close`) or `crashed` (`memmove` with a negative size) |
| `Client_Send`, `Client_Close` | the peer writes a token of `Tokens`, or shuts down |
| `Read_Request` | `recv()` of `READBUFFER_LEN - rdatalen - 2` bytes (`ReadSize`); 0 bytes (EOF, or a size of 0) closes; then the NUL at `rbuf[rdatalen]` and `Handle_Buffer` |
| `Handler_Pass` | the loop in `Conn_Handler` that calls `Handle_Buffer` while `rdatalen > 0` |
| `Handle_Buffer` | `strstr` for CR LF, else the first CR or LF (`strchr`), both up to the first NUL; the end is overwritten with NUL; a request longer than `COMMAND_LEN` closes; an empty one is skipped; `Parse_Request` may close (`ok` is an input); `rdatalen -= len` and `memmove`, with no NUL after the data |

`Lines(s)` is the reference: it splits a byte stream at every CR or LF and
drops empty lines. `ParsedAreSentLines` asks that the parser only sees a
prefix of `Lines(sent)`.

`MC_Framing` uses `READBUFFER_LEN` 6 (4 bytes of data per read),
`COMMAND_LEN` 4 and 6 bytes sent. Then one read can hold two lines (`c LF c
LF`), a line can be cut between its CR and LF, a line can be too long, and the
buffer can fill with no line end. `MC_RFCTokens` is a client that ends every
line with CR LF. `MC_Tokens` also ends lines with a lone LF.

Fairness: weak fairness on `Read_Request` (`select()` reports a readable
socket on the next pass) and on `Handler_Pass` (the loop runs every 50 ms).
The client has no fairness. Deadlock checking is off, because a closed
connection or a silent client really does stop.

### `Writer` (conn.c): the write buffer of one connection

`Writer` models the bytes of one connection's write side. A message is a
model value `m` with a length `MsgLen[m]`, the length `vsnprintf` would
produce. Its bytes are `<<m, k>>`, and CR and LF are `<<EOL, 1>>` and
`<<EOL, 2>>`.

| variable | code |
|---|---|
| `sock` | `My_Connections[Idx].sock`: `open`, or `none` after `Conn_Close` |
| `connecting` | the socket is in `My_Connects` |
| `wbuf` | `wbuf[0 .. wdatalen-1]` |
| `out` | the bytes `send()` has taken, in order (history) |
| `queued` | the lines `Conn_Write` appended (history) |
| `fault` | `Conn_WriteStr` was entered for a closed slot (the assertion at conn.c:336) |
| `writes` | lines written so far, bounded by `MaxWrites` |

The helpers return the *set* of possible results, because each `select()`
and `send()` may go several ways. An action picks one result and applies it.

| definition | code |
|---|---|
| `Formatted` | `vsnprintf` into `COMMAND_LEN - 2` bytes, then `strcat` of CR LF |
| `Conn_WriteStr` | closes the connection only when the length is exactly `COMMAND_LEN - 2` |
| `Conn_Write` | flushes pending data first, checks the room (`<= 0` closes), appends, then flushes again |
| `Try_Write` | `select()` with a zero timeout: not writable, a failure, or `Handle_Write` |
| `Send` | `send()` fails (close), or takes `k >= 1` bytes, followed by `memmove` |
| `Handler_Write` | a command handler calling `Conn_WriteStr` |
| `Conn_Close_Inform` | `Conn_Close(..., TRUE)`: the ERROR line, then close unless the write already closed |
| `Loop_Write` | `Conn_Handler` puts the socket in the write set when `wdatalen > 0` |
| `Connect_Result` | `Handle_Write` for a socket in `My_Connects`: a failure, or PASS and SERVER |

`MC_Writer` has `COMMAND_LEN` 5, so a line keeps at most 2 characters plus
CR LF. It has `WRITEBUFFER_LEN` 7 and `MaxWrites` 4. The messages have
lengths 1, 2, 3 (exactly `COMMAND_LEN - 2`) and 4 (too long). With these
bounds a line can be cut, two lines fit in the buffer but a third does not,
and a partial send can leave a line split across `out` and `wbuf`.

**Fairness** is weak fairness of `Loop_Write`. The main loop's `select()`
has a 50 ms timeout and includes every socket with pending output. The
property assumes the peer keeps reading. Deadlock checking is off because a
closed connection, or one that has written `MaxWrites` lines and flushed
them, really does stop.

### `Config` (conf.c): configuration tables, rehash, server-table API

`Config` models what `Read_Config` writes and what the server-table API
changes. A file is a sequence of items: a section header (`SecItem`) or a
`Var = Arg` line (`VarItem`) over a few values. Comments, trimming and
syntax errors are not modelled; an unknown header is the section `OTHER`.

| model | code |
|---|---|
| `srv` | `Conf_Server[]`: name, `conn_id` (`conn`), flags ONCE and DISABLED |
| `opers`, `operCount` | `Conf_Oper[]` (name, pwd, mask; an empty mask is NULL), `Conf_Oper_Count` |
| `chans`, `chanCount` | `Conf_Channel[]`, `Conf_Channel_Count` |
| `lastFile`, `justRead` | history: the file of the last (re)hash, and whether the last step was one |
| `Cleanup_Step` | one pass of the clean-up loop at the start of `Read_Config` |
| `Handle_Section` | a section header: operator and channel bounds, the deferred copy of the pending `[Server]` and the search for a free entry |
| `Handle_OPERATOR`, `Handle_SERVER`, `Handle_CHANNEL` | the variable handlers; they write entry `Count - 1` |
| `Read_Config` | `FoldLeft` of `Cleanup_Step` over the table, then of `Read_Item` over the file, then the last copy |
| `Conf_Rehash`, `Init` | `Set_Defaults(FALSE)` / `Set_Defaults(TRUE)` and `Read_Config` of any file of `Files` |
| `Conf_SetServer`, `Conf_UnsetServer` (`UnsetServer`) | bind connection `c` to entry `i`; unbind every entry of `c`, deleting the ONCE ones |
| `Conf_EnableServer`, `Conf_DisableServer`, `Conf_AddServer` | the API; disable sets the flag only, since this tree's `Conn_Close` does not touch the table |

`Conf_SetServer` asserts only that its arguments are indexes, and no code of
this tree calls it or `Conf_UnsetServer`. So both are called with any
connection id, on any configured entry (one with a name, as a caller that
looks the server up by name finds). That includes binding a second entry to a
connection that already has one, which is how the duplicates that
conf.c:415-420 describes arise. The callers of the enable, disable and add
functions are not in this tree either, so any server name may be passed at
any time.

The reference for the files is `ConfiguredServers(f)` and
`ConfiguredOpers(f)`: a section's name is the last `Name` line of its body,
and a section counts when it has one.

`MC_Config` uses 3 server entries, 1 operator and 1 channel, two server
names and two connection ids, and five files (`F1`..`F5`): two servers; a
`[Server]` section left open across an `[Operator]` section, followed by one
`[Operator]` header too many; a section with no name, a name given twice, a
channel and an unknown section; a variable outside any section and
`[Global]`; four servers for three entries. `MC_ConfigOperOverflow` uses a
file with two complete `[Operator]` sections. Three entries let one connection be bound to three of them, so the clean-up
loop meets a ONCE entry with duplicates before and after it in the table,
and `F5` takes the full-table path of `Handle_Section`. Deadlock
checking stays on: a rehash is always possible.

## Runs

| run | cfg | expect | what it shows |
|---|---|---|---|
| conn_safety | MC_Conn.cfg | pass | `SilenceBounded`: no connection stays open more than PingTimeout+PongTimeout+2 s without data, which is the PING/PONG keepalive. `OneLinkPerServer`: with a server group, Check_Servers never has two links to one server. `TypeOK`. |
| conn_liveness | MC_ConnLive.cfg | pass | `PendingResolutionEnds`: a client whose lookup is pending, even one that hangs, eventually gets its host name or is dropped. One slot, because liveness checking is slower. |
| reg_safety | MC_Registration.cfg | pass | `NickUnique`: local and remote nicknames stay unique ignoring case while clients register and a peer introduces and renames users. `RegisteredIdentity`: only a client with NICK, USER and the right password becomes a user, in either order. `ImplementsLifecycle`: client types refine `ClientLifecycle`. |
| reg_ghost_user | MC_RegistrationGhost.cfg | violation | Hello_User announces the user to the peers before the welcome burst. If a write of the burst fails, the client is destroyed as unregistered and no QUIT follows, so the peers keep a ghost. |
| chan_safety | MC_Channels.cfg | pass | `NamesUnique`: channel names stay unique ignoring case. `MembershipUnique`: memberships stay unique. `MembersInLiveChannels`: no membership outlives its channel. `NoMembershipOfDestroyed`: no membership outlives its client. `ImplementsMembership`: the registry refines `ChannelMembership`. |
| chan_modes | MC_ChannelModes.cfg | pass | `ImplementsModeSets`: read as sets, the mode strings follow `ModeSets`, with the same "changed" results and the same `Channel_Write` decisions. `TypeOK` includes that every string fits its array. |
| chan_join_list | MC_ChanJoinList.cfg | violation | `JOIN a,b` from a user who is already in `a` (or is refused by `a`) never joins `b`. The "try next name" code finds no comma, because the comma was overwritten with NUL. |
| chan_write_fail_uaf | MC_ChanFreed.cfg | violation | A failed write to the joining user destroys it, and its new channel with it, while IRC_JOIN goes on using both. |
| framing_live | MC_Framing.cfg | pass | `LinesEventuallyParsed`: every complete line sent is given to the parser, or the connection ends, even when two lines arrive in one read and nothing follows. `TypeOK` includes the assertion `rdatalen < READBUFFER_LEN`. |
| framing_phantom_request | MC_FramingPhantom.cfg | violation | An RFC client sends CR LF and then `c`. `memmove` leaves the old LF behind the `c`, and the next `Handle_Buffer` pass parses `c` as a request. Then `rdatalen` becomes -1 and `memmove` gets `(size_t)-1`: the server crashes. |
| config_safety | MC_Config.cfg | pass | `RehashDeduplicatesLinks` (action property): across a rehash, a connection bound to some entries stays bound to at least one, and to exactly one if one of them was already ONCE. This is the duplicate clean-up that conf.c:415-420 describes. `ServersAsConfigured`: the table holds the servers of the last file (and only entries added at run time besides). `TypeOK`. |
| write_order | MC_Writer.cfg | pass | `SentInOrder`: across partial sends, the flush before each append and the `memmove`, the bytes sent followed by the bytes in `wbuf` are exactly the lines accepted, in order. `PendingOutputFlushed`: pending output is eventually sent unless the connection closes. `TypeOK` includes that `wbuf` never holds more than `WRITEBUFFER_LEN` bytes, so `memcpy` stays inside the array. |

Nine more properties are violated by the code and have no run of their own,
because the project keeps one run per question and at most twelve. Their
definitions stay in the modules, and a cfg with the run's constants and the
one INVARIANT shows the violation:

- `CloseOnlyOpenSockets` (Conn): `Check_Connections` times out a SERVER_WAIT
  slot whose lookup is slow and enters `Conn_Close`, which asserts
  `sock > NONE` (conn.c:407, 827).
- `NoEmptyChannel` (Channels): `CHANINFO` creates a channel with no members,
  and it persists. The spec says a channel with zero members does not persist
  (irc-channel.c:474).
- `RequestsHaveNoLineEnd` (Framing, with `MC_Tokens`): a lone LF is not a line
  end when a CR LF follows it in the buffer, so two lines reach the parser as
  one request (conn.c:744).
- `ClientsOwnedByLiveSlots` (Conn, `MC_ConnLeak.cfg`): a failed `connect()`
  frees the slot but keeps its CLIENT_UNKNOWNSERVER record (conn.c:573).
- `RetryAfterConnectFailure` (Conn, `MC_ConnRetry.cfg`): a failed
  `connect()` does not push back `lasttry`; the write goes to
  `Conf_Server[NONE]`, so a retry can follow at once (conn.c:576).
- `OneLinkPerServer` without a group (Conn, `MC_ConnNoGroup.cfg`): a lookup
  that takes ConnectRetry seconds leads to a second link to the same server.
  With a group it holds (conn_safety).
- `OperatorsAsConfigured` (Config, `MC_ConfigOperOverflow.cfg`): with two
  `[Operator]` sections and `MAX_OPERATORS` 1, the second section's Name and
  Password overwrite the first operator, which keeps the first Mask
  (conf.c:473, 819, 830). `Handle_CHANNEL` has the same defect.
- `NoWriteOnClosed` (Writer, `MC_WriterClosed.cfg`): when the write of PASS
  to a freshly connected server fails, the connection is closed, and
  `Handle_Write` still writes SERVER to the closed slot (conn.c:583). The
  assertion at conn.c:336 fails.
- `LinesNotTruncated` (Writer, `MC_WriterTruncate.cfg`): a reply longer than
  `COMMAND_LEN - 3` characters is cut by `vsnprintf` and sent with CR LF.
  Only a length of exactly `COMMAND_LEN - 2` closes the connection
  (conn.c:340). The spec says such a line is rejected and the connection is
  closed.

A sequence `Config` reaches and no property states: after a rehash with the
link up, `Conf_DisableServer` disables the old ONCE entry only; closing the
link deletes it and the fresh entry of the same name stays enabled
(conf.c:300).

Each property of a passing run has a mutant in `PROJECT.json`: a faulty
variant of a mapped definition, placed before it in the module, that TLC
must catch:

| property | mutant |
|---|---|
| `TypeOK` | lasttry pushed the wrong way on close |
| `SilenceBounded` | lastping not recorded when a PING is sent |
| `OneLinkPerServer` | the group check dropped from the scan |
| `PendingResolutionEnds` | no login timeout |
| `TypeOK` (Registration) | Hello_User announces the previous ID |
| `NickUnique` | Client_CheckNick compares case-sensitively |
| `RegisteredIdentity` | Hello_User skips the password check |
| `ImplementsLifecycle` | PASS accepted in any state |
| `TypeOK` (Channels) | Channel_Join without the name check |
| `NamesUnique` | Channel_Search compares case-sensitively |
| `MembershipUnique` | Channel_Join without the membership check |
| `MembersInLiveChannels` | Remove_Client checks whether the client, not the channel, has memberships left |
| `NoMembershipOfDestroyed` | Channel_RemoveClient stops at the first channel it left |
| `TypeOK` (Framing) | `recv()` offered the whole free space, with no room for the NUL |
| `LinesEventuallyParsed` | the `Conn_Handler` loop never finds this buffer |
| `TypeOK` (Config) | the `[Operator]` bound is off by one |
| `RehashDeduplicatesLinks` | the duplicate check of the clean-up loop does not skip the entry itself |
| `ServersAsConfigured` | the last `[Server]` section is never copied |
| `TypeOK` (Writer) | `Conn_Write` has no room check |
| `SentInOrder` | `Handle_Write` drops the `memmove`, so the sent bytes stay at the front |
| `PendingOutputFlushed` | the write set holds only the connecting sockets |
| `ImplementsMembership` | `Remove_Client` matches the records to unlink by channel alone |
| `TypeOK` (ChannelModes) | `Channel_ModeAdd` appends without the `strchr` check |
| `ImplementsModeSets` | `Channel_ModeDel` cuts the string at the flag instead of shifting the rest down |

## Plan

Modules in order of importance. Items marked done are done; the rest are for later
sittings.

1. **Conn** (done): connection lifecycle, resolver, keepalive, outbound
   links.
2. **Framing** (done for the read side): `Read_Request` and
   `Handle_Buffer` byte by byte, checked against the reference splitter
   `Lines`. The write side is done in **Writer**. Still to do: slot reuse
   with stale bytes (conn.c:1000).
3. **Registration** (done): the client type state machine, refining
   `ClientLifecycle`. Still to do: compose it with `Conn`, so that
   registration drives `Check_Connections`' registered/unregistered split.
4. **Channels** (done), refining `ChannelMembership`. The mode strings are
   in `ChannelModes`, refining `ModeSets`.
5. **Config** (done for the tables and the server API). Still to do:
   `Handle_GLOBAL` options feeding `Conn`'s constants, and composing
   `Config` with `Conn` so that `Check_Servers` reads the rehashed table.
6. **Compose**: Conn + Channels. A broadcast to a channel whose member's
   write overflows closes that member during the iteration. Also the
   `select()` snapshot with closed and reused fds.

## What is not modelled, and why

- In `Conn`, the byte contents of buffers, host names and messages are not modelled.
  Lines are counted and names are abstract. `Framing` models the bytes of
  one read buffer, on a slot never used before. `Writer` models the bytes of
  one write buffer, with each message reduced to its length.
- In conf.c, `Handle_GLOBAL` (its options are CONSTANTS of `Conn`),
  `Validate_Config` and `Conf_Test` (checks and printing), string length
  limits, ports, hosts and passwords are not modelled. `lasttry` is
  modelled in `Conn`.
- match.h has only a declaration, and the spec treats `Match` as an external
  pure function. There is no code of it to translate.
- File descriptor numbers and the `fd_set` snapshot of `select()` are not
  modelled. This leaves out the second `close()` of a resolver pipe after a
  read error (conn.c:432), and any reuse of fd numbers.
- The ERROR line of `Conn_Close` may never reach the client, because the
  socket is closed without waiting for the flush (conn.c:411). `Writer`
  reaches this, but no property states it: a socket that is not writable
  cannot be made to take the line.
- client.c, parse.c and irc-write.c are not in this tree. `Client_GetFromConn`
  is modelled from its use, as the first record of the list bound to the
  slot.
- Listener setup (`Conn_NewListener`) and shutdown (`Conn_Exit`) are not
  modelled.
- With several configured servers, `Check_Servers` is modelled one server at a
  time. This is exact for one server. The `return` when no slot is free also
  skips the later servers of that pass.
