# Verification of RillServer

RillServer is a game server framework on top of skynet. Every service is an
actor with one mailbox; inside a service, coroutines interleave at each yield
(`skynet.call`, `skynet.newservice`, `skynet.wait`, a database request). The
difficult part of the Lua program is therefore not a single function but what
happens between two yields of one coroutine, in the same service and in the
others. Below it, in C, skynet's threads share queues, handles, a timer wheel and
sockets, and two of the server's own C libraries (ranking list, websocket frames)
do pointer and byte work. This directory holds TLA+ models of both layers, the
TLC runs that check them on small instances and TLAPS proofs of central
invariants.

## 1. Inventory

| Component | State it keeps | Operations | Talks to | What is hard | What makes it correct |
|---|---|---|---|---|---|
| gateserver (`lualib/faci/gateserver_ws.lua`, `_tcp.lua`) | `connection`, `client_number` | `MSG.open/data/close/error`, `closeclient`, `close_fd` | socket engine, gateway handler | two ways to close an fd, each counting | the count is exact, a closed socket is forgotten |
| gateway (`mod/gateway/gate.lua`) | `connection[fd] = {uid, agent, key}` | `connect`, `message`, `register`, `kick`, `close_agent` | center, pool, login, agents | `close_agent` yields twice before it clears anything | live fds can be routed; one agent recycled once |
| login service (`mod/login/login.lua`) | `key_seq` | `forward.login` | center, pool, agent, gateway | a chain of five calls, each may fail | every login ends, failures undo what was done |
| center (`mod/center/login.lua`) | `users[uid]` | `login`, `register`, `logout` | gateway, agents | `login` and `logout` yield in the middle | one session per player; the key protects it |
| agent pool (`service/agentpool.lua`) | `pool`, `agentlist` | `init_pool`, `get`, `recycle` | launcher | `get` yields in `newservice`; killing at `maxnum` | an agent is in one place |
| agent (`service/agent/wsagent.lua`, `mod/agent/*`) | `fd`, `account`, room, player data | `start`, `kick`, client requests, save timer | database, room manager | critical section, requests outside it, reuse after recycling | one player at a time, data saved |
| rooms (`mod/global/manager`, `mod/room`, `service/roompool.lua`) | `Room_Map`, `pool`, `roomlist`, players | `create`, `enter`, `leave`, `get`, `recycle` | agents, pool | every operation yields between test and update | a room in use is not recycled |
| dbproxy (`mod/dbproxy/dbproxy.lua`, `lualib/mysqldb.lua`) | `t_max_uuid` | `get`, `set`, `incr` | database | saves overlap, restarts | a uid is given out once |
| accounts (`mod/login/login_auth.lua`) | rows of the database | `check_normal_sdk`, `register` | dbproxy | test and insert are two requests | one uid per account |
| dragon-tiger game (`mod/room/lh`), timer (`lualib/timer.lua`) | phase, countdown, cards; ticks | phase changes, `register`, `unregister` | room | timer driven | rounds go on |
| query board, stop control | cache; `stop_idx` | `query`; `stop` | database; hosts | load yields; steps not awaited | no lost count; services stop in order |
| skip list (`lualib-src/skiplist`) | nodes with forward pointers, spans, back pointers | insert, delete, delete by rank, rank and score ranges | `zset.lua` | spans of levels a node does not reach | it answers as a sorted set would |
| websocket netpack (`lua-websocketnetpack.c`) | partial packets by fd, ring of packets | `filter`, `pop`, close | gateserver | TCP cuts anywhere, masks go on across chunks | each connection gets its own packets, whole |
| services and workers (`skynet_server.c`, `_mq.c`, `_handle.c`, `_start.c`) | contexts with references, rings, global queue, handle table, sleeping workers | launch, send, retire, dispatch, wake up, quit | all services | locks and atomics held one at a time | a queue is dispatched by one worker; nothing is lost, freed twice or forgotten |
| timer wheel (`skynet_timer.c`) | five levels of lists, the tick | `timeout`, update | all services | levels spread in time, wrap, lock released while firing | each timer fires at its tick, in order |
| socket server (`socket_server.c`) | slots with ids, write lists, `sending`, pipe, events of one poll | send (direct or piped), start, connect, close, poll | gateway, agents | two threads write to one fd; ids outlive connections | messages whole and in order, nothing applied to the wrong connection |

`PROJECT.json` lists the same components with their status, the lines each
definition models and the hazards of the code.

## 2. Modules

| Module | Models |
|---|---|
| `GateServer` | gateserver (both builds, `proto`) with the handler `gate.lua` |
| `AgentPool` | `agentpool.lua`, any number of pools |
| `PoolClients` | `AgentPool` with callers that give back what they got, once |
| `Center` | the center's table of players |
| `WsAgent` | `start` and `kick` of an agent inside its critical section |
| `LoginService` | `forward.login` as a chain of calls |
| `LoginFlow` | the five services composed through skynet's mailboxes |
| `Accounts` | first logins: `login_auth.lua`, the uid allocator of `dbproxy.lua`, the upsert of `mysqldb.lua` |
| `SkynetServer` | skynet's services, queues and worker threads, with `MessageQueue` (ring of one service) and `HandleStorage` (handle table) as its data |
| `Mailbox` | what `SkynetServer` promises: per service, messages handled one at a time, in order |
| `TimerWheel`, `Alarms` | `skynet_timer.c`, and what it promises: a timer fires when its ticks are over |
| `SocketServer` | the socket thread and the services that send |
| `Skiplist`, `RankedSet` | `skiplist.c` with `zset.lua`, and the ranked set it stands for |
| `WsNetpack` | `lua-websocketnetpack.c` with `dispatch_msg` of the gateway, which pops every packet |
| `MCPoolClients`, `MCLoginFlow`, `MCSkynetServer`, `MCTimerWheel`, `MCSocketServer`, `MCWsNetpack` | instances for TLC |
| `GateServerProofs`, `PoolClientsProofs`, `AccountsProofs`, `SocketServerProofs`, `SocketWireProofs`, `SkynetServerProofs`, `LoginFlowProofs`, `SessionProofs` | theorems and their proofs |

### How state and steps correspond to the code

*GateServer.* Both source files call their table `connection`; `gs.conn` is
the one of the gateserver, `connection` and `c` are the keys and the records of
`gate.lua`. The set of keys is kept apart from the records because a coroutine
suspended in `close_agent` holds a reference to a record whose key another
coroutine may already have removed. `task[t]` is a coroutine suspended in
`libcenter.logout` or `libagentpool.recycle`, the only two yields of the
service; everything between two yields is one action. `CloseAnonymous` is
`close_agent` for an fd nobody is logged in on (no yield), `CloseSession`,
`LogoutDone`, `RecycleDone` its three parts otherwise, `RecycleRaise` the error
`assert(agent)` sends back. `sock` and `hup` stand for the socket engine: a close
by either side is reported as one more event, also when the socket had been shut
already (`close_socket` in `socket_server.c`). That the report does come is what
liveness of the gateway rests on; `sockets_halfclose` shows the one case in which
it waits for the peer.

*AgentPool.* `get` on an empty pool is two actions, before and after the yield
in `newservice`. `recycle` kills the agent when the pool is full. Addresses are
never reused.

*Center, LoginService, WsAgent.* One action per part of a handler between two
yields. The critical section of the agent (`skynet.queue`) is the pair
`current`, `thread_queue`. The consecutive database waits of `start` and of
`kick` are one wait: nothing another service can see changes between them.

*LoginFlow.* `mq[s]` is the mailbox of service `s`. A request carries the
coroutine chain `t` it belongs to; its answer goes to the mailbox of the caller.
The gateway takes close events and client packets without a mailbox, in any
order the socket engine may report them. A call to a killed agent raises in its
caller; a coroutine inside an agent that is killed never answers, as in skynet.
Errors are handled as `dispatch.lua` does: in the center the caller of a handler
that raised reads `nil`; in the login service the coroutine ends without an
answer.

*Accounts.* `auth[t]` is a coroutine of a login service inside `login_auth`; its
`at` is the query it waits for. The increments all go to one dbproxy, and its
connection runs queries in the order they were sent (`wire`); account queries go
to the dbproxies in turn and are run in any order. A table is the set of its
rows, which exist and have no unique key but the automatic `id`; `limit 1` takes
any row that fits. skynet's MySQL driver connects with `CLIENT_FOUND_ROWS`, so
`affected_rows` counts rows found, not rows changed. `Restart` is the end of the
node at any point and its next start: queries not yet run are lost. `event.exit`
stores nothing, since its key is an undefined `k` and the selector is empty.
`LoginFlow` sees all of this as one wait with two answers.

*SkynetServer.* One step is one critical section of a lock or one atomic
instruction. `ctx[h]` is a context with its reference count, for the handles given
out so far (a handle whose slot is taken is skipped), `mq[h]` its ring with `in_global` and `release`, `gq` the global queue, `hs` the handle table.
A thread's C stack is up to three variables: `worker` (the dispatch loop),
`launch` (`skynet_context_new` inside a callback) and `call` (a function that
holds a reference: grab, push, release). The launcher is the service that creates
others, as in the code; before the start it has a backlog of requests. In `Pop` the
two critical sections of `skynet_mq_pop` and of the `skynet_mq_length` that follows it
(`skynet_server.c:317-321`) are one step: a push between them would only make the
batch of the worker longer. The timer
thread posts messages from outside, as the socket thread does. `Abort` is the
timer thread finding no service left.

*TimerWheel.* The levels, shifts and masks are those of the code with shorter
shifts; the nodes are put into lists by the same comparisons. `firing` is the
list the timer thread has cut off and dispatches without the lock, during which
`timer_add` of the workers goes on. `Begin` is one hold of the lock by the timer
thread.

*SocketServer.* A write list is the sequence of its bytes. `Send` is the send of
a service in the steps the code has: `Look` (without lock), `Recheck` and
`DirectWrite` (under it), otherwise `inc_sending_ref` and `send_request`.
`SocketThread` is one round of `socket_server_poll`: the first event of the last
`sp_wait` (which may be the pipe itself), then the commands in the pipe, then the
other events, which a command may have made stale; `checkctrl` is "later" before
that first event and "yes" behind it. `force_close` frees the lists before it waits
for the lock, as in the code, and is two steps. Ids are given out in turn and share
slots; a slot may be closed and given to the next id while a service is between its
looks, which is what the second look is for. `start_socket` may fail in `sp_add`. Two
pairs of instructions are one step: the end of `can_direct_write` with the `trylock`
behind it, and the compare-and-swap of the type in `reserve_id` with the store of the id.

*Skiplist.* The list is a record of functions from node and level (`forward`,
`span`) and from node (`backward`, `score`); the random level of a new node is any
level. The descent of all operations is one operator (`Descend`), `Follow` walks
a range. `zset.lua` on top gives `add`, `rem`, `limit`, `rev_limit` and the
queries.

*WsNetpack.* A byte is a pair of its frame and its place, so that a byte
unmasked wrongly, lost or given to the wrong connection is visible. `Receive`
hands any non-empty piece of the rest of a stream to `filter_data`, whose cases
are those of the code: no header yet, header in part, body in part, one packet,
several; a frame above `MAX_PACKSIZE` and a handshake header above `HEADERSIZE` are
cut. The packets go to `dispatch_msg` of the gateway, which takes them or, when
one reaches its limit, closes. Behind a packet that was cut, and behind a close frame
that `push_more` has skipped, the parser takes bytes inside a frame for a header;
what it finds there is part of the frame (`inside`), since it depends on what the
client wrote.

Definitions whose comment begins with "The bug" are deliberately wrong variants
of the definition that follows. The specification does not use them; they are put
in the place of the definition they vary to see that a property notices.

## 3. Runs

| Run | Instance | Checks |
|---|---|---|
| `gate` | 2 sockets, `MaxClient` 1, 2 coroutines in `close_agent`, either build | `TypeOK`, `CountExact`, `Routable`, `ShutIsForgotten` |
| `pools` | 2 pools of 1, 3 callers | `OnePlace`, `Bounded`, `AgentListed` |
| `sessions` | 2 players with a connection each, hanging up at any time; or 2 connections of one player and 3 login packets | `AgentExclusive`, `RecordMeansLogin`, `AtRest`, `KeyGuardsLogout`, `LoginEnds`, `GoneIsOffline` |
| `sessions_any` | 2 connections for one player, packets sent without waiting, every way to leave, failing database | `GateRefined` |
| `accounts` | 2 accounts, 2 passwords, 2 coroutines, empty or used `tb_key`, 2 restarts | `TypeOK`, `UidUnique`, `AccountLoads` |
| `runtime` | 2 workers (batch of one, batch of all), timer thread, launcher with 3 requests waiting, one service it launches, ring of 4, table of 1 slot | `QueueOnce`, `RefsExact`, `Findable`, `Serves`, `EveryMessageTaken`, `AllLeave` |
| `timer` | 5 levels of 2 lists each, time of 5 bits, 2 timers set again and again for 1 to 15 ticks | `InPlace`, `FiresOnTime`, `EveryTimerFires` |
| `skiplist` | 4 members, 2 scores, 3 levels, every choice of levels | `WellLinked`, `RanksExact`, `ScoresExact`, `KeepsTheRightOnes` |
| `netpack` | 2 connections in one hash list, ring of 2, streams cut anywhere: 5 and 3 frames within the limits, one of them ending in a close; or a frame above `MAX_PACKSIZE` and a header above `HEADERSIZE` | `TypeOK`, `PacketsExact`, `CloseReported` |
| `sockets` | 2 services, 2 connections after each other in one slot, 2 messages of 2 bytes each, both priorities | `WireExact`, `SendingExact`, `EventsFresh`, `CloserFlushed`, `MessageOut`, `PeerGoneTold` |

What the properties of the last five say:

* `QueueOnce`: the queue of a service is in the global list or with a worker, in
  one place and once, until it is freed. `RefsExact`: the reference count is the
  number of holders, no holder has a freed context, no place a freed queue.
  `Findable`: a registered service is in the slot its handle hashes to.
  `Serves`: the runtime implements `Mailbox`. `EveryMessageTaken`: a message
  posted is handled or dropped in the end. `AllLeave`: when the last service has
  ended every worker leaves.
* `InPlace`: every timer is where `add_node` would put it now. `FiresOnTime`: the
  wheel implements `Alarms`. `EveryTimerFires`: it does so in the end.
* `WellLinked`: levels, spans and back pointers are those of the set. `RanksExact`,
  `ScoresExact`: every rank and every range, up and down, is that of the set.
  `KeepsTheRightOnes`: the list implements `RankedSet`, and operation by operation: what
  `limit(n)` leaves are the `n` members of the lowest ranks, what `rev_limit(n)` leaves
  the `n` of the highest, for every `n` in every state.
* `PacketsExact`: the gateway takes exactly the payloads of the frames that are there,
  whole, in order and unmasked, up to the first that is too large; a packet cut at a limit,
  and what is read behind it, is never taken, and only its sender loses the connection.
  `CloseReported`: a close frame is reported with the chunk that brings its second byte
  if and only if that chunk completes no packet before it.
* `WireExact`: what is written to a connection is whole messages of it, those of a
  service and priority in order. `SendingExact`: `sending` counts the requests
  under way for the id that has the slot. `EventsFresh`: no event is handled for a
  later connection. `CloserFlushed`: who writes and then closes has its messages
  written. `MessageOut`: what is accepted is written or the connection closed.
  `PeerGoneTold`: the owner hears of a peer that went.

Bounds. `MaxClient = 1` with two sockets makes the refusal happen and lets the
second socket in once the first is closed; two coroutines are what it takes for
one `close_agent` to overtake another. `MaxNum = 1` with two agents makes
`newservice` and the kill at the limit happen. Two login packets for two players
and three for one player let a login meet one that is finished, one that is
under way and one that is being undone. `hup` is bounded by the number of times
a socket is closed. `MaxUid = 3` gives two logins and one after a restart a uid
of their own, and `MaxRestart` lets a restart fall before, between and after the
saves. `DefaultSlotSize = 1` makes the handle table grow at the second service;
`DefaultQueueSize = 4` with a backlog of 3 makes the ring grow while its head is
not at the start. Two workers are what it takes for a queue to be dispatched
twice or a signal to be missed. With shifts of one bit all five levels are used
within 32 ticks, the clock wraps in every behaviour and timers are set across
the wrap. `MaxSocket = 1` makes the second connection take the slot of the
first; messages of two bytes can be written in part. Three levels and four
members let the level of the list rise, fall and rise again. Nothing else is
unbounded.

Deadlock is not checked: clients, launches, messages and connections are finite
in number and the system may rest.

Fairness. skynet serves every mailbox that is not empty and delivers every
socket event; database and launcher answer (weak fairness of the steps that
handle them). Clients owe nothing. Close events get strong fairness because the
bound on coroutines, which skynet does not have, may disable them for a while.
In the runtime each thread goes on while it can: weak fairness for every worker
(callbacks return, as they must in skynet), for the socket thread's wake-up call,
for the timer thread, and for a service inside a send. Nobody owes a new message,
a new timer or a close. `SocketThread` is fair as a whole: which event comes first
is left open, and epoll reports a writable socket again and again.

`GateRefined` is the specification of `GateServer` as a property of `LoginFlow`:
whatever the other services do, the gateway inside the system makes only steps
`GateServer` allows. The theorems about `GateServer` therefore speak of the
composed system too, and they assume nothing about the other services. The other
refinements are `Serves` (`SkynetServer` implements `Mailbox`, on whose promise the
Lua models rest: their mailboxes are FIFO and handled one message at a time),
`FiresOnTime` (`TimerWheel` implements `Alarms`) and `KeepsTheRightOnes`
(`Skiplist` implements `RankedSet`).

### What the failing runs show

| Run | Property | What happens |
|---|---|---|
| `sessions_shared` | `AgentExclusive` | a client hangs up while the center kicks it for a second login: both coroutines recycle its agent, which is idle in the pool while it serves a player again |
| `sockets_halfclose` | `CloseEnds` | the gateway closes a connection while another service's message to it is counted but stands behind the close in the pipe: the socket is half closed, its write event is off, the message is dropped, and only the peer can end it |

Races of the same kind that have no run of their own:

* The race of `sessions_shared` in the center: the later of the two `logout`s
  deletes the record of the new login (`center/login.lua:109`). When the other
  coroutine has cleared `c.agent` meanwhile (`gate.lua:74`), the later one hands `nil` to
  `recycle`, whose `assert(agent)` raises: it ends before `closeclient`, and a kick is never
  answered. When the pool is full at the second recycling, the agent is killed
  while it is in the pool.
* `agent.start` raises (`login.lua:66`) and the player's record stays without
  agent: the center takes it for a login under way and refuses every later one.
* Two first logins of one account: the second stores its uid over the one the
  first has returned, and no row has the first any more. `AccountLoads` therefore
  speaks of behaviours in which the logins of one account do not overlap
  (`Serial`).
* While `tb_key` has no row, two overlapping increments both insert one, and a
  restart may read the smaller: `UidUnique` speaks of behaviours that start with
  the row.
* With two pools an agent killed by the pool that did not make it stays in
  `agentlist` of the other (`AgentListed` speaks of living agents).
* A close frame that comes in one chunk with the end of the packet before it is never
  reported: the comment of `read_size` has -2 for bytes to throw away and -3 for a client
  that closes, but `push_more` throws both away (`<= -2`, `lua-websocketnetpack.c:385`), and the
  rest of the frame is read as frames. The connection ends when the socket itself
  closes. The streams of `netpack` meet the case, and `CloseReported` says it as it is.
* `slFirstInRange` returns a node beyond the range where its comment promises
  NULL; `_get_score_range` stops there, so `ScoresExact` holds.
* `force_close` frees the lists before it has the lock: when a shutdown throws a
  half written message away, a direct write may still follow the half
  (`WireExact` excepts connections that were shut down).
* `can_direct_write` tests the id first and the type last, and `trylock` follows. A slot
  that is closed and given to another connection between this test and the lock is
  met by the second look; one that changes hands inside the second test could get
  a message of the connection before it (`socket_server.c:1568`), since `reserve_id`
  takes no lock. The model has test and lock in one step.
* `reserve_id` takes a slot by its type before it stores the id (`socket_server.c:315`): a
  request for the old id that falls between the two meets a reserved slot
  (`force_close` asserts that it is none, line 418). One step here.
* A second service that launches others by itself could grow the handle table
  while the handle of a service being registered is not yet stored
  (`skynet_handle.c:63`, `skynet_server.c:155`); only the launcher launches here.
* A timer is set against the wheel's tick; when the timer thread is late the wheel
  lags and the timer fires early in real time (`skynet_timer.c:267`).

The plans of `sessions` are ones in which the code is right: either players
do not share connections and may leave at any time, or one player has two
connections and neither leaves by itself. Two is the limit: with three, two
overlapping `login`s of the center may kick the same connection, and `close_agent`
runs twice for it although nobody hangs up.

## 4. Proofs

`GateServerProofs` proves `CountExact`, `Routable` and `TypeOK` of
`GateServer!Spec` for any set `Fd`, any set of coroutines, both builds and any
`MaxClient`. The inductive invariant is the types, the count of the kept entries
(with the fact that they are finitely many, since cardinality is defined for
finite sets only), the bound `MaxClient`, `Routable`, and `FreshUnknown`: a
socket that was never opened has no entry, without which opening it might count
an entry twice.

`PoolClientsProofs` proves `OnePlace`, `Bounded` and `AgentListed` of
`PoolClients!Spec` for any number of pools, agents and callers. The strengthening
adds `Born` (idle, held and dead agents have been born, so that an agent
`newservice` returns is in no place yet) and `Filling` (while `init_pool` runs, the
pool has no more agents than the turns of its loop). `AgentListed` adds
`Listing`: the lists name agents that were born, and a living agent (idle in a pool
or held by a caller) is in `agentlist` of exactly one pool, so that the pool which
takes a killed agent off its own list takes no living agent's only entry.

`AccountsProofs` proves `UidUnique` and `TypeOK` of `Accounts!Spec` for any accounts,
coroutines and restarts, for behaviours that start with a row in `tb_key` (`tb_key # {}`
is part of the property). That uids are unique alone is not inductive: nothing in it keeps a number from being given out again.
The argument is "save first, use afterwards". `WireOrdered`: saves on their way are
updates with growing numbers, none below the stored one and each of a coroutine
that waits for it; so the stored number only grows. `UsedIsStored`: a uid reaches
a row of `account` only after a number not below it was stored; so a restart, which
continues from the stored number (`KeyKept`: there is one), gives out only larger
ones. `OwnersDiffer`: coroutines between `incr` and their row have different uids, and
no row has one of them yet. That logins of one account may overlap does not matter.

`SocketServerProofs` proves `EventsFresh` and `SendingExact` (with `TypeOK`) of
`SocketServer!Spec` for any number of services, connections and messages and any
`MaxSocket`. Both speak of ids that outlive connections: a slot is `id % MaxSocket`, and
a request, an event or a service may name an id whose slot has another owner by now.
Neither is inductive. The invariant is a conjunction of

* `Sockets`: a slot in use has an id that hashes to it and was given out, the tag of
  its count is the id's, a reserved or accepted socket has empty lists, and the low
  list is of whole messages;
* `Fresh`: an id that was not given out is in no request and in no call, and only ids
  whose opening was reported are written to; so a slot reserved for a new id starts with
  a count that is truly zero;
* `Opening`: a reserved slot has exactly one connect request in the pipe, in front of
  any request to close it; so the socket thread meets it before it could free the
  slot;
* `Closing`: the socket `force_close` waits for keeps its slot;
* `Events`: an event of the last poll names a slot in use by the id it came from, and
  there is one per slot; a command that frees the slot has cleared its event;
* `Locks`: the lock of a slot is taken exactly when one service is between looking
  again and writing;
* `Counted`: `sending` of a slot is the number of requests for its id in the pipe plus
  the services between counting and posting. The count is of *occurrences* in a
  sequence; `HitsAppend` and `HitsTail` say what posting and
  taking a request do to it, `DivModUnique` and `DivModSame` tell ids of one slot apart
  by their tags.

`SocketWireProofs` proves `WireExact` and `CloserFlushed` of `SocketServer!Spec` for the
same constants, any size of a message and any split of the writes into parts. Both speak
of the bytes on the wire only, and the next step may put there what a list held wrong
long ago; so the invariant `WInv`, next to the one above, follows the *stream* of a
connection: what was written to it and then what waits in its slot, `dw`, `high`, `low`
(`Stream`). Three things can happen to a stream. A write moves bytes from the waiting part to
the written one and leaves it as it is (`WrittenRest`; the rest of a low message that
moves to the high list stays where it was, `SendBufferWaiting`). A message goes into it
whole (`Put`): at its end from the low list, before the low list from the high one, right
behind the written bytes by a direct write (`PutLow`, `PutHigh`, `PutDirect`). A socket
that is closed loses its end (`Cut`). `PutExact` says when putting a message in keeps
messages whole and in order: it goes between two messages, the same service has nothing
of the same priority behind that place, and all it has before it is older. The parts:

* `Streams`: the stream of a connection nobody shut down is exact, and of one that is still
  there its last message is whole;
* `Placed`, `InOrder`: bytes, requests and calls are of messages that were sent, for that
  connection; those of a service in a stream are older than those in the pipe, and these
  than the one it is sending;
* `Alone`: a service between the second look and the write, whose slot still has the id it
  writes to, has nothing of its own in the pipe and in the lists, and the high list begins
  with a whole message. The pipe is settled by the count in `sending`, which is why
  `SendingExact` had to come first; the lists by the second look, and afterwards by the lock,
  under which the socket thread writes nothing;
* `Held`: a socket whose lock is taken is in use, so its slot is not given to another id
  while a service has the lock;
* `Phases`: what the services were told of an id agrees with the type of its slot;
* `Kept`, `DuesKept`, `DuesAsked`: a message for an open connection is in its stream, in the
  pipe or in the hand of its sender; so when a request to close is met, what its sender had
  sent before is in the stream, and on the wire when the close is reported;
* `Causes`: a shutdown in the pipe was asked for, an end of file means that the peer is gone.
  These are the two exceptions of the properties (`Spared`).

TLC has checked `WInv` and `Held` on the instance of `sockets` and on one in which both
services write directly.

`SkynetServerProofs` first proves that a push appends to the content of a ring (`RingPush`) and
a pop takes its first message (`RingPop`), for every capacity and position of the head;
`Content` is read through `%`, so the proofs restate an index as `Wrap`, which subtracts
the capacity at most once, and compare sequences index by index (`RingIntro`). A push
into the last free place turns and doubles the ring.

It then proves `QueueOnce`, `RefsExact`, `Findable` and `Serves` of
`SkynetServer!Spec` for any number of workers, outside threads, services and messages,
any weights, any initial size of the handle table, and rings of any size that holds the
backlog. None of them is inductive. The invariant `IInv` is a conjunction of

* `Typed`: besides the types, the slots of the handle table hold handles that hash to
  them, which is `Findable`. Growth keeps it because a handle that is
  `i` modulo `n` is `i` or `i + n` modulo `2 * n` (`ModDouble`); this needs the handles
  the contexts believe to have, so `Linked`;
* `Stack`: where a thread is tells what it has in hand. A launch runs in a callback of
  the launcher, and the worker that yields has another queue than the one it gives
  back;
* `Once`: the list has no queue twice, a queue is not listed and held, nor held by two
  threads, and it is listed or held exactly when it is marked. `QueueOnce` counts places
  with cardinalities; `Once` says the same with quantifiers, which the steps can be
  proved to preserve, and `PlacesCount` turns it into the count;
* `Refs`: the references of a context are its users, zero when it is gone. `UsersStep`
  says how the count changes when one thread moves and the table changes at one
  handle, so that each action only states which use its thread gains or loses;
* `Linked`: a context has either its handle and a queue not marked for release, or
  neither and a launch that is about to give it both; so a queue is found by everyone
  who finds its context, and growing the table meets no context without handle: there
  is one launch at a time (`OneLaunch`), since only one worker holds the launcher's queue
  (`Once`);
* `Uses`: a call works on a living context, only one thread deletes it, and a queue
  that is dropped is marked for it;
* `Given`: handles given out are below the next one, so a new context takes the place
  of none.

`Serves` is proved from `IInv` before and after a step: for every action the lemmas
`CallServes`, `LaunchServes`, `DropServes`, `RunServes`, `WorkerServes` and `AbortServes`
name the step of `Mailbox` it is (post, take, finish, start, end, drop) or show that
`life`, `busy` and `box` of all services stay (`Same`). That `Take` finds the service idle
is `Once`; that `End` does is `Refs`: a callback or an init function is a user, and the
context goes with the last one.

`LoginFlowProofs` proves `GateRefined` of `LoginFlow!Spec` (`FlowGateRefined`): the gateway
between center, login service, pool and agents takes only steps of `GateServer`, for
any sets of connections, players, agents, logins and close events, any plan of the
clients (shared connections, impatient clients and every way to leave included) and a
database that may fail. The step that needs an argument is a command from another
service: `GateServer` has kick and register only for sockets that were opened, register
only with a whole session, and lets only idle coroutines enter `close_agent`. All three
depend on who sent the message, so the invariant follows every chain of calls:

* `Mail`, `One`: messages have the shape of their mailbox, and a chain has one message
  under way at most;
* `AllFit`: a message in the mailbox of `s` is what the stack of its chain allows: a
  request carries the data its caller has, an answer finds its coroutine waiting there;
* `Stacks`: the levels of one stack agree. From below they are the login service, `login`
  of the center waiting for `gate.kick`, `close_agent` or `clearAgent` of the gateway,
  `logout` of the center waiting for `agent.kick`, and the agent (`Level`); and a login
  past the packet knows a socket that was opened, a player, a key given out and, after
  `get`, an agent (`Knows`);
* `Section`: who is inside or waits for the critical section of an agent runs a command,
  and is there once; so the answer of the agent goes to a chain that waits for it;
* `Numbered`: `key_seq` counts the logins that have begun, so that keys stay in `Key`;
* `Entered`: players in the tables of the center came over sockets that were opened;
* the inductive invariant of `GateServerProofs` and the types of the other services.

A step touches one chain: `SentStep`, `EatenStep` and `QuietStep` prove once that the
others keep all this (`Others`, `Carried`), so that each action shows only where its own
chain goes. `FlowGateSafe` (`Routable` and `CountExact` hold in the whole system),
`FlowToken` (one message per chain, none while its coroutine waits for the database or
the launcher), `FlowSection` and `FlowType` follow from the same invariant. TLC has
checked that invariant on the instances of `sessions_any` and `sessions_shared` too.

`SessionProofs` goes on from there and proves the four safety properties of the run
`sessions`, for any sets of connections, players, agents, logins and close events, any
`MaxNum` of the pool and any plan of who logs in as whom and who leaves how and when:
`AgentExclusive` and `KeyGuardsLogout` also when loading a player fails,
`RecordMeansLogin` and `AtRest` when it does not (a failed `start` leaves a record without
agent, see above). Two hypotheses stand in every statement. `Patient = Fd`: a client
waits for the answer to a login before it sends the next. `[]OneCloser`: no two coroutines
are in `close_agent` for one connection. Neither is something the code ensures:
`sessions_shared` breaks the second and with it `AgentExclusive`. Neither is empty: TLC
has checked that `OneCloser` is an invariant of both plans of `sessions`, so the theorems
cover that run and every larger instance of the same kind, and hang-ups of a player
with several connections too as long as none meets a kick of the same connection.

No service knows enough to say any of the four on its own. The invariant `XInv` says where
the chain of every login stands and reads the tables off from that:

* `Records`: a login has a record without agent (`Blank`) from the answer of the center's
  `login` to `register`, one with its agent (`Full`) from there until the `logout` of its
  session is answered, and the center has no other record;
* `Owned`, `Lossless`: an agent is out of the pool for one login (`Out`) from the answer to
  `get` until `recycle` has put it back, and every living agent is in the pool, out, or
  `Lost` with a login that raised. `Full` and `Out` end at different moments, between which
  a new login of the player may already have a record but another agent;
* `UniqueKeys`, `Sessions`: keys tell logins apart, and a session of the gateway was made by
  the login whose key and agent it has;
* `Patience`: what waiting clients give: one login of a connection under way, and no session
  there unless it is the one this login has just made;
* `Errands`: a request and an answer on their way are about the session they were sent for,
  also when `close_agent` has yielded between reading it and using it. It includes that
  `register` of the center never refuses: `register_center_fail` of `login.lua` is reached
  only by clients or closes outside the hypotheses.

Every action has a lemma of its own (`XGateKick`, `XCenterLogout`, ...), which `XNext` puts
together. `RecordsOne`, `OwnedSame` and `FixedStays` prove once what a step leaves alone: one that
is `Local` to its chain keeps all that is said of the others, and one that does not move its
own login along keeps the records and the agents too. TLC has checked `XInv` on the instances of `sessions` and, constrained to `OneCloser`, on
two clients of one player who leave in every way, with a failing database and without.

The assumptions are the named ones of the component modules (`GateConstants`,
`PoolConstants`, `AccountConstants`, `SocketAssumption`, `RuntimeAssumption`,
`QueueSizeAssumption`, `FlowConstants`, `FlowNames`), which TLC evaluates in the runs.
`FlowConstants` asks for finitely many logins, since keys count them; `FlowNames` says
that nil and the addresses of the named services are no agents, players or records. `RuntimeAssumption` says that the
threads are finitely many and of different kinds, the sizes are positive and the
backlog fits into the launcher's first ring.

Model-checked only: liveness everywhere (fairness and `ENABLED` are beyond the
prover used); what the recursive functions of `Skiplist` (`Descend`) and the operators
of `WsNetpack` compute for inputs of every length (induction over data); `InPlace` and
`FiresOnTime` of the timer wheel, whose lists are filtered with `SelectSeq`, opaque to
the prover. Outside `OneCloser` nothing is claimed of the sessions (`sessions_shared`).

## 5. Not modelled

The header parser of the websocket handshake, the listening socket, the choice
between several centers (by uid, so each player has one), a second login service
or node, creation of missing tables and the MongoDB back end, the `kick` a service
sends for an unreadable packet, client requests to an agent, hot update, web
console, logging. Of skynet: names, harbor and cluster, the monitor of endless
loops, overload warnings, UDP, options and statistics of sockets, the contents of
reads, the wrap of handles after 2^24 launches. Of the netpack: fragmented frames,
lengths of 64 bits, packing. Vendored code below (lua, jemalloc, lpeg, pl, cjson,
lfs, LuaPbIntf, behavior3) is not part of the server's logic and appears nowhere;
it is most of the C code of the repository.

## 6. Plan

1. Theorems: `InPlace` of `TimerWheel` with its lists restated as functions; a condition on
   plans from which `OneCloser` follows.
2. `Rooms` with the room pool: room ids read after a yield, enter and leave across
   yields, `kick_room` inside the agent's critical section.
3. `AgentSave`: hash codes, failing writes, the timer of a recycled agent.
4. `Sessions`: the abstract specification of one session per player, refined by
   `LoginFlow` in the environments in which it holds; two login services.
5. `LhGame` with `lualib/timer.lua`, `QueryBoard`, `StopCtrl`.
