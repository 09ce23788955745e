----------------------------- MODULE GateServer -----------------------------
(***************************************************************************)
(* The gateway service: the connection bookkeeping of                      *)
(* lualib/faci/gateserver_ws.lua and gateserver_tcp.lua together with the  *)
(* handler mod/gateway/gate.lua that sits on top of it.                    *)
(*                                                                         *)
(* Both files keep a table called `connection'.  Here                      *)
(*   gs.conn     is the table of gateserver_*.lua,                         *)
(*   connection  is the set of keys of the table of gate.lua, and          *)
(*   c           the records that table holds.  A record outlives its key: *)
(*               a coroutine suspended in close_agent keeps its reference. *)
(*                                                                         *)
(* A coroutine runs until it yields.  The only yields are the two calls    *)
(* of close_agent, libcenter.logout and libagentpool.recycle; task[t] is   *)
(* the coroutine suspended there.  A step of this module is what runs      *)
(* between two yields.                                                     *)
(***************************************************************************)
EXTENDS Integers, FiniteSets

CONSTANTS
  Fd,         \* socket ids, never reused by the socket engine
  Uid,        \* players
  Agent,      \* agent services
  Key,        \* login keys
  Nil,        \* Lua's nil
  Task,       \* coroutines that may be inside close_agent at the same time
  MaxClient   \* conf.maxclient

ASSUME GateConstants ==
  /\ MaxClient \in Nat
  /\ Nil \notin Fd \cup Uid \cup Agent \cup Key

VARIABLES
  proto,       \* runconf.prototype, which picks the build and never changes
  gs,          \* gateserver_*.lua: [conn, client_number]
  connection,  \* keys of gate.lua's connection
  c,           \* the records of gate.lua's connection
  task,        \* the coroutines inside close_agent
  sock,        \* the socket engine's view of fd: "fresh", "open" or "shut"
  hup          \* SOCKET_CLOSE and SOCKET_ERROR events not yet handled

gateVars == <<proto, gs, connection, c, task, sock, hup>>

(***************************************************************************)
(* gs.conn[fd]: "nil" - no entry; "shake" - {isconnect = true,             *)
(* iswebsocket_handeshake = 1}; "open" - the handshake is done (websocket) *)
(* or the entry is true (TCP); "closed" - the entry is false (TCP only).   *)
(***************************************************************************)
ConnState == {"nil", "shake", "open", "closed"}
Live(g)   == {fd \in Fd : g.conn[fd] \in {"shake", "open"}}
Kept(g)   == {fd \in Fd : g.conn[fd] # "nil"}

Record    == [uid : Uid \cup {Nil}, agent : Agent \cup {Nil}, key : Key \cup {Nil}]
NewRecord == [uid |-> Nil, agent |-> Nil, key |-> Nil]

(***************************************************************************)
(* A coroutine inside close_agent was started by src: CMD.kick, a socket   *)
(* event (MSG.close or MSG.error) or a websocket close frame.  One inside  *)
(* clearAgent was started by CMD.register and carries that call's data.    *)
(***************************************************************************)
Src       == {"kick", "hup", "frame", "register"}
Idle      == [at |-> "idle", fd |-> Nil, src |-> Nil, data |-> NewRecord]
Suspended == [at : {"logout", "recycle"}, fd : Fd, src : Src, data : Record]

Init ==
  /\ proto \in {"ws", "tcp"}
  /\ gs = [conn |-> [fd \in Fd |-> "nil"], client_number |-> 0]
  /\ connection = {}
  /\ c = [fd \in Fd |-> NewRecord]
  /\ task = [t \in Task |-> Idle]
  /\ sock = [fd \in Fd |-> "fresh"]
  /\ hup = [fd \in Fd |-> 0]

-----------------------------------------------------------------------------
(* What the helpers of gateserver_*.lua make of the table g.               *)

\* The bug: the TCP build counts down in closeclient as well as in close_fd.
closeclient_counts(g, fd) ==
  IF fd \notin Live(g) THEN g
  ELSE [conn |-> [g.conn EXCEPT ![fd] = IF proto = "ws" THEN "nil" ELSE "closed"],
        client_number |-> g.client_number - 1]

\* The websocket build forgets the fd at once; the TCP build only marks it
\* and leaves the count to close_fd.
closeclient(g, fd) ==
  IF fd \notin Live(g) THEN g
  ELSE IF proto = "ws"
    THEN [conn |-> [g.conn EXCEPT ![fd] = "nil"],
          client_number |-> g.client_number - 1]
    ELSE [conn |-> [g.conn EXCEPT ![fd] = "closed"],
          client_number |-> g.client_number]

\* The bug: close_fd counts down an fd it does not know.
close_fd_unchecked(g, fd) ==
  [conn |-> [g.conn EXCEPT ![fd] = "nil"], client_number |-> g.client_number - 1]

close_fd(g, fd) ==
  IF fd \notin Kept(g) THEN g
  ELSE [conn |-> [g.conn EXCEPT ![fd] = "nil"],
        client_number |-> g.client_number - 1]

\* close_agent closes the client; MSG.close and MSG.error then close the fd.
finish(g, fd, src) ==
  LET g1 == closeclient(g, fd) IN IF src = "kick" THEN g1 ELSE close_fd(g1, fd)

(***************************************************************************)
(* socketdriver.close(fd), which closeclient calls when it drops fd: the   *)
(* engine shuts the socket and reports one more SOCKET_CLOSE, even when    *)
(* the peer was first.                                                     *)
(***************************************************************************)
DriverClose(fd) ==
  /\ sock' = [sock EXCEPT ![fd] = "shut"]
  /\ hup'  = [hup EXCEPT ![fd] = @ + 1]

-----------------------------------------------------------------------------
(* Socket events of a new or talking client.                               *)

\* MSG.open above the limit: the socket is closed, nothing is recorded.
OpenRefused(fd) ==
  /\ sock[fd] = "fresh"
  /\ gs.client_number >= MaxClient
  /\ DriverClose(fd)
  /\ UNCHANGED <<proto, gs, connection, c, task>>

\* MSG.open, then handler.connect.
Open(fd) ==
  /\ sock[fd] = "fresh"
  /\ gs.client_number < MaxClient
  /\ gs' = [conn |-> [gs.conn EXCEPT ![fd] = IF proto = "ws" THEN "shake" ELSE "open"],
            client_number |-> gs.client_number + 1]
  /\ connection' = connection \cup {fd}
  /\ c' = [c EXCEPT ![fd] = NewRecord]
  /\ sock' = [sock EXCEPT ![fd] = "open"]
  /\ UNCHANGED <<proto, task, hup>>

\* dispatch_msg: the first message is a valid websocket header.
Handshake(fd) ==
  /\ gs.conn[fd] = "shake"
  /\ gs' = [conn |-> [gs.conn EXCEPT ![fd] = "open"],
            client_number |-> gs.client_number]
  /\ UNCHANGED <<proto, connection, c, task, sock, hup>>

\* dispatch_msg: a bad or oversized header, or a packet of max_packsize.
\* gate.lua is not told: its record waits for the SOCKET_CLOSE event.
BadPacket(fd) ==
  /\ proto = "ws"
  /\ fd \in Live(gs)
  /\ gs' = closeclient(gs, fd)
  /\ DriverClose(fd)
  /\ UNCHANGED <<proto, connection, c, task>>

\* handler.message: where a packet of fd is redirected to.
Route(fd) == IF c[fd].uid # Nil THEN c[fd].agent ELSE Nil

\* The peer hangs up or the connection breaks (environment).
PeerClose(fd) ==
  /\ sock[fd] = "open"
  /\ DriverClose(fd)
  /\ UNCHANGED <<proto, gs, connection, c, task>>

-----------------------------------------------------------------------------
(* close_agent and clearAgent.  What libcenter.logout answers is ignored.  *)

\* The bug: MSG.close leaves an fd alone that gate.lua no longer knows.
CloseAnonymous_forgets(fd, src) ==
  LET known == fd \in connection
      drops == known /\ fd \in Live(gs)
  IN  /\ ~ (known /\ c[fd].uid # Nil)
      /\ gs' = IF known THEN finish(gs, fd, src) ELSE gs
      /\ sock' = IF drops THEN [sock EXCEPT ![fd] = "shut"] ELSE sock
      /\ hup' = [hup EXCEPT ![fd] = @ + (IF drops THEN 1 ELSE 0)
                                      - (IF src = "hup" THEN 1 ELSE 0)]
      /\ connection' = connection \ {fd}
      /\ UNCHANGED <<proto, c, task>>

\* No record, or nobody logged in on fd: close_agent runs to its end.
CloseAnonymous(fd, src) ==
  LET known == fd \in connection
      drops == known /\ fd \in Live(gs)
  IN  /\ ~ (known /\ c[fd].uid # Nil)
      /\ gs' = IF known THEN finish(gs, fd, src)
               ELSE IF src = "kick" THEN gs ELSE close_fd(gs, fd)
      /\ sock' = IF drops THEN [sock EXCEPT ![fd] = "shut"] ELSE sock
      /\ hup' = [hup EXCEPT ![fd] = @ + (IF drops THEN 1 ELSE 0)
                                      - (IF src = "hup" THEN 1 ELSE 0)]
      /\ connection' = connection \ {fd}
      /\ UNCHANGED <<proto, c, task>>

\* A session: suspend in libcenter.logout(c.uid, c.key).
CloseSession(t, fd, src) ==
  /\ fd \in connection /\ c[fd].uid # Nil
  /\ task[t] = Idle
  /\ task' = [task EXCEPT ![t] =
                [at |-> "logout", fd |-> fd, src |-> src, data |-> NewRecord]]
  /\ hup' = [hup EXCEPT ![fd] = @ - (IF src = "hup" THEN 1 ELSE 0)]
  /\ UNCHANGED <<proto, gs, connection, c, sock>>

close_agent(t, fd, src) == CloseAnonymous(fd, src) \/ CloseSession(t, fd, src)

\* The agent a suspended coroutine hands to libagentpool.recycle: c.agent is
\* read when logout has answered, data.agent was fixed by the call.
AgentOf(t) ==
  IF task[t].src = "register" THEN task[t].data.agent ELSE c[task[t].fd].agent

\* logout answered: call libagentpool.recycle and suspend again.  data.agent
\* becomes the argument of that call.
LogoutDone(t) ==
  /\ task[t].at = "logout"
  /\ task' = [task EXCEPT ![t].at = "recycle", ![t].data.agent = AgentOf(t)]
  /\ UNCHANGED <<proto, gs, connection, c, sock, hup>>

\* It was nil: assert(agent) fails in agentpool, the error comes back through
\* skynet.call and ends the coroutine where it stands.
RecycleRaise(t) ==
  /\ task[t].at = "recycle" /\ task[t].data.agent = Nil
  /\ task' = [task EXCEPT ![t] = Idle]
  /\ UNCHANGED <<proto, gs, connection, c, sock, hup>>

\* The bug: close_agent drops the record and leaves the client connected.
RecycleDone_keeps(t) ==
  /\ task[t].at = "recycle" /\ task[t].src # "register" /\ task[t].data.agent # Nil
  /\ c' = [c EXCEPT ![task[t].fd].agent = Nil]
  /\ connection' = connection \ {task[t].fd}
  /\ task' = [task EXCEPT ![t] = Idle]
  /\ UNCHANGED <<proto, gs, sock, hup>>

\* recycle answered in close_agent: forget the agent, close the client, drop
\* the record.
RecycleDone(t) ==
  /\ task[t].at = "recycle" /\ task[t].src # "register" /\ task[t].data.agent # Nil
  /\ LET fd == task[t].fd IN
       /\ c' = [c EXCEPT ![fd].agent = Nil]
       /\ gs' = finish(gs, fd, task[t].src)
       /\ IF fd \in Live(gs) THEN DriverClose(fd) ELSE UNCHANGED <<sock, hup>>
       /\ connection' = connection \ {fd}
  /\ task' = [task EXCEPT ![t] = Idle]
  /\ UNCHANGED proto

\* recycle answered in clearAgent: CMD.register returns false.
ClearDone(t) ==
  /\ task[t].at = "recycle" /\ task[t].src = "register"
  /\ task' = [task EXCEPT ![t] = Idle]
  /\ UNCHANGED <<proto, gs, connection, c, sock, hup>>

-----------------------------------------------------------------------------
(* The commands of the gateway and the closing socket events.              *)

\* CMD.kick, sent by the center, or by login on an unreadable packet.
kick(t, fd) == close_agent(t, fd, "kick")

\* MSG.close and MSG.error.
MsgClose(t, fd) == hup[fd] > 0 /\ close_agent(t, fd, "hup")

\* A websocket close frame: netpack reports "close" of an open socket.
CloseFrame(t, fd) ==
  /\ proto = "ws" /\ gs.conn[fd] = "open"
  /\ close_agent(t, fd, "frame")

\* The bugs: register of a record that is gone; register without the agent.
Register_unchecked(fd, data) ==
  /\ c' = [c EXCEPT ![fd] = data]
  /\ UNCHANGED <<proto, gs, connection, task, sock, hup>>

Register_no_agent(fd, data) ==
  /\ fd \in connection
  /\ c' = [c EXCEPT ![fd] = [data EXCEPT !.agent = Nil]]
  /\ UNCHANGED <<proto, gs, connection, task, sock, hup>>

\* CMD.register from login, once the center has accepted the session.
Register(fd, data) ==
  /\ fd \in connection
  /\ c' = [c EXCEPT ![fd] = data]
  /\ UNCHANGED <<proto, gs, connection, task, sock, hup>>

\* The bug: clearAgent is called without the data of register.
RegisterGone_no_data(t, fd, data) ==
  /\ fd \notin connection
  /\ task[t] = Idle
  /\ task' = [task EXCEPT ![t] = [at |-> "logout", fd |-> fd, src |-> "register", data |-> Nil]]
  /\ UNCHANGED <<proto, gs, connection, c, sock, hup>>

\* CMD.register after the client has gone: clearAgent.
RegisterGone(t, fd, data) ==
  /\ fd \notin connection
  /\ task[t] = Idle
  /\ task' = [task EXCEPT ![t] =
                [at |-> "logout", fd |-> fd, src |-> "register", data |-> data]]
  /\ UNCHANGED <<proto, gs, connection, c, sock, hup>>

-----------------------------------------------------------------------------
Session == [uid : Uid, agent : Agent, key : Key]

\* What the other services do to the gateway, in any order.
Command(t, fd) ==
  \/ sock[fd] # "fresh" /\ kick(t, fd)
  \/ \E data \in Session :
       /\ sock[fd] # "fresh"
       /\ Register(fd, data) \/ RegisterGone(t, fd, data)

Resume(t) == LogoutDone(t) \/ RecycleRaise(t) \/ RecycleDone(t) \/ ClearDone(t)

Next ==
  \/ \E fd \in Fd : OpenRefused(fd) \/ Open(fd) \/ Handshake(fd)
                    \/ BadPacket(fd) \/ PeerClose(fd)
  \/ \E fd \in Fd, t \in Task : MsgClose(t, fd) \/ CloseFrame(t, fd) \/ Command(t, fd)
  \/ \E t \in Task : Resume(t)

\* skynet delivers every socket event and every answer; the center and the
\* agent pool answer every call.  skynet always has one more coroutine for an
\* event, Task may run out of them for a while: hence strong fairness.
Fairness ==
  /\ \A fd \in Fd : SF_gateVars(\E t \in Task : MsgClose(t, fd))
  /\ \A t \in Task : WF_gateVars(Resume(t))

Spec     == Init /\ [][Next]_gateVars
FairSpec == Spec /\ Fairness

-----------------------------------------------------------------------------
TypeOK ==
  /\ proto \in {"ws", "tcp"}
  /\ gs \in [conn : [Fd -> ConnState], client_number : Int]
  /\ connection \in SUBSET Fd
  /\ c \in [Fd -> Record]
  /\ task \in [Task -> Suspended \cup {Idle}]
  /\ sock \in [Fd -> {"fresh", "open", "shut"}]
  /\ hup \in [Fd -> Nat]

(***************************************************************************)
(* client_number is exactly the number of fds the gateserver keeps, and    *)
(* never exceeds maxclient: no order of kicks, close events, close frames  *)
(* and bad packets on one fd decrements it twice or forgets to decrement   *)
(* it, in either build.                                                    *)
(***************************************************************************)
CountExact ==
  /\ gs.client_number = Cardinality(Kept(gs))
  /\ gs.client_number <= MaxClient

(***************************************************************************)
(* A packet dispatch_msg lets through finds what handler.message indexes:  *)
(* gate.lua still has the record of every live fd and, when somebody is    *)
(* logged in on it, that record names an agent, although another coroutine *)
(* may be clearing both.                                                   *)
(***************************************************************************)
Routable ==
  \A fd \in Live(gs) : fd \in connection /\ (c[fd].uid # Nil => c[fd].agent # Nil)

(***************************************************************************)
(* Every record the gateway keeps for a shut socket goes away in the end:  *)
(* close_agent cannot lose the last event of an fd, even when one of two   *)
(* coroutines closing the same fd dies on assert(agent).                   *)
(***************************************************************************)
ShutIsForgotten ==
  \A fd \in Fd : sock[fd] = "shut" ~> (fd \notin connection /\ gs.conn[fd] = "nil")
=============================================================================
