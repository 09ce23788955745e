----------------------------- MODULE LoginFlow -----------------------------
(***************************************************************************)
(* Login, relogin and logout across the services: the gateway, the login   *)
(* service, the center, the agent pool and the agents, each with its own   *)
(* module, joined by the mailboxes of skynet.                              *)
(*                                                                         *)
(* A service handles one message at a time, up to the next yield; a call   *)
(* puts a request into the mailbox of the callee and suspends the          *)
(* coroutine until the answer comes back through its own mailbox.  A chain *)
(* of calls belongs to one coroutine id t, which never has more than one   *)
(* message under way.  Waits for the database and for the launcher end at  *)
(* any time.                                                               *)
(***************************************************************************)
EXTENDS Integers, Sequences, FiniteSets

CONSTANTS
  Fd, Uid, Agent, Nil,
  LoginTask,    \* bound: login packets; each is one coroutine chain
  CloseTask,    \* bound: close events being handled at the same time
  MaxClient, MaxNum, RecyRemove,
  Plans,        \* what the clients may be up to: the values of plan
  Patient,      \* the clients that wait for the answer before they try again
  DbMayFail     \* whether loading a player may fail

Task == LoginTask \cup CloseTask
Key  == 0..(Cardinality(LoginTask) + 1)

ASSUME FlowConstants ==
  /\ LoginTask \cap CloseTask = {} /\ IsFiniteSet(LoginTask)
  /\ MaxClient \in Nat /\ MaxNum \in Nat /\ RecyRemove \in BOOLEAN
  /\ \A p \in Plans : /\ p.as \in [Fd -> SUBSET Uid]
                      /\ p.hangup \in [Fd -> SUBSET {"tcp", "frame", "bad"}]
                      /\ p.tasks \subseteq LoginTask
  /\ Patient \subseteq Fd
  /\ DbMayFail \in BOOLEAN

\* Nil and the services' addresses are values of their own.
ASSUME FlowNames ==
  /\ Agent \cap {"gate", "login", "center", "pool", "agentpool1"} = {}
  /\ Nil \notin Fd \cup Uid \cup Agent \cup Task /\ Nil \notin Nat /\ Nil # "agentpool1"
  /\ LET Rec == [fd : Fd, key : Key, agent : Agent \cup {Nil}] IN
       /\ Nil \notin Rec
       /\ Nil \notin [uid : Uid, data : Rec]
       /\ Nil \notin [uid : Uid, key : Key, from : {"gate", "login"}]
       /\ Nil \notin [cmd : {"start", "kick"}, fd : Fd \cup {Nil}, uid : Uid \cup {Nil}]

VARIABLES
  gs, connection, c, task, sock, hup,             \* GateServer
  users, logging, leaving,                        \* Center
  pool, agentlist, started, making, born, dead,   \* AgentPool
  conf, current, thread_queue, job,               \* WsAgent
  key_seq, lt,                                    \* LoginService
  mq,                                             \* the mailboxes
  plan   \* plan.as[fd]: the players the client on fd logs in as, plan.hangup[fd]:
         \* how it may leave by itself, plan.tasks: bound, the packets they send

G == INSTANCE GateServer WITH proto <- "ws"   \* as runconfig.lua says
C == INSTANCE Center
P == INSTANCE AgentPool WITH Pool <- {"agentpool1"}, Caller <- Task
A == INSTANCE WsAgent
L == INSTANCE LoginService

gateV   == <<gs, connection, c, task, sock, hup>>
centerV == <<users, logging, leaving>>
poolV   == <<pool, agentlist, started, making, born, dead>>
agentV  == <<conf, current, thread_queue, job>>
loginV  == <<key_seq, lt>>
vars    == <<gateV, centerV, poolV, agentV, loginV, mq, plan>>

Service == {"gate", "login", "center", "pool"} \cup Agent

Init ==
  /\ plan \in Plans
  /\ G!Init /\ C!CenterInit /\ P!PoolInit /\ A!AgentInit /\ L!LoginInit
  /\ mq = [s \in Service |-> <<>>]

-----------------------------------------------------------------------------
(* skynet: mailboxes, requests and answers.                                *)

Ret(t, val)             == [op |-> "ret", t |-> t, val |-> val, agent |-> Nil]
RetAgent(t, a)          == [op |-> "ret", t |-> t, val |-> "true", agent |-> a]
Packet(t, fd, u)        == [op |-> "packet", t |-> t, fd |-> fd, uid |-> u]
AskLogin(t, u, data)    == [op |-> "login", t |-> t, uid |-> u, data |-> data]
AskRegister(t, u, k, a) == [op |-> "register", t |-> t, uid |-> u, key |-> k, agent |-> a]
AskLogout(t, u, k, from) == [op |-> "logout", t |-> t, uid |-> u, key |-> k, from |-> from]
AskKick(t, fd)          == [op |-> "kick", t |-> t, fd |-> fd]
AskBind(t, fd, data)    == [op |-> "register", t |-> t, fd |-> fd, data |-> data]
AskGet(t)               == [op |-> "get", t |-> t]
AskRecycle(t, a, from)  == [op |-> "recycle", t |-> t, agent |-> a, from |-> from]
AskAgent(t, j)          == [op |-> "command", t |-> t, job |-> j]

\* s handles a message m of kind op.
Handles(s, op) == mq[s] # <<>> /\ Head(mq[s]).op = op
Eat(s)         == mq' = [mq EXCEPT ![s] = Tail(@)]
To(s, d, m)    == mq' = [mq EXCEPT ![s] = Tail(@), ![d] = Append(@, m)]
Post(d, m)     == mq' = [mq EXCEPT ![d] = Append(@, m)]

-----------------------------------------------------------------------------
(* The gateway.                                                            *)

\* A session on fd: close_agent starts by calling libcenter.logout.
Session(fd) == fd \in connection /\ c[fd].uid # Nil

\* A client connects, shakes hands, hangs up, sends what is no websocket.
GateSocket(fd) ==
  /\ \/ P!Ready /\ (G!Open(fd) \/ G!OpenRefused(fd))
     \/ G!Handshake(fd)
     \/ "tcp" \in plan.hangup[fd] /\ G!PeerClose(fd)
     \/ "bad" \in plan.hangup[fd] /\ G!BadPacket(fd)
  /\ UNCHANGED <<centerV, poolV, agentV, loginV, mq>>

\* The client on fd has asked to log in and has no answer yet.
Asking(fd) ==
  \/ \E t \in LoginTask : lt[t].fd = fd /\ lt[t].at # "done"
  \/ \E i \in 1..Len(mq["login"]) : mq["login"][i].op = "packet" /\ mq["login"][i].fd = fd

\* handler.message for a client that has not logged in: redirect to login.
\* Packets of one socket are handled before its close event.
GatePacket(t, fd, u) ==
  /\ lt[t].at = "idle" /\ u \in plan.as[fd] /\ t \in plan.tasks
  /\ fd \in Patient => ~ Asking(fd)
  /\ \A s \in Service : \A i \in 1..Len(mq[s]) : mq[s][i].t # t
  /\ gs.conn[fd] = "open" /\ (sock[fd] = "open" \/ hup[fd] > 0)
  /\ G!Route(fd) = Nil
  /\ Post("login", Packet(t, fd, u))
  /\ UNCHANGED <<gateV, centerV, poolV, agentV, loginV>>

\* close_agent for a socket event: nobody waits for its answer.
Closing(t, fd) ==
  /\ IF Session(fd) THEN Post("center", AskLogout(t, c[fd].uid, c[fd].key, "gate"))
     ELSE UNCHANGED mq
  /\ UNCHANGED <<centerV, poolV, agentV, loginV>>

GateClose(t, fd) == G!MsgClose(t, fd) /\ Closing(t, fd)
GateFrame(t, fd) == "frame" \in plan.hangup[fd] /\ G!CloseFrame(t, fd) /\ Closing(t, fd)

\* The bug: kick of an fd nobody is logged in on does not answer.
GateKick_mute ==
  /\ Handles("gate", "kick")
  /\ LET m == Head(mq["gate"]) IN
       /\ G!kick(m.t, m.fd)
       /\ IF Session(m.fd)
            THEN To("gate", "center", AskLogout(m.t, c[m.fd].uid, c[m.fd].key, "gate"))
            ELSE Eat("gate")
  /\ UNCHANGED <<centerV, poolV, agentV, loginV>>

GateKick ==
  /\ Handles("gate", "kick")
  /\ LET m == Head(mq["gate"]) IN
       /\ G!kick(m.t, m.fd)
       /\ IF Session(m.fd)
            THEN To("gate", "center", AskLogout(m.t, c[m.fd].uid, c[m.fd].key, "gate"))
            ELSE To("gate", "center", Ret(m.t, "true"))
  /\ UNCHANGED <<centerV, poolV, agentV, loginV>>

\* The bugs: register after the client has gone only says false; register does
\* not look whether the client has gone.
GateRegister_no_clear ==
  /\ Handles("gate", "register")
  /\ LET m == Head(mq["gate"]) IN
       \/ G!Register(m.fd, m.data) /\ To("gate", "login", Ret(m.t, "true"))
       \/ /\ m.fd \notin connection
          /\ To("gate", "login", Ret(m.t, "false"))
          /\ UNCHANGED gateV
  /\ UNCHANGED <<centerV, poolV, agentV, loginV>>

GateRegister_blind ==
  /\ Handles("gate", "register")
  /\ LET m == Head(mq["gate"]) IN
       /\ c' = [c EXCEPT ![m.fd] = m.data]
       /\ To("gate", "login", Ret(m.t, "true"))
  /\ UNCHANGED <<gs, connection, task, sock, hup, centerV, poolV, agentV, loginV>>

GateRegister ==
  /\ Handles("gate", "register")
  /\ LET m == Head(mq["gate"]) IN
       \/ G!Register(m.fd, m.data) /\ To("gate", "login", Ret(m.t, "true"))
       \/ /\ G!RegisterGone(m.t, m.fd, m.data)
          /\ To("gate", "center", AskLogout(m.t, m.data.uid, m.data.key, "gate"))
  /\ UNCHANGED <<centerV, poolV, agentV, loginV>>

\* What close_agent or clearAgent answers to its caller; an event has none.
GateAnswer(t, val) ==
  CASE task[t].src = "kick"     -> To("gate", "center", Ret(t, val))
    [] task[t].src = "register" -> To("gate", "login", Ret(t, val))
    [] OTHER                    -> Eat("gate")

GateResume ==
  /\ Handles("gate", "ret")
  /\ LET t == Head(mq["gate"]).t IN
       \/ G!LogoutDone(t) /\ To("gate", "pool", AskRecycle(t, G!AgentOf(t), "gate"))
       \/ G!RecycleRaise(t) /\ GateAnswer(t, "error")
       \/ G!RecycleDone(t) /\ GateAnswer(t, "true")
       \/ G!ClearDone(t) /\ GateAnswer(t, "false")
  /\ UNCHANGED <<centerV, poolV, agentV, loginV>>

-----------------------------------------------------------------------------
(* The center.                                                             *)

Bool == {"true", "false"}

CenterLogin ==
  /\ Handles("center", "login")
  /\ LET m == Head(mq["center"]) IN
       \/ \E ret \in Bool : C!login(m.uid, m.data, ret) /\ To("center", "login", Ret(m.t, ret))
       \/ /\ C!login_kick(m.t, m.uid, m.data)
          /\ To("center", "gate", AskKick(m.t, users[m.uid].fd))
  /\ UNCHANGED <<gateV, poolV, agentV, loginV>>

CenterRegister ==
  /\ Handles("center", "register")
  /\ LET m == Head(mq["center"]) IN
       \E ret \in Bool :
         C!register(m.uid, m.key, m.agent, ret) /\ To("center", "login", Ret(m.t, ret))
  /\ UNCHANGED <<gateV, poolV, agentV, loginV>>

CenterLogout ==
  /\ Handles("center", "logout")
  /\ LET m == Head(mq["center"]) IN
       \/ \E ret \in Bool : C!logout(m.uid, m.key, ret) /\ To("center", m.from, Ret(m.t, ret))
       \/ /\ C!logout_kick(m.t, m.uid, m.key, m.from)
          /\ To("center", users[m.uid].agent, AskAgent(m.t, A!Kick))
  /\ UNCHANGED <<gateV, poolV, agentV, loginV>>

\* An answer belongs to the innermost call: a login waits for gate.kick while
\* the logout that kick has asked for waits for agent.kick.
CenterResume ==
  /\ Handles("center", "ret")
  /\ LET m == Head(mq["center"]) IN
       \E ret \in Bool :
         \/ /\ leaving[m.t] # Nil
            /\ C!logout_kicked(m.t, m.val, ret)
            /\ To("center", leaving[m.t].from, Ret(m.t, ret))
         \/ /\ leaving[m.t] = Nil
            /\ C!login_kicked(m.t, m.val, ret)
            /\ To("center", "login", Ret(m.t, ret))
  /\ UNCHANGED <<gateV, poolV, agentV, loginV>>

-----------------------------------------------------------------------------
(* The agent pool.                                                         *)

PoolStart ==
  /\ \E a \in Agent : P!init_pool("agentpool1", a)
  /\ UNCHANGED <<gateV, centerV, agentV, loginV, mq>>

PoolGet ==
  /\ Handles("pool", "get")
  /\ LET t == Head(mq["pool"]).t IN
       \/ \E a \in Agent : P!get("agentpool1", a) /\ To("pool", "login", RetAgent(t, a))
       \/ P!get_new("agentpool1", t) /\ Eat("pool")
  /\ UNCHANGED <<gateV, centerV, agentV, loginV>>

PoolNew(t) ==
  /\ \E a \in Agent : P!newservice(t, a) /\ Post("login", RetAgent(t, a))
  /\ UNCHANGED <<gateV, centerV, agentV, loginV>>

PoolRecycle ==
  /\ Handles("pool", "recycle")
  /\ LET m == Head(mq["pool"]) IN
       \/ m.agent # Nil /\ P!recycle("agentpool1", m.agent) /\ To("pool", m.from, Ret(m.t, "true"))
       \/ m.agent = Nil /\ UNCHANGED poolV /\ To("pool", m.from, Ret(m.t, "error"))
  /\ UNCHANGED <<gateV, centerV, agentV, loginV>>

-----------------------------------------------------------------------------
(* The agents.                                                             *)

Caller(j) == IF j.cmd = "start" THEN "login" ELSE "center"

AgentCommand(a) ==
  /\ Handles(a, "command") /\ a \notin dead
  /\ A!Command(a, Head(mq[a]).t, Head(mq[a]).job)
  /\ Eat(a)
  /\ UNCHANGED <<gateV, centerV, poolV, loginV>>

\* A call to a killed agent raises in its caller.
AgentGone(a) ==
  /\ Handles(a, "command") /\ a \in dead
  /\ To(a, Caller(Head(mq[a]).job), Ret(Head(mq[a]).t, "error"))
  /\ UNCHANGED <<gateV, centerV, poolV, agentV, loginV>>

\* The database has answered: start or kick returns true.
AgentDone(a) ==
  /\ current[a] # Nil /\ a \notin dead
  /\ A!Leave(a)
  /\ Post(Caller(job[current[a]]), Ret(current[a], "true"))
  /\ UNCHANGED <<gateV, centerV, poolV, loginV>>

\* start: assert(data) of load_account_info fails.
AgentFail(a) ==
  /\ DbMayFail
  /\ current[a] # Nil /\ a \notin dead /\ job[current[a]].cmd = "start"
  /\ A!Leave(a)
  /\ Post("login", Ret(current[a], "error"))
  /\ UNCHANGED <<gateV, centerV, poolV, loginV>>

-----------------------------------------------------------------------------
(* The login service.                                                      *)

LoginPacket ==
  /\ Handles("login", "packet")
  /\ LET m == Head(mq["login"]) IN L!Login(m.t, m.fd, m.uid)
  /\ Eat("login")
  /\ UNCHANGED <<gateV, centerV, poolV, agentV>>

\* login_auth has asked the database.
LoginAuth(t) ==
  /\ lt[t].at = "auth"
  /\ \/ L!Goto(t, "login") /\ Post("center", AskLogin(t, lt[t].uid, C!User(lt[t].fd, lt[t].key)))
     \/ L!Done(t, "wrong_password") /\ UNCHANGED mq
  /\ UNCHANGED <<gateV, centerV, poolV, agentV>>

\* One more answer in the chain of calls of forward.login.
LoginStep(t, val, a) ==
  LET l    == lt[t]
      ok   == val = "true"
      data == [uid |-> l.uid, agent |-> l.agent, key |-> l.key]
      Ask(d, m) == To("login", d, m)
  IN
  \/ l.at = "login" /\ ok /\ L!Goto(t, "get") /\ Ask("pool", AskGet(t))
  \/ l.at = "login" /\ ~ok /\ L!Done(t, "center_fail") /\ Eat("login")
  \/ l.at = "get" /\ L!Take(t, a) /\ Ask(a, AskAgent(t, A!Start(l.fd, l.uid)))
  \/ l.at = "start" /\ ok /\ L!Goto(t, "register")
       /\ Ask("center", AskRegister(t, l.uid, l.key, l.agent))
  \/ l.at = "start" /\ ~ok /\ L!Done(t, "raised") /\ Eat("login")
  \/ l.at = "register" /\ ok /\ L!Goto(t, "gate") /\ Ask("gate", AskBind(t, l.fd, data))
  \/ l.at = "register" /\ ~ok /\ L!Undo(t, "undo_recycle", "register_center_fail")
       /\ Ask("pool", AskRecycle(t, l.agent, "login"))
  \/ l.at = "undo_recycle" /\ L!Goto(t, "undo_logout")
       /\ Ask("center", AskLogout(t, l.uid, l.key, "login"))
  \/ l.at = "gate" /\ ok /\ L!Done(t, "ok") /\ Eat("login")
  \/ l.at = "gate" /\ ~ok /\ L!Undo(t, "undo_logout", "register_gate_fail")
       /\ Ask("center", AskLogout(t, l.uid, l.key, "login"))
  \/ l.at = "undo_logout" /\ L!Done(t, l.result) /\ Eat("login")

LoginResume ==
  /\ Handles("login", "ret")
  /\ LET m == Head(mq["login"]) IN LoginStep(m.t, m.val, m.agent)
  /\ UNCHANGED <<gateV, centerV, poolV, agentV>>

-----------------------------------------------------------------------------
SamePlan   == UNCHANGED plan
GateStep   == GateKick \/ GateRegister \/ GateResume
CenterStep == CenterLogin \/ CenterRegister \/ CenterLogout \/ CenterResume
PoolStep   == PoolGet \/ PoolRecycle
LoginMsg   == LoginPacket \/ LoginResume

Next ==
  \/ \E fd \in Fd : SamePlan /\ GateSocket(fd)
  \/ \E fd \in Fd, t \in LoginTask, u \in Uid : SamePlan /\ GatePacket(t, fd, u)
  \/ \E fd \in Fd, t \in CloseTask :
       (SamePlan /\ GateClose(t, fd)) \/ (SamePlan /\ GateFrame(t, fd))
  \/ (SamePlan /\ GateKick) \/ (SamePlan /\ GateRegister) \/ (SamePlan /\ GateResume)
  \/ (SamePlan /\ CenterLogin) \/ (SamePlan /\ CenterRegister)
  \/ (SamePlan /\ CenterLogout) \/ (SamePlan /\ CenterResume)
  \/ (SamePlan /\ PoolStart) \/ (SamePlan /\ PoolGet) \/ (SamePlan /\ PoolRecycle)
  \/ (SamePlan /\ LoginPacket) \/ (SamePlan /\ LoginResume)
  \/ \E t \in LoginTask : (SamePlan /\ LoginAuth(t)) \/ (SamePlan /\ PoolNew(t))
  \/ \E a \in Agent : \/ (SamePlan /\ AgentCommand(a)) \/ (SamePlan /\ AgentGone(a))
                      \/ (SamePlan /\ AgentDone(a)) \/ (SamePlan /\ AgentFail(a))

(***************************************************************************)
(* skynet's workers serve every mailbox that is not empty, the database    *)
(* and the launcher answer, the socket thread delivers its events.         *)
(* Clients owe nothing.  Strong fairness for close events: skynet always   *)
(* has a coroutine for one, CloseTask may run out of them for a while.     *)
(***************************************************************************)
Fairness ==
  /\ WF_vars(GateStep /\ SamePlan) /\ WF_vars(CenterStep /\ SamePlan)
  /\ WF_vars(PoolStep /\ SamePlan) /\ WF_vars(LoginMsg /\ SamePlan)
  /\ \A a \in Agent : /\ WF_vars((AgentCommand(a) \/ AgentGone(a)) /\ SamePlan)
                      /\ WF_vars(AgentDone(a) /\ SamePlan)
  /\ \A t \in LoginTask : WF_vars(LoginAuth(t) /\ SamePlan) /\ WF_vars(PoolNew(t) /\ SamePlan)
  /\ \A fd \in Fd : SF_vars((\E t \in CloseTask : GateClose(t, fd)) /\ SamePlan)

Spec     == Init /\ [][Next]_vars
FairSpec == Spec /\ Fairness
-----------------------------------------------------------------------------
TypeOK ==
  /\ G!TypeOK /\ C!CenterType /\ P!PoolType /\ A!AgentType /\ L!LoginType
  /\ DOMAIN mq = Service
  /\ \A s \in Service : \A i \in 1..Len(mq[s]) : mq[s][i].t \in Task

(***************************************************************************)
(* The gateway inside the whole system behaves as GateServer says: every   *)
(* order in which center, login and pool call it is one GateServer allows, *)
(* so the theorems about GateServer hold here too.                         *)
(***************************************************************************)
GateRefined == G!Spec

\* The places agent a is held in: positions in the pool, players online.
Idle(a)   == {i \in 1..Len(pool["agentpool1"]) : pool["agentpool1"][i] = a}
Online(a) == {u \in Uid : users[u] # Nil /\ users[u].agent = a}

(***************************************************************************)
(* A player that is online has an agent of its own: a live service that no *)
(* other player has and that the pool will not hand out (README: the agent *)
(* is 1:1), whatever kicks, hangups and logins overlap.                    *)
(***************************************************************************)
AgentExclusive ==
  \A a \in Agent : Online(a) # {} =>
    a \notin dead /\ Idle(a) = {} /\ Cardinality(Online(a)) = 1

(***************************************************************************)
(* The center refuses a player whose record has no agent, taking it for a  *)
(* login under way (center/login.lua).  There always is that login: a      *)
(* coroutine with the same key that has still to register.                 *)
(***************************************************************************)
RecordMeansLogin ==
  /\ TypeOK
  /\ \A u \in Uid : (users[u] # Nil /\ users[u].agent = Nil) =>
       \E t \in LoginTask :
         /\ lt[t].uid = u /\ lt[t].key = users[u].key
         /\ lt[t].at \in {"login", "get", "start", "register"}

\* No coroutine is inside a handler and no message is under way.
Quiet ==
  /\ \A s \in Service : mq[s] = <<>>
  /\ \A t \in Task : task[t].at = "idle" /\ lt[t].at \in {"idle", "done"} /\ making[t] = Nil
  /\ \A a \in Agent : current[a] = Nil
  /\ \A fd \in Fd : hup[fd] = 0

(***************************************************************************)
(* Whenever the system comes to rest, the services agree: the center's     *)
(* records are the sessions of the gateway, with the same key and agent,   *)
(* and every agent alive is idle in the pool once or serves one player;    *)
(* no path of login, logout or undo loses an agent or a session.           *)
(***************************************************************************)
AtRest ==
  Quiet =>
    /\ \A u \in Uid : users[u] # Nil =>
         /\ users[u].fd \in connection
         /\ c[users[u].fd] = [uid |-> u, agent |-> users[u].agent, key |-> users[u].key]
    /\ \A fd \in connection : c[fd].uid # Nil =>
         users[c[fd].uid] = [fd |-> fd, key |-> c[fd].key, agent |-> c[fd].agent]
    /\ \A a \in born \ dead : Cardinality(Idle(a)) + Cardinality(Online(a)) = 1

(***************************************************************************)
(* A logout removes only the record it was called for: the key, which      *)
(* "validates the uniqueness of the login" (center/login.lua), still       *)
(* matches when agent.kick has answered and the record is deleted.         *)
(***************************************************************************)
KeyGuardsLogout ==
  [][\A t \in Task : (leaving[t] # Nil /\ leaving'[t] = Nil) =>
        LET u == leaving[t].uid IN
        (users[u] # Nil /\ users'[u] = Nil) => users[u].key = leaving[t].key]_vars

(***************************************************************************)
(* Every login the gateway has passed on comes to its end: the chain of    *)
(* calls through center, gateway, pool and agent never waits in a circle   *)
(* nor for an answer that is lost.                                         *)
(***************************************************************************)
LoginEnds == []<>(\A fd \in Fd : ~ Asking(fd))

(***************************************************************************)
(* When a client is gone its player goes offline for good, even when the   *)
(* client left in the middle of its own login.  (A socket that is shut     *)
(* stays so.)                                                              *)
(***************************************************************************)
GoneIsOffline ==
  <>[](\A fd \in Fd : sock[fd] = "shut" => \A u \in Uid : users[u] # Nil => users[u].fd # fd)
=============================================================================
