-------------------------- MODULE LoginFlowProofs --------------------------
(* Proofs about LoginFlow, for any number of clients, players, agents and    *)
(* logins, whatever the clients do and whether the database fails or not:    *)
(* the gateway inside the system behaves as GateServer says.                 *)
EXTENDS LoginFlow, FiniteSetTheorems, SequenceTheorems, TLAPS

\* The theorems about the gateway.
GP == INSTANCE GateServerProofs WITH proto <- "ws"

-----------------------------------------------------------------------------
(* Messages. *)

Value == {"true", "false", "error"}
From  == {"gate", "login"}
User  == [fd : Fd, key : Key, agent : Agent \cup {Nil}]
Job   == {A!Start(fd, u) : fd \in Fd, u \in Uid} \cup {A!Kick}

Answer   == [op : {"ret"}, t : Task, val : Value, agent : Agent \cup {Nil}]
ToLogin  == [op : {"packet"}, t : Task, fd : Fd, uid : Uid]
ToCenter ==
  [op : {"login"}, t : Task, uid : Uid, data : User]
  \cup [op : {"register"}, t : Task, uid : Uid, key : Key, agent : Agent]
  \cup [op : {"logout"}, t : Task, uid : Uid, key : Key, from : From]
ToGate   ==
  [op : {"kick"}, t : Task, fd : Fd] \cup [op : {"register"}, t : Task, fd : Fd, data : G!Session]
ToPool   ==
  [op : {"get"}, t : Task] \cup [op : {"recycle"}, t : Task, agent : Agent \cup {Nil}, from : From]
ToAgent  == [op : {"command"}, t : Task, job : Job]
Message  == Answer \cup ToLogin \cup ToCenter \cup ToGate \cup ToPool \cup ToAgent

Mail == mq \in [Service -> Seq(Message)]

\* A chain of calls has one message under way at most.
One ==
  \A s, d \in Service : \A i \in DOMAIN mq[s], j \in DOMAIN mq[d] :
    mq[s][i].t = mq[d][j].t => s = d /\ i = j

Absent(t) == \A s \in Service : \A i \in DOMAIN mq[s] : mq[s][i].t # t

-----------------------------------------------------------------------------
(* The stack of calls of a chain: the login service below, then the login of *)
(* the center, close_agent or clearAgent of the gateway, the logout of the   *)
(* center and a command of an agent.                                         *)

Known(fd) == fd \in Fd /\ sock[fd] # "fresh"

\* Nobody is in between: the login service (or nobody) is the caller.
Bottom(t) == task[t] = G!Idle /\ logging[t] = Nil /\ leaving[t] = Nil

Asked(t, at) == lt[t].at = at /\ Bottom(t)

\* The caller of a logout or a recycle.
Calls(t, from, what) ==
  \/ from = "gate" /\ task[t] # G!Idle /\ task[t].at = what
  \/ /\ from = "login" /\ task[t] = G!Idle /\ logging[t] = Nil
     /\ lt[t].at = IF what = "logout" THEN "undo_logout" ELSE "undo_recycle"

Works(t, j) ==
  \/ j.cmd = "start" /\ Asked(t, "start")
  \/ j.cmd = "kick" /\ leaving[t] # Nil

Waits == {"login", "get", "start", "register", "gate", "undo_recycle", "undo_logout"}

\* A message in the mailbox of s is what the state of its chain allows.
LoginMail(x) ==
  \/ x \in ToLogin /\ x.t \in LoginTask /\ Known(x.fd) /\ Asked(x.t, "idle")
  \/ x \in Answer /\ Bottom(x.t) /\ lt[x.t].at \in Waits
       /\ (lt[x.t].at = "get" => x.agent \in Agent)
CenterMail(x) ==
  \/ /\ x.op = "login" /\ Asked(x.t, "login")
     /\ x.uid = lt[x.t].uid /\ x.data = C!User(lt[x.t].fd, lt[x.t].key)
  \/ /\ x.op = "register" /\ Asked(x.t, "register")
     /\ x.uid = lt[x.t].uid /\ x.key = lt[x.t].key /\ x.agent = lt[x.t].agent
  \/ x.op = "logout" /\ x \in ToCenter /\ leaving[x.t] = Nil /\ Calls(x.t, x.from, "logout")
  \/ x \in Answer /\ (leaving[x.t] # Nil \/ (task[x.t] = G!Idle /\ logging[x.t] # Nil))
GateMail(x) ==
  \/ x.op = "kick" /\ Known(x.fd) /\ leaving[x.t] = Nil /\ task[x.t] = G!Idle /\ logging[x.t] # Nil
  \/ /\ x.op = "register" /\ Asked(x.t, "gate") /\ x.fd = lt[x.t].fd
     /\ x.data = [uid |-> lt[x.t].uid, agent |-> lt[x.t].agent, key |-> lt[x.t].key]
  \/ x \in Answer /\ task[x.t] # G!Idle /\ leaving[x.t] = Nil
PoolMail(x) ==
  \/ x.op = "get" /\ Asked(x.t, "get")
  \/ x.op = "recycle" /\ x \in ToPool /\ leaving[x.t] = Nil /\ Calls(x.t, x.from, "recycle")
AgentMail(x) == x \in ToAgent /\ Works(x.t, x.job)

Fits(s, x) ==
  \/ s = "login" /\ LoginMail(x)
  \/ s = "center" /\ CenterMail(x)
  \/ s = "gate" /\ GateMail(x)
  \/ s = "pool" /\ PoolMail(x)
  \/ s \in Agent /\ AgentMail(x)

In(s, x) == \E i \in DOMAIN mq[s] : mq[s][i] = x

AllFit == \A s \in Service : \A x \in Message : In(s, x) => Fits(s, x)

\* What the levels of the stack say of each other; a coroutine that waits for
\* the launcher or inside an agent has no message under way.
Level(t) ==
  /\ task[t] # G!Idle =>
       \/ task[t].src = "kick" /\ logging[t] # Nil
       \/ task[t].src = "register" /\ lt[t].at = "gate" /\ logging[t] = Nil
       \/ task[t].src \in {"hup", "frame"} /\ t \in CloseTask
  /\ logging[t] # Nil => lt[t].at = "login"
  /\ leaving[t] # Nil => Calls(t, leaving[t].from, "logout")
  /\ making[t] # Nil => Asked(t, "get") /\ Absent(t)
  /\ job[t] # Nil => Works(t, job[t]) /\ Absent(t)
  /\ lt[t].at \in {"auth", "done"} => Bottom(t) /\ Absent(t)

\* What a login knows.
Knows(t) ==
  /\ lt[t].at # "idle" => /\ t \in LoginTask /\ Known(lt[t].fd)
                          /\ lt[t].uid \in Uid /\ lt[t].key \in 0 .. key_seq
  /\ lt[t].at \in {"start", "register", "gate", "undo_recycle", "undo_logout"} =>
       lt[t].agent \in Agent

Stacks == \A t \in Task : Level(t) /\ Knows(t)

\* The critical section of an agent: who is in it or waits for it has a command.
Section ==
  /\ \A a \in Agent : current[a] # Nil => job[current[a]] # Nil
  /\ \A a \in Agent : \A i \in DOMAIN thread_queue[a] : job[thread_queue[a][i]] # Nil
  /\ \A a, b \in Agent : current[a] # Nil /\ current[a] = current[b] => a = b
  /\ \A a, b \in Agent : \A i \in DOMAIN thread_queue[b] : current[a] # thread_queue[b][i]
  /\ \A a, b \in Agent : \A i \in DOMAIN thread_queue[a], j \in DOMAIN thread_queue[b] :
       thread_queue[a][i] = thread_queue[b][j] => a = b /\ i = j

\* Keys are those given out; whoever is in a table has been connected.
Numbered ==
  key_seq = 1 + Cardinality({t \in LoginTask : lt[t].at # "idle"})
RecordKeys == \A fd \in Fd : c[fd].uid # Nil => c[fd].key \in Key
Entered ==
  /\ \A u \in Uid : users[u] # Nil => Known(users[u].fd)
  /\ \A t \in Task : logging[t] # Nil => Known(logging[t].data.fd)
  /\ RecordKeys

Types == C!CenterType /\ P!PoolType /\ A!AgentType /\ L!LoginType

\* The parts that speak of chains, and all of it.
Chains == Mail /\ One /\ AllFit /\ Stacks

IInv == GP!IInv /\ Types /\ Chains /\ Section /\ Numbered /\ Entered

-----------------------------------------------------------------------------
(* Mailboxes. *)

LEMMA MessageChain == \A m \in Message : m.t \in Task
  BY ZenonT(60) DEF Message, Answer, ToLogin, ToCenter, ToGate, ToPool, ToAgent

\* The messages of the other chains were there before.
Carried(t) ==
  \A z \in Service : \A i \in DOMAIN mq'[z] :
    mq'[z][i].t # t => \E j \in DOMAIN mq[z] : mq'[z][i] = mq[z][j]

\* The message m in the mailbox of d is all there is of its chain.
Sent(d, m) ==
  /\ Mail' /\ One' /\ Carried(m.t)
  /\ \A z \in Service : \A i \in DOMAIN mq'[z] : mq'[z][i].t = m.t => z = d /\ mq'[z][i] = m

Eaten(t) == Mail' /\ One' /\ Carried(t) /\ Absent(t)'

LEMMA OneKept ==
  ASSUME One, Mail', NEW t, NEW d, NEW n, NEW o \in [Service -> {0, 1}],
         \A z \in Service : \A i \in DOMAIN mq'[z] :
           \/ /\ mq'[z][i].t # t /\ i + o[z] \in DOMAIN mq[z]
              /\ mq'[z][i] = mq[z][i + o[z]]
           \/ mq'[z][i].t = t /\ z = d /\ i = n
  PROVE  One' /\ Carried(t)
<1>1. ASSUME NEW y \in Service, NEW z \in Service, NEW i \in DOMAIN mq'[y], NEW j \in DOMAIN mq'[z],
             mq'[y][i].t = mq'[z][j].t
      PROVE  y = z /\ i = j
  <2>1. CASE mq'[y][i].t = t
    BY <1>1, <2>1
  <2>2. CASE mq'[y][i].t # t
    <3>1. /\ i + o[y] \in DOMAIN mq[y] /\ mq'[y][i] = mq[y][i + o[y]]
          /\ j + o[z] \in DOMAIN mq[z] /\ mq'[z][j] = mq[z][j + o[z]]
      BY <1>1, <2>2
    <3>2. y = z /\ i + o[y] = j + o[z]
      BY <1>1, <3>1 DEF One
    <3>3. i \in Int /\ j \in Int /\ o[y] \in Int
      BY DEF Mail
    <3> QED
      BY <3>2, <3>3
  <2> QED
    BY <2>1, <2>2
<1>2. One'
  BY <1>1 DEF One
<1> QED
  BY <1>2 DEF Carried

LEMMA HeadOnly ==
  ASSUME Mail, One, NEW s \in Service, mq[s] # << >>
  PROVE  /\ 1 \in DOMAIN mq[s] /\ Head(mq[s]) = mq[s][1] /\ Head(mq[s]) \in Message
         /\ \A z \in Service : \A j \in DOMAIN mq[z] :
              (z # s \/ j # 1) => mq[z][j].t # Head(mq[s]).t
<1>1. mq[s] \in Seq(Message)
  BY DEF Mail
<1>2. 1 \in DOMAIN mq[s] /\ Head(mq[s]) = mq[s][1] /\ Head(mq[s]) \in Message
  BY <1>1
<1> QED
  BY <1>2 DEF One

LEMMA TailFacts ==
  ASSUME NEW q \in Seq(Message), q # << >>
  PROVE  /\ Tail(q) \in Seq(Message)
         /\ \A i \in DOMAIN Tail(q) : i \in Int /\ i + 1 \in DOMAIN q /\ i + 1 # 1 /\ Tail(q)[i] = q[i + 1]
  OBVIOUS

LEMMA AppendFacts ==
  ASSUME NEW q \in Seq(Message), NEW m \in Message
  PROVE  /\ Append(q, m) \in Seq(Message)
         /\ \A i \in DOMAIN Append(q, m) : i \in Int /\ (i = Len(q) + 1 \/ i + 0 \in DOMAIN q)
         /\ Append(q, m)[Len(q) + 1] = m
         /\ \A i \in DOMAIN q : i \in Int /\ i + 0 = i /\ Append(q, m)[i] = q[i]
  OBVIOUS

LEMMA MailTo ==
  ASSUME Mail, One, NEW s \in Service, NEW d \in Service, s # d, mq[s] # << >>,
         NEW m \in Message, m.t = Head(mq[s]).t, To(s, d, m)
  PROVE  Sent(d, m)
<1> DEFINE n == Len(mq[d]) + 1
           o == [z \in Service |-> IF z = s THEN 1 ELSE 0]
           t == m.t
<1>1. \A z \in Service : mq[z] \in Seq(Message)
  BY DEF Mail
<1>2. /\ mq' = [z \in Service |-> mq'[z]]
      /\ mq'[s] = Tail(mq[s]) /\ mq'[d] = Append(mq[d], m)
      /\ \A z \in Service : z # s /\ z # d => mq'[z] = mq[z]
  BY DEF Mail, To
<1>3. Mail'
  <2>1. mq'[s] \in Seq(Message)
    BY <1>1, <1>2, TailFacts
  <2>2. mq'[d] \in Seq(Message)
    BY <1>1, <1>2, AppendFacts
  <2>3. \A z \in Service : mq'[z] \in Seq(Message)
    BY <1>1, <1>2, <2>1, <2>2
  <2> QED
    BY <1>2, <2>3 DEF Mail
<1>4. \A z \in Service : \A j \in DOMAIN mq[z] : (z # s \/ j # 1) => mq[z][j].t # t
  BY HeadOnly
<1> HIDE DEF t, n, o
<1>5. ASSUME NEW z \in Service, NEW i \in DOMAIN mq'[z]
      PROVE  \/ /\ mq'[z][i].t # t /\ i + o[z] \in DOMAIN mq[z]
                /\ mq'[z][i] = mq[z][i + o[z]]
             \/ mq'[z][i].t = t /\ z = d /\ i = n /\ mq'[z][i] = m
  <2>1. CASE z = s
    <3>1. o[z] = 1
      BY <2>1 DEF o
    <3>2. i + 1 \in DOMAIN mq[z] /\ i + 1 # 1 /\ mq'[z][i] = mq[z][i + 1]
      <4> DEFINE q == mq[z]
      <4>1. q \in Seq(Message) /\ q # << >> /\ mq'[z] = Tail(q)
        BY <1>1, <1>2, <2>1
      <4> HIDE DEF q
      <4>2. i + 1 \in DOMAIN q /\ i + 1 # 1 /\ Tail(q)[i] = q[i + 1]
        BY <4>1, TailFacts
      <4> QED
        BY <4>1, <4>2 DEF q
    <3> QED
      BY <1>4, <3>1, <3>2
  <2>2. CASE z # s
    <3>1. o[z] = 0
      BY <2>2 DEF o
    <3>2. CASE z = d
      <4>1. mq'[z] = Append(mq[z], m) /\ n = Len(mq[z]) + 1
        BY <1>2, <3>2 DEF n
      <4>2. CASE i = n
        <5>1. mq'[z][i] = m
          BY <1>1, <4>1, <4>2, AppendFacts
        <5> QED
          BY <3>2, <4>2, <5>1 DEF t
      <4>3. CASE i # n
        <5>1. i + 0 \in DOMAIN mq[z] /\ i + 0 = i
          BY <1>1, <4>1, <4>3, AppendFacts
        <5>2. mq'[z][i] = mq[z][i]
          BY <1>1, <4>1, <5>1, AppendFacts
        <5> QED
          BY <1>4, <2>2, <3>1, <5>1, <5>2
      <4> QED
        BY <4>2, <4>3
    <3>3. CASE z # d
      <4>1. mq'[z] = mq[z]
        BY <1>2, <2>2, <3>3
      <4>2. i \in Int
        BY <1>1, <4>1
      <4> QED
        BY <1>4, <2>2, <3>1, <4>1, <4>2
    <3> QED
      BY <3>2, <3>3
  <2> QED
    BY <2>1, <2>2
<1>6. o \in [Service -> {0, 1}]
  BY DEF o
<1>7. \A z \in Service : \A i \in DOMAIN mq'[z] :
        \/ /\ mq'[z][i].t # t /\ i + o[z] \in DOMAIN mq[z]
           /\ mq'[z][i] = mq[z][i + o[z]]
        \/ mq'[z][i].t = t /\ z = d /\ i = n
  BY <1>5
<1>8. One' /\ Carried(t)
  BY SMTT(60), <1>3, <1>6, <1>7, OneKept
<1> QED
  BY <1>3, <1>5, <1>8 DEF Sent, t

LEMMA MailEat ==
  ASSUME Mail, One, NEW s \in Service, mq[s] # << >>, NEW t, t = Head(mq[s]).t, Eat(s)
  PROVE  Eaten(t)
<1> DEFINE o == [z \in Service |-> IF z = s THEN 1 ELSE 0]
<1>1. \A z \in Service : mq[z] \in Seq(Message)
  BY DEF Mail
<1>2. /\ mq' = [z \in Service |-> mq'[z]]
      /\ mq'[s] = Tail(mq[s]) /\ \A z \in Service : z # s => mq'[z] = mq[z]
  BY DEF Mail, Eat
<1>3. Mail'
  <2>1. \A z \in Service : mq'[z] \in Seq(Message)
    BY <1>1, <1>2, TailFacts
  <2> QED
    BY <1>2, <2>1 DEF Mail
<1>4. \A z \in Service : \A j \in DOMAIN mq[z] : (z # s \/ j # 1) => mq[z][j].t # t
  BY HeadOnly
<1> HIDE DEF o
<1>5. ASSUME NEW z \in Service, NEW i \in DOMAIN mq'[z]
      PROVE  /\ mq'[z][i].t # t /\ i + o[z] \in DOMAIN mq[z]
             /\ mq'[z][i] = mq[z][i + o[z]]
  <2>1. CASE z = s
    <3>1. o[z] = 1
      BY <2>1 DEF o
    <3>2. i + 1 \in DOMAIN mq[z] /\ i + 1 # 1 /\ mq'[z][i] = mq[z][i + 1]
      <4> DEFINE q == mq[z]
      <4>1. q \in Seq(Message) /\ q # << >> /\ mq'[z] = Tail(q)
        BY <1>1, <1>2, <2>1
      <4> HIDE DEF q
      <4>2. i + 1 \in DOMAIN q /\ i + 1 # 1 /\ Tail(q)[i] = q[i + 1]
        BY <4>1, TailFacts
      <4> QED
        BY <4>1, <4>2 DEF q
    <3> QED
      BY <1>4, <3>1, <3>2
  <2>2. CASE z # s
    <3>1. o[z] = 0 /\ mq'[z] = mq[z]
      BY <1>2, <2>2 DEF o
    <3>2. i \in Int
      BY <1>1, <3>1
    <3> QED
      BY <1>4, <2>2, <3>1, <3>2
  <2> QED
    BY <2>1, <2>2
<1>6. o \in [Service -> {0, 1}]
  BY DEF o
<1>7. One' /\ Carried(t)
  BY <1>3, <1>5, <1>6, OneKept
<1> QED
  BY <1>3, <1>5, <1>7 DEF Eaten, Absent

LEMMA MailPost ==
  ASSUME Mail, One, NEW d \in Service, NEW m \in Message, Absent(m.t), Post(d, m)
  PROVE  Sent(d, m)
<1> DEFINE n == Len(mq[d]) + 1
           o == [z \in Service |-> 0]
           t == m.t
<1>1. \A z \in Service : mq[z] \in Seq(Message)
  BY DEF Mail
<1>2. /\ mq' = [z \in Service |-> mq'[z]]
      /\ mq'[d] = Append(mq[d], m) /\ \A z \in Service : z # d => mq'[z] = mq[z]
  BY DEF Mail, Post
<1>3. Mail'
  <2>1. \A z \in Service : mq'[z] \in Seq(Message)
    BY <1>1, <1>2, AppendFacts
  <2> QED
    BY <1>2, <2>1 DEF Mail
<1>4. \A z \in Service : \A j \in DOMAIN mq[z] : mq[z][j].t # t
  BY DEF Absent
<1> HIDE DEF t, n, o
<1>5. ASSUME NEW z \in Service, NEW i \in DOMAIN mq'[z]
      PROVE  \/ /\ mq'[z][i].t # t /\ i + o[z] \in DOMAIN mq[z]
                /\ mq'[z][i] = mq[z][i + o[z]]
             \/ mq'[z][i].t = t /\ z = d /\ i = n /\ mq'[z][i] = m
  <2>1. o[z] = 0
    BY DEF o
  <2>2. CASE z = d
    <3>1. mq'[z] = Append(mq[z], m) /\ n = Len(mq[z]) + 1
      BY <1>2, <2>2 DEF n
    <3>2. CASE i = n
      <4>1. mq'[z][i] = m
        BY <1>1, <3>1, <3>2, AppendFacts
      <4> QED
        BY <2>2, <3>2, <4>1 DEF t
    <3>3. CASE i # n
      <4>1. i + 0 \in DOMAIN mq[z] /\ i + 0 = i
        BY <1>1, <3>1, <3>3, AppendFacts
      <4>2. mq'[z][i] = mq[z][i]
        BY <1>1, <3>1, <4>1, AppendFacts
      <4> QED
        BY <1>4, <2>1, <4>1, <4>2
    <3> QED
      BY <3>2, <3>3
  <2>3. CASE z # d
    <3>1. mq'[z] = mq[z]
      BY <1>2, <2>3
    <3>2. i \in Int
      BY <1>1, <3>1
    <3> QED
      BY <1>4, <2>1, <3>1, <3>2
  <2> QED
    BY <2>2, <2>3
<1>6. o \in [Service -> {0, 1}]
  BY DEF o
<1>7. \A z \in Service : \A i \in DOMAIN mq'[z] :
        \/ /\ mq'[z][i].t # t /\ i + o[z] \in DOMAIN mq[z]
           /\ mq'[z][i] = mq[z][i + o[z]]
        \/ mq'[z][i].t = t /\ z = d /\ i = n
  BY <1>5
<1>8. One' /\ Carried(t)
  BY <1>3, <1>6, <1>7, OneKept
<1> QED
  BY <1>3, <1>5, <1>8 DEF Sent, t

-----------------------------------------------------------------------------
(* A step of one chain leaves the others where they are. *)

Others(t) ==
  \A u \in Task : u # t =>
    /\ lt'[u] = lt[u] /\ task'[u] = task[u] /\ logging'[u] = logging[u]
    /\ leaving'[u] = leaving[u] /\ making'[u] = making[u] /\ job'[u] = job[u]

\* Sockets are opened once, keys count up.
Grown ==
  /\ \A fd \in Fd : sock[fd] # "fresh" => sock'[fd] # "fresh"
  /\ 0 .. key_seq \subseteq 0 .. key_seq'

LEMMA FitsKept ==
  ASSUME NEW t, Others(t), Grown, NEW s, NEW x, x.t \in Task, x.t # t, Fits(s, x)
  PROVE  Fits(s, x)'
<1> DEFINE u == x.t
<1>1. /\ lt'[u] = lt[u] /\ task'[u] = task[u] /\ logging'[u] = logging[u]
      /\ leaving'[u] = leaving[u] /\ making'[u] = making[u] /\ job'[u] = job[u]
  BY DEF Others
<1>2. \A fd : Known(fd) => Known(fd)'
  BY DEF Known, Grown
<1>3. Bottom(u)' <=> Bottom(u)
  BY <1>1 DEF Bottom
<1>4. \A at : Asked(u, at)' <=> Asked(u, at)
  BY <1>1, <1>3 DEF Asked
<1>5. \A from, what : Calls(u, from, what)' <=> Calls(u, from, what)
  BY <1>1 DEF Calls
<1>6. \A j : Works(u, j)' <=> Works(u, j)
  BY <1>1, <1>4 DEF Works
<1>7. LoginMail(x) => LoginMail(x)'
  BY <1>1, <1>2, <1>3, <1>4 DEF LoginMail
<1>8. CenterMail(x) => CenterMail(x)'
  BY <1>1, <1>4, <1>5 DEF CenterMail
<1>9. GateMail(x) => GateMail(x)'
  BY <1>1, <1>2, <1>4 DEF GateMail
<1>10. PoolMail(x) => PoolMail(x)'
  BY <1>1, <1>4, <1>5 DEF PoolMail
<1>11. AgentMail(x) => AgentMail(x)'
  BY <1>6 DEF AgentMail
<1> QED
  BY <1>7, <1>8, <1>9, <1>10, <1>11 DEF Fits

LEMMA AbsentKept ==
  ASSUME NEW t, Carried(t), NEW u, u # t, Absent(u)
  PROVE  Absent(u)'
  BY DEF Carried, Absent

LEMMA StackKept ==
  ASSUME NEW t, Others(t), Grown, NEW u \in Task, u # t, Level(u), Knows(u), Absent(u) => Absent(u)'
  PROVE  Level(u)' /\ Knows(u)'
<1>1. /\ lt'[u] = lt[u] /\ task'[u] = task[u] /\ logging'[u] = logging[u]
      /\ leaving'[u] = leaving[u] /\ making'[u] = making[u] /\ job'[u] = job[u]
  BY DEF Others
<1>2. \A fd : Known(fd) => Known(fd)'
  BY DEF Known, Grown
<1>3. Bottom(u)' <=> Bottom(u)
  BY <1>1 DEF Bottom
<1>4. \A at : Asked(u, at)' <=> Asked(u, at)
  BY <1>1, <1>3 DEF Asked
<1>5. \A from, what : Calls(u, from, what)' <=> Calls(u, from, what)
  BY <1>1 DEF Calls
<1>6. \A j : Works(u, j)' <=> Works(u, j)
  BY <1>1, <1>4 DEF Works
<1>7. Level(u)'
  BY <1>1, <1>3, <1>4, <1>5, <1>6 DEF Level
<1>8. Knows(u)'
  BY <1>1, <1>2 DEF Knows, Grown
<1> QED
  BY <1>7, <1>8

LEMMA SentStep ==
  ASSUME Chains, Grown, NEW t \in Task, Others(t), NEW d \in Service, NEW m, m.t = t, Sent(d, m),
         Fits(d, m)', Level(t)', Knows(t)'
  PROVE  Chains'
<1>1. Mail' /\ One' /\ Carried(t)
  BY DEF Sent
<1>2. ASSUME NEW z \in Service, NEW x \in Message, In(z, x)' PROVE Fits(z, x)'
  <2>1. CASE x.t = t
    BY <1>2, <2>1 DEF Sent, In
  <2>2. CASE x.t # t
    <3>1. In(z, x)
      BY <1>1, <1>2, <2>2 DEF Carried, In
    <3>2. Fits(z, x) /\ x.t \in Task
      BY <3>1, MessageChain DEF Chains, AllFit
    <3> QED
      BY <2>2, <3>2, FitsKept
  <2> QED
    BY <2>1, <2>2
<1>3. AllFit'
  BY <1>2 DEF AllFit
<1>4. ASSUME NEW u \in Task, u # t PROVE Level(u)' /\ Knows(u)'
  <2>1. Level(u) /\ Knows(u)
    BY DEF Chains, Stacks
  <2> QED
    BY <1>1, <1>4, <2>1, AbsentKept, StackKept
<1>5. Stacks'
  BY <1>4 DEF Stacks
<1> QED
  BY <1>1, <1>3, <1>5 DEF Chains

LEMMA EatenStep ==
  ASSUME Chains, Grown, NEW t \in Task, Others(t), Eaten(t), Level(t)', Knows(t)'
  PROVE  Chains'
<1>1. Mail' /\ One' /\ Carried(t) /\ Absent(t)'
  BY DEF Eaten
<1>2. ASSUME NEW z \in Service, NEW x \in Message, In(z, x)' PROVE Fits(z, x)'
  <2>1. x.t # t
    BY <1>1, <1>2 DEF Absent, In
  <2>2. In(z, x)
    BY <1>1, <1>2, <2>1 DEF Carried, In
  <2>3. Fits(z, x) /\ x.t \in Task
    BY <2>2, MessageChain DEF Chains, AllFit
  <2> QED
    BY <2>1, <2>3, FitsKept
<1>3. AllFit'
  BY <1>2 DEF AllFit
<1>4. ASSUME NEW u \in Task, u # t PROVE Level(u)' /\ Knows(u)'
  <2>1. Level(u) /\ Knows(u)
    BY DEF Chains, Stacks
  <2> QED
    BY <1>1, <1>4, <2>1, AbsentKept, StackKept
<1>5. Stacks'
  BY <1>4 DEF Stacks
<1> QED
  BY <1>1, <1>3, <1>5 DEF Chains

\* No message is taken or sent.
LEMMA QuietStep ==
  ASSUME Chains, Grown, NEW t, Others(t), Absent(t), mq' = mq, t \in Task => Level(t)' /\ Knows(t)'
  PROVE  Chains'
<1>1. Mail' /\ One' /\ (\A u : Absent(u)' <=> Absent(u))
  BY DEF Chains, Mail, One, Absent
<1>2. ASSUME NEW z \in Service, NEW x \in Message, In(z, x)' PROVE Fits(z, x)'
  <2>1. In(z, x) /\ x.t # t
    BY <1>2 DEF Absent, In
  <2>2. Fits(z, x) /\ x.t \in Task
    BY <2>1, MessageChain DEF Chains, AllFit
  <2> QED
    BY <2>1, <2>2, FitsKept
<1>3. AllFit'
  BY <1>2 DEF AllFit
<1>4. ASSUME NEW u \in Task, u # t PROVE Level(u)' /\ Knows(u)'
  <2>1. Level(u) /\ Knows(u)
    BY DEF Chains, Stacks
  <2> QED
    BY <1>1, <1>4, <2>1, StackKept
<1>5. Stacks'
  BY <1>4 DEF Stacks
<1> QED
  BY <1>1, <1>3, <1>5 DEF Chains

-----------------------------------------------------------------------------
(* The gateway. *)

LEMMA Names ==
  /\ {"gate", "login", "center", "pool"} \subseteq Service /\ Agent \subseteq Service
  /\ Agent \cap {"gate", "login", "center", "pool"} = {}
  /\ Nil \notin Fd \cup Uid \cup Agent \cup Task /\ Nil \notin Nat /\ Nil # "agentpool1"
  /\ Nil \notin User /\ Nil \notin [uid : Uid, data : User]
  /\ Nil \notin [uid : Uid, key : Key, from : From]
  /\ Nil \notin Job
  /\ LoginTask \subseteq Task /\ CloseTask \subseteq Task /\ LoginTask \cap CloseTask = {}
  /\ IsFiniteSet(LoginTask) /\ Cardinality(LoginTask) \in Nat /\ Key \subseteq Nat /\ Nil \notin Key
<1>1. IsFiniteSet(LoginTask) /\ Cardinality(LoginTask) \in Nat
  BY FlowConstants, FS_CardinalityType
<1>2. Key \subseteq Nat
  BY <1>1 DEF Key
<1>3. Job \subseteq [cmd : {"start", "kick"}, fd : Fd \cup {Nil}, uid : Uid \cup {Nil}]
  BY DEF Job, A!Start, A!Kick
<1>4. Nil \notin Job
  BY <1>3, FlowNames
<1> QED
  BY <1>1, <1>2, <1>4, FlowConstants, FlowNames DEF Service, Task, User, From

LEMMA SameGate ==
  /\ G!Init <=> GP!Init
  /\ G!Next <=> GP!Next
  /\ G!gateVars = GP!gateVars
<1>1. G!Init <=> GP!Init
  BY DEF G!Init, GP!Init, G!NewRecord, GP!NewRecord, G!Idle, GP!Idle
<1>2. G!Next <=> GP!Next
  BY Zenon DEF
    G!Next, GP!Next, G!OpenRefused, GP!OpenRefused, G!Open, GP!Open, G!Handshake, GP!Handshake,
    G!BadPacket, GP!BadPacket, G!PeerClose, GP!PeerClose, G!MsgClose, GP!MsgClose,
    G!CloseFrame, GP!CloseFrame, G!Command, GP!Command, G!Resume, GP!Resume,
    G!DriverClose, GP!DriverClose, G!NewRecord, GP!NewRecord, G!Live, GP!Live,
    G!closeclient, GP!closeclient, G!close_agent, GP!close_agent,
    G!CloseAnonymous, GP!CloseAnonymous, G!CloseSession, GP!CloseSession, G!finish, GP!finish,
    G!close_fd, GP!close_fd, G!Kept, GP!Kept, G!Idle, GP!Idle, G!kick, GP!kick,
    G!Session, GP!Session, G!Register, GP!Register, G!RegisterGone, GP!RegisterGone,
    G!LogoutDone, GP!LogoutDone, G!RecycleRaise, GP!RecycleRaise, G!RecycleDone, GP!RecycleDone,
    G!ClearDone, GP!ClearDone, G!AgentOf, GP!AgentOf
<1> QED
  BY <1>1, <1>2 DEF G!gateVars, GP!gateVars

LEMMA GateFacts ==
  ASSUME GP!IInv
  PROVE  /\ gs \in [conn : [Fd -> G!ConnState], client_number : Int]
         /\ c \in [Fd -> G!Record] /\ task \in [Task -> G!Suspended \cup {G!Idle}]
         /\ sock \in [Fd -> {"fresh", "open", "shut"}] /\ hup \in [Fd -> Nat]
         /\ connection \subseteq Fd
         /\ \A fd \in Fd : sock[fd] = "fresh" => gs.conn[fd] = "nil"
         /\ \A t \in Task : task[t] # G!Idle => task[t].at \in {"logout", "recycle"} /\ task[t].fd \in Fd
                                             /\ task[t].src \in {"kick", "hup", "frame", "register"}
                                             /\ task[t].data \in G!Record
  BY DEF GP!IInv, GP!TypeOK, GP!FreshUnknown, GP!ConnState, GP!Record, GP!Suspended, GP!Idle, GP!Src,
         GP!NewRecord, G!ConnState, G!Record, G!Suspended, G!Idle, G!Src, G!NewRecord

LEMMA GateKept ==
  ASSUME GP!IInv, [G!Next]_(G!gateVars)
  PROVE  GP!IInv'
<1>1. MaxClient \in Nat /\ Nil \notin Fd \cup Uid \cup Agent \cup Key
  BY Names, FlowConstants
<1>2. [GP!Next]_(GP!gateVars)
  BY SameGate DEF G!gateVars, GP!gateVars
<1> QED
  BY <1>1, <1>2, GP!StepIInv DEF GP!StepIInv

\* What a step of the gateway does to the facts the rest of the system keeps.
LEMMA SocketKept ==
  ASSUME GP!IInv, [G!Next]_(G!gateVars)
  PROVE  \A fd \in Fd : sock[fd] # "fresh" => sock'[fd] # "fresh"
<1>1. sock \in [Fd -> {"fresh", "open", "shut"}]
  BY GateFacts
<1> QED
  BY ZenonT(60), <1>1 DEF G!gateVars, G!Next, G!OpenRefused, G!Open, G!Handshake, G!BadPacket, G!PeerClose,
    G!MsgClose, G!CloseFrame, G!Command, G!Resume, G!DriverClose, G!close_agent, G!CloseAnonymous,
    G!CloseSession, G!kick, G!Register, G!RegisterGone, G!LogoutDone, G!RecycleRaise,
    G!RecycleDone, G!ClearDone

LEMMA RecordKeysKept ==
  ASSUME GP!IInv, RecordKeys, [G!Next]_(G!gateVars)
  PROVE  RecordKeys'
<1>1. c \in [Fd -> G!Record]
  BY GateFacts
<1>2. CASE c' = c
  BY <1>2 DEF RecordKeys
<1>3. ASSUME NEW fd \in Fd, G!Open(fd) PROVE RecordKeys'
  BY <1>1, <1>3 DEF RecordKeys, G!Open, G!NewRecord
<1>4. ASSUME NEW fd \in Fd, NEW data \in G!Session, G!Register(fd, data) PROVE RecordKeys'
  BY <1>1, <1>4 DEF RecordKeys, G!Register, G!Session
<1>5. ASSUME NEW t \in Task, G!RecycleDone(t) PROVE RecordKeys'
  <2> DEFINE fd == task[t].fd
  <2>1. c' = [c EXCEPT ![fd].agent = Nil]
    BY <1>5 DEF G!RecycleDone
  <2>2. \A f \in Fd : c'[f].uid = c[f].uid /\ c'[f].key = c[f].key
    BY <1>1, <2>1 DEF G!Record
  <2> QED
    BY <2>2 DEF RecordKeys
<1>6. \/ c' = c
      \/ \E fd \in Fd : G!Open(fd) \/ \E data \in G!Session : G!Register(fd, data)
      \/ \E t \in Task : G!RecycleDone(t)
  BY ZenonT(60) DEF G!gateVars, G!Next, G!OpenRefused, G!Handshake, G!BadPacket, G!PeerClose,
    G!MsgClose, G!CloseFrame, G!Command, G!Resume, G!close_agent, G!CloseAnonymous,
    G!CloseSession, G!kick, G!RegisterGone, G!LogoutDone, G!RecycleRaise, G!ClearDone
<1> QED
  BY <1>2, <1>3, <1>4, <1>5, <1>6

-----------------------------------------------------------------------------
(* Steps. *)

LEMMA Messages ==
  /\ \A t \in Task, v \in Value : Ret(t, v) \in Message /\ Ret(t, v) \in Answer
  /\ \A t \in Task, a \in Agent : RetAgent(t, a) \in Message /\ RetAgent(t, a) \in Answer
  /\ \A t \in Task, fd \in Fd, u \in Uid : Packet(t, fd, u) \in Message /\ Packet(t, fd, u) \in ToLogin
  /\ \A t \in Task, u \in Uid, d \in User : AskLogin(t, u, d) \in Message
  /\ \A t \in Task, u \in Uid, k \in Key, a \in Agent : AskRegister(t, u, k, a) \in Message
  /\ \A t \in Task, u \in Uid, k \in Key, f \in From :
       AskLogout(t, u, k, f) \in Message /\ AskLogout(t, u, k, f) \in ToCenter
  /\ \A t \in Task, fd \in Fd : AskKick(t, fd) \in Message
  /\ \A t \in Task, fd \in Fd, d \in G!Session : AskBind(t, fd, d) \in Message
  /\ \A t \in Task : AskGet(t) \in Message
  /\ \A t \in Task, a \in Agent \cup {Nil}, f \in From :
       AskRecycle(t, a, f) \in Message /\ AskRecycle(t, a, f) \in ToPool
  /\ \A t \in Task, j \in Job : AskAgent(t, j) \in Message /\ AskAgent(t, j) \in ToAgent
<1>1. /\ \A t \in Task, v \in Value : Ret(t, v) \in Answer
      /\ \A t \in Task, a \in Agent : RetAgent(t, a) \in Answer
  BY DEF Ret, RetAgent, Answer, Value
<1>2. \A t \in Task, fd \in Fd, u \in Uid : Packet(t, fd, u) \in ToLogin
  BY DEF Packet, ToLogin
<1>3. /\ \A t \in Task, u \in Uid, d \in User : AskLogin(t, u, d) \in ToCenter
      /\ \A t \in Task, u \in Uid, k \in Key, a \in Agent : AskRegister(t, u, k, a) \in ToCenter
      /\ \A t \in Task, u \in Uid, k \in Key, f \in From : AskLogout(t, u, k, f) \in ToCenter
  BY DEF AskLogin, AskRegister, AskLogout, ToCenter
<1>4. /\ \A t \in Task, fd \in Fd : AskKick(t, fd) \in ToGate
      /\ \A t \in Task, fd \in Fd, d \in G!Session : AskBind(t, fd, d) \in ToGate
  BY DEF AskKick, AskBind, ToGate
<1>5. /\ \A t \in Task : AskGet(t) \in ToPool
      /\ \A t \in Task, a \in Agent \cup {Nil}, f \in From : AskRecycle(t, a, f) \in ToPool
  BY DEF AskGet, AskRecycle, ToPool
<1>6. \A t \in Task, j \in Job : AskAgent(t, j) \in ToAgent
  BY DEF AskAgent, ToAgent
<1> QED
  BY <1>1, <1>2, <1>3, <1>4, <1>5, <1>6, Zenon DEF Message

LEMMA HeadFacts ==
  ASSUME IInv, NEW s \in Service, NEW op, Handles(s, op), NEW m, m = Head(mq[s])
  PROVE  /\ mq[s] # << >> /\ m \in Message /\ m.t \in Task /\ m.op = op /\ Fits(s, m)
         /\ Level(m.t) /\ Knows(m.t)
<1>1. mq[s] # << >> /\ m.op = op
  BY DEF Handles
<1>2. m \in Message /\ In(s, m)
  BY <1>1, HeadOnly DEF IInv, Chains, In
<1> QED
  BY <1>1, <1>2, MessageChain DEF IInv, Chains, AllFit, Stacks

LEMMA StateFacts ==
  ASSUME IInv
  PROVE  /\ GP!IInv /\ Mail /\ One /\ Chains
         /\ lt \in [Task -> [at : L!At, fd : Fd \cup {Nil}, uid : Uid \cup {Nil}, key : Nat,
                             agent : Agent \cup {Nil}, result : L!Result]]
         /\ key_seq \in Nat
         /\ users \in [Uid -> User \cup {Nil}]
         /\ logging \in [Task -> [uid : Uid, data : User] \cup {Nil}]
         /\ leaving \in [Task -> [uid : Uid, key : Key, from : From] \cup {Nil}]
         /\ making \in [Task -> {"agentpool1", Nil}]
         /\ job \in [Task -> Job \cup {Nil}]
         /\ task \in [Task -> G!Suspended \cup {G!Idle}]
<1>1. making \in [Task -> {"agentpool1", Nil}]
  BY DEF IInv, Types, P!PoolType
<1>2. job \in [Task -> Job \cup {Nil}]
  BY DEF IInv, Types, A!AgentType, Job
<1> QED
  BY <1>1, <1>2, GateFacts DEF IInv, Chains, Types, L!LoginType, C!CenterType, User, From

LEMMA GateQuiet ==
  ASSUME UNCHANGED gateV
  PROVE  [G!Next]_(G!gateVars)
  BY DEF gateV, G!gateVars

\* A step that keeps what the login service, the center, the pool and the
\* agents know.
LEMMA GateRest ==
  ASSUME IInv, [G!Next]_(G!gateVars), UNCHANGED <<centerV, poolV, agentV, loginV>>, Chains'
  PROVE  IInv'
<1>1. GP!IInv' /\ RecordKeys' /\ \A fd \in Fd : sock[fd] # "fresh" => sock'[fd] # "fresh"
  BY GateKept, RecordKeysKept, SocketKept DEF IInv, Entered
<1>2. Types'
  BY DEF IInv, Types, centerV, poolV, agentV, loginV, C!CenterType, P!PoolType, A!AgentType, L!LoginType
<1>3. Section' /\ Numbered'
  BY DEF IInv, Section, Numbered, agentV, loginV
<1>4. Entered'
  BY <1>1 DEF IInv, Entered, Known, centerV
<1> QED
  BY <1>1, <1>2, <1>3, <1>4 DEF IInv

LEMMA GateGrows ==
  ASSUME IInv, [G!Next]_(G!gateVars), key_seq' = key_seq
  PROVE  Grown
  BY SocketKept DEF IInv, Grown

LEMMA NilAbsent ==
  ASSUME Chains
  PROVE  Absent(Nil)
<1>1. \A s \in Service : \A i \in DOMAIN mq[s] : mq[s][i] \in Message
  BY DEF Chains, Mail
<1> QED
  BY <1>1, MessageChain, Names DEF Absent

LEMMA GateSocketStep ==
  ASSUME IInv, NEW fd \in Fd, GateSocket(fd)
  PROVE  IInv' /\ [G!Next]_(G!gateVars)
<1>1. \/ G!Open(fd) \/ G!OpenRefused(fd) \/ G!Handshake(fd) \/ G!PeerClose(fd) \/ G!BadPacket(fd)
  BY DEF GateSocket
<1>2. G!Next
  BY <1>1 DEF G!Next
<1>3. task' = task
  BY <1>1 DEF G!Open, G!OpenRefused, G!Handshake, G!PeerClose, G!BadPacket
<1>4. UNCHANGED <<centerV, poolV, agentV, loginV>> /\ mq' = mq
  BY DEF GateSocket
<1>5. Grown
  BY <1>2, <1>4, GateGrows DEF loginV
<1>6. Others(Nil)
  BY <1>3, <1>4 DEF Others, centerV, poolV, agentV, loginV
<1>7. Chains'
  BY <1>4, <1>5, <1>6, QuietStep, NilAbsent, Names DEF IInv
<1> QED
  BY <1>2, <1>4, <1>7, GateRest

LEMMA GatePacketStep ==
  ASSUME IInv, NEW fd \in Fd, NEW t \in LoginTask, NEW u \in Uid, GatePacket(t, fd, u)
  PROVE  IInv' /\ [G!Next]_(G!gateVars)
<1> DEFINE m == Packet(t, fd, u)
<1>1. UNCHANGED <<gateV, centerV, poolV, agentV, loginV>> /\ Post("login", m)
  BY DEF GatePacket
<1>2. [G!Next]_(G!gateVars)
  BY <1>1, GateQuiet
<1>3. t \in Task /\ m \in Message /\ m.t = t /\ m \in ToLogin /\ m.fd = fd
  BY Messages, Names DEF Packet
<1>4. Absent(t)
  BY DEF GatePacket, Absent, IInv, Chains, Mail
<1>5. lt[t].at = "idle" /\ gs.conn[fd] = "open"
  BY DEF GatePacket
<1>6. Known(fd)
  BY <1>5, GateFacts DEF IInv, Known
<1>7. Level(t) /\ Knows(t)
  BY <1>3 DEF IInv, Chains, Stacks
<1>8. Bottom(t) /\ making[t] = Nil /\ job[t] = Nil
  BY <1>5, <1>7, Names DEF Level, Bottom, Asked, Works, Calls
<1> HIDE DEF m
<1>9. Sent("login", m)
  BY <1>1, <1>3, <1>4, MailPost, Names DEF IInv, Chains
<1>10. /\ Grown /\ Others(t) /\ lt' = lt /\ making' = making /\ job' = job
       /\ task' = task /\ logging' = logging /\ leaving' = leaving /\ sock' = sock /\ key_seq' = key_seq
  BY <1>1 DEF Grown, Others, gateV, centerV, poolV, agentV, loginV
<1>11. Fits("login", m)'
  BY <1>3, <1>5, <1>6, <1>8, <1>10 DEF Fits, LoginMail, Asked, Bottom, Known
<1>12. Level(t)' /\ Knows(t)'
  BY <1>5, <1>8, <1>10 DEF Level, Knows, Bottom
<1>13. Chains'
  BY <1>3, <1>9, <1>10, <1>11, <1>12, SentStep, Names DEF IInv
<1> QED
  BY <1>1, <1>2, <1>13, GateRest

\* What a chain with a message under way is not doing.
Moving(t) == making[t] = Nil /\ job[t] = Nil /\ lt[t].at \notin {"auth", "done"}

Same(t) ==
  /\ lt'[t] = lt[t] /\ task'[t] = task[t] /\ logging'[t] = logging[t]
  /\ leaving'[t] = leaving[t] /\ making'[t] = making[t] /\ job'[t] = job[t]

LEMMA HeadMoving ==
  ASSUME IInv, NEW s \in Service, NEW op, Handles(s, op), NEW m, m = Head(mq[s])
  PROVE  Moving(m.t)
<1>1. mq[s] # << >> /\ Level(m.t)
  BY HeadFacts
<1>2. 1 \in DOMAIN mq[s] /\ mq[s][1] = m
  BY <1>1, HeadOnly DEF IInv, Chains
<1>3. ~ Absent(m.t)
  BY <1>2 DEF Absent
<1> QED
  BY <1>1, <1>3 DEF Moving, Level

LEMMA SameStack ==
  ASSUME NEW t \in Task, Same(t), Moving(t), Grown, Level(t), Knows(t)
  PROVE  Level(t)' /\ Knows(t)'
<1>1. \A fd : Known(fd) => Known(fd)'
  BY DEF Known, Grown
<1>2. \A from, what : Calls(t, from, what)' <=> Calls(t, from, what)
  BY DEF Calls, Same
<1>3. Level(t)'
  BY <1>2 DEF Level, Same, Moving
<1>4. Knows(t)'
  BY <1>1 DEF Knows, Grown, Same
<1> QED
  BY <1>3, <1>4

\* An answer or a request passes on and the stack of its chain stays.
LEMMA PassOn ==
  ASSUME IInv, Grown, NEW t \in Task, Others(t), Same(t), Moving(t),
         NEW d \in Service, NEW m, m.t = t, Sent(d, m), Fits(d, m)'
  PROVE  Chains'
<1>1. Chains /\ Level(t) /\ Knows(t)
  BY DEF IInv, Chains, Stacks
<1> QED
  BY <1>1, SameStack, SentStep

LEMMA CloseAbsent ==
  ASSUME IInv, NEW t \in CloseTask, task[t] = G!Idle
  PROVE  Absent(t) /\ Bottom(t) /\ Moving(t)
<1>1. t \in Task /\ t \notin LoginTask
  BY Names
<1>2. Level(t) /\ Knows(t)
  BY <1>1 DEF IInv, Chains, Stacks
<1>3. lt[t].at = "idle"
  BY <1>1, <1>2 DEF Knows
<1>4. logging[t] = Nil /\ leaving[t] = Nil
  BY <1>2, <1>3 DEF Level, Calls
<1>5. making[t] = Nil /\ job[t] = Nil
  BY <1>2, <1>3, <1>4 DEF Level, Asked, Works
<1>6. ASSUME NEW s \in Service, NEW x \in Message, In(s, x), x.t = t PROVE FALSE
  <2>1. Fits(s, x)
    BY <1>6 DEF IInv, Chains, AllFit
  <2>2. \A at : Asked(t, at) => at = "idle"
    BY <1>3 DEF Asked
  <2>3. \A from, what : ~ Calls(t, from, what)
    BY <1>3 DEF Calls
  <2>4. ~ LoginMail(x)
    BY <1>1, <1>3, <1>6 DEF LoginMail, Waits
  <2>5. ~ CenterMail(x)
    BY <1>4, <1>6, <2>2, <2>3 DEF CenterMail
  <2>6. ~ GateMail(x)
    BY <1>4, <1>6, <2>2 DEF GateMail
  <2>7. ~ PoolMail(x)
    BY <1>6, <2>2, <2>3 DEF PoolMail
  <2>8. ~ AgentMail(x)
    BY <1>4, <1>6, <2>2 DEF AgentMail, Works
  <2> QED
    BY <2>1, <2>4, <2>5, <2>6, <2>7, <2>8 DEF Fits
<1>7. ASSUME NEW s \in Service, NEW i \in DOMAIN mq[s] PROVE mq[s][i].t # t
  <2>1. mq[s][i] \in Message
    BY DEF IInv, Chains, Mail
  <2>2. In(s, mq[s][i])
    BY DEF In
  <2> QED
    BY <1>6, <2>1, <2>2
<1>8. Absent(t)
  BY <1>7 DEF Absent
<1> QED
  BY <1>3, <1>4, <1>5, <1>8 DEF Bottom, Moving

\* close_agent or clearAgent waits for the center.
LEMMA GateSuspends ==
  ASSUME IInv, Grown, NEW t \in Task, NEW r, r.at = "logout", task' = [task EXCEPT ![t] = r],
         UNCHANGED <<centerV, poolV, agentV, loginV>>, leaving[t] = Nil, Moving(t),
         \/ r.src = "kick" /\ logging[t] # Nil
         \/ r.src = "register" /\ lt[t].at = "gate" /\ logging[t] = Nil
         \/ r.src \in {"hup", "frame"} /\ t \in CloseTask,
         NEW u \in Uid, NEW k \in Key, Sent("center", AskLogout(t, u, k, "gate"))
  PROVE  Chains'
<1> DEFINE m == AskLogout(t, u, k, "gate")
<1>1. m \in ToCenter /\ m.op = "logout" /\ m.t = t /\ m.from = "gate"
  BY Messages DEF AskLogout, From
<1>2. /\ lt' = lt /\ logging' = logging /\ leaving' = leaving /\ making' = making /\ job' = job
      /\ task'[t] = r /\ key_seq' = key_seq
  BY StateFacts DEF centerV, poolV, agentV, loginV
<1>3. Others(t)
  BY <1>2, StateFacts DEF Others
<1>4. r # G!Idle
  BY DEF G!Idle
<1> HIDE DEF m
<1>5. Calls(t, "gate", "logout")'
  BY <1>2, <1>4 DEF Calls
<1>6. Fits("center", m)'
  BY <1>1, <1>2, <1>5 DEF Fits, CenterMail
<1>7. Chains /\ Level(t) /\ Knows(t)
  BY DEF IInv, Chains, Stacks
<1>8. Level(t)'
  BY <1>2, <1>7 DEF Level, Moving
<1>9. Knows(t)'
  BY <1>2, <1>7 DEF Knows, Grown, Known
<1>10. Sent("center", m)
  BY DEF m
<1> QED
  BY <1>1, <1>3, <1>6, <1>7, <1>8, <1>9, <1>10, SentStep, Names

LEMMA SessionData ==
  ASSUME IInv, NEW fd \in Fd, Session(fd)
  PROVE  c[fd].uid \in Uid /\ c[fd].key \in Key
<1>1. c[fd] \in G!Record /\ c[fd].uid # Nil
  BY GateFacts DEF IInv, Session
<1> QED
  BY <1>1 DEF IInv, Entered, RecordKeys, G!Record

LEMMA ClosingStep ==
  ASSUME IInv, NEW fd \in Fd, NEW t \in CloseTask, NEW src \in {"hup", "frame"},
         G!close_agent(t, fd, src), G!Next, Closing(t, fd)
  PROVE  IInv'
<1>1. UNCHANGED <<centerV, poolV, agentV, loginV>>
  BY DEF Closing
<1>2. t \in Task /\ Grown
  BY <1>1, GateGrows, Names DEF loginV
<1>3. CASE ~ Session(fd)
  <2>1. mq' = mq /\ task' = task
    BY <1>3 DEF Closing, Session, G!close_agent, G!CloseAnonymous, G!CloseSession
  <2>2. Others(Nil)
    BY <1>1, <2>1 DEF Others, centerV, poolV, agentV, loginV
  <2>3. Chains'
    BY <1>2, <2>1, <2>2, QuietStep, NilAbsent, Names DEF IInv
  <2> QED
    BY <1>1, <2>3, GateRest
<1>4. CASE Session(fd)
  <2> DEFINE r == [at |-> "logout", fd |-> fd, src |-> src, data |-> G!NewRecord]
             u == c[fd].uid
             k == c[fd].key
             m == AskLogout(t, u, k, "gate")
  <2>1. task[t] = G!Idle /\ task' = [task EXCEPT ![t] = r] /\ r.at = "logout" /\ r.src = src
    BY <1>4 DEF Session, G!close_agent, G!CloseAnonymous, G!CloseSession
  <2>2. u \in Uid /\ k \in Key
    BY <1>4, SessionData
  <2>3. Post("center", m)
    BY <1>4 DEF Closing
  <2>4. m \in Message /\ m.t = t
    BY <1>2, <2>2, Messages DEF AskLogout, From
  <2>5. Absent(t) /\ Bottom(t) /\ Moving(t)
    BY <2>1, CloseAbsent
  <2> HIDE DEF r, u, k
  <2>6. Sent("center", m)
    <3> HIDE DEF m
    <3> QED BY <2>3, <2>4, <2>5, MailPost, Names DEF IInv, Chains
  <2>7. Chains'
    BY <1>1, <1>2, <2>1, <2>2, <2>5, <2>6, GateSuspends DEF Bottom
  <2> QED
    BY <1>1, <2>7, GateRest
<1> QED
  BY <1>3, <1>4

LEMMA GateCloseStep ==
  ASSUME IInv, NEW fd \in Fd, NEW t \in CloseTask, GateClose(t, fd) \/ GateFrame(t, fd)
  PROVE  IInv' /\ [G!Next]_(G!gateVars)
<1>1. /\ G!MsgClose(t, fd) \/ G!CloseFrame(t, fd)
      /\ Closing(t, fd) /\ t \in Task
  BY Names DEF GateClose, GateFrame
<1>2. G!Next
  BY <1>1 DEF G!Next
<1>3. \E src \in {"hup", "frame"} : G!close_agent(t, fd, src)
  BY <1>1 DEF G!MsgClose, G!CloseFrame
<1> QED
  BY <1>1, <1>2, <1>3, ClosingStep

LEMMA GateKickStep ==
  ASSUME IInv, GateKick, NEW m, m = Head(mq["gate"])
  PROVE  IInv' /\ [G!Next]_(G!gateVars)
<1>s. "gate" \in Service /\ "center" \in Service
  BY Names
<1> DEFINE t == m.t
           fd == m.fd
<1>1. /\ Handles("gate", "kick") /\ G!kick(t, fd)
      /\ IF Session(fd) THEN To("gate", "center", AskLogout(t, c[fd].uid, c[fd].key, "gate"))
                        ELSE To("gate", "center", Ret(t, "true"))
      /\ UNCHANGED <<centerV, poolV, agentV, loginV>>
  BY DEF GateKick
<1>2. /\ mq["gate"] # << >> /\ m \in Message /\ t \in Task /\ m.op = "kick" /\ Fits("gate", m)
      /\ Level(t) /\ Knows(t) /\ Moving(t)
  BY <1>1, <1>s, HeadFacts, HeadMoving
<1>3. Known(fd) /\ leaving[t] = Nil /\ task[t] = G!Idle /\ logging[t] # Nil
  BY <1>2, Names DEF Fits, GateMail, Answer
<1>4. G!Next
  BY <1>1, <1>2, <1>3 DEF G!Next, G!Command, Known
<1>5. Grown
  BY <1>1, <1>4, GateGrows DEF loginV
<1>6. CASE Session(fd)
  <2> DEFINE r == [at |-> "logout", fd |-> fd, src |-> "kick", data |-> G!NewRecord]
             u == c[fd].uid
             k == c[fd].key
             n == AskLogout(t, u, k, "gate")
  <2>1. task' = [task EXCEPT ![t] = r] /\ r.at = "logout" /\ r.src = "kick"
    BY ZenonT(60), <1>1, <1>6 DEF Session, G!kick, G!close_agent, G!CloseAnonymous, G!CloseSession
  <2>2. u \in Uid /\ k \in Key
    BY <1>3, <1>6, SessionData DEF Known
  <2>3. To("gate", "center", n)
    BY <1>1, <1>6
  <2>4. n \in Message /\ n.t = t
    BY <1>2, <2>2, Messages DEF AskLogout, From
  <2> HIDE DEF r, u, k
  <2>5. Sent("center", n)
    <3> HIDE DEF n
    <3> QED BY <1>2, <1>s, <2>3, <2>4, MailTo DEF IInv, Chains
  <2>6. Chains'
    <3> HIDE DEF t, fd
    <3> QED BY <1>1, <1>2, <1>3, <1>5, <2>1, <2>2, <2>5, GateSuspends
  <2> QED
    BY <1>1, <1>4, <2>6, GateRest
<1>7. CASE ~ Session(fd)
  <2> DEFINE n == Ret(t, "true")
  <2>1. task' = task
    BY <1>1, <1>7 DEF Session, G!kick, G!close_agent, G!CloseAnonymous, G!CloseSession
  <2>2. To("gate", "center", n)
    BY <1>1, <1>7
  <2>3. n \in Message /\ n.t = t /\ n \in Answer
    BY <1>2, Messages DEF Ret, Value
  <2> HIDE DEF n
  <2>4. Sent("center", n)
    BY <1>2, <1>s, <2>2, <2>3, MailTo DEF IInv, Chains
  <2>5. Others(t) /\ Same(t)
    BY <1>1, <2>1 DEF Others, Same, centerV, poolV, agentV, loginV
  <2>6. Fits("center", n)'
    BY <1>3, <2>3, <2>5 DEF Fits, CenterMail, Same
  <2>7. Chains'
    <3> HIDE DEF t
    <3> QED BY <1>2, <1>5, <1>s, <2>3, <2>4, <2>5, <2>6, PassOn
  <2> QED
    BY <1>1, <1>4, <2>7, GateRest
<1> QED
  BY <1>4, <1>6, <1>7

LEMMA KeyRange ==
  ASSUME IInv
  PROVE  0 .. key_seq \subseteq Key
<1> DEFINE S == {t \in LoginTask : lt[t].at # "idle"}
<1>1. S \subseteq LoginTask
  OBVIOUS
<1>2. IsFiniteSet(S) /\ Cardinality(S) <= Cardinality(LoginTask)
  BY <1>1, Names, FS_Subset
<1>3. Cardinality(S) \in Nat /\ Cardinality(LoginTask) \in Nat
  BY <1>2, Names, FS_CardinalityType
<1>4. key_seq = 1 + Cardinality(S)
  BY DEF IInv, Numbered
<1> HIDE DEF S
<1> QED
  BY <1>2, <1>3, <1>4 DEF Key

LEMMA GateRegisterStep ==
  ASSUME IInv, GateRegister, NEW m, m = Head(mq["gate"])
  PROVE  IInv' /\ [G!Next]_(G!gateVars)
<1>s. "gate" \in Service /\ "center" \in Service /\ "login" \in Service
  BY Names
<1> DEFINE t == m.t
           fd == m.fd
<1>1. /\ Handles("gate", "register")
      /\ \/ G!Register(fd, m.data) /\ To("gate", "login", Ret(t, "true"))
         \/ /\ G!RegisterGone(t, fd, m.data)
            /\ To("gate", "center", AskLogout(t, m.data.uid, m.data.key, "gate"))
      /\ UNCHANGED <<centerV, poolV, agentV, loginV>>
  BY DEF GateRegister
<1>2. /\ mq["gate"] # << >> /\ m \in Message /\ t \in Task /\ m.op = "register" /\ Fits("gate", m)
      /\ Level(t) /\ Knows(t) /\ Moving(t)
  BY <1>1, <1>s, HeadFacts, HeadMoving
<1>3. /\ Asked(t, "gate") /\ fd = lt[t].fd
      /\ m.data = [uid |-> lt[t].uid, agent |-> lt[t].agent, key |-> lt[t].key]
  BY <1>2, Names DEF Fits, GateMail, Answer
<1>4. Known(fd) /\ m.data \in G!Session
  BY <1>2, <1>3, KeyRange DEF Knows, Asked, G!Session
<1>5. G!Next
  BY <1>1, <1>2, <1>4 DEF G!Next, G!Command, Known
<1>6. Grown
  BY <1>1, <1>5, GateGrows DEF loginV
<1>7. CASE G!Register(fd, m.data) /\ To("gate", "login", Ret(t, "true"))
  <2> DEFINE n == Ret(t, "true")
  <2>1. task' = task
    BY <1>7 DEF G!Register
  <2>2. To("gate", "login", n)
    BY <1>7
  <2>3. n \in Message /\ n.t = t /\ n \in Answer
    BY <1>2, Messages DEF Ret, Value
  <2> HIDE DEF n
  <2>4. Sent("login", n)
    BY <1>2, <1>s, <2>2, <2>3, MailTo DEF IInv, Chains
  <2>5. Others(t) /\ Same(t)
    BY <1>1, <2>1 DEF Others, Same, centerV, poolV, agentV, loginV
  <2>6. Fits("login", n)'
    BY <1>3, <2>3, <2>5 DEF Fits, LoginMail, Same, Asked, Bottom, Waits
  <2>7. Chains'
    <3> HIDE DEF t
    <3> QED BY <1>2, <1>6, <1>s, <2>3, <2>4, <2>5, <2>6, PassOn
  <2> QED
    BY <1>1, <1>5, <2>7, GateRest
<1>8. CASE /\ G!RegisterGone(t, fd, m.data)
           /\ To("gate", "center", AskLogout(t, m.data.uid, m.data.key, "gate"))
  <2> DEFINE r == [at |-> "logout", fd |-> fd, src |-> "register", data |-> m.data]
             u == m.data.uid
             k == m.data.key
             n == AskLogout(t, u, k, "gate")
  <2>1. task' = [task EXCEPT ![t] = r] /\ r.at = "logout" /\ r.src = "register"
    BY <1>8 DEF G!RegisterGone
  <2>2. u \in Uid /\ k \in Key
    BY <1>4 DEF G!Session
  <2>3. To("gate", "center", n)
    BY <1>8
  <2>4. n \in Message /\ n.t = t
    BY <1>2, <2>2, Messages DEF AskLogout, From
  <2> HIDE DEF r, u, k
  <2>5. Sent("center", n)
    <3> HIDE DEF n
    <3> QED BY <1>2, <1>s, <2>3, <2>4, MailTo DEF IInv, Chains
  <2>6. Chains'
    <3> HIDE DEF t, fd
    <3> QED BY <1>1, <1>2, <1>3, <1>6, <2>1, <2>2, <2>5, GateSuspends DEF Asked, Bottom
  <2> QED
    BY <1>1, <1>5, <2>6, GateRest
<1> QED
  BY <1>1, <1>5, <1>7, <1>8

\* close_agent or clearAgent is done and answers its caller, if it has one.
LEMMA GateEnds ==
  ASSUME IInv, Grown, Handles("gate", "ret"), NEW m, m = Head(mq["gate"]), NEW val \in Value,
         task' = [task EXCEPT ![m.t] = G!Idle], GateAnswer(m.t, val),
         UNCHANGED <<centerV, poolV, agentV, loginV>>
  PROVE  Chains'
<1>s. "gate" \in Service /\ "center" \in Service /\ "login" \in Service
  BY Names
<1> DEFINE t == m.t
           n == Ret(t, val)
<1>1. /\ mq["gate"] # << >> /\ m \in Message /\ t \in Task /\ m.op = "ret" /\ Fits("gate", m)
      /\ Level(t) /\ Knows(t) /\ Moving(t) /\ Chains /\ Mail /\ One
  BY <1>s, HeadFacts, HeadMoving, StateFacts
<1>2. task[t] # G!Idle /\ leaving[t] = Nil
  BY <1>1, Names DEF Fits, GateMail
<1>3. n \in Message /\ n.t = t /\ n \in Answer
  BY <1>1, Messages DEF Ret
<1>4. /\ lt' = lt /\ logging' = logging /\ leaving' = leaving /\ making' = making /\ job' = job
      /\ task'[t] = G!Idle
  BY <1>1, StateFacts DEF centerV, poolV, agentV, loginV
<1>5. Others(t)
  BY <1>4, StateFacts DEF Others
<1>6. Level(t)'
  BY ZenonT(60), <1>1, <1>2, <1>4 DEF Level, Moving
<1>7. Knows(t)'
  BY ZenonT(60), <1>1, <1>4 DEF Knows, Grown, Known
<1> HIDE DEF n
<1>8. CASE task[t].src = "kick" /\ logging[t] # Nil
  <2>1. To("gate", "center", n)
    BY <1>8 DEF GateAnswer, n
  <2>2. Sent("center", n)
    BY <1>1, <1>3, <1>s, <2>1, MailTo
  <2>3. Fits("center", n)'
    BY <1>3, <1>4, <1>8 DEF Fits, CenterMail
  <2> QED
    BY <1>1, <1>3, <1>5, <1>6, <1>7, <1>s, <2>2, <2>3, SentStep
<1>9. CASE task[t].src = "register" /\ lt[t].at = "gate" /\ logging[t] = Nil
  <2>1. To("gate", "login", n)
    BY <1>9 DEF GateAnswer, n
  <2>2. Sent("login", n)
    BY <1>1, <1>3, <1>s, <2>1, MailTo
  <2>3. Fits("login", n)'
    BY <1>2, <1>3, <1>4, <1>9 DEF Fits, LoginMail, Bottom, Waits
  <2> QED
    BY <1>1, <1>3, <1>5, <1>6, <1>7, <1>s, <2>2, <2>3, SentStep
<1>10. CASE task[t].src \in {"hup", "frame"}
  <2>1. Eat("gate")
    BY <1>10 DEF GateAnswer
  <2>2. Eaten(t)
    BY <1>1, <1>s, <2>1, MailEat
  <2> QED
    BY <1>1, <1>5, <1>6, <1>7, <2>2, EatenStep
<1> QED
  BY ZenonT(60), <1>1, <1>2, <1>8, <1>9, <1>10 DEF Level

LEMMA GateResumeStep ==
  ASSUME IInv, GateResume, NEW m, m = Head(mq["gate"])
  PROVE  IInv' /\ [G!Next]_(G!gateVars)
<1>s. "gate" \in Service /\ "pool" \in Service
  BY Names
<1> DEFINE t == m.t
<1>1. /\ Handles("gate", "ret")
      /\ \/ G!LogoutDone(t) /\ To("gate", "pool", AskRecycle(t, G!AgentOf(t), "gate"))
         \/ G!RecycleRaise(t) /\ GateAnswer(t, "error")
         \/ G!RecycleDone(t) /\ GateAnswer(t, "true")
         \/ G!ClearDone(t) /\ GateAnswer(t, "false")
      /\ UNCHANGED <<centerV, poolV, agentV, loginV>>
  BY DEF GateResume
<1>2. /\ mq["gate"] # << >> /\ m \in Message /\ t \in Task /\ m.op = "ret" /\ Fits("gate", m)
      /\ Level(t) /\ Knows(t) /\ Moving(t) /\ Chains /\ Mail /\ One
  BY <1>1, <1>s, HeadFacts, HeadMoving, StateFacts
<1>3. G!Next
  BY <1>1, <1>2 DEF G!Next, G!Resume
<1>4. Grown
  BY <1>1, <1>3, GateGrows DEF loginV
<1>5. CASE ~ G!LogoutDone(t)
  <2>1. \E val \in Value : task' = [task EXCEPT ![t] = G!Idle] /\ GateAnswer(t, val)
    BY ZenonT(60), <1>1, <1>5 DEF G!RecycleRaise, G!RecycleDone, G!ClearDone, Value
  <2>2. Chains'
    BY <1>1, <1>4, <2>1, GateEnds
  <2> QED
    BY <1>1, <1>3, <2>2, GateRest
<1>6. CASE G!LogoutDone(t)
  <2>1. task[t] # G!Idle /\ leaving[t] = Nil
    BY <1>2, Names DEF Fits, GateMail
  <2>2. task[t].at = "logout" /\ task' = [task EXCEPT ![t].at = "recycle", ![t].data.agent = G!AgentOf(t)]
    BY <1>6 DEF G!LogoutDone
  <2>3. To("gate", "pool", AskRecycle(t, G!AgentOf(t), "gate"))
    BY ZenonT(60), <1>1, <2>2 DEF G!RecycleRaise, G!RecycleDone, G!ClearDone
  <2>4. G!AgentOf(t) \in Agent \cup {Nil}
    <3>1. /\ task[t].fd \in Fd /\ task[t].data \in G!Record /\ c \in [Fd -> G!Record]
      BY <1>2, <2>1, GateFacts DEF IInv
    <3> QED
      BY ZenonT(60), <3>1 DEF G!AgentOf, G!Record
  <2>5. PICK n : n = AskRecycle(t, G!AgentOf(t), "gate")
    OBVIOUS
  <2>6. n \in Message /\ n.t = t /\ n \in ToPool /\ n.op = "recycle" /\ n.from = "gate"
    BY <1>2, <2>4, <2>5, Messages DEF AskRecycle, From
  <2>7. Sent("pool", n)
    BY <1>2, <1>s, <2>3, <2>5, <2>6, MailTo
  <2>8. /\ task'[t].at = "recycle" /\ task'[t].src = task[t].src /\ task'[t] # G!Idle
        /\ \A u \in Task : u # t => task'[u] = task[u]
    <3>1. task \in [Task -> G!Suspended \cup {G!Idle}] /\ task[t] \in G!Suspended
      BY <1>2, <2>1, GateFacts DEF IInv
    <3>2. task'[t] = [task[t] EXCEPT !.at = "recycle", !.data.agent = G!AgentOf(t)]
      BY <1>2, <2>2, <3>1
    <3>3. task'[t].at = "recycle" /\ task'[t].src = task[t].src
      BY <3>1, <3>2 DEF G!Suspended
    <3>4. task'[t] # G!Idle
      BY <3>3 DEF G!Idle
    <3> QED
      BY ZenonT(60), <1>2, <2>2, <3>1, <3>3, <3>4
  <2>9. lt' = lt /\ logging' = logging /\ leaving' = leaving /\ making' = making /\ job' = job
    BY <1>1 DEF centerV, poolV, agentV, loginV
  <2>10. Others(t)
    BY <2>8, <2>9 DEF Others
  <2>11. Calls(t, "gate", "recycle")'
    BY <2>8 DEF Calls
  <2>12. Fits("pool", n)'
    BY <2>1, <2>6, <2>9, <2>11 DEF Fits, PoolMail
  <2>13. Level(t)'
    BY ZenonT(60), <1>2, <2>1, <2>8, <2>9 DEF Level, Moving
  <2>14. Knows(t)'
    BY ZenonT(60), <1>2, <1>4, <2>9 DEF Knows, Grown, Known
  <2>15. Chains'
    <3> HIDE DEF t
    <3> QED BY <1>2, <1>4, <1>s, <2>6, <2>7, <2>10, <2>12, <2>13, <2>14, SentStep
  <2> QED
    BY <1>1, <1>3, <2>15, GateRest
<1> QED
  BY <1>5, <1>6

-----------------------------------------------------------------------------
(* The center. *)

LEMMA CenterRest ==
  ASSUME IInv, UNCHANGED <<gateV, poolV, agentV, loginV>>, Chains',
         users' \in [Uid -> User \cup {Nil}],
         logging' \in [Task -> [uid : Uid, data : User] \cup {Nil}],
         leaving' \in [Task -> [uid : Uid, key : Key, from : From] \cup {Nil}],
         \A u \in Uid : users'[u] # Nil => Known(users'[u].fd),
         \A t \in Task : logging'[t] # Nil => Known(logging'[t].data.fd)
  PROVE  IInv' /\ [G!Next]_(G!gateVars)
<1>1. [G!Next]_(G!gateVars)
  BY GateQuiet
<1>2. GP!IInv' /\ RecordKeys'
  BY <1>1, GateKept, RecordKeysKept DEF IInv, Entered
<1>3. Types'
  BY DEF IInv, Types, poolV, agentV, loginV, C!CenterType, P!PoolType, A!AgentType, L!LoginType,
         User, From
<1>4. Section' /\ Numbered'
  BY DEF IInv, Section, Numbered, agentV, loginV
<1>5. Entered'
  BY <1>2 DEF Entered, Known, gateV
<1> QED
  BY <1>1, <1>2, <1>3, <1>4, <1>5 DEF IInv

LEMMA Steady ==
  ASSUME UNCHANGED <<gateV, poolV, agentV, loginV>>
  PROVE  Grown /\ lt' = lt /\ task' = task /\ making' = making /\ job' = job /\ sock' = sock
  BY DEF Grown, gateV, poolV, agentV, loginV

LEMMA LoginUser ==
  ASSUME IInv, NEW t \in Task, lt[t].at # "idle"
  PROVE  /\ t \in LoginTask /\ Known(lt[t].fd) /\ lt[t].fd \in Fd /\ lt[t].uid \in Uid /\ lt[t].key \in Key
         /\ C!User(lt[t].fd, lt[t].key) \in User
<1>1. Known(lt[t].fd) /\ lt[t].uid \in Uid /\ lt[t].key \in 0 .. key_seq /\ t \in LoginTask
  BY DEF IInv, Chains, Stacks, Knows
<1>2. lt[t].fd \in Fd /\ lt[t].key \in Key
  BY <1>1, KeyRange DEF Known
<1> QED
  BY <1>1, <1>2 DEF C!User, User

LEMMA CenterLoginStep ==
  ASSUME IInv, CenterLogin, NEW m, m = Head(mq["center"])
  PROVE  IInv' /\ [G!Next]_(G!gateVars)
<1>s. "gate" \in Service /\ "center" \in Service /\ "login" \in Service
  BY Names
<1> DEFINE t == m.t
           u == m.uid
<1>1. /\ Handles("center", "login")
      /\ \/ \E ret \in Bool : C!login(u, m.data, ret) /\ To("center", "login", Ret(t, ret))
         \/ /\ C!login_kick(t, u, m.data)
            /\ To("center", "gate", AskKick(t, users[u].fd))
      /\ UNCHANGED <<gateV, poolV, agentV, loginV>>
  BY DEF CenterLogin
<1>2. /\ mq["center"] # << >> /\ m \in Message /\ t \in Task /\ m.op = "login" /\ Fits("center", m)
      /\ Level(t) /\ Knows(t) /\ Moving(t) /\ Chains /\ Mail /\ One
  BY <1>1, <1>s, HeadFacts, HeadMoving, StateFacts
<1>3. Asked(t, "login") /\ u = lt[t].uid /\ m.data = C!User(lt[t].fd, lt[t].key)
  BY <1>2, Names DEF Fits, CenterMail, Answer
<1>4. u \in Uid /\ m.data \in User /\ Known(m.data.fd)
  <2>1. lt[t].at # "idle" /\ t \in Task
    BY <1>2, <1>3 DEF Asked
  <2>2. Known(lt[t].fd) /\ lt[t].uid \in Uid /\ C!User(lt[t].fd, lt[t].key) \in User
    <3> HIDE DEF t
    <3> QED BY <2>1, LoginUser
  <2>3. m.data.fd = lt[t].fd
    BY <1>3 DEF C!User
  <2> QED
    BY <1>3, <2>2, <2>3
<1>5. Grown /\ lt' = lt /\ task' = task /\ making' = making /\ job' = job
  BY <1>1, Steady
<1>6. /\ users \in [Uid -> User \cup {Nil}]
      /\ logging \in [Task -> [uid : Uid, data : User] \cup {Nil}]
      /\ leaving \in [Task -> [uid : Uid, key : Key, from : From] \cup {Nil}]
      /\ \A v \in Uid : users[v] # Nil => Known(users[v].fd)
      /\ \A v \in Task : logging[v] # Nil => Known(logging[v].data.fd)
  BY StateFacts DEF IInv, Entered
<1>7. ASSUME NEW ret \in Bool, C!login(u, m.data, ret), To("center", "login", Ret(t, ret))
      PROVE  IInv' /\ [G!Next]_(G!gateVars)
  <2> DEFINE n == Ret(t, ret)
  <2>1. n \in Message /\ n.t = t /\ n \in Answer
    BY <1>2, <1>7, Messages DEF Ret, Value, Bool
  <2>2. logging' = logging /\ leaving' = leaving
    BY <1>7 DEF C!login
  <2>3. users' \in [Uid -> User \cup {Nil}] /\ \A v \in Uid : users'[v] # Nil => Known(users'[v].fd)
    BY <1>4, <1>6, <1>7 DEF C!login
  <2>4. To("center", "login", n)
    BY <1>7
  <2> HIDE DEF n
  <2>5. Sent("login", n)
    BY <1>2, <1>s, <2>1, <2>4, MailTo
  <2>6. Others(t) /\ Same(t)
    BY <1>5, <2>2 DEF Others, Same
  <2>7. Fits("login", n)'
    BY <1>3, <2>1, <2>6 DEF Fits, LoginMail, Same, Asked, Bottom, Waits
  <2>8. Chains'
    <3> HIDE DEF t
    <3> QED BY <1>2, <1>5, <1>s, <2>1, <2>5, <2>6, <2>7, PassOn
  <2> QED
    BY <1>1, <1>6, <2>2, <2>3, <2>8, CenterRest
<1>8. CASE C!login_kick(t, u, m.data) /\ To("center", "gate", AskKick(t, users[u].fd))
  <2>1. PICK n : n = AskKick(t, users[u].fd)
    OBVIOUS
  <2>2. users[u] # Nil /\ Known(users[u].fd)
    BY <1>4, <1>6, <1>8 DEF C!login_kick
  <2>3. n \in Message /\ n.t = t /\ n.op = "kick" /\ Known(n.fd)
    BY <1>2, <2>1, <2>2, Messages DEF AskKick, Known
  <2>4. Sent("gate", n)
    BY ZenonT(60), <1>2, <1>8, <1>s, <2>1, <2>3, MailTo
  <2>5. users' = users /\ leaving' = leaving /\ logging' = [logging EXCEPT ![t] = [uid |-> u, data |-> m.data]]
    BY <1>8 DEF C!login_kick
  <2>6. [uid |-> u, data |-> m.data] \in [uid : Uid, data : User]
    BY <1>4
  <2>7. /\ logging' \in [Task -> [uid : Uid, data : User] \cup {Nil}]
        /\ logging'[t] # Nil /\ logging'[t].data = m.data
        /\ \A v \in Task : v # t => logging'[v] = logging[v]
    BY <1>2, <1>6, <2>5, <2>6, Names
  <2>8. Others(t)
    BY <1>5, <2>5, <2>7 DEF Others
  <2>9. Known(n.fd)'
    BY <1>1, <2>3, Steady DEF Known
  <2>10. Fits("gate", n)'
    BY ZenonT(60), <1>3, <1>5, <2>3, <2>5, <2>7, <2>9 DEF Fits, GateMail, Asked, Bottom
  <2>11. Level(t)'
    BY ZenonT(60), <1>2, <1>3, <1>5, <2>5, <2>7 DEF Level, Moving, Asked, Bottom
  <2>12. Knows(t)'
    BY ZenonT(60), <1>2, <1>5 DEF Knows, Grown, Known
  <2>13. Chains'
    <3> HIDE DEF t
    <3> QED BY <1>2, <1>5, <1>s, <2>3, <2>4, <2>8, <2>10, <2>11, <2>12, SentStep
  <2>14. \A v \in Task : logging'[v] # Nil => Known(logging'[v].data.fd)
    BY <1>4, <1>6, <2>7
  <2> QED
    BY ZenonT(60), <1>1, <1>6, <2>5, <2>7, <2>13, <2>14, CenterRest
<1> QED
  BY <1>1, <1>7, <1>8

LEMMA CenterRegisterStep ==
  ASSUME IInv, CenterRegister, NEW m, m = Head(mq["center"])
  PROVE  IInv' /\ [G!Next]_(G!gateVars)
<1>s. "center" \in Service /\ "login" \in Service
  BY Names
<1> DEFINE t == m.t
           u == m.uid
<1>1. /\ Handles("center", "register")
      /\ \E ret \in Bool : C!register(u, m.key, m.agent, ret) /\ To("center", "login", Ret(t, ret))
      /\ UNCHANGED <<gateV, poolV, agentV, loginV>>
  BY DEF CenterRegister
<1>2. /\ mq["center"] # << >> /\ m \in Message /\ t \in Task /\ m.op = "register" /\ Fits("center", m)
      /\ Level(t) /\ Knows(t) /\ Moving(t) /\ Chains /\ Mail /\ One
  BY <1>1, <1>s, HeadFacts, HeadMoving, StateFacts
<1>3. Asked(t, "register") /\ u = lt[t].uid /\ m.agent = lt[t].agent
  BY <1>2, Names DEF Fits, CenterMail, Answer
<1>4. u \in Uid /\ m.agent \in Agent
  BY <1>2, <1>3 DEF Asked, Knows
<1>5. Grown /\ lt' = lt /\ task' = task /\ making' = making /\ job' = job
  BY <1>1, Steady
<1>6. /\ users \in [Uid -> User \cup {Nil}]
      /\ logging \in [Task -> [uid : Uid, data : User] \cup {Nil}]
      /\ leaving \in [Task -> [uid : Uid, key : Key, from : From] \cup {Nil}]
      /\ \A v \in Uid : users[v] # Nil => Known(users[v].fd)
      /\ \A v \in Task : logging[v] # Nil => Known(logging[v].data.fd)
  BY StateFacts DEF IInv, Entered
<1>7. PICK ret \in Bool : C!register(u, m.key, m.agent, ret) /\ To("center", "login", Ret(t, ret))
  BY <1>1
<1> DEFINE n == Ret(t, ret)
<1>8. n \in Message /\ n.t = t /\ n \in Answer
  BY <1>2, Messages DEF Ret, Value, Bool
<1>9. logging' = logging /\ leaving' = leaving
  BY ZenonT(60), <1>7 DEF C!register
<1>10. users' \in [Uid -> User \cup {Nil}] /\ \A v \in Uid : users'[v] # Nil => Known(users'[v].fd)
  <2>1. CASE users' = users
    BY <1>6, <2>1
  <2>2. CASE users[u] # Nil /\ users' = [users EXCEPT ![u].agent = m.agent]
    <3>1. users[u] \in User
      BY <1>4, <1>6, <2>2
    <3>2. users'[u] \in User /\ users'[u].fd = users[u].fd /\ Known(users[u].fd)
      BY <1>4, <1>6, <2>2, <3>1 DEF User
    <3>3. \A v \in Uid : v # u => users'[v] = users[v]
      BY <1>6, <2>2
    <3>4. users' \in [Uid -> User \cup {Nil}]
      BY <1>4, <1>6, <2>2, <3>2, <3>3
    <3> QED
      BY <1>6, <3>2, <3>3, <3>4
  <2> QED
    BY ZenonT(60), <1>7, <2>1, <2>2 DEF C!register
<1>11. To("center", "login", n)
  BY <1>7
<1> HIDE DEF n
<1>12. Sent("login", n)
  BY <1>2, <1>8, <1>11, <1>s, MailTo
<1>13. Others(t) /\ Same(t)
  BY <1>5, <1>9 DEF Others, Same
<1>14. Fits("login", n)'
  BY <1>3, <1>8, <1>13 DEF Fits, LoginMail, Same, Asked, Bottom, Waits
<1>15. Chains'
  <2> HIDE DEF t
  <2> QED BY <1>2, <1>5, <1>8, <1>12, <1>13, <1>14, <1>s, PassOn
<1> QED
  BY <1>1, <1>6, <1>9, <1>10, <1>15, CenterRest

\* The answer of a logout fits its caller.
LEMMA LogoutReturns ==
  ASSUME NEW t, NEW from, NEW n \in Answer, n.t = t, Calls(t, from, "logout")', leaving'[t] = Nil
  PROVE  Fits(from, n)'
<1>1. CASE from = "gate" /\ task'[t] # G!Idle
  BY <1>1 DEF Fits, GateMail
<1>2. CASE /\ from = "login" /\ task'[t] = G!Idle /\ logging'[t] = Nil
           /\ lt'[t].at = "undo_logout"
  BY <1>2 DEF Fits, LoginMail, Bottom, Waits
<1> QED
  BY <1>1, <1>2 DEF Calls

LEMMA CenterLogoutStep ==
  ASSUME IInv, CenterLogout, NEW m, m = Head(mq["center"])
  PROVE  IInv' /\ [G!Next]_(G!gateVars)
<1>s. "gate" \in Service /\ "center" \in Service /\ "login" \in Service
  BY Names
<1> DEFINE t == m.t
           u == m.uid
<1>1. /\ Handles("center", "logout")
      /\ \/ \E ret \in Bool : C!logout(u, m.key, ret) /\ To("center", m.from, Ret(t, ret))
         \/ /\ C!logout_kick(t, u, m.key, m.from)
            /\ To("center", users[u].agent, AskAgent(t, A!Kick))
      /\ UNCHANGED <<gateV, poolV, agentV, loginV>>
  BY DEF CenterLogout
<1>2. /\ mq["center"] # << >> /\ m \in Message /\ t \in Task /\ m.op = "logout" /\ Fits("center", m)
      /\ Level(t) /\ Knows(t) /\ Moving(t) /\ Chains /\ Mail /\ One
  BY <1>1, <1>s, HeadFacts, HeadMoving, StateFacts
<1>3. m \in ToCenter /\ leaving[t] = Nil /\ Calls(t, m.from, "logout")
  BY <1>2, Names DEF Fits, CenterMail, Answer
<1>4. u \in Uid /\ m.key \in Key /\ m.from \in From
  BY <1>2, <1>3 DEF ToCenter
<1>5. Grown /\ lt' = lt /\ task' = task /\ making' = making /\ job' = job
  BY <1>1, Steady
<1>6. /\ users \in [Uid -> User \cup {Nil}]
      /\ logging \in [Task -> [uid : Uid, data : User] \cup {Nil}]
      /\ leaving \in [Task -> [uid : Uid, key : Key, from : From] \cup {Nil}]
      /\ \A v \in Uid : users[v] # Nil => Known(users[v].fd)
      /\ \A v \in Task : logging[v] # Nil => Known(logging[v].data.fd)
  BY StateFacts DEF IInv, Entered
<1>7. ASSUME NEW ret \in Bool, C!logout(u, m.key, ret), To("center", m.from, Ret(t, ret))
      PROVE  IInv' /\ [G!Next]_(G!gateVars)
  <2> DEFINE n == Ret(t, ret)
             from == m.from
  <2>1. n \in Message /\ n.t = t /\ n \in Answer
    BY <1>2, <1>7, Messages DEF Ret, Value, Bool
  <2>2. logging' = logging /\ leaving' = leaving
    BY <1>7 DEF C!logout
  <2>3. users' \in [Uid -> User \cup {Nil}] /\ \A v \in Uid : users'[v] # Nil => Known(users'[v].fd)
    BY <1>4, <1>6, <1>7 DEF C!logout
  <2>4. To("center", from, n) /\ from \in Service /\ from # "center"
    BY <1>4, <1>7, <1>s DEF From
  <2> HIDE DEF n
  <2>5. Sent(from, n)
    <3> HIDE DEF from
    <3> QED BY <1>2, <1>s, <2>1, <2>4, MailTo
  <2>6. Others(t) /\ Same(t)
    BY <1>5, <2>2 DEF Others, Same
  <2>7. Calls(t, from, "logout")' /\ leaving'[t] = Nil
    BY <1>3, <2>6 DEF Calls, Same
  <2>8. Fits(from, n)'
    <3> HIDE DEF from, t
    <3> QED BY <2>1, <2>7, LogoutReturns
  <2>9. Chains'
    <3> HIDE DEF t, from
    <3> QED BY <1>2, <1>5, <2>1, <2>4, <2>5, <2>6, <2>8, PassOn
  <2> QED
    BY <1>1, <1>6, <2>2, <2>3, <2>9, CenterRest
<1>8. CASE C!logout_kick(t, u, m.key, m.from) /\ To("center", users[u].agent, AskAgent(t, A!Kick))
  <2> DEFINE n == AskAgent(t, A!Kick)
             l == [uid |-> u, key |-> m.key, from |-> m.from]
  <2>1. PICK a : a = users[u].agent
    OBVIOUS
  <2>2. a \in Agent /\ a \in Service /\ a # "center"
    <3>1. users[u] \in User /\ users[u].agent # Nil
      BY <1>4, <1>6, <1>8 DEF C!logout_kick
    <3> QED
      BY <2>1, <3>1, Names DEF User
  <2>3. n \in Message /\ n.t = t /\ n \in ToAgent /\ n.job.cmd = "kick"
    BY <1>2, Messages DEF AskAgent, Job, A!Kick
  <2>4. To("center", a, n)
    BY <1>8, <2>1
  <2>5. users' = users /\ logging' = logging /\ leaving' = [leaving EXCEPT ![t] = l]
    BY <1>8 DEF C!logout_kick
  <2>6. l \in [uid : Uid, key : Key, from : From] /\ l.from = m.from
    BY <1>4
  <2> HIDE DEF n, l
  <2>7. Sent(a, n)
    BY <1>2, <1>s, <2>2, <2>3, <2>4, MailTo
  <2>8. /\ leaving' \in [Task -> [uid : Uid, key : Key, from : From] \cup {Nil}]
        /\ leaving'[t] # Nil /\ leaving'[t].from = m.from
        /\ \A v \in Task : v # t => leaving'[v] = leaving[v]
    BY <1>2, <1>6, <2>5, <2>6, Names
  <2>9. Others(t)
    BY <1>5, <2>5, <2>8 DEF Others
  <2>10. Fits(a, n)'
    BY <2>2, <2>3, <2>8 DEF Fits, AgentMail, Works
  <2>11. Calls(t, m.from, "logout")'
    BY <1>3, <1>5, <2>5 DEF Calls
  <2>12. Level(t)'
    BY ZenonT(60), <1>2, <1>5, <2>5, <2>8, <2>11 DEF Level, Moving
  <2>13. Knows(t)'
    BY ZenonT(60), <1>2, <1>5 DEF Knows, Grown, Known
  <2>14. Chains'
    <3> HIDE DEF t
    <3> QED BY <1>2, <1>5, <2>2, <2>3, <2>7, <2>9, <2>10, <2>12, <2>13, SentStep
  <2> QED
    BY <1>1, <1>6, <2>5, <2>8, <2>14, CenterRest
<1> QED
  BY <1>1, <1>7, <1>8

LEMMA CenterResumeStep ==
  ASSUME IInv, CenterResume, NEW m, m = Head(mq["center"])
  PROVE  IInv' /\ [G!Next]_(G!gateVars)
<1>s. "gate" \in Service /\ "center" \in Service /\ "login" \in Service
  BY Names
<1> DEFINE t == m.t
<1>1. /\ Handles("center", "ret")
      /\ \E ret \in Bool :
           \/ /\ leaving[t] # Nil
              /\ C!logout_kicked(t, m.val, ret)
              /\ To("center", leaving[t].from, Ret(t, ret))
           \/ /\ leaving[t] = Nil
              /\ C!login_kicked(t, m.val, ret)
              /\ To("center", "login", Ret(t, ret))
      /\ UNCHANGED <<gateV, poolV, agentV, loginV>>
  BY DEF CenterResume
<1>2. /\ mq["center"] # << >> /\ m \in Message /\ t \in Task /\ m.op = "ret" /\ Fits("center", m)
      /\ Level(t) /\ Knows(t) /\ Moving(t) /\ Chains /\ Mail /\ One
  BY <1>1, <1>s, HeadFacts, HeadMoving, StateFacts
<1>3. leaving[t] # Nil \/ (task[t] = G!Idle /\ logging[t] # Nil)
  BY <1>2, Names DEF Fits, CenterMail
<1>5. Grown /\ lt' = lt /\ task' = task /\ making' = making /\ job' = job
  BY <1>1, Steady
<1>6. /\ users \in [Uid -> User \cup {Nil}]
      /\ logging \in [Task -> [uid : Uid, data : User] \cup {Nil}]
      /\ leaving \in [Task -> [uid : Uid, key : Key, from : From] \cup {Nil}]
      /\ \A v \in Uid : users[v] # Nil => Known(users[v].fd)
      /\ \A v \in Task : logging[v] # Nil => Known(logging[v].data.fd)
  BY StateFacts DEF IInv, Entered
<1>7. ASSUME NEW ret \in Bool, leaving[t] # Nil, C!logout_kicked(t, m.val, ret),
             To("center", leaving[t].from, Ret(t, ret))
      PROVE  IInv' /\ [G!Next]_(G!gateVars)
  <2> DEFINE n == Ret(t, ret)
  <2>1. n \in Message /\ n.t = t /\ n \in Answer
    BY <1>2, <1>7, Messages DEF Ret, Value, Bool
  <2>2. PICK from : from = leaving[t].from
    OBVIOUS
  <2>3. leaving[t] \in [uid : Uid, key : Key, from : From]
    BY <1>2, <1>6, <1>7
  <2>4. To("center", from, n) /\ from \in Service /\ from # "center"
    BY <1>7, <1>s, <2>2, <2>3 DEF From
  <2>5. logging' = logging /\ leaving' = [leaving EXCEPT ![t] = Nil]
    BY <1>7 DEF C!logout_kicked
  <2>6. users' \in [Uid -> User \cup {Nil}] /\ \A v \in Uid : users'[v] # Nil => Known(users'[v].fd)
    BY ZenonT(60), <1>6, <1>7, <2>3 DEF C!logout_kicked
  <2>7. /\ leaving' \in [Task -> [uid : Uid, key : Key, from : From] \cup {Nil}]
        /\ leaving'[t] = Nil
        /\ \A v \in Task : v # t => leaving'[v] = leaving[v]
    BY <1>2, <1>6, <2>5
  <2> HIDE DEF n
  <2>8. Sent(from, n)
    BY <1>2, <1>s, <2>1, <2>4, MailTo
  <2>9. Others(t)
    BY <1>5, <2>5, <2>7 DEF Others
  <2>10. Calls(t, from, "logout")
    BY ZenonT(60), <1>2, <1>7, <2>2 DEF Level
  <2>11. Calls(t, from, "logout")' /\ leaving'[t] = Nil
    BY <1>5, <2>5, <2>7, <2>10 DEF Calls
  <2>12. Fits(from, n)'
    <3> HIDE DEF t
    <3> QED BY <2>1, <2>11, LogoutReturns
  <2>13. Level(t)'
    BY ZenonT(60), <1>2, <1>5, <2>5, <2>7 DEF Level, Moving
  <2>14. Knows(t)'
    BY ZenonT(60), <1>2, <1>5 DEF Knows, Grown, Known
  <2>15. Chains'
    <3> HIDE DEF t
    <3> QED BY <1>2, <1>5, <2>1, <2>4, <2>8, <2>9, <2>12, <2>13, <2>14, SentStep
  <2> QED
    BY <1>1, <1>6, <2>5, <2>6, <2>7, <2>15, CenterRest
<1>8. ASSUME NEW ret \in Bool, leaving[t] = Nil, C!login_kicked(t, m.val, ret),
             To("center", "login", Ret(t, ret))
      PROVE  IInv' /\ [G!Next]_(G!gateVars)
  <2> DEFINE n == Ret(t, ret)
  <2>1. n \in Message /\ n.t = t /\ n \in Answer
    BY <1>2, <1>8, Messages DEF Ret, Value, Bool
  <2>2. task[t] = G!Idle /\ logging[t] \in [uid : Uid, data : User] /\ logging[t] # Nil
    BY <1>2, <1>3, <1>6, <1>8
  <2>3. lt[t].at = "login"
    BY <1>2, <2>2 DEF Level
  <2>4. leaving' = leaving /\ logging' = [logging EXCEPT ![t] = Nil]
    BY ZenonT(60), <1>8 DEF C!login_kicked
  <2>5. users' \in [Uid -> User \cup {Nil}] /\ \A v \in Uid : users'[v] # Nil => Known(users'[v].fd)
    <3>1. logging[t].uid \in Uid /\ logging[t].data \in User /\ Known(logging[t].data.fd)
      BY <1>2, <1>6, <2>2
    <3>2. users' = users \/ users' = [users EXCEPT ![logging[t].uid] = logging[t].data]
      BY ZenonT(60), <1>8 DEF C!login_kicked
    <3> QED
      BY ZenonT(60), <1>6, <3>1, <3>2
  <2>6. /\ logging' \in [Task -> [uid : Uid, data : User] \cup {Nil}]
        /\ logging'[t] = Nil
        /\ \A v \in Task : v # t => logging'[v] = logging[v]
    BY <1>2, <1>6, <2>4
  <2>7. To("center", "login", n)
    BY <1>8
  <2> HIDE DEF n
  <2>8. Sent("login", n)
    BY <1>2, <1>s, <2>1, <2>7, MailTo
  <2>9. Others(t)
    BY <1>5, <2>4, <2>6 DEF Others
  <2>10. Fits("login", n)'
    BY <1>5, <1>8, <2>1, <2>2, <2>3, <2>4, <2>6 DEF Fits, LoginMail, Bottom, Waits
  <2>11. Level(t)'
    BY ZenonT(60), <1>2, <1>5, <1>8, <2>2, <2>4, <2>6 DEF Level, Moving
  <2>12. Knows(t)'
    BY <1>2, <1>5 DEF Knows, Grown, Known
  <2>13. Chains'
    <3> HIDE DEF t
    <3> QED BY <1>2, <1>5, <1>s, <2>1, <2>8, <2>9, <2>10, <2>11, <2>12, SentStep
  <2>14. \A v \in Task : logging'[v] # Nil => Known(logging'[v].data.fd)
    BY <1>6, <2>6
  <2> QED
    BY <1>1, <1>6, <2>4, <2>5, <2>6, <2>13, <2>14, CenterRest
<1> QED
  BY <1>1, <1>7, <1>8

-----------------------------------------------------------------------------
(* The agent pool. *)

LEMMA PoolRest ==
  ASSUME IInv, UNCHANGED <<gateV, centerV, agentV, loginV>>, Chains', P!PoolType'
  PROVE  IInv' /\ [G!Next]_(G!gateVars)
<1>1. [G!Next]_(G!gateVars)
  BY GateQuiet
<1>2. GP!IInv' /\ RecordKeys'
  BY <1>1, GateKept, RecordKeysKept DEF IInv, Entered
<1>3. Types'
  BY DEF IInv, Types, centerV, agentV, loginV, C!CenterType, A!AgentType, L!LoginType
<1>4. Section' /\ Numbered'
  BY DEF IInv, Section, Numbered, agentV, loginV
<1>5. Entered'
  BY <1>2 DEF IInv, Entered, Known, gateV, centerV
<1> QED
  BY <1>1, <1>2, <1>3, <1>4, <1>5 DEF IInv

LEMMA PoolFacts ==
  ASSUME IInv
  PROVE  /\ pool \in [{"agentpool1"} -> Seq(Agent)]
         /\ agentlist \in [{"agentpool1"} -> SUBSET Agent]
         /\ started \in [{"agentpool1"} -> 0 .. MaxNum]
         /\ making \in [Task -> {"agentpool1"} \cup {Nil}]
         /\ born \in SUBSET Agent /\ dead \in SUBSET Agent
  BY DEF IInv, Types, P!PoolType

LEMMA PoolStartStep ==
  ASSUME IInv, PoolStart
  PROVE  IInv' /\ [G!Next]_(G!gateVars)
<1>1. PICK a \in Agent : P!init_pool("agentpool1", a)
  BY DEF PoolStart
<1>2. UNCHANGED <<gateV, centerV, agentV, loginV>> /\ mq' = mq
  BY DEF PoolStart
<1>3. MaxNum \in Nat
  BY FlowConstants
<1>4. P!PoolType'
  <2>1. Append(pool["agentpool1"], a) \in Seq(Agent)
    BY PoolFacts
  <2>2. started["agentpool1"] + 1 \in 0 .. MaxNum
    BY <1>1, <1>3, PoolFacts DEF P!init_pool
  <2> QED
    BY <1>1, <2>1, <2>2, PoolFacts DEF P!init_pool, P!PoolType
<1>5. Grown /\ Others(Nil)
  BY <1>1, <1>2 DEF Grown, Others, gateV, centerV, agentV, loginV, P!init_pool
<1>6. Chains'
  BY <1>2, <1>5, QuietStep, NilAbsent, Names DEF IInv
<1> QED
  BY <1>2, <1>4, <1>6, PoolRest

LEMMA PoolGetStep ==
  ASSUME IInv, PoolGet, NEW m, m = Head(mq["pool"])
  PROVE  IInv' /\ [G!Next]_(G!gateVars)
<1>s. "pool" \in Service /\ "login" \in Service
  BY Names
<1> DEFINE t == m.t
<1>1. /\ Handles("pool", "get")
      /\ \/ \E a \in Agent : P!get("agentpool1", a) /\ To("pool", "login", RetAgent(t, a))
         \/ P!get_new("agentpool1", t) /\ Eat("pool")
      /\ UNCHANGED <<gateV, centerV, agentV, loginV>>
  BY DEF PoolGet
<1>2. /\ mq["pool"] # << >> /\ m \in Message /\ t \in Task /\ m.op = "get" /\ Fits("pool", m)
      /\ Level(t) /\ Knows(t) /\ Moving(t) /\ Chains /\ Mail /\ One
  BY <1>1, <1>s, HeadFacts, HeadMoving, StateFacts
<1>3. Asked(t, "get")
  BY <1>2, Names DEF Fits, PoolMail
<1>4. /\ Grown /\ lt' = lt /\ task' = task /\ logging' = logging /\ leaving' = leaving /\ job' = job
  BY <1>1 DEF Grown, gateV, centerV, agentV, loginV
<1>5. ASSUME NEW a \in Agent, P!get("agentpool1", a), To("pool", "login", RetAgent(t, a))
      PROVE  IInv' /\ [G!Next]_(G!gateVars)
  <2> DEFINE n == RetAgent(t, a)
  <2>1. n \in Message /\ n.t = t /\ n \in Answer /\ n.agent = a
    BY <1>2, <1>5, Messages DEF RetAgent
  <2>2. P!PoolType' /\ making' = making
    <3> DEFINE q == pool["agentpool1"]
    <3>1. q \in Seq(Agent) /\ q # << >>
      BY <1>5, PoolFacts DEF P!get
    <3> HIDE DEF q
    <3>2. SubSeq(q, 1, Len(q) - 1) \in Seq(Agent)
      BY <3>1
    <3>3. P!Front(q) \in Seq(Agent)
      BY <3>2 DEF P!Front
    <3> QED
      BY <1>5, <3>3, PoolFacts DEF P!get, P!PoolType, q
  <2> HIDE DEF n
  <2>3. Sent("login", n)
    BY <1>2, <1>5, <1>s, <2>1, MailTo DEF n
  <2>4. Others(t) /\ Same(t)
    BY <1>4, <2>2 DEF Others, Same
  <2>5. Fits("login", n)'
    BY <1>3, <1>5, <2>1, <2>4 DEF Fits, LoginMail, Same, Asked, Bottom, Waits
  <2>6. Chains'
    <3> HIDE DEF t
    <3> QED BY <1>2, <1>4, <1>s, <2>1, <2>3, <2>4, <2>5, PassOn
  <2> QED
    BY <1>1, <2>2, <2>6, PoolRest
<1>6. CASE P!get_new("agentpool1", t) /\ Eat("pool")
  <2>1. making' = [making EXCEPT ![t] = "agentpool1"] /\ P!PoolType'
    BY <1>2, <1>6, PoolFacts DEF P!get_new, P!PoolType
  <2>2. Eaten(t)
    BY <1>2, <1>6, <1>s, MailEat
  <2>3. Others(t)
    BY <1>4, <2>1, PoolFacts DEF Others
  <2>4. Asked(t, "get")' /\ Absent(t)'
    BY <1>3, <1>4, <2>2 DEF Asked, Bottom, Eaten
  <2>5. Level(t)'
    BY ZenonT(60), <1>2, <1>4, <2>4 DEF Level, Moving, Calls
  <2>6. Knows(t)'
    BY ZenonT(60), <1>2, <1>4 DEF Knows, Grown, Known
  <2>7. Chains'
    BY <1>2, <1>4, <2>2, <2>3, <2>5, <2>6, EatenStep
  <2> QED
    BY <1>1, <2>1, <2>7, PoolRest
<1> QED
  BY <1>1, <1>5, <1>6

LEMMA PoolNewStep ==
  ASSUME IInv, NEW t \in LoginTask, PoolNew(t)
  PROVE  IInv' /\ [G!Next]_(G!gateVars)
<1>s. "login" \in Service /\ t \in Task
  BY Names
<1>1. PICK a \in Agent : P!newservice(t, a) /\ Post("login", RetAgent(t, a))
  BY DEF PoolNew
<1>2. UNCHANGED <<gateV, centerV, agentV, loginV>>
  BY DEF PoolNew
<1>3. making[t] # Nil /\ making[t] = "agentpool1" /\ making' = [making EXCEPT ![t] = Nil]
  BY <1>1, <1>s, PoolFacts DEF P!newservice
<1>4. Level(t) /\ Knows(t) /\ Chains
  BY <1>s DEF IInv, Chains, Stacks
<1>5. Asked(t, "get") /\ Absent(t)
  BY <1>3, <1>4 DEF Level
<1>6. job[t] = Nil
  BY <1>4, <1>5 DEF Level, Asked, Bottom, Works
<1> DEFINE n == RetAgent(t, a)
<1>7. n \in Message /\ n.t = t /\ n \in Answer /\ n.agent = a
  BY <1>s, Messages DEF RetAgent
<1>8. P!PoolType'
  BY <1>1, <1>3, <1>s, PoolFacts DEF P!newservice, P!PoolType
<1> HIDE DEF n
<1>9. Sent("login", n)
  BY <1>1, <1>4, <1>5, <1>7, <1>s, MailPost DEF Chains, n
<1>10. /\ Grown /\ lt' = lt /\ task' = task /\ logging' = logging /\ leaving' = leaving /\ job' = job
       /\ making'[t] = Nil
  BY <1>2, <1>3, <1>s, PoolFacts DEF Grown, gateV, centerV, agentV, loginV
<1>11. Others(t)
  BY <1>3, <1>10, PoolFacts DEF Others
<1>12. Fits("login", n)'
  BY <1>5, <1>7, <1>10 DEF Fits, LoginMail, Asked, Bottom, Waits
<1>13. Level(t)'
  BY <1>4, <1>5, <1>6, <1>10 DEF Level, Asked, Bottom
<1>14. Knows(t)'
  BY <1>4, <1>10 DEF Knows, Grown, Known
<1>15. Chains'
  BY <1>4, <1>7, <1>9, <1>10, <1>11, <1>12, <1>13, <1>14, <1>s, SentStep
<1> QED
  BY <1>2, <1>8, <1>15, PoolRest

LEMMA PoolRecycleStep ==
  ASSUME IInv, PoolRecycle, NEW m, m = Head(mq["pool"])
  PROVE  IInv' /\ [G!Next]_(G!gateVars)
<1>s. "pool" \in Service /\ "login" \in Service /\ "gate" \in Service
  BY Names
<1> DEFINE t == m.t
           from == m.from
<1>1. /\ Handles("pool", "recycle")
      /\ \/ m.agent # Nil /\ P!recycle("agentpool1", m.agent) /\ To("pool", from, Ret(t, "true"))
         \/ m.agent = Nil /\ UNCHANGED poolV /\ To("pool", from, Ret(t, "error"))
      /\ UNCHANGED <<gateV, centerV, agentV, loginV>>
  BY DEF PoolRecycle
<1>2. /\ mq["pool"] # << >> /\ m \in Message /\ t \in Task /\ m.op = "recycle" /\ Fits("pool", m)
      /\ Level(t) /\ Knows(t) /\ Moving(t) /\ Chains /\ Mail /\ One
  BY <1>1, <1>s, HeadFacts, HeadMoving, StateFacts
<1>3. m \in ToPool /\ leaving[t] = Nil /\ Calls(t, from, "recycle")
  BY <1>2, Names DEF Fits, PoolMail
<1>4. m.agent \in Agent \cup {Nil} /\ from \in From
  BY <1>2, <1>3 DEF ToPool
<1>5. PICK val \in Value : To("pool", from, Ret(t, val))
  BY <1>1 DEF Value
<1>6. P!PoolType' /\ making' = making
  <2>1. CASE UNCHANGED poolV
    BY <2>1 DEF IInv, Types, P!PoolType, poolV
  <2>2. CASE m.agent # Nil /\ P!recycle("agentpool1", m.agent)
    <3> DEFINE q == pool["agentpool1"]
               b == m.agent
    <3>1. b \in Agent /\ q \in Seq(Agent)
      BY <1>4, <2>2, PoolFacts
    <3> HIDE DEF q, b
    <3>2. <<b>> \o q \in Seq(Agent)
      BY <3>1
    <3> QED
      BY ZenonT(60), <2>2, <3>1, <3>2, PoolFacts DEF P!recycle, P!PoolType, q, b
  <2> QED
    BY <1>1, <2>1, <2>2
<1> DEFINE n == Ret(t, val)
<1>7. n \in Message /\ n.t = t /\ n \in Answer
  BY <1>2, Messages DEF Ret
<1>8. To("pool", from, n) /\ from \in Service /\ from # "pool"
  BY <1>4, <1>5, <1>s DEF From
<1> HIDE DEF n
<1>9. Sent(from, n)
  <2> HIDE DEF from
  <2> QED BY <1>2, <1>7, <1>8, <1>s, MailTo
<1>10. Grown /\ lt' = lt /\ task' = task /\ logging' = logging /\ leaving' = leaving /\ job' = job
  BY <1>1 DEF Grown, gateV, centerV, agentV, loginV
<1>11. Others(t) /\ Same(t)
  BY <1>6, <1>10 DEF Others, Same
<1>12. Fits(from, n)'
  <2>1. CASE from = "gate" /\ task[t] # G!Idle
    BY <1>3, <1>7, <1>11, <2>1 DEF Fits, GateMail, Same
  <2>2. CASE from = "login" /\ task[t] = G!Idle /\ logging[t] = Nil /\ lt[t].at = "undo_recycle"
    BY <1>3, <1>7, <1>11, <2>2 DEF Fits, LoginMail, Same, Bottom, Waits
  <2> QED
    BY <1>3, <2>1, <2>2 DEF Calls
<1>13. Chains'
  <2> HIDE DEF t, from
  <2> QED BY <1>2, <1>7, <1>8, <1>9, <1>10, <1>11, <1>12, PassOn
<1> QED
  BY <1>1, <1>6, <1>13, PoolRest

-----------------------------------------------------------------------------
(* The agents. *)

LEMMA AgentRest ==
  ASSUME IInv, UNCHANGED <<gateV, centerV, poolV, loginV>>, Chains', A!AgentType', Section'
  PROVE  IInv' /\ [G!Next]_(G!gateVars)
<1>1. [G!Next]_(G!gateVars)
  BY GateQuiet
<1>2. GP!IInv' /\ RecordKeys'
  BY <1>1, GateKept, RecordKeysKept DEF IInv, Entered
<1>3. Types'
  BY DEF IInv, Types, centerV, poolV, loginV, C!CenterType, P!PoolType, L!LoginType
<1>4. Numbered'
  BY DEF IInv, Numbered, loginV
<1>5. Entered'
  BY <1>2 DEF IInv, Entered, Known, gateV, centerV
<1> QED
  BY <1>1, <1>2, <1>3, <1>4, <1>5 DEF IInv

LEMMA AgentFacts ==
  ASSUME IInv
  PROVE  /\ conf \in [Agent -> [fd : Fd, uid : Uid] \cup {Nil}]
         /\ current \in [Agent -> Task \cup {Nil}]
         /\ thread_queue \in [Agent -> Seq(Task)]
         /\ job \in [Task -> Job \cup {Nil}]
         /\ Section
  BY StateFacts DEF IInv, Types, A!AgentType

LEMMA AgentTyped ==
  ASSUME conf' \in [Agent -> [fd : Fd, uid : Uid] \cup {Nil}],
         current' \in [Agent -> Task \cup {Nil}],
         thread_queue' \in [Agent -> Seq(Task)],
         job' \in [Task -> Job \cup {Nil}]
  PROVE  A!AgentType'
  BY DEF A!AgentType, Job

LEMMA BeginType ==
  ASSUME IInv, NEW a \in Agent, NEW j \in Job, A!Begin(a, j)
  PROVE  conf' \in [Agent -> [fd : Fd, uid : Uid] \cup {Nil}]
<1>1. j.cmd = "start" => [fd |-> j.fd, uid |-> j.uid] \in [fd : Fd, uid : Uid]
  BY DEF Job, A!Start, A!Kick
<1> QED
  BY <1>1, AgentFacts DEF A!Begin

\* A coroutine that runs no command enters the critical section or its queue.
LEMMA SectionEnter ==
  ASSUME IInv, NEW a \in Agent, NEW t \in Task, NEW j \in Job, job[t] = Nil, A!Command(a, t, j)
  PROVE  A!AgentType' /\ Section'
<1>1. job' = [job EXCEPT ![t] = j] /\ j # Nil /\ t # Nil
  BY Names DEF A!Command
<1>2. /\ job' \in [Task -> Job \cup {Nil}] /\ job'[t] # Nil
      /\ \A u \in Task : job[u] # Nil => job'[u] # Nil
  BY <1>1, AgentFacts
<1>3. /\ \A b \in Agent : current[b] # t
      /\ \A b \in Agent : \A i \in DOMAIN thread_queue[b] : thread_queue[b][i] # t
  BY <1>1, AgentFacts DEF Section
<1>t. /\ \A b \in Agent : current[b] # Nil => current[b] \in Task
      /\ \A b \in Agent : \A i \in DOMAIN thread_queue[b] : thread_queue[b][i] \in Task
  BY AgentFacts
<1>4. CASE current[a] = Nil
  <2>1. current' = [current EXCEPT ![a] = t] /\ thread_queue' = thread_queue /\ A!Begin(a, j)
    BY <1>4 DEF A!Command
  <2>2. current'[a] = t /\ \A b \in Agent : b # a => current'[b] = current[b]
    BY <2>1, AgentFacts
  <2>3. A!AgentType'
    BY <1>2, <2>1, BeginType, AgentTyped, AgentFacts
  <2>4. Section'
    BY <1>2, <1>3, <1>t, <2>1, <2>2, AgentFacts DEF Section
  <2> QED
    BY <2>3, <2>4
<1>5. CASE current[a] # Nil
  <2> DEFINE q == thread_queue[a]
  <2>1. current' = current /\ conf' = conf /\ thread_queue' = [thread_queue EXCEPT ![a] = Append(q, t)]
    BY <1>5 DEF A!Command
  <2>2. q \in Seq(Task)
    BY AgentFacts
  <2>3. thread_queue'[a] = Append(q, t) /\ \A b \in Agent : b # a => thread_queue'[b] = thread_queue[b]
    BY <2>1, AgentFacts
  <2> HIDE DEF q
  <2>4. /\ Append(q, t) \in Seq(Task) /\ DOMAIN Append(q, t) = DOMAIN q \cup {Len(q) + 1}
        /\ Append(q, t)[Len(q) + 1] = t /\ \A i \in DOMAIN q : Append(q, t)[i] = q[i]
    BY <2>2
  <2>5. thread_queue' \in [Agent -> Seq(Task)]
    BY <2>1, <2>4, AgentFacts
  <2>6. A!AgentType'
    BY <1>2, <2>1, <2>5, AgentTyped, AgentFacts
  <2>7. ASSUME NEW b \in Agent, NEW i \in DOMAIN thread_queue'[b]
        PROVE  \/ i \in DOMAIN thread_queue[b] /\ thread_queue'[b][i] = thread_queue[b][i]
               \/ b = a /\ i = Len(q) + 1 /\ thread_queue'[b][i] = t
    BY <2>3, <2>4 DEF q
  <2>8. ASSUME NEW b \in Agent, NEW i \in DOMAIN thread_queue'[b] PROVE job'[thread_queue'[b][i]] # Nil
    <3>1. CASE i \in DOMAIN thread_queue[b] /\ thread_queue'[b][i] = thread_queue[b][i]
      <4>1. thread_queue[b][i] \in Task /\ job[thread_queue[b][i]] # Nil
        BY <1>t, <3>1, AgentFacts DEF Section
      <4> QED
        BY <1>2, <3>1, <4>1
    <3>2. CASE thread_queue'[b][i] = t
      BY <1>2, <3>2
    <3> QED
      BY <2>7, <3>1, <3>2
  <2>9. \A b, d \in Agent : \A i \in DOMAIN thread_queue'[d] : current'[b] # thread_queue'[d][i]
    BY <1>3, <2>1, <2>7, AgentFacts DEF Section
  <2>10. \A b, d \in Agent : \A i \in DOMAIN thread_queue'[b], k \in DOMAIN thread_queue'[d] :
           thread_queue'[b][i] = thread_queue'[d][k] => b = d /\ i = k
    <3> SUFFICES ASSUME NEW b \in Agent, NEW d \in Agent, NEW i \in DOMAIN thread_queue'[b],
                        NEW k \in DOMAIN thread_queue'[d], thread_queue'[b][i] = thread_queue'[d][k]
                 PROVE  b = d /\ i = k
      OBVIOUS
    <3>1. CASE thread_queue'[b][i] = t
      <4>1. b = a /\ i = Len(q) + 1
        BY <1>3, <2>7, <3>1
      <4>2. d = a /\ k = Len(q) + 1
        BY <1>3, <2>7, <3>1
      <4> QED
        BY <4>1, <4>2
    <3>2. CASE thread_queue'[b][i] # t
      BY <2>7, <3>2, AgentFacts DEF Section
    <3> QED
      BY <3>1, <3>2
  <2>11. Section'
    BY <1>2, <1>t, <2>1, <2>8, <2>9, <2>10, AgentFacts DEF Section
  <2> QED
    BY <2>6, <2>11
<1> QED
  BY <1>4, <1>5

LEMMA SectionLeave ==
  ASSUME IInv, NEW a \in Agent, current[a] # Nil, A!Leave(a)
  PROVE  A!AgentType' /\ Section'
<1> DEFINE t == current[a]
           q == thread_queue[a]
<1>1. t \in Task /\ q \in Seq(Task)
  BY AgentFacts
<1>2. job' = [job EXCEPT ![t] = Nil] /\ job' \in [Task -> Job \cup {Nil}]
  BY <1>1, AgentFacts DEF A!Leave
<1>3. \A u \in Task : u # t => job'[u] = job[u]
  BY <1>2, AgentFacts
<1>4. /\ \A b \in Agent : b # a => current[b] # t
      /\ \A b \in Agent : \A i \in DOMAIN thread_queue[b] : thread_queue[b][i] # t
  BY AgentFacts DEF Section
<1>t. /\ \A b \in Agent : current[b] # Nil => current[b] \in Task
      /\ \A b \in Agent : \A i \in DOMAIN thread_queue[b] : thread_queue[b][i] \in Task
  BY AgentFacts
<1>5. CASE q = << >>
  <2>1. current' = [current EXCEPT ![a] = Nil] /\ conf' = conf /\ thread_queue' = thread_queue
    BY <1>5 DEF A!Leave
  <2>2. A!AgentType'
    BY <1>2, <2>1, AgentTyped, AgentFacts
  <2>3. current'[a] = Nil /\ \A b \in Agent : b # a => current'[b] = current[b]
    BY <2>1, AgentFacts
  <2>4. \A b \in Agent : \A i \in DOMAIN thread_queue[b] : thread_queue[b][i] # Nil
    BY <1>t, Names
  <2> HIDE DEF t
  <2>5. Section'
    BY <1>3, <1>4, <1>t, <2>1, <2>3, <2>4, AgentFacts DEF Section
  <2> QED
    BY <2>2, <2>5
<1>6. CASE q # << >>
  <2> DEFINE h == Head(q)
             o == [b \in Agent |-> IF b = a THEN 1 ELSE 0]
  <2>1. /\ current' = [current EXCEPT ![a] = h] /\ thread_queue' = [thread_queue EXCEPT ![a] = Tail(q)]
        /\ A!Begin(a, job[h])
    BY <1>6 DEF A!Leave
  <2>2. /\ 1 \in DOMAIN q /\ h = q[1] /\ h \in Task /\ Tail(q) \in Seq(Task)
        /\ \A i \in DOMAIN Tail(q) : i \in Int /\ i + 1 \in DOMAIN q /\ i + 1 # 1 /\ Tail(q)[i] = q[i + 1]
    <3> HIDE DEF q
    <3> QED BY <1>1, <1>6
  <2> HIDE DEF h
  <2>3. job[h] \in Job
    BY <2>2, AgentFacts DEF Section
  <2>4. thread_queue' \in [Agent -> Seq(Task)] /\ current' \in [Agent -> Task \cup {Nil}]
    BY <2>1, <2>2, AgentFacts
  <2>5. A!AgentType'
    BY <1>2, <2>1, <2>3, <2>4, BeginType, AgentTyped
  <2>6. current'[a] = h /\ \A b \in Agent : b # a => current'[b] = current[b]
    BY <2>1, AgentFacts
  <2>7. ASSUME NEW b \in Agent, NEW i \in DOMAIN thread_queue'[b]
        PROVE  /\ i \in Int /\ o[b] \in Int
               /\ i + o[b] \in DOMAIN thread_queue[b] /\ thread_queue'[b][i] = thread_queue[b][i + o[b]]
               /\ b = a => i + o[b] # 1
    <3>1. CASE b = a
      <4>1. thread_queue'[b] = Tail(q) /\ o[b] = 1
        BY <2>1, <3>1, AgentFacts
      <4> QED
        BY <2>2, <3>1, <4>1
    <3>2. CASE b # a
      <4>1. thread_queue'[b] = thread_queue[b] /\ o[b] = 0 /\ thread_queue[b] \in Seq(Task)
        BY <2>1, <3>2, AgentFacts
      <4>2. i \in Int
        BY <4>1
      <4> QED
        BY <3>2, <4>1, <4>2
    <3> QED
      BY <3>1, <3>2
  <2> HIDE DEF o
  <2>8. h # t /\ job'[h] # Nil /\ h # Nil
    BY <1>3, <1>4, <2>2, AgentFacts, Names DEF Section
  <2>9. \A b \in Agent : current'[b] # Nil => job'[current'[b]] # Nil
    <3> HIDE DEF t
    <3> QED BY <1>3, <1>4, <1>t, <2>6, <2>8, AgentFacts DEF Section
  <2>10. ASSUME NEW b \in Agent, NEW i \in DOMAIN thread_queue'[b] PROVE job'[thread_queue'[b][i]] # Nil
    <3> DEFINE k == i + o[b]
               v == thread_queue[b][k]
    <3>1. k \in DOMAIN thread_queue[b] /\ thread_queue'[b][i] = v
      BY <2>7
    <3> HIDE DEF k, t
    <3>2. v \in Task /\ v # t /\ job[v] # Nil
      BY <1>4, <1>t, <3>1, AgentFacts DEF Section
    <3> QED
      BY <1>3, <3>1, <3>2
  <2>11. \A b, d \in Agent : current'[b] # Nil /\ current'[b] = current'[d] => b = d
    <3>1. \A b \in Agent : current[b] # h
      BY <2>2, AgentFacts DEF Section
    <3> QED
      BY ZenonT(60), <2>6, <3>1, AgentFacts DEF Section
  <2>12. \A b, d \in Agent : \A i \in DOMAIN thread_queue'[d] : current'[b] # thread_queue'[d][i]
    <3> SUFFICES ASSUME NEW b \in Agent, NEW d \in Agent, NEW i \in DOMAIN thread_queue'[d]
                 PROVE  current'[b] # thread_queue'[d][i]
      OBVIOUS
    <3>1. CASE b # a
      BY SMTT(60), <2>6, <2>7, <3>1, AgentFacts DEF Section
    <3>2. CASE b = a
      <4>1. thread_queue[a][1] = h /\ 1 \in DOMAIN thread_queue[a]
        BY <2>2
      <4>2. thread_queue'[d][i] = h => d = a /\ i + o[d] = 1
        BY <2>7, <4>1, AgentFacts DEF Section
      <4> QED
        BY <2>6, <2>7, <3>2, <4>2
    <3> QED
      BY <3>1, <3>2
  <2>13. \A b, d \in Agent : \A i \in DOMAIN thread_queue'[b], k \in DOMAIN thread_queue'[d] :
           thread_queue'[b][i] = thread_queue'[d][k] => b = d /\ i = k
    <3> SUFFICES ASSUME NEW b \in Agent, NEW d \in Agent, NEW i \in DOMAIN thread_queue'[b],
                        NEW k \in DOMAIN thread_queue'[d], thread_queue'[b][i] = thread_queue'[d][k]
                 PROVE  b = d /\ i = k
      OBVIOUS
    <3>1. b = d /\ i + o[b] = k + o[d]
      BY <2>7, AgentFacts DEF Section
    <3> QED
      BY <2>7, <3>1
  <2>14. Section'
    BY <2>9, <2>10, <2>11, <2>12, <2>13 DEF Section
  <2> QED
    BY <2>5, <2>14
<1> QED
  BY <1>5, <1>6

\* The answer to a command fits its caller.
LEMMA WorkReturns ==
  ASSUME NEW t, NEW j \in Job, Works(t, j), NEW n \in Answer, n.t = t,
         lt'[t] = lt[t], task'[t] = task[t], logging'[t] = logging[t], leaving'[t] = leaving[t]
  PROVE  Caller(j) \in {"login", "center"} /\ Fits(Caller(j), n)'
<1>1. CASE j.cmd = "start" /\ Asked(t, "start")
  <2>1. Caller(j) = "login"
    BY <1>1 DEF Caller
  <2>2. LoginMail(n)'
    BY <1>1 DEF LoginMail, Asked, Bottom, Waits
  <2> QED
    BY <2>1, <2>2 DEF Fits
<1>2. CASE j.cmd = "kick" /\ leaving[t] # Nil
  <2>1. Caller(j) = "center"
    BY <1>2 DEF Caller
  <2>2. CenterMail(n)'
    BY <1>2 DEF CenterMail
  <2> QED
    BY <2>1, <2>2 DEF Fits
<1> QED
  BY <1>1, <1>2 DEF Works

LEMMA AgentCommandStep ==
  ASSUME IInv, NEW a \in Agent, AgentCommand(a), NEW m, m = Head(mq[a])
  PROVE  IInv' /\ [G!Next]_(G!gateVars)
<1>s. a \in Service /\ a \notin {"gate", "login", "center", "pool"}
  BY Names
<1> DEFINE t == m.t
           j == m.job
<1>1. /\ Handles(a, "command") /\ A!Command(a, t, j) /\ Eat(a)
      /\ UNCHANGED <<gateV, centerV, poolV, loginV>>
  BY DEF AgentCommand
<1>2. /\ mq[a] # << >> /\ m \in Message /\ t \in Task /\ m.op = "command" /\ Fits(a, m)
      /\ Level(t) /\ Knows(t) /\ Moving(t) /\ Chains /\ Mail /\ One
  BY <1>1, <1>s, HeadFacts, HeadMoving, StateFacts
<1>3. m \in ToAgent /\ Works(t, j)
  BY <1>2, <1>s DEF Fits, AgentMail
<1>4. j \in Job /\ j # Nil
  BY <1>3, Names DEF ToAgent
<1>5. A!AgentType' /\ Section'
  <2> HIDE DEF t, j
  <2> QED BY <1>1, <1>2, <1>4, SectionEnter DEF Moving
<1>6. Eaten(t)
  BY <1>1, <1>2, <1>s, MailEat
<1>7. /\ Grown /\ lt' = lt /\ task' = task /\ logging' = logging /\ leaving' = leaving /\ making' = making
      /\ job' = [job EXCEPT ![t] = j]
  BY <1>1 DEF Grown, gateV, centerV, poolV, loginV, A!Command
<1>8. Others(t) /\ job'[t] = j
  BY <1>2, <1>7, StateFacts DEF Others
<1>9. Works(t, j)' /\ Absent(t)'
  BY <1>3, <1>6, <1>7 DEF Works, Asked, Bottom, Eaten
<1>10. Level(t)'
  BY ZenonT(60), <1>2, <1>7, <1>8, <1>9 DEF Level, Moving, Calls
<1>11. Knows(t)'
  BY ZenonT(60), <1>2, <1>7 DEF Knows, Grown, Known
<1>12. Chains'
  BY <1>2, <1>6, <1>7, <1>8, <1>10, <1>11, EatenStep
<1> QED
  BY <1>1, <1>5, <1>12, AgentRest

LEMMA AgentGoneStep ==
  ASSUME IInv, NEW a \in Agent, AgentGone(a), NEW m, m = Head(mq[a])
  PROVE  IInv' /\ [G!Next]_(G!gateVars)
<1>s. /\ a \in Service /\ a \notin {"gate", "login", "center", "pool"}
      /\ "login" \in Service /\ "center" \in Service
  BY Names
<1> DEFINE t == m.t
           j == m.job
           d == Caller(j)
           n == Ret(t, "error")
<1>1. /\ Handles(a, "command") /\ To(a, d, n)
      /\ UNCHANGED <<gateV, centerV, poolV, agentV, loginV>>
  BY DEF AgentGone
<1>2. /\ mq[a] # << >> /\ m \in Message /\ t \in Task /\ m.op = "command" /\ Fits(a, m)
      /\ Level(t) /\ Knows(t) /\ Moving(t) /\ Chains /\ Mail /\ One
  BY <1>1, <1>s, HeadFacts, HeadMoving, StateFacts
<1>3. m \in ToAgent /\ Works(t, j)
  BY <1>2, <1>s DEF Fits, AgentMail
<1>4. j \in Job
  BY <1>3 DEF ToAgent
<1>5. n \in Message /\ n.t = t /\ n \in Answer
  BY <1>2, Messages DEF Ret, Value
<1>6. Grown /\ Others(t) /\ Same(t)
  BY <1>1 DEF Grown, Others, Same, gateV, centerV, poolV, agentV, loginV
<1>7. d \in {"login", "center"} /\ Fits(d, n)'
  <2> HIDE DEF n, t, j
  <2> QED BY <1>3, <1>4, <1>5, <1>6, WorkReturns DEF Same
<1>8. d \in Service /\ d # a
  BY <1>7, <1>s
<1> HIDE DEF n, d
<1>9. Sent(d, n)
  BY <1>1, <1>2, <1>5, <1>8, <1>s, MailTo
<1>10. Chains'
  <2> HIDE DEF t
  <2> QED BY <1>2, <1>5, <1>6, <1>7, <1>8, <1>9, PassOn
<1>11. A!AgentType' /\ Section'
  BY <1>1 DEF IInv, Types, A!AgentType, Section, agentV
<1> QED
  BY <1>1, <1>10, <1>11, AgentRest

LEMMA AgentEnds ==
  ASSUME IInv, NEW a \in Agent, current[a] # Nil, NEW t, t = current[a], NEW j, j = job[t],
         A!Leave(a), NEW val \in Value, Post(Caller(j), Ret(t, val)),
         UNCHANGED <<gateV, centerV, poolV, loginV>>
  PROVE  IInv' /\ [G!Next]_(G!gateVars)
<1>s. "login" \in Service /\ "center" \in Service
  BY Names
<1> DEFINE d == Caller(j)
           n == Ret(t, val)
<1>1. t \in Task /\ j \in Job /\ j # Nil
  BY AgentFacts DEF Section
<1>2. Level(t) /\ Knows(t) /\ Chains /\ Mail /\ One
  BY <1>1 DEF IInv, Chains, Stacks
<1>3. Works(t, j) /\ Absent(t)
  BY <1>1, <1>2 DEF Level
<1>4. making[t] = Nil /\ lt[t].at \notin {"auth", "done"}
  BY <1>2, <1>3 DEF Level, Works, Asked, Bottom
<1>5. n \in Message /\ n.t = t /\ n \in Answer
  BY <1>1, Messages DEF Ret
<1>6. /\ Grown /\ lt' = lt /\ task' = task /\ logging' = logging /\ leaving' = leaving /\ making' = making
      /\ job' = [job EXCEPT ![t] = Nil]
  BY DEF Grown, gateV, centerV, poolV, loginV, A!Leave
<1>7. Others(t) /\ job'[t] = Nil
  BY <1>1, <1>6, StateFacts DEF Others
<1>8. d \in {"login", "center"} /\ Fits(d, n)'
  <2> HIDE DEF n
  <2> QED BY <1>1, <1>3, <1>5, <1>6, WorkReturns
<1>9. d \in Service /\ Post(d, n)
  BY <1>8, <1>s
<1> HIDE DEF n, d
<1>10. Sent(d, n)
  BY <1>2, <1>3, <1>5, <1>9, MailPost
<1>11. Level(t)'
  BY <1>2, <1>4, <1>6, <1>7 DEF Level, Calls
<1>12. Knows(t)'
  BY <1>2, <1>6 DEF Knows, Grown, Known
<1>13. Chains'
  BY <1>1, <1>2, <1>5, <1>6, <1>7, <1>8, <1>9, <1>10, <1>11, <1>12, SentStep
<1>14. A!AgentType' /\ Section'
  BY SectionLeave
<1> QED
  BY <1>13, <1>14, AgentRest

LEMMA AgentEndStep ==
  ASSUME IInv, NEW a \in Agent, AgentDone(a) \/ AgentFail(a)
  PROVE  IInv' /\ [G!Next]_(G!gateVars)
<1>1. PICK t, j : t = current[a] /\ j = job[t]
  OBVIOUS
<1>2. /\ current[a] # Nil /\ A!Leave(a) /\ UNCHANGED <<gateV, centerV, poolV, loginV>>
      /\ \E val \in Value : Post(Caller(j), Ret(t, val))
  BY <1>1 DEF AgentDone, AgentFail, Caller, Value
<1> QED
  BY <1>1, <1>2, AgentEnds

-----------------------------------------------------------------------------
(* The login service. *)

LEMMA LoginRest ==
  ASSUME IInv, UNCHANGED <<gateV, centerV, poolV, agentV>>, Chains', L!LoginType', Numbered'
  PROVE  IInv' /\ [G!Next]_(G!gateVars)
<1>1. [G!Next]_(G!gateVars)
  BY GateQuiet
<1>2. GP!IInv' /\ RecordKeys'
  BY <1>1, GateKept, RecordKeysKept DEF IInv, Entered
<1>3. Types'
  BY DEF IInv, Types, centerV, poolV, agentV, C!CenterType, P!PoolType, A!AgentType
<1>4. Section'
  BY DEF IInv, Section, agentV
<1>5. Entered'
  BY <1>2 DEF IInv, Entered, Known, gateV, centerV
<1> QED
  BY <1>1, <1>2, <1>3, <1>4, <1>5 DEF IInv

LoginRec ==
  [at : L!At, fd : Fd \cup {Nil}, uid : Uid \cup {Nil}, key : Nat,
   agent : Agent \cup {Nil}, result : L!Result]

HasAgent == {"start", "register", "gate", "undo_recycle", "undo_logout"}

\* The login t is under way, nobody has been called or all have returned.
Rest(t) == lt[t].at # "idle" /\ Bottom(t) /\ making[t] = Nil /\ job[t] = Nil

\* The login t goes to `at'.
Becomes(t, at) ==
  /\ lt' \in [Task -> LoginRec] /\ key_seq' = key_seq
  /\ \A u \in Task : u # t => lt'[u] = lt[u]
  /\ lt'[t].at = at /\ lt'[t].fd = lt[t].fd /\ lt'[t].uid = lt[t].uid /\ lt'[t].key = lt[t].key

LEMMA Goes ==
  ASSUME IInv, NEW t \in Task, NEW at \in L!At
  PROVE  /\ L!Goto(t, at) => Becomes(t, at) /\ lt'[t].agent = lt[t].agent
         /\ \A res \in L!Result : L!Undo(t, at, res) => Becomes(t, at) /\ lt'[t].agent = lt[t].agent
         /\ \A res \in L!Result : L!Done(t, res) => Becomes(t, "done")
         /\ \A a \in Agent : L!Take(t, a) => Becomes(t, "start") /\ lt'[t].agent = a
<1>1. lt \in [Task -> LoginRec] /\ lt[t] \in LoginRec
  BY StateFacts DEF LoginRec
<1>2. ASSUME L!Goto(t, at) PROVE Becomes(t, at) /\ lt'[t].agent = lt[t].agent
  BY <1>1, <1>2 DEF L!Goto, Becomes, LoginRec
<1>3. ASSUME NEW res \in L!Result, L!Undo(t, at, res) PROVE Becomes(t, at) /\ lt'[t].agent = lt[t].agent
  BY <1>1, <1>3 DEF L!Undo, Becomes, LoginRec
<1>4. ASSUME NEW res \in L!Result, L!Done(t, res) PROVE Becomes(t, "done")
  BY <1>1, <1>4 DEF L!Done, Becomes, LoginRec, L!At
<1>5. ASSUME NEW a \in Agent, L!Take(t, a) PROVE Becomes(t, "start") /\ lt'[t].agent = a
  BY <1>1, <1>5 DEF L!Take, Becomes, LoginRec, L!At
<1> QED
  BY <1>2, <1>3, <1>4, <1>5

LEMMA BecomesFacts ==
  ASSUME IInv, NEW t \in Task, Rest(t), NEW at \in Waits \cup {"done"}, Becomes(t, at),
         at \in HasAgent => lt'[t].agent \in Agent, at = "done" => Absent(t)',
         UNCHANGED <<gateV, centerV, poolV, agentV>>
  PROVE  /\ L!LoginType' /\ Numbered' /\ Grown /\ Others(t) /\ Asked(t, at)' /\ leaving'[t] = Nil
         /\ Level(t)' /\ Knows(t)' /\ Chains
<1>1. L!LoginType'
  BY StateFacts DEF L!LoginType, Becomes, LoginRec
<1>2. at # "idle" /\ at # "auth"
  BY DEF Waits
<1>3. Numbered'
  <2>1. {u \in LoginTask : lt'[u].at # "idle"} = {u \in LoginTask : lt[u].at # "idle"}
    BY <1>2, Names DEF Becomes, Rest
  <2> QED
    BY <2>1 DEF IInv, Numbered, Becomes
<1>4. /\ task' = task /\ logging' = logging /\ leaving' = leaving /\ making' = making /\ job' = job
      /\ sock' = sock
  BY DEF gateV, centerV, poolV, agentV
<1>5. Grown /\ Others(t)
  BY <1>4 DEF Grown, Others, Becomes
<1>6. Asked(t, at)' /\ Bottom(t)' /\ leaving'[t] = Nil
  BY <1>4 DEF Asked, Becomes, Rest, Bottom
<1>7. Level(t)'
  BY <1>2, <1>4, <1>6 DEF Level, Rest, Bottom, Becomes
<1>8. Knows(t) /\ Chains
  BY DEF IInv, Chains, Stacks
<1>9. Knows(t)'
  BY <1>4, <1>8 DEF Knows, Becomes, Rest, Known, HasAgent
<1> QED
  BY <1>1, <1>3, <1>5, <1>6, <1>7, <1>8, <1>9

LEMMA LoginAsks ==
  ASSUME IInv, NEW t \in Task, Rest(t), NEW at \in Waits, Becomes(t, at),
         at \in HasAgent => lt'[t].agent \in Agent, UNCHANGED <<gateV, centerV, poolV, agentV>>,
         NEW d \in Service, NEW n, n.t = t, Sent(d, n),
         Asked(t, at)' /\ leaving'[t] = Nil => Fits(d, n)'
  PROVE  IInv' /\ [G!Next]_(G!gateVars)
<1>1. at \in Waits \cup {"done"} /\ at # "done"
  BY DEF Waits
<1>2. /\ L!LoginType' /\ Numbered' /\ Grown /\ Others(t) /\ Asked(t, at)' /\ leaving'[t] = Nil
      /\ Level(t)' /\ Knows(t)' /\ Chains
  BY <1>1, BecomesFacts
<1>3. Chains'
  BY <1>2, SentStep
<1> QED
  BY <1>2, <1>3, LoginRest

LEMMA LoginStops ==
  ASSUME IInv, NEW t \in Task, Rest(t), Becomes(t, "done"), Eaten(t),
         UNCHANGED <<gateV, centerV, poolV, agentV>>
  PROVE  IInv' /\ [G!Next]_(G!gateVars)
<1>1. "done" \in Waits \cup {"done"} /\ "done" \notin HasAgent /\ Absent(t)'
  BY DEF HasAgent, Eaten
<1>2. /\ L!LoginType' /\ Numbered' /\ Grown /\ Others(t) /\ Level(t)' /\ Knows(t)' /\ Chains
  BY <1>1, BecomesFacts
<1>3. Chains'
  BY <1>2, EatenStep
<1> QED
  BY <1>2, <1>3, LoginRest

LEMMA LoginPacketStep ==
  ASSUME IInv, LoginPacket, NEW m, m = Head(mq["login"])
  PROVE  IInv' /\ [G!Next]_(G!gateVars)
<1>s. "login" \in Service
  BY Names
<1> DEFINE t == m.t
<1>1. /\ Handles("login", "packet") /\ L!Login(t, m.fd, m.uid) /\ Eat("login")
      /\ UNCHANGED <<gateV, centerV, poolV, agentV>>
  BY DEF LoginPacket
<1>2. /\ mq["login"] # << >> /\ m \in Message /\ t \in Task /\ m.op = "packet" /\ Fits("login", m)
      /\ Level(t) /\ Knows(t) /\ Moving(t) /\ Chains /\ Mail /\ One
  BY <1>1, <1>s, HeadFacts, HeadMoving, StateFacts
<1>3. m \in ToLogin /\ t \in LoginTask /\ Known(m.fd) /\ Asked(t, "idle")
  BY <1>2, Names DEF Fits, LoginMail, Answer
<1>4. m.uid \in Uid /\ m.fd \in Fd
  BY <1>3 DEF ToLogin
<1>5. lt \in [Task -> LoginRec] /\ key_seq \in Nat
  BY StateFacts DEF LoginRec
<1> DEFINE r == [L!Fresh EXCEPT !.at = "auth", !.fd = m.fd, !.uid = m.uid, !.key = key_seq + 1]
<1>6. lt' = [lt EXCEPT ![t] = r] /\ key_seq' = key_seq + 1
  BY <1>1 DEF L!Login
<1>7. r \in LoginRec /\ r.at = "auth" /\ r.fd = m.fd /\ r.uid = m.uid /\ r.key = key_seq + 1
  <2>1. L!Fresh \in LoginRec
    BY DEF L!Fresh, LoginRec, L!At, L!Result
  <2>2. key_seq + 1 \in Nat /\ "auth" \in L!At
    BY <1>5 DEF L!At
  <2> QED
    BY <1>4, <2>1, <2>2 DEF LoginRec
<1> HIDE DEF r
<1>8. /\ lt' \in [Task -> LoginRec] /\ lt'[t] = r /\ \A u \in Task : u # t => lt'[u] = lt[u]
  BY <1>2, <1>5, <1>6, <1>7
<1>9. L!LoginType'
  BY <1>5, <1>6, <1>8 DEF L!LoginType, LoginRec
<1>10. Numbered'
  <2> DEFINE S == {u \in LoginTask : lt[u].at # "idle"}
             S2 == {u \in LoginTask : lt'[u].at # "idle"}
  <2>1. S2 = S \cup {t} /\ t \notin S
    BY <1>3, <1>7, <1>8, Names DEF Asked
  <2>2. IsFiniteSet(S)
    BY Names, FS_Subset
  <2> HIDE DEF S
  <2>3. Cardinality(S \cup {t}) = Cardinality(S) + 1 /\ Cardinality(S) \in Nat
    BY <2>1, <2>2, FS_AddElement, FS_CardinalityType
  <2>4. key_seq = 1 + Cardinality(S)
    BY DEF IInv, Numbered, S
  <2>5. key_seq' = 1 + Cardinality(S2)
    <3> HIDE DEF S2
    <3>1. Cardinality(S2) = Cardinality(S) + 1
      BY <2>1, <2>3
    <3> QED
      BY <1>6, <2>3, <2>4, <3>1
  <2> QED
    BY <2>5 DEF Numbered
<1>11. /\ task' = task /\ logging' = logging /\ leaving' = leaving /\ making' = making /\ job' = job
       /\ sock' = sock
  BY <1>1 DEF gateV, centerV, poolV, agentV
<1>12. Grown /\ Others(t)
  BY <1>5, <1>6, <1>8, <1>11 DEF Grown, Others
<1>13. Eaten(t)
  BY <1>1, <1>2, <1>s, MailEat
<1>14. Bottom(t)' /\ Absent(t)'
  BY <1>3, <1>11, <1>13 DEF Asked, Bottom, Eaten
<1>15. Level(t)'
  BY <1>2, <1>11, <1>14 DEF Level, Moving, Bottom
<1>16. Knows(t)'
  BY <1>3, <1>4, <1>5, <1>6, <1>7, <1>8, <1>11 DEF Knows, Known
<1>17. Chains'
  BY <1>2, <1>12, <1>13, <1>15, <1>16, EatenStep
<1> QED
  BY <1>1, <1>9, <1>10, <1>17, LoginRest

LEMMA LoginAuthStep ==
  ASSUME IInv, NEW t \in LoginTask, LoginAuth(t)
  PROVE  IInv' /\ [G!Next]_(G!gateVars)
<1>s. "center" \in Service /\ t \in Task
  BY Names
<1>1. PICK l : l = lt[t]
  OBVIOUS
<1>2. /\ l.at = "auth" /\ UNCHANGED <<gateV, centerV, poolV, agentV>>
      /\ \/ L!Goto(t, "login") /\ Post("center", AskLogin(t, l.uid, C!User(l.fd, l.key)))
         \/ L!Done(t, "wrong_password") /\ mq' = mq
  BY <1>1 DEF LoginAuth
<1>3. Level(t) /\ Knows(t) /\ Chains /\ Mail /\ One
  BY <1>s DEF IInv, Chains, Stacks
<1>4. Bottom(t) /\ Absent(t)
  BY <1>1, <1>2, <1>3 DEF Level
<1>5. Rest(t)
  BY <1>1, <1>2, <1>3, <1>4 DEF Level, Rest, Bottom, Asked, Works
<1>6. CASE L!Goto(t, "login") /\ Post("center", AskLogin(t, l.uid, C!User(l.fd, l.key)))
  <2> DEFINE n == AskLogin(t, l.uid, C!User(l.fd, l.key))
  <2>1. Becomes(t, "login")
    BY <1>6, <1>s, Goes DEF L!At
  <2>2. n \in Message
    BY <1>1, <1>2, <1>s, LoginUser, Messages
  <2>3. n.t = t /\ n.op = "login" /\ n.uid = l.uid /\ n.data = C!User(l.fd, l.key)
    BY DEF AskLogin
  <2>4. Post("center", n)
    BY <1>6
  <2> HIDE DEF n
  <2>5. Sent("center", n)
    BY <1>3, <1>4, <1>s, <2>2, <2>3, <2>4, MailPost
  <2>6. Asked(t, "login")' => Fits("center", n)'
    BY <1>1, <2>1, <2>3 DEF Fits, CenterMail, Becomes
  <2> QED
    BY <1>2, <1>5, <1>s, <2>1, <2>3, <2>5, <2>6, LoginAsks DEF Waits, HasAgent
<1>7. CASE L!Done(t, "wrong_password") /\ mq' = mq
  <2>1. Becomes(t, "done")
    BY <1>7, <1>s, Goes DEF L!At, L!Result
  <2>2. Absent(t)'
    BY <1>4, <1>7 DEF Absent
  <2>3. "done" \in Waits \cup {"done"} /\ "done" \notin HasAgent
    BY DEF HasAgent
  <2>4. /\ L!LoginType' /\ Numbered' /\ Grown /\ Others(t) /\ Level(t)' /\ Knows(t)' /\ Chains
    BY <1>2, <1>5, <1>s, <2>1, <2>2, <2>3, BecomesFacts
  <2>5. Chains'
    BY <1>4, <1>7, <2>4, QuietStep
  <2> QED
    BY <1>2, <2>4, <2>5, LoginRest
<1> QED
  BY <1>2, <1>6, <1>7

LEMMA LoginResumeStep ==
  ASSUME IInv, LoginResume, NEW m, m = Head(mq["login"])
  PROVE  IInv' /\ [G!Next]_(G!gateVars)
<1>s. "login" \in Service /\ "center" \in Service /\ "gate" \in Service /\ "pool" \in Service
  BY Names
<1> DEFINE t == m.t
<1>1. /\ Handles("login", "ret") /\ LoginStep(t, m.val, m.agent)
      /\ UNCHANGED <<gateV, centerV, poolV, agentV>>
  BY DEF LoginResume
<1>2. /\ mq["login"] # << >> /\ m \in Message /\ t \in Task /\ m.op = "ret" /\ Fits("login", m)
      /\ Level(t) /\ Knows(t) /\ Moving(t) /\ Chains /\ Mail /\ One
  BY <1>1, <1>s, HeadFacts, HeadMoving, StateFacts
<1>3. PICK l : l = lt[t]
  OBVIOUS
<1>4. Bottom(t) /\ l.at \in Waits /\ (l.at = "get" => m.agent \in Agent)
  BY <1>2, <1>3, Names DEF Fits, LoginMail, ToLogin
<1>5. Rest(t)
  BY <1>2, <1>3, <1>4 DEF Rest, Moving, Waits
<1>6. /\ l.fd \in Fd /\ l.uid \in Uid /\ l.key \in Key /\ (l.at \in HasAgent => l.agent \in Agent)
      /\ l.result \in L!Result
  <2>1. lt[t] \in LoginRec
    BY <1>2, StateFacts DEF LoginRec
  <2>2. l.at \in HasAgent => l.agent \in Agent
    BY <1>2, <1>3 DEF Knows, HasAgent
  <2>3. t \in Task /\ lt[t].at # "idle"
    BY <1>2, <1>5 DEF Rest
  <2>4. lt[t].fd \in Fd /\ lt[t].uid \in Uid /\ lt[t].key \in Key
    <3> HIDE DEF t
    <3> QED BY <2>3, LoginUser
  <2> QED
    BY <1>3, <2>1, <2>2, <2>4 DEF LoginRec
<1> DEFINE data == [uid |-> l.uid, agent |-> l.agent, key |-> l.key]
<1> HIDE DEF t
<1>7. CASE L!Goto(t, "get") /\ To("login", "pool", AskGet(t))
  <2> DEFINE n == AskGet(t)
  <2>1. Becomes(t, "get") /\ lt'[t].agent = lt[t].agent
    BY <1>2, <1>7, Goes DEF L!At
  <2>2. n \in Message /\ n.t = t /\ n.op = "get"
    BY <1>2, <1>6, <1>7, Messages DEF AskGet, HasAgent, From
  <2>3. "pool" \in Service /\ "pool" # "login"
    BY <1>s
  <2>4. To("login", "pool", n)
    BY <1>7
  <2> HIDE DEF n
  <2>5. Sent("pool", n)
    BY <1>2, <1>s, <2>2, <2>3, <2>4, MailTo DEF t
  <2>6. Asked(t, "get")' /\ leaving'[t] = Nil => Fits("pool", n)'
    BY <1>3, <2>1, <2>2, <2>3 DEF Fits, PoolMail, Becomes
  <2>7. "get" \in Waits /\ ("get" \in HasAgent => lt'[t].agent \in Agent)
    BY <1>3, <1>6, <1>7, <2>1 DEF Waits, HasAgent
  <2> QED
    BY <1>1, <1>2, <1>5, <2>1, <2>2, <2>3, <2>5, <2>6, <2>7, LoginAsks
<1>8. CASE /\ l.at = "get" /\ L!Take(t, m.agent)
           /\ To("login", m.agent, AskAgent(t, A!Start(l.fd, l.uid)))
  <2> DEFINE n == AskAgent(t, A!Start(l.fd, l.uid))
  <2>1. Becomes(t, "start") /\ lt'[t].agent \in Agent
    BY <1>2, <1>4, <1>8, Goes DEF L!At
  <2>2. n \in Message /\ n.t = t /\ n \in ToAgent /\ n.job.cmd = "start"
    <3>1. A!Start(l.fd, l.uid) \in Job
      BY <1>6 DEF Job
    <3> QED
      BY <1>2, <3>1, Messages DEF AskAgent, A!Start
  <2>3. m.agent \in Agent /\ m.agent \in Service /\ m.agent # "login"
    BY <1>4, <1>8, Names
  <2>4. To("login", m.agent, n)
    BY <1>8
  <2> HIDE DEF n
  <2>5. Sent(m.agent, n)
    BY <1>2, <1>s, <2>2, <2>3, <2>4, MailTo DEF t
  <2>6. Asked(t, "start")' /\ leaving'[t] = Nil => Fits(m.agent, n)'
    BY <1>3, <2>1, <2>2, <2>3 DEF Fits, AgentMail, Works, Becomes
  <2>7. "start" \in Waits /\ ("start" \in HasAgent => lt'[t].agent \in Agent)
    BY <1>3, <1>6, <1>8, <2>1 DEF Waits, HasAgent
  <2> QED
    BY <1>1, <1>2, <1>5, <2>1, <2>2, <2>3, <2>5, <2>6, <2>7, LoginAsks
<1>9. CASE /\ l.at = "start" /\ L!Goto(t, "register")
           /\ To("login", "center", AskRegister(t, l.uid, l.key, l.agent))
  <2> DEFINE n == AskRegister(t, l.uid, l.key, l.agent)
  <2>1. Becomes(t, "register") /\ lt'[t].agent = lt[t].agent
    BY <1>2, <1>9, Goes DEF L!At
  <2>2. n \in Message /\ n.t = t /\ n.op = "register" /\ n.uid = l.uid /\ n.key = l.key /\ n.agent = l.agent
    BY <1>2, <1>6, <1>9, Messages DEF AskRegister, HasAgent, From
  <2>3. "center" \in Service /\ "center" # "login"
    BY <1>s
  <2>4. To("login", "center", n)
    BY <1>9
  <2> HIDE DEF n
  <2>5. Sent("center", n)
    BY <1>2, <1>s, <2>2, <2>3, <2>4, MailTo DEF t
  <2>6. Asked(t, "register")' /\ leaving'[t] = Nil => Fits("center", n)'
    BY <1>3, <2>1, <2>2, <2>3 DEF Fits, CenterMail, Becomes
  <2>7. "register" \in Waits /\ ("register" \in HasAgent => lt'[t].agent \in Agent)
    BY <1>3, <1>6, <1>9, <2>1 DEF Waits, HasAgent
  <2> QED
    BY <1>1, <1>2, <1>5, <2>1, <2>2, <2>3, <2>5, <2>6, <2>7, LoginAsks
<1>10. CASE l.at = "register" /\ L!Goto(t, "gate") /\ To("login", "gate", AskBind(t, l.fd, data))
  <2> DEFINE n == AskBind(t, l.fd, data)
  <2>1. Becomes(t, "gate") /\ lt'[t].agent = lt[t].agent
    BY <1>2, <1>10, Goes DEF L!At
  <2>2. n \in Message /\ n.t = t /\ n.op = "register" /\ n.fd = l.fd /\ n.data = data
    <3>1. data \in G!Session
      BY <1>6, <1>10 DEF G!Session, HasAgent
    <3> HIDE DEF data
    <3> QED
      BY <1>2, <1>6, <3>1, Messages DEF AskBind
  <2>3. "gate" \in Service /\ "gate" # "login"
    BY <1>s
  <2>4. To("login", "gate", n)
    BY <1>10
  <2> HIDE DEF n
  <2>5. Sent("gate", n)
    BY <1>2, <1>s, <2>2, <2>3, <2>4, MailTo DEF t
  <2>6. Asked(t, "gate")' /\ leaving'[t] = Nil => Fits("gate", n)'
    BY <1>3, <2>1, <2>2, <2>3 DEF Fits, GateMail, Becomes, data
  <2>7. "gate" \in Waits /\ ("gate" \in HasAgent => lt'[t].agent \in Agent)
    BY <1>3, <1>6, <1>10, <2>1 DEF Waits, HasAgent
  <2> QED
    BY <1>1, <1>2, <1>5, <2>1, <2>2, <2>3, <2>5, <2>6, <2>7, LoginAsks
<1>11. CASE /\ l.at = "register" /\ L!Undo(t, "undo_recycle", "register_center_fail")
            /\ To("login", "pool", AskRecycle(t, l.agent, "login"))
  <2> DEFINE n == AskRecycle(t, l.agent, "login")
  <2>1. Becomes(t, "undo_recycle") /\ lt'[t].agent = lt[t].agent
    BY <1>2, <1>11, Goes DEF L!At, L!Result
  <2>2. n \in Message /\ n.t = t /\ n \in ToPool /\ n.op = "recycle" /\ n.from = "login"
    BY <1>2, <1>6, <1>11, Messages DEF AskRecycle, HasAgent, From
  <2>3. "pool" \in Service /\ "pool" # "login"
    BY <1>s
  <2>4. To("login", "pool", n)
    BY <1>11
  <2> HIDE DEF n
  <2>5. Sent("pool", n)
    BY <1>2, <1>s, <2>2, <2>3, <2>4, MailTo DEF t
  <2>6. Asked(t, "undo_recycle")' /\ leaving'[t] = Nil => Fits("pool", n)'
    BY <1>3, <2>1, <2>2, <2>3 DEF Fits, PoolMail, Calls, Asked, Bottom, Becomes
  <2>7. "undo_recycle" \in Waits /\ ("undo_recycle" \in HasAgent => lt'[t].agent \in Agent)
    BY <1>3, <1>6, <1>11, <2>1 DEF Waits, HasAgent
  <2> QED
    BY <1>1, <1>2, <1>5, <2>1, <2>2, <2>3, <2>5, <2>6, <2>7, LoginAsks
<1>12. CASE /\ l.at = "undo_recycle" /\ L!Goto(t, "undo_logout")
            /\ To("login", "center", AskLogout(t, l.uid, l.key, "login"))
  <2> DEFINE n == AskLogout(t, l.uid, l.key, "login")
  <2>1. Becomes(t, "undo_logout") /\ lt'[t].agent = lt[t].agent
    BY <1>2, <1>12, Goes DEF L!At
  <2>2. n \in Message /\ n.t = t /\ n \in ToCenter /\ n.op = "logout" /\ n.from = "login"
    BY <1>2, <1>6, <1>12, Messages DEF AskLogout, HasAgent, From
  <2>3. "center" \in Service /\ "center" # "login"
    BY <1>s
  <2>4. To("login", "center", n)
    BY <1>12
  <2> HIDE DEF n
  <2>5. Sent("center", n)
    BY <1>2, <1>s, <2>2, <2>3, <2>4, MailTo DEF t
  <2>6. Asked(t, "undo_logout")' /\ leaving'[t] = Nil => Fits("center", n)'
    BY <1>3, <2>1, <2>2, <2>3 DEF Fits, CenterMail, Calls, Asked, Bottom, Becomes
  <2>7. "undo_logout" \in Waits /\ ("undo_logout" \in HasAgent => lt'[t].agent \in Agent)
    BY <1>3, <1>6, <1>12, <2>1 DEF Waits, HasAgent
  <2> QED
    BY <1>1, <1>2, <1>5, <2>1, <2>2, <2>3, <2>5, <2>6, <2>7, LoginAsks
<1>13. CASE /\ l.at = "gate" /\ L!Undo(t, "undo_logout", "register_gate_fail")
            /\ To("login", "center", AskLogout(t, l.uid, l.key, "login"))
  <2> DEFINE n == AskLogout(t, l.uid, l.key, "login")
  <2>1. Becomes(t, "undo_logout") /\ lt'[t].agent = lt[t].agent
    BY <1>2, <1>13, Goes DEF L!At, L!Result
  <2>2. n \in Message /\ n.t = t /\ n \in ToCenter /\ n.op = "logout" /\ n.from = "login"
    BY <1>2, <1>6, <1>13, Messages DEF AskLogout, HasAgent, From
  <2>3. "center" \in Service /\ "center" # "login"
    BY <1>s
  <2>4. To("login", "center", n)
    BY <1>13
  <2> HIDE DEF n
  <2>5. Sent("center", n)
    BY <1>2, <1>s, <2>2, <2>3, <2>4, MailTo DEF t
  <2>6. Asked(t, "undo_logout")' /\ leaving'[t] = Nil => Fits("center", n)'
    BY <1>3, <2>1, <2>2, <2>3 DEF Fits, CenterMail, Calls, Asked, Bottom, Becomes
  <2>7. "undo_logout" \in Waits /\ ("undo_logout" \in HasAgent => lt'[t].agent \in Agent)
    BY <1>3, <1>6, <1>13, <2>1 DEF Waits, HasAgent
  <2> QED
    BY <1>1, <1>2, <1>5, <2>1, <2>2, <2>3, <2>5, <2>6, <2>7, LoginAsks
<1>14. CASE Eat("login") /\ \E res \in L!Result : L!Done(t, res)
  <2>1. Becomes(t, "done")
    BY <1>2, <1>14, Goes DEF L!At
  <2>2. Eaten(t)
    BY <1>2, <1>14, <1>s, MailEat DEF t
  <2> QED
    BY <1>1, <1>2, <1>5, <2>1, <2>2, LoginStops
<1> QED
  BY <1>1, <1>3, <1>6, <1>7, <1>8, <1>9, <1>10, <1>11, <1>12, <1>13, <1>14 DEF LoginStep, L!Result, data

-----------------------------------------------------------------------------
(* The whole system. *)

LEMMA InitInv ==
  ASSUME Init
  PROVE  IInv /\ G!Init
<1>1. /\ plan \in Plans /\ G!Init /\ C!CenterInit /\ P!PoolInit /\ A!AgentInit /\ L!LoginInit
      /\ mq = [s \in Service |-> << >>]
  BY DEF Init
<1>2. MaxClient \in Nat /\ MaxNum \in Nat /\ Nil \notin Fd \cup Uid \cup Agent \cup Key
  BY Names, FlowConstants
<1>3. GP!IInv
  BY <1>1, <1>2, SameGate, GP!InitIInv DEF GP!InitIInv
<1>4. Types
  <2>1. C!CenterType
    BY <1>1 DEF C!CenterInit, C!CenterType
  <2>2. P!PoolType
    BY <1>1, <1>2 DEF P!PoolInit, P!PoolType
  <2>3. A!AgentType
    BY <1>1 DEF A!AgentInit, A!AgentType
  <2>4. L!Fresh \in LoginRec
    BY DEF L!Fresh, LoginRec, L!At, L!Result
  <2>5. L!LoginType
    BY <1>1, <2>4 DEF L!LoginInit, L!LoginType, LoginRec
  <2> QED
    BY <2>1, <2>2, <2>3, <2>5 DEF Types
<1>5. Mail /\ One /\ AllFit
  BY <1>1 DEF Mail, One, AllFit, In
<1>6. /\ \A t \in Task : /\ lt[t].at = "idle" /\ task[t] = G!Idle /\ logging[t] = Nil
                         /\ leaving[t] = Nil /\ making[t] = Nil /\ job[t] = Nil
      /\ \A a \in Agent : current[a] = Nil /\ thread_queue[a] = << >>
      /\ \A u \in Uid : users[u] = Nil
      /\ \A fd \in Fd : c[fd].uid = Nil
      /\ key_seq = 1
  BY <1>1 DEF G!Init, G!NewRecord, C!CenterInit, P!PoolInit, A!AgentInit, L!LoginInit, L!Fresh
<1>7. Stacks
  BY <1>6 DEF Stacks, Level, Knows
<1>8. Section
  <2>1. \A a \in Agent : DOMAIN thread_queue[a] = {} /\ current[a] = Nil
    BY <1>6
  <2> QED
    BY <2>1 DEF Section
<1>9. Numbered
  <2>1. {t \in LoginTask : lt[t].at # "idle"} = {}
    BY <1>6, Names
  <2> QED
    BY <1>6, <2>1, FS_EmptySet DEF Numbered
<1>10. Entered
  BY <1>6 DEF Entered, RecordKeys
<1> QED
  BY <1>1, <1>3, <1>4, <1>5, <1>7, <1>8, <1>9, <1>10 DEF IInv, Chains

LEMMA StutterInv ==
  ASSUME IInv, UNCHANGED vars
  PROVE  IInv' /\ [G!Next]_(G!gateVars)
<1>1. UNCHANGED <<gateV, centerV, poolV, agentV, loginV>> /\ mq' = mq
  BY DEF vars
<1>2. [G!Next]_(G!gateVars)
  BY <1>1, GateQuiet
<1>3. Grown /\ Others(Nil)
  BY <1>1 DEF Grown, Others, gateV, centerV, poolV, agentV, loginV
<1>4. Chains'
  BY <1>1, <1>3, QuietStep, NilAbsent, Names DEF IInv
<1> QED
  BY <1>1, <1>2, <1>4, GateRest

\* Every step keeps the invariant and is a step of the gateway or none.
LEMMA NextInv ==
  ASSUME IInv, [Next]_vars
  PROVE  IInv' /\ [G!Next]_(G!gateVars)
<1>1. CASE UNCHANGED vars
  BY <1>1, StutterInv
<1>2. ASSUME NEW fd \in Fd, GateSocket(fd) PROVE IInv' /\ [G!Next]_(G!gateVars)
  BY <1>2, GateSocketStep
<1>3. ASSUME NEW fd \in Fd, NEW t \in LoginTask, NEW u \in Uid, GatePacket(t, fd, u)
      PROVE  IInv' /\ [G!Next]_(G!gateVars)
  BY <1>3, GatePacketStep
<1>4. ASSUME NEW fd \in Fd, NEW t \in CloseTask, GateClose(t, fd) \/ GateFrame(t, fd)
      PROVE  IInv' /\ [G!Next]_(G!gateVars)
  BY <1>4, GateCloseStep
<1>5. CASE GateKick
  BY <1>5, GateKickStep
<1>6. CASE GateRegister
  BY <1>6, GateRegisterStep
<1>7. CASE GateResume
  BY <1>7, GateResumeStep
<1>8. CASE CenterLogin
  BY <1>8, CenterLoginStep
<1>9. CASE CenterRegister
  BY <1>9, CenterRegisterStep
<1>10. CASE CenterLogout
  BY <1>10, CenterLogoutStep
<1>11. CASE CenterResume
  BY <1>11, CenterResumeStep
<1>12. CASE PoolStart
  BY <1>12, PoolStartStep
<1>13. CASE PoolGet
  BY <1>13, PoolGetStep
<1>14. CASE PoolRecycle
  BY <1>14, PoolRecycleStep
<1>15. CASE LoginPacket
  BY <1>15, LoginPacketStep
<1>16. CASE LoginResume
  BY <1>16, LoginResumeStep
<1>17. ASSUME NEW t \in LoginTask, LoginAuth(t) PROVE IInv' /\ [G!Next]_(G!gateVars)
  BY <1>17, LoginAuthStep
<1>18. ASSUME NEW t \in LoginTask, PoolNew(t) PROVE IInv' /\ [G!Next]_(G!gateVars)
  BY <1>18, PoolNewStep
<1>19. ASSUME NEW a \in Agent, AgentCommand(a) PROVE IInv' /\ [G!Next]_(G!gateVars)
  BY <1>19, AgentCommandStep
<1>20. ASSUME NEW a \in Agent, AgentGone(a) PROVE IInv' /\ [G!Next]_(G!gateVars)
  BY <1>20, AgentGoneStep
<1>21. ASSUME NEW a \in Agent, AgentDone(a) \/ AgentFail(a) PROVE IInv' /\ [G!Next]_(G!gateVars)
  BY <1>21, AgentEndStep
<1> QED
  BY <1>1, <1>2, <1>3, <1>4, <1>5, <1>6, <1>7, <1>8, <1>9, <1>10, <1>11, <1>12, <1>13, <1>14,
     <1>15, <1>16, <1>17, <1>18, <1>19, <1>20, <1>21, Zenon DEF Next

\* The gateway inside the whole system behaves as GateServer says: whatever the
\* center, the login service, the pool and the agents do, their calls reach
\* gate.lua in an order GateServer allows, in the build runconfig.lua picks.
THEOREM FlowGateRefined == Spec => GateRefined
<1>1. Init => IInv /\ G!Init
  BY InitInv
<1>2. IInv /\ [Next]_vars => IInv' /\ [G!Next]_(G!gateVars)
  BY NextInv
<1> QED
  BY <1>1, <1>2, PTL DEF Spec, GateRefined, G!Spec

\* What is proved of the gateway alone holds inside the system: every packet of
\* a live connection finds the record handler.message indexes and, after the
\* login, the agent it is redirected to; client_number counts exactly.
THEOREM FlowGateSafe == Spec => [](G!Routable /\ G!CountExact)
<1>1. Init => IInv
  BY InitInv
<1>2. IInv /\ [Next]_vars => IInv'
  BY NextInv
<1>3. IInv => G!Routable
  BY DEF IInv, GP!IInv, GP!Routable, G!Routable, GP!Live, G!Live
<1>4. IInv => G!CountExact
  <2>1. GP!Kept(gs) = G!Kept(gs)
    BY DEF GP!Kept, G!Kept
  <2>2. \A S : GP!Cardinality(S) = G!Cardinality(S)
    BY DEF GP!Cardinality, G!Cardinality
  <2> QED
    BY <2>1, <2>2 DEF IInv, GP!IInv, GP!Counted, G!CountExact
<1> QED
  BY <1>1, <1>2, <1>3, <1>4, PTL DEF Spec

\* The variables of all services keep their types and every message belongs to
\* a coroutine.
THEOREM FlowType == Spec => []TypeOK
<1>1. Init => IInv
  BY InitInv
<1>2. IInv /\ [Next]_vars => IInv'
  BY NextInv
<1>3. ASSUME IInv PROVE TypeOK
  <2>1. G!TypeOK
    BY <1>3 DEF IInv, GP!IInv, GP!TypeOK, G!TypeOK, GP!ConnState, G!ConnState, GP!Record, G!Record,
                GP!Suspended, G!Suspended, GP!Src, G!Src, GP!Idle, G!Idle, GP!NewRecord, G!NewRecord
  <2>2. \A s \in Service : mq[s] \in Seq(Message)
    BY <1>3 DEF IInv, Chains, Mail
  <2>3. \A s \in Service : \A i \in 1 .. Len(mq[s]) : mq[s][i] \in Message
    BY <2>2
  <2>4. \A s \in Service : \A i \in 1 .. Len(mq[s]) : mq[s][i].t \in Task
    BY <2>3, MessageChain
  <2> QED
    BY <1>3, <2>1, <2>4 DEF IInv, Types, Chains, Mail, TypeOK
<1> QED
  BY <1>1, <1>2, <1>3, PTL DEF Spec

\* A chain of calls through login service, center, gateway, pool and agents has
\* one message under way at most, and while its coroutine waits for the database
\* or for the launcher it has none: no answer of skynet reaches a coroutine that
\* does not wait for it.
Token ==
  /\ One
  /\ \A t \in Task : (making[t] # Nil \/ job[t] # Nil \/ lt[t].at \in {"auth", "done"}) => Absent(t)

THEOREM FlowToken == Spec => []Token
<1>1. Init => IInv
  BY InitInv
<1>2. IInv /\ [Next]_vars => IInv'
  BY NextInv
<1>3. IInv => Token
  BY DEF IInv, Chains, Stacks, Level, Token
<1> QED
  BY <1>1, <1>2, <1>3, PTL DEF Spec

\* The critical section cs of wsagent.lua: a coroutine is in the section or in
\* the queue of one agent at most and there only once, and only while it runs a
\* command (start or kick) for the caller that waits for it.
THEOREM FlowSection == Spec => []Section
<1>1. Init => IInv
  BY InitInv
<1>2. IInv /\ [Next]_vars => IInv'
  BY NextInv
<1>3. IInv => Section
  BY DEF IInv
<1> QED
  BY <1>1, <1>2, <1>3, PTL DEF Spec
=============================================================================
