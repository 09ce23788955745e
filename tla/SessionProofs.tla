--------------------------- MODULE SessionProofs ---------------------------
(* Proofs about the sessions of LoginFlow: what the center, the gateway and  *)
(* the agent pool say of a player agrees, and an agent serves one login.     *)
(* The clients wait for the answer to a login before they send another one,  *)
(* and close_agent runs once at a time for a connection.                     *)
EXTENDS LoginFlowProofs

\* x is inside close_agent; x is inside the clearAgent of CMD.register.
Closes(x) == task[x] # G!Idle /\ task[x].src # "register"
Clears(x) == task[x] # G!Idle /\ task[x].src = "register"

\* close_agent reads c.agent after a yield: two of them for one connection
\* are outside these proofs (the run sessions_shared shows what they do).
OneCloser ==
  \A x, y \in Task : Closes(x) /\ Closes(y) /\ task[x].fd = task[y].fd => x = y

-----------------------------------------------------------------------------
(* Where the chain of a login stands.                                        *)

\* m is the message service s handles next.
IsHead(s, m) == m = Head(mq[s])

\* A message of chain t of kind op waits in the mailbox of s; an answer val;
\* the answer of the pool to get.
Has(s, t, op)   == \E i \in DOMAIN mq[s] : mq[s][i].t = t /\ mq[s][i].op = op
Says(s, t, val) == \E i \in DOMAIN mq[s] : mq[s][i].t = t /\ mq[s][i].op = "ret" /\ mq[s][i].val = val
Gives(t, a)     == \E i \in DOMAIN mq["login"] :
                     mq["login"][i].t = t /\ mq["login"][i].op = "ret" /\ mq["login"][i].agent = a

\* The logout of a close_agent or clearAgent has been answered; its agent is
\* back in the pool.
LoggedOut(x) == task[x].at = "recycle" \/ Has("gate", x, "ret")
Back(x)      == task[x].at = "recycle" /\ ~Has("pool", x, "recycle")

EndsIt(x, fd) == Closes(x) /\ task[x].fd = fd /\ LoggedOut(x)
Hands(x, fd)  == Closes(x) /\ task[x].fd = fd /\ Back(x)
Ended(fd)     == \E x \in Task : EndsIt(x, fd)
Returned(fd)  == \E x \in Task : Hands(x, fd)

\* The gateway has the session of login t.
InSession(t) ==
  lt[t].at # "idle" /\ Session(lt[t].fd) /\ c[lt[t].fd].key = lt[t].key

\* The center has a record of login t without an agent, with its agent.
Blank(t) ==
  \/ lt[t].at \in {"get", "start"}
  \/ lt[t].at = "login" /\ Says("login", t, "true")
  \/ lt[t].at = "register" /\ Has("center", t, "register")
  \/ lt[t].at = "done" /\ lt[t].result = "raised"
Full(t) ==
  \/ lt[t].at = "register" /\ ~Has("center", t, "register")
  \/ lt[t].at = "gate" /\ Has("gate", t, "register")
  \/ Clears(t) /\ ~LoggedOut(t)
  \/ InSession(t) /\ ~Ended(lt[t].fd)

\* Login t has an agent of its own out of the pool; agent a is out for t; it
\* is lost with a login that raised.
Keeps(t) ==
  \/ lt[t].at \in {"start", "register"}
  \/ lt[t].at = "gate" /\ Has("gate", t, "register")
  \/ Clears(t) /\ ~Back(t)
  \/ InSession(t) /\ ~Returned(lt[t].fd)
Out(t, a) ==
  \/ lt[t].at = "get" /\ Gives(t, a)
  \/ lt[t].agent = a /\ Keeps(t)
Lost(t, a) == lt[t].at = "done" /\ lt[t].result = "raised" /\ lt[t].agent = a

-----------------------------------------------------------------------------
(* The records of the center, the agents of the pool.                        *)

Rec(t, a) == [fd |-> lt[t].fd, key |-> lt[t].key, agent |-> a]

Recorded(t) ==
  /\ Blank(t) => users[lt[t].uid] = Rec(t, Nil)
  /\ Full(t) => users[lt[t].uid] = Rec(t, lt[t].agent)
Justified(u) ==
  users[u] # Nil => \E t \in LoginTask : lt[t].uid = u /\ (Blank(t) \/ Full(t))

Records == (\A t \in LoginTask : Recorded(t)) /\ (\A u \in Uid : Justified(u))

Pooled    == pool["agentpool1"]
InPool(a) == \E i \in DOMAIN Pooled : Pooled[i] = a

Owned ==
  /\ dead \subseteq born
  /\ \A t \in LoginTask, a \in Agent : Out(t, a) => a \in born \ dead /\ ~InPool(a)
  /\ \A t, x \in LoginTask, a \in Agent : Out(t, a) /\ Out(x, a) => t = x
  /\ \A a \in Agent : InPool(a) => a \in born \ dead
  /\ \A i, j \in DOMAIN Pooled : Pooled[i] = Pooled[j] => i = j
Lossless ==
  \A a \in born \ dead : InPool(a) \/ \E t \in LoginTask : Out(t, a) \/ Lost(t, a)

-----------------------------------------------------------------------------
(* Keys, sessions, clients and the calls under way.                          *)

UniqueKeys ==
  \A t, x \in LoginTask : lt[t].at # "idle" /\ lt[x].at # "idle" /\ lt[t].key = lt[x].key => t = x

\* Login t has made the session of fd.
SessionOf(t, fd) ==
  /\ lt[t].fd = fd /\ lt[t].uid = c[fd].uid /\ lt[t].key = c[fd].key
  /\ lt[t].at = "gate" \/ (lt[t].at = "done" /\ lt[t].result = "ok")
  /\ ~Has("gate", t, "register") /\ ~Clears(t)
  /\ lt[t].agent \in Agent
  /\ fd \in connection => c[fd].agent = lt[t].agent
Sessions == \A fd \in Fd : c[fd].uid # Nil => \E t \in LoginTask : SessionOf(t, fd)

\* A client that waits for its answer has one login under way, and no session
\* unless that login has just made it.
Active(t)    == lt[t].at \notin {"idle", "done"}
Wants(t, fd) ==
  \/ Active(t) /\ lt[t].fd = fd
  \/ \E i \in DOMAIN mq["login"] :
       mq["login"][i].op = "packet" /\ mq["login"][i].t = t /\ mq["login"][i].fd = fd
Makes(t, fd) ==
  /\ lt[t].at = "gate" /\ lt[t].fd = fd /\ c[fd].key = lt[t].key
  /\ ~Has("gate", t, "register") /\ ~Clears(t)
Patience ==
  \A fd \in Fd, t \in LoginTask : Wants(t, fd) =>
    /\ \A x \in LoginTask : Wants(x, fd) => t = x
    /\ c[fd].uid # Nil => Makes(t, fd)

\* What close_agent, clearAgent or the undoing of a login is about.
Mine(x)     == [uid |-> lt[x].uid, agent |-> lt[x].agent, key |-> lt[x].key]
Subject(x) == IF Closes(x) THEN c[task[x].fd] ELSE Mine(x)

Closer(x) ==
  /\ Closes(x) => Session(task[x].fd)
  /\ Clears(x) => task[x].data = Mine(x)
  /\ Closes(x) /\ task[x].at = "recycle" => task[x].data.agent = c[task[x].fd].agent
  /\ leaving[x] # Nil => /\ task[x] # G!Idle
                         /\ leaving[x].uid = Subject(x).uid /\ leaving[x].key = Subject(x).key
  /\ logging[x] # Nil => logging[x] = [uid |-> lt[x].uid, data |-> C!User(lt[x].fd, lt[x].key)]

\* The chain of x never takes the path of register_center_fail.
Plain(x) == lt[x].at # "undo_recycle" /\ (lt[x].result = "raised" => lt[x].at = "done" /\ DbMayFail)

\* A message in the mailbox of s is about the subject of its chain.
Errand(s, x) ==
  /\ s = "center" /\ x.op = "logout" => x.uid = Subject(x.t).uid /\ x.key = Subject(x.t).key
  /\ s = "center" /\ x.op = "ret" /\ leaving[x.t] # Nil => x.val = "true"
  /\ s = "pool" /\ x.op = "recycle" => x.from = "gate" /\ x.agent = Subject(x.t).agent
  /\ s \in Agent => Subject(x.t).agent = s
  /\ s = "login" /\ x.op = "ret" =>
       /\ lt[x.t].at = "register" => x.val = "true"
       /\ lt[x.t].at = "gate" /\ x.val # "true" => c[lt[x.t].fd].uid = Nil
       /\ lt[x.t].at = "start" /\ x.val # "true" => DbMayFail

Errands ==
  /\ \A x \in Task : Closer(x) /\ Plain(x)
  /\ \A s \in Service : \A i \in DOMAIN mq[s] : Errand(s, mq[s][i])

RInv == UniqueKeys /\ Sessions /\ Patience /\ Errands
XInv == Records /\ Owned /\ Lossless /\ RInv

-----------------------------------------------------------------------------
(* Mailboxes: a step of chain t leaves the messages of the others alone.     *)

MailKept(t) ==
  \A z \in Service, x \in Message : x.t # t => (In(z, x)' <=> In(z, x))

\* m in the mailbox of s is all there is of its chain.
Only(s, m) ==
  \A z \in Service, x \in Message : x.t = m.t => (In(z, x) <=> (z = s /\ x = m))

LEMMA TailHas ==
  ASSUME NEW q \in Seq(Message), q # << >>, NEW j \in DOMAIN q, j # 1
  PROVE  j - 1 \in DOMAIN Tail(q) /\ Tail(q)[j - 1] = q[j]
  OBVIOUS

LEMMA AppendHas ==
  ASSUME NEW q \in Seq(Message), NEW m \in Message
  PROVE  /\ \A j \in DOMAIN q : j \in DOMAIN Append(q, m) /\ Append(q, m)[j] = q[j]
         /\ Len(q) + 1 \in DOMAIN Append(q, m) /\ Append(q, m)[Len(q) + 1] = m
  OBVIOUS

LEMMA OnlyHead ==
  ASSUME Mail, One, NEW s \in Service, mq[s] # << >>, NEW m, IsHead(s, m)
  PROVE  Only(s, m)
<1>1. /\ 1 \in DOMAIN mq[s] /\ m = mq[s][1] /\ m \in Message
      /\ \A z \in Service : \A j \in DOMAIN mq[z] : (z # s \/ j # 1) => mq[z][j].t # m.t
  BY HeadOnly DEF IsHead
<1> QED
  BY <1>1 DEF Only, In

LEMMA KeptBack ==
  ASSUME NEW t, Carried(t), NEW z \in Service, NEW x \in Message, x.t # t, In(z, x)'
  PROVE  In(z, x)
  BY DEF Carried, In

LEMMA ToMail ==
  ASSUME Mail, One, NEW s \in Service, NEW d \in Service, s # d, mq[s] # << >>,
         NEW m, IsHead(s, m), NEW n \in Message, n.t = m.t, To(s, d, n)
  PROVE  Mail' /\ MailKept(m.t) /\ Only(s, m) /\ Only(d, n)'
<1>1. Sent(d, n)
  BY MailTo DEF IsHead
<1>2. \A z \in Service : mq[z] \in Seq(Message)
  BY DEF Mail
<1>3. /\ mq'[s] = Tail(mq[s]) /\ mq'[d] = Append(mq[d], n)
      /\ \A z \in Service : z # s /\ z # d => mq'[z] = mq[z]
  BY DEF Mail, To
<1>4. ASSUME NEW z \in Service, NEW x \in Message, x.t # m.t, In(z, x)
      PROVE  In(z, x)'
  <2>1. PICK j \in DOMAIN mq[z] : mq[z][j] = x
    BY <1>4 DEF In
  <2>2. CASE z = s
    <3>1. j # 1
      BY <1>4, <2>1, <2>2, HeadOnly DEF IsHead
    <3>2. j - 1 \in DOMAIN Tail(mq[z]) /\ Tail(mq[z])[j - 1] = mq[z][j]
      BY <1>2, <2>2, <3>1, TailHas
    <3> QED
      BY <1>3, <2>1, <2>2, <3>2 DEF In
  <2>3. CASE z = d
    <3>1. j \in DOMAIN Append(mq[z], n) /\ Append(mq[z], n)[j] = mq[z][j]
      BY <1>2, AppendHas
    <3> QED
      BY <1>3, <2>1, <2>3, <3>1 DEF In
  <2>4. CASE z # s /\ z # d
    BY <1>3, <2>1, <2>4 DEF In
  <2> QED
    BY <2>2, <2>3, <2>4
<1>5. MailKept(m.t)
  BY <1>1, <1>4, KeptBack DEF MailKept, Sent
<1>6. In(d, n)'
  <2>1. Len(mq[d]) + 1 \in DOMAIN Append(mq[d], n) /\ Append(mq[d], n)[Len(mq[d]) + 1] = n
    BY <1>2, AppendHas
  <2> QED
    BY <1>3, <2>1 DEF In
<1>7. Only(d, n)'
  BY <1>1, <1>6 DEF Only, Sent, In
<1> QED
  BY <1>1, <1>5, <1>7, OnlyHead DEF Sent

LEMMA EatMail ==
  ASSUME Mail, One, NEW s \in Service, mq[s] # << >>, NEW m, IsHead(s, m), Eat(s)
  PROVE  Mail' /\ MailKept(m.t) /\ Only(s, m) /\ Absent(m.t)'
<1>1. Eaten(m.t)
  BY MailEat DEF IsHead
<1>2. \A z \in Service : mq[z] \in Seq(Message)
  BY DEF Mail
<1>3. mq'[s] = Tail(mq[s]) /\ \A z \in Service : z # s => mq'[z] = mq[z]
  BY DEF Mail, Eat
<1>4. ASSUME NEW z \in Service, NEW x \in Message, x.t # m.t, In(z, x)
      PROVE  In(z, x)'
  <2>1. PICK j \in DOMAIN mq[z] : mq[z][j] = x
    BY <1>4 DEF In
  <2>2. CASE z = s
    <3>1. j # 1
      BY <1>4, <2>1, <2>2, HeadOnly DEF IsHead
    <3>2. j - 1 \in DOMAIN Tail(mq[z]) /\ Tail(mq[z])[j - 1] = mq[z][j]
      BY <1>2, <2>2, <3>1, TailHas
    <3> QED
      BY <1>3, <2>1, <2>2, <3>2 DEF In
  <2>3. CASE z # s
    BY <1>3, <2>1, <2>3 DEF In
  <2> QED
    BY <2>2, <2>3
<1>5. MailKept(m.t)
  BY <1>1, <1>4, KeptBack DEF MailKept, Eaten
<1> QED
  BY <1>1, <1>5, OnlyHead DEF Eaten

LEMMA PostMail ==
  ASSUME Mail, One, NEW d \in Service, NEW n \in Message, Absent(n.t), Post(d, n)
  PROVE  Mail' /\ MailKept(n.t) /\ Only(d, n)'
<1>1. Sent(d, n)
  BY MailPost
<1>2. \A z \in Service : mq[z] \in Seq(Message)
  BY DEF Mail
<1>3. mq'[d] = Append(mq[d], n) /\ \A z \in Service : z # d => mq'[z] = mq[z]
  BY DEF Mail, Post
<1>4. ASSUME NEW z \in Service, NEW x \in Message, x.t # n.t, In(z, x)
      PROVE  In(z, x)'
  <2>1. PICK j \in DOMAIN mq[z] : mq[z][j] = x
    BY <1>4 DEF In
  <2>2. CASE z = d
    <3>1. j \in DOMAIN Append(mq[z], n) /\ Append(mq[z], n)[j] = mq[z][j]
      BY <1>2, AppendHas
    <3> QED
      BY <1>3, <2>1, <2>2, <3>1 DEF In
  <2>3. CASE z # d
    BY <1>3, <2>1, <2>3 DEF In
  <2> QED
    BY <2>2, <2>3
<1>5. MailKept(n.t)
  BY <1>1, <1>4, KeptBack DEF MailKept, Sent
<1>6. In(d, n)'
  <2>1. Len(mq[d]) + 1 \in DOMAIN Append(mq[d], n) /\ Append(mq[d], n)[Len(mq[d]) + 1] = n
    BY <1>2, AppendHas
  <2> QED
    BY <1>3, <2>1 DEF In
<1>7. Only(d, n)'
  BY <1>1, <1>6 DEF Only, Sent, In
<1> QED
  BY <1>1, <1>5, <1>7 DEF Sent

-----------------------------------------------------------------------------
(* What is said of a chain, from the message it has under way.               *)

\* The mail of chain t is m in the mailbox of s; there is none.
Holds(t, s, m) ==
  /\ \A z \in Service : \A op : Has(z, t, op) <=> (z = s /\ op = m.op)
  /\ \A z \in Service : \A v : Says(z, t, v) <=> (z = s /\ m.op = "ret" /\ v = m.val)
  /\ \A a : Gives(t, a) <=> (s = "login" /\ m.op = "ret" /\ a = m.agent)
  /\ \A fd : Wants(t, fd) <=> \/ Active(t) /\ lt[t].fd = fd
                              \/ s = "login" /\ m.op = "packet" /\ fd = m.fd
  /\ \A z \in Service, x \in Message : In(z, x) /\ x.t = t => z = s /\ x = m
HoldsNone(t) ==
  /\ \A z \in Service : \A op : ~Has(z, t, op)
  /\ \A z \in Service : \A v : ~Says(z, t, v)
  /\ \A a : ~Gives(t, a)
  /\ \A fd : Wants(t, fd) <=> Active(t) /\ lt[t].fd = fd
  /\ \A z \in Service, x \in Message : In(z, x) => x.t # t

LEMMA InMail ==
  ASSUME Mail
  PROVE  \A z \in Service : \A i \in DOMAIN mq[z] : mq[z][i] \in Message /\ In(z, mq[z][i])
  BY DEF Mail, In

LEMMA OnlyHolds ==
  ASSUME Mail, NEW s \in Service, NEW m \in Message, Only(s, m)
  PROVE  Holds(m.t, s, m)
<1>1. PICK k \in DOMAIN mq[s] : mq[s][k] = m
  BY DEF Only, In
<1>2. \A z \in Service : \A i \in DOMAIN mq[z] : mq[z][i].t = m.t => z = s /\ mq[z][i] = m
  BY InMail DEF Only
<1>3. "login" \in Service
  BY Names
<1> QED
  BY <1>1, <1>2, <1>3 DEF Holds, Has, Says, Gives, Wants, In

LEMMA OnlyHoldsNext ==
  ASSUME Mail', NEW s \in Service, NEW m \in Message, Only(s, m)'
  PROVE  Holds(m.t, s, m)'
<1>1. PICK k \in DOMAIN mq'[s] : mq'[s][k] = m
  BY DEF Only, In
<1>2. \A z \in Service : \A i \in DOMAIN mq'[z] : mq'[z][i].t = m.t => z = s /\ mq'[z][i] = m
  BY DEF Only, Mail, In
<1>3. "login" \in Service
  BY Names
<1> QED
  BY <1>1, <1>2, <1>3 DEF Holds, Has, Says, Gives, Wants, In

LEMMA NoneHolds ==
  ASSUME NEW t, Absent(t)
  PROVE  HoldsNone(t)
  BY Names DEF Absent, HoldsNone, Has, Says, Gives, Wants, In

LEMMA NoneHoldsNext ==
  ASSUME NEW t, Absent(t)'
  PROVE  HoldsNone(t)'
  BY Names DEF Absent, HoldsNone, Has, Says, Gives, Wants, In

\* The mail of x is what it was.
SameMail(x) ==
  /\ \A z \in Service : \A op : Has(z, x, op)' <=> Has(z, x, op)
  /\ \A z \in Service : \A v : Says(z, x, v)' <=> Says(z, x, v)
  /\ \A a : Gives(x, a)' <=> Gives(x, a)
  /\ \A fd : Wants(x, fd)' <=> Wants(x, fd)

LEMMA KeptMail ==
  ASSUME Mail, Mail', NEW t, MailKept(t), NEW x, x # t, lt'[x] = lt[x]
  PROVE  SameMail(x)
<1>1. \A z \in Service : \A i \in DOMAIN mq[z] :
        mq[z][i].t # t => \E j \in DOMAIN mq'[z] : mq'[z][j] = mq[z][i]
  BY InMail DEF MailKept, In
<1>2. \A z \in Service : \A j \in DOMAIN mq'[z] :
        mq'[z][j].t # t => \E i \in DOMAIN mq[z] : mq'[z][j] = mq[z][i]
  <2> SUFFICES ASSUME NEW z \in Service, NEW j \in DOMAIN mq'[z], mq'[z][j].t # t
               PROVE  \E i \in DOMAIN mq[z] : mq'[z][j] = mq[z][i]
    OBVIOUS
  <2>1. PICK w : w = mq'[z][j]
    OBVIOUS
  <2>2. w \in Message
    BY <2>1 DEF Mail
  <2>3. In(z, w)'
    BY <2>1 DEF In
  <2> QED
    BY <2>1, <2>2, <2>3 DEF MailKept, In
<1>3. "login" \in Service
  BY Names
<1>4. \A z \in Service : \A op : Has(z, x, op)' <=> Has(z, x, op)
  BY <1>1, <1>2 DEF Has
<1>5. \A z \in Service : \A v : Says(z, x, v)' <=> Says(z, x, v)
  BY <1>1, <1>2 DEF Says
<1>6. \A a : Gives(x, a)' <=> Gives(x, a)
  BY <1>1, <1>2, <1>3 DEF Gives
<1>7. \A fd : Wants(x, fd)' <=> Wants(x, fd)
  BY <1>1, <1>2, <1>3 DEF Wants, Active
<1> QED
  BY <1>4, <1>5, <1>6, <1>7 DEF SameMail
-----------------------------------------------------------------------------
(* A step of chain t that leaves the sessions of the gateway alone.          *)

SameSessions ==
  \A fd \in Fd :
    /\ c'[fd].uid = c[fd].uid
    /\ c[fd].uid # Nil => c'[fd] = c[fd] /\ (fd \in connection' <=> fd \in connection)

Apart(t) == Mail /\ Mail' /\ Others(t) /\ MailKept(t)
Local(t) == Apart(t) /\ SameSessions

LEMMA LoginFd ==
  ASSUME IInv, NEW x \in Task, lt[x].at # "idle"
  PROVE  x \in LoginTask /\ lt[x].fd \in Fd /\ lt[x].uid \in Uid /\ lt[x].key \in Key
  BY LoginUser

LEMMA CloserFd ==
  ASSUME IInv, NEW x \in Task, task[x] # G!Idle
  PROVE  /\ task[x].fd \in Fd /\ task[x].at \in {"logout", "recycle"}
         /\ Clears(x) => lt[x].at = "gate" /\ logging[x] = Nil /\ x \in LoginTask
         /\ Closes(x) => (task[x].src = "kick" /\ logging[x] # Nil /\ lt[x].at = "login")
                         \/ (task[x].src \in {"hup", "frame"} /\ x \in CloseTask)
<1>1. GP!IInv /\ Stacks
  BY DEF IInv, Chains
<1>2. task[x].fd \in Fd /\ task[x].at \in {"logout", "recycle"}
  BY <1>1, GateFacts
<1>3. Level(x) /\ Knows(x)
  BY <1>1 DEF Stacks
<1> QED
  BY <1>2, <1>3 DEF Level, Knows, Clears, Closes

LEMMA OthersPlain ==
  ASSUME NEW t, Apart(t), NEW x \in Task, x # t
  PROVE  /\ SameMail(x) /\ lt'[x] = lt[x] /\ task'[x] = task[x]
         /\ Closes(x)' <=> Closes(x)
         /\ Clears(x)' <=> Clears(x)
         /\ LoggedOut(x)' <=> LoggedOut(x)
         /\ Back(x)' <=> Back(x)
         /\ \A fd : (EndsIt(x, fd)' <=> EndsIt(x, fd)) /\ (Hands(x, fd)' <=> Hands(x, fd))
         /\ Blank(x)' <=> Blank(x)
<1>1. /\ lt'[x] = lt[x] /\ task'[x] = task[x]
  BY DEF Apart, Others
<1>2. SameMail(x)
  BY <1>1, KeptMail DEF Apart
<1>3. {"gate", "pool", "login", "center"} \subseteq Service
  BY Names
<1>4. /\ Closes(x)' <=> Closes(x)
      /\ Clears(x)' <=> Clears(x)
  BY <1>1 DEF Closes, Clears
<1>5. LoggedOut(x)' <=> LoggedOut(x)
  BY <1>1, <1>2, <1>3 DEF LoggedOut, SameMail
<1>6. Back(x)' <=> Back(x)
  BY <1>1, <1>2, <1>3 DEF Back, SameMail
<1>7. \A fd : (EndsIt(x, fd)' <=> EndsIt(x, fd)) /\ (Hands(x, fd)' <=> Hands(x, fd))
  BY <1>1, <1>4, <1>5, <1>6 DEF EndsIt, Hands
<1>8. Blank(x)' <=> Blank(x)
  BY <1>1, <1>2, <1>3 DEF Blank, SameMail
<1> QED
  BY <1>1, <1>2, <1>4, <1>5, <1>6, <1>7, <1>8

LEMMA OthersView ==
  ASSUME IInv, NEW t, Local(t), NEW x \in Task, x # t
  PROVE  /\ SameMail(x) /\ lt'[x] = lt[x] /\ task'[x] = task[x]
         /\ Closes(x)' <=> Closes(x)
         /\ Clears(x)' <=> Clears(x)
         /\ \A fd : (EndsIt(x, fd)' <=> EndsIt(x, fd)) /\ (Hands(x, fd)' <=> Hands(x, fd))
         /\ InSession(x)' <=> InSession(x)
         /\ Blank(x)' <=> Blank(x)
<1>1. lt'[x] = lt[x]
  BY DEF Local, Apart, Others
<1>2. InSession(x)' <=> InSession(x)
  <2>1. CASE lt[x].at = "idle"
    BY <1>1, <2>1 DEF InSession
  <2>2. CASE lt[x].at # "idle"
    <3>1. lt[x].fd \in Fd
      BY <2>2, LoginFd
    <3> QED
      BY <1>1, <3>1 DEF InSession, Session, Local, SameSessions
  <2> QED
    BY <2>1, <2>2
<1> QED
  BY <1>2, OthersPlain DEF Local

LEMMA OthersSubject ==
  ASSUME IInv, NEW t, Local(t), NEW x \in Task, x # t, Closer(x)
  PROVE  Subject(x)' = Subject(x) /\ Closer(x)'
<1>1. /\ lt'[x] = lt[x] /\ task'[x] = task[x] /\ logging'[x] = logging[x] /\ leaving'[x] = leaving[x]
      /\ Closes(x)' <=> Closes(x)
      /\ Clears(x)' <=> Clears(x)
  BY OthersView DEF Local, Apart, Others
<1>2. Mine(x)' = Mine(x)
  BY <1>1 DEF Mine
<1>3. Closes(x) => /\ task[x].fd \in Fd /\ Session(task[x].fd)
                   /\ c'[task[x].fd] = c[task[x].fd] /\ task[x].fd \in connection'
  BY CloserFd DEF Closes, Closer, Session, Local, SameSessions
<1>4. Subject(x)' = Subject(x)
  BY <1>1, <1>2, <1>3 DEF Subject
<1>5. Closes(x) => Session(task[x].fd)'
  BY <1>1, <1>3 DEF Session
<1> QED
  BY <1>1, <1>2, <1>3, <1>4, <1>5 DEF Closer, C!User

LEMMA OthersErrand ==
  ASSUME IInv, NEW t, Local(t), NEW x \in Message, x.t # t, NEW s \in Service, In(s, x),
         Closer(x.t), Errand(s, x)
  PROVE  Errand(s, x)'
<1> DEFINE y == x.t
<1>1. y \in Task
  BY MessageChain
<1>2. /\ lt'[y] = lt[y] /\ leaving'[y] = leaving[y] /\ Subject(y)' = Subject(y)
  BY <1>1, OthersSubject DEF Local, Apart, Others
<1>3. lt[y].at = "gate" => c'[lt[y].fd].uid = c[lt[y].fd].uid
  BY <1>1, LoginFd DEF Local, SameSessions
<1> HIDE DEF y
<1>4. Subject(x.t)' = Subject(x.t) /\ lt'[x.t] = lt[x.t] /\ leaving'[x.t] = leaving[x.t]
  BY <1>2 DEF y
<1> QED
  BY <1>3, <1>4 DEF Errand, y

\* A message of a mailbox, by its place.
LEMMA ErrandAt ==
  ASSUME NEW s, NEW i, NEW w, w = mq'[s][i], Errand(s, w)'
  PROVE  Errand(s, mq[s][i])'
  BY ZenonT(60) DEF Errand, Subject, Closes, Mine

LEMMA RestStep ==
  ASSUME IInv, RInv, NEW t, Local(t),
         t \in Task => Closer(t)' /\ Plain(t)',
         \A s \in Service, x \in Message : In(s, x)' /\ x.t = t => Errand(s, x)',
         t \in LoginTask =>
           /\ \A x \in LoginTask : x # t /\ lt'[t].at # "idle" /\ lt[x].at # "idle" => lt'[t].key # lt[x].key
           /\ \A fd \in Fd : Wants(t, fd)' => Wants(t, fd) \/ ~Asking(fd)
           /\ \A fd \in Fd : c[fd].uid # Nil /\ Wants(t, fd)' => Makes(t, fd)'
           /\ \A fd \in Fd : c[fd].uid # Nil /\ SessionOf(t, fd) => SessionOf(t, fd)'
  PROVE  RInv'
<1>1. LoginTask \subseteq Task /\ {"gate", "login"} \subseteq Service
  BY Names
<1>2. \A x \in Task : x # t => lt'[x] = lt[x] /\ task'[x] = task[x] /\ SameMail(x) /\ (Clears(x)' <=> Clears(x))
  BY OthersView
<1>3. UniqueKeys'
  BY <1>1, <1>2 DEF RInv, UniqueKeys
<1>4. Sessions'
  <2> SUFFICES ASSUME NEW fd \in Fd, c'[fd].uid # Nil
               PROVE  \E x \in LoginTask : SessionOf(x, fd)'
    BY DEF Sessions
  <2>1. c[fd].uid # Nil /\ c'[fd] = c[fd] /\ (fd \in connection' <=> fd \in connection)
    BY DEF Local, SameSessions
  <2>2. PICK x \in LoginTask : SessionOf(x, fd)
    BY <2>1 DEF RInv, Sessions
  <2>3. CASE x = t
    BY <2>1, <2>2, <2>3
  <2>4. CASE x # t
    <3>1. SessionOf(x, fd)'
      BY <1>1, <1>2, <2>1, <2>2, <2>4 DEF SessionOf, SameMail
    <3> QED
      BY <3>1
  <2> QED
    BY <2>3, <2>4
<1>5. Patience'
  <2> SUFFICES ASSUME NEW fd \in Fd, NEW x \in LoginTask, Wants(x, fd)'
               PROVE  /\ \A y \in LoginTask : Wants(y, fd)' => x = y
                      /\ c'[fd].uid # Nil => Makes(x, fd)'
    BY DEF Patience
  <2>0. \A y \in LoginTask : y # t => (Wants(y, fd)' <=> Wants(y, fd))
    BY <1>1, <1>2 DEF SameMail
  <2>1. \A y \in LoginTask : Wants(y, fd) => Asking(fd)
    <3> SUFFICES ASSUME NEW y \in LoginTask, Wants(y, fd) PROVE Asking(fd)
      OBVIOUS
    <3>1. CASE Active(y) /\ lt[y].fd = fd
      BY <3>1 DEF Active, Asking
    <3>2. ASSUME NEW i \in DOMAIN mq["login"], mq["login"][i].op = "packet", mq["login"][i].t = y,
                 mq["login"][i].fd = fd
          PROVE  Asking(fd)
      BY SMTT(60), <3>2 DEF Asking
    <3> QED
      BY <3>1, <3>2 DEF Wants
  <2>2. ASSUME NEW y \in LoginTask, Wants(y, fd)' PROVE x = y
    <3>1. CASE x = t /\ y # t
      BY <2>0, <2>1, <2>2, <3>1 DEF RInv, Patience
    <3>2. CASE y = t /\ x # t
      BY <2>0, <2>1, <2>2, <3>2 DEF RInv, Patience
    <3>3. CASE x # t /\ y # t
      BY <2>0, <2>2, <3>3 DEF RInv, Patience
    <3> QED
      BY <3>1, <3>2, <3>3
  <2>3. ASSUME c'[fd].uid # Nil PROVE Makes(x, fd)'
    <3>1. c[fd].uid # Nil /\ c'[fd] = c[fd]
      BY <2>3 DEF Local, SameSessions
    <3>2. CASE x = t
      BY <3>1, <3>2
    <3>3. CASE x # t
      <4>1. Makes(x, fd)
        BY <2>0, <3>1, <3>3 DEF RInv, Patience
      <4> QED
        BY <1>1, <1>2, <3>1, <3>3, <4>1 DEF Makes, SameMail
    <3> QED
      BY <3>2, <3>3
  <2> QED
    BY <2>2, <2>3
<1>6. \A x \in Task : Closer(x)' /\ Plain(x)'
  <2> SUFFICES ASSUME NEW x \in Task, x # t PROVE Closer(x)' /\ Plain(x)'
    BY <1>2
  <2>1. Closer(x) /\ Plain(x)
    BY DEF RInv, Errands
  <2> QED
    BY <1>2, <2>1, OthersSubject DEF Plain
<1>7. ASSUME NEW s \in Service, NEW i \in DOMAIN mq'[s]
      PROVE  Errand(s, mq[s][i])'
  <2>1. PICK w : w = mq'[s][i]
    OBVIOUS
  <2>2. w \in Message
    BY <2>1 DEF Local, Apart, Mail
  <2>3. In(s, w)'
    BY <2>1 DEF In
  <2>4. Errand(s, w)'
    <3>1. CASE w.t = t
      BY <2>2, <2>3, <3>1
    <3>2. CASE w.t # t
      <4>1. In(s, w) /\ w.t \in Task
        BY <2>2, <2>3, <3>2, MessageChain DEF Local, Apart, MailKept
      <4>2. Errand(s, w) /\ Closer(w.t)
        BY <4>1 DEF RInv, Errands, In
      <4> QED
        BY <2>2, <3>2, <4>1, <4>2, OthersErrand
    <3> QED
      BY <3>1, <3>2
  <2> QED
    BY <2>1, <2>4, ErrandAt
<1> QED
  BY <1>3, <1>4, <1>5, <1>6, <1>7 DEF RInv, Errands
-----------------------------------------------------------------------------
(* Records and agents.                                                       *)

LEMMA EndedKept ==
  ASSUME NEW t, Apart(t), NEW fd, t \in Task => (EndsIt(t, fd)' <=> EndsIt(t, fd))
  PROVE  Ended(fd)' <=> Ended(fd)
<1>1. \A x \in Task : EndsIt(x, fd)' <=> EndsIt(x, fd)
  BY OthersPlain
<1> QED
  BY <1>1 DEF Ended

LEMMA ReturnedKept ==
  ASSUME NEW t, Apart(t), NEW fd, t \in Task => (Hands(t, fd)' <=> Hands(t, fd))
  PROVE  Returned(fd)' <=> Returned(fd)
<1>1. \A x \in Task : Hands(x, fd)' <=> Hands(x, fd)
  BY OthersPlain
<1> QED
  BY <1>1 DEF Returned

LEMMA FullOthers ==
  ASSUME NEW t, Apart(t), NEW x \in LoginTask, x # t, NEW f, f = lt[x].fd,
         (InSession(x)' /\ ~Ended(f)') <=> (InSession(x) /\ ~Ended(f))
  PROVE  Full(x)' <=> Full(x)
<1>1. x \in Task /\ {"gate", "center"} \subseteq Service
  BY Names
<1>2. /\ SameMail(x) /\ lt'[x] = lt[x] /\ (Clears(x)' <=> Clears(x))
      /\ LoggedOut(x)' <=> LoggedOut(x)
  BY <1>1, OthersPlain
<1>3. Ended(lt[x].fd)' <=> Ended(f)'
  BY <1>2 DEF Ended, EndsIt, Closes, LoggedOut, Has
<1> QED
  BY <1>1, <1>2, <1>3 DEF Full, SameMail

LEMMA KeepsOthers ==
  ASSUME NEW t, Apart(t), NEW x \in LoginTask, x # t, NEW f, f = lt[x].fd,
         (InSession(x)' /\ ~Returned(f)') <=> (InSession(x) /\ ~Returned(f))
  PROVE  \A a : (Out(x, a)' <=> Out(x, a)) /\ (Lost(x, a)' <=> Lost(x, a))
<1>1. x \in Task /\ {"gate", "center"} \subseteq Service
  BY Names
<1>2. /\ SameMail(x) /\ lt'[x] = lt[x] /\ (Clears(x)' <=> Clears(x))
      /\ Back(x)' <=> Back(x)
  BY <1>1, OthersPlain
<1>3. Returned(lt[x].fd)' <=> Returned(f)'
  BY <1>2 DEF Returned, Hands, Closes, Back, Has
<1>4. Keeps(x)' <=> Keeps(x)
  BY <1>1, <1>2, <1>3 DEF Keeps, SameMail
<1> QED
  BY <1>2, <1>4 DEF Out, Lost, SameMail

\* No record changes, and no login's part in them.
LEMMA RecordsEqual ==
  ASSUME Records, users' = users,
         \A x \in LoginTask :
           /\ Blank(x)' <=> Blank(x)
           /\ Full(x)' <=> Full(x)
           /\ Blank(x) \/ Full(x) =>
                lt'[x].uid = lt[x].uid /\ lt'[x].fd = lt[x].fd /\ lt'[x].key = lt[x].key
           /\ Full(x) => lt'[x].agent = lt[x].agent
  PROVE  Records'
<1>1. ASSUME NEW x \in LoginTask PROVE Recorded(x)'
  <2>1. Recorded(x)
    BY DEF Records
  <2> QED
    BY <2>1 DEF Recorded, Rec
<1>2. ASSUME NEW u \in Uid PROVE Justified(u)'
  <2>1. Justified(u)
    BY DEF Records
  <2> QED
    BY <2>1 DEF Justified
<1> QED
  BY <1>1, <1>2 DEF Records

LEMMA RecordsSame ==
  ASSUME IInv, Records, NEW t, Local(t), users' = users,
         t \in Task => \A fd : EndsIt(t, fd)' <=> EndsIt(t, fd),
         t \in LoginTask =>
           /\ Blank(t)' <=> Blank(t)
           /\ Full(t)' <=> Full(t)
           /\ Blank(t) \/ Full(t) =>
                lt'[t].uid = lt[t].uid /\ lt'[t].fd = lt[t].fd /\ lt'[t].key = lt[t].key
           /\ Full(t) => lt'[t].agent = lt[t].agent
  PROVE  Records'
<1>1. LoginTask \subseteq Task
  BY Names
<1>2. ASSUME NEW x \in LoginTask
      PROVE  /\ Blank(x)' <=> Blank(x)
             /\ Full(x)' <=> Full(x)
             /\ Blank(x) \/ Full(x) =>
                  lt'[x].uid = lt[x].uid /\ lt'[x].fd = lt[x].fd /\ lt'[x].key = lt[x].key
             /\ Full(x) => lt'[x].agent = lt[x].agent
  <2>1. CASE x = t
    BY <2>1
  <2>2. CASE x # t
    <3>1. \A fd : Ended(fd)' <=> Ended(fd)
      BY EndedKept DEF Local
    <3>2. x \in Task /\ (InSession(x)' <=> InSession(x))
      BY <1>1, <2>2, OthersView
    <3>3. Full(x)' <=> Full(x)
      BY <2>2, <3>1, <3>2, FullOthers DEF Local
    <3> QED
      BY <2>2, <3>2, <3>3, OthersView
  <2> QED
    BY <2>1, <2>2
<1> QED
  BY <1>2, RecordsEqual

LEMMA Witnessed ==
  ASSUME IInv, NEW x \in LoginTask, Blank(x) \/ Full(x)
  PROVE  lt[x].at # "idle" /\ lt[x].fd \in Fd /\ lt[x].uid \in Uid /\ lt[x].key \in Key
<1>1. x \in Task
  BY Names
<1>2. lt[x].at # "idle"
  BY <1>1, CloserFd DEF Blank, Full, Clears, InSession
<1> QED
  BY <1>1, <1>2, LoginFd

LEMMA RecordIs ==
  ASSUME IInv, Records, NEW x \in LoginTask, Blank(x) \/ Full(x)
  PROVE  /\ users[lt[x].uid] # Nil /\ users[lt[x].uid].fd = lt[x].fd /\ users[lt[x].uid].key = lt[x].key
         /\ Full(x) => users[lt[x].uid].agent = lt[x].agent
         /\ ~Full(x) => users[lt[x].uid].agent = Nil
<1>1. lt[x].fd \in Fd /\ lt[x].uid \in Uid /\ lt[x].key \in Key
  BY Witnessed
<1>2. lt[x].agent \in Agent \cup {Nil}
  BY Names, StateFacts
<1>3. Rec(x, Nil) \in User /\ Rec(x, lt[x].agent) \in User
  BY <1>1, <1>2 DEF Rec, User
<1> QED
  BY <1>3, Names DEF Records, Recorded, Rec

LEMMA RecordsOne ==
  ASSUME IInv, Records, UniqueKeys, NEW p \in LoginTask, NEW u, u = lt[p].uid, lt[p].at # "idle",
         NEW r, users' = [users EXCEPT ![u] = r], lt' = lt,
         users[u] = Nil \/ users[u].key = lt[p].key,
         \A x \in LoginTask : x # p => (Blank(x)' <=> Blank(x)) /\ (Full(x)' <=> Full(x)),
         Blank(p)' => r = Rec(p, Nil), Full(p)' => r = Rec(p, lt[p].agent),
         r # Nil => Blank(p)' \/ Full(p)'
  PROVE  Records'
<1>1. u \in Uid /\ users'[u] = r /\ \A v \in Uid : v # u => users'[v] = users[v]
  BY LoginFd, StateFacts, Names
<1>2. ASSUME NEW x \in LoginTask, x # p, Blank(x) \/ Full(x)
      PROVE  lt[x].uid # u /\ lt[x].uid \in Uid
  BY <1>2, RecordIs, Witnessed DEF UniqueKeys
<1>3. ASSUME NEW x \in LoginTask PROVE Recorded(x)'
  <2>1. CASE x = p
    BY <1>1, <2>1 DEF Recorded, Rec
  <2>2. CASE x # p
    BY <1>1, <1>2, <2>2 DEF Records, Recorded, Rec
  <2> QED
    BY <2>1, <2>2
<1>4. ASSUME NEW v \in Uid PROVE Justified(v)'
  <2>1. CASE v = u
    BY <1>1, <2>1 DEF Justified
  <2>2. CASE v # u
    BY <1>1, <2>2 DEF Records, Justified
  <2> QED
    BY <2>1, <2>2
<1> QED
  BY <1>3, <1>4 DEF Records

LEMMA OutSame ==
  ASSUME IInv, NEW t, Local(t),
         t \in Task => \A fd : Hands(t, fd)' <=> Hands(t, fd),
         NEW x \in LoginTask, x # t
  PROVE  \A a : (Out(x, a)' <=> Out(x, a)) /\ (Lost(x, a)' <=> Lost(x, a))
<1>1. \A fd : Returned(fd)' <=> Returned(fd)
  BY ReturnedKept DEF Local
<1>2. InSession(x)' <=> InSession(x)
  BY Names, OthersView
<1> QED
  BY <1>1, <1>2, KeepsOthers DEF Local

\* The pool is left alone, and so is every agent that is out.
LEMMA OwnedEqual ==
  ASSUME IInv, Owned, Lossless, UNCHANGED <<pool, born, dead>>,
         \A x \in LoginTask, a \in Agent : /\ Out(x, a)' => Out(x, a)
                                           /\ Out(x, a) \/ Lost(x, a) => Out(x, a)' \/ Lost(x, a)'
  PROVE  Owned' /\ Lossless'
<1>1. Pooled' = Pooled /\ \A a : InPool(a)' <=> InPool(a)
  BY DEF Pooled, InPool
<1>2. born \subseteq Agent
  BY PoolFacts
<1>3. Owned'
  BY <1>1 DEF Owned
<1>4. Lossless'
  BY <1>1, <1>2 DEF Lossless
<1> QED
  BY <1>3, <1>4

LEMMA OwnedSame ==
  ASSUME IInv, Owned, Lossless, NEW t, Local(t), UNCHANGED <<pool, born, dead>>,
         t \in Task => \A fd : Hands(t, fd)' <=> Hands(t, fd),
         t \in LoginTask => \A a \in Agent : /\ Out(t, a)' => Out(t, a)
                                             /\ Out(t, a) \/ Lost(t, a) => Out(t, a)' \/ Lost(t, a)'
  PROVE  Owned' /\ Lossless'
<1>1. \A x \in LoginTask, a \in Agent : /\ Out(x, a)' => Out(x, a)
                                        /\ Out(x, a) \/ Lost(x, a) => Out(x, a)' \/ Lost(x, a)'
  BY OutSame
<1> QED
  BY <1>1, OwnedEqual
-----------------------------------------------------------------------------
(* The subject of a close_agent or clearAgent is a login with an agent.      *)

LEMMA SubjectLogin ==
  ASSUME IInv, RInv, OneCloser, NEW x \in Task, task[x] # G!Idle
  PROVE  \E p \in LoginTask :
           /\ lt[p].at # "idle" /\ lt[p].uid = Subject(x).uid /\ lt[p].key = Subject(x).key
           /\ lt[p].agent = Subject(x).agent /\ lt[p].agent \in Agent
           /\ Closes(x) => SessionOf(p, task[x].fd) /\ InSession(p)
           /\ Clears(x) => p = x
           /\ ~LoggedOut(x) => Full(p)
           /\ ~Back(x) => Keeps(p)
<1>1. Closer(x)
  BY DEF RInv, Errands
<1>2. CASE Clears(x)
  <2>1. lt[x].at = "gate" /\ x \in LoginTask
    BY <1>2, CloserFd
  <2>2. lt[x].agent \in Agent
    BY <2>1 DEF IInv, Chains, Stacks, Knows
  <2>3. ~Closes(x) /\ Subject(x) = Mine(x)
    BY <1>2 DEF Clears, Closes, Subject
  <2>4. (~LoggedOut(x) => Full(x)) /\ (~Back(x) => Keeps(x))
    BY <1>2 DEF Full, Keeps
  <2> QED
    BY <1>2, <2>1, <2>2, <2>3, <2>4 DEF Mine
<1>3. CASE Closes(x)
  <2> DEFINE fd == task[x].fd
  <2>1. fd \in Fd /\ Session(fd) /\ Subject(x) = c[fd]
    BY <1>1, <1>3, CloserFd DEF Closer, Subject
  <2>2. PICK p \in LoginTask : SessionOf(p, fd)
    BY <2>1 DEF Session, RInv, Sessions
  <2>3. /\ lt[p].at # "idle" /\ lt[p].uid = Subject(x).uid /\ lt[p].key = Subject(x).key
        /\ lt[p].agent = Subject(x).agent /\ lt[p].agent \in Agent /\ InSession(p) /\ lt[p].fd = fd
    BY <2>1, <2>2 DEF SessionOf, Session, InSession
  <2>4. ~LoggedOut(x) => ~Ended(fd)
    BY <1>3 DEF OneCloser, Ended, EndsIt
  <2>5. ~Back(x) => ~Returned(fd)
    BY <1>3 DEF OneCloser, Returned, Hands
  <2>6. ~Clears(x)
    BY <1>3 DEF Clears, Closes
  <2> QED
    BY <2>2, <2>3, <2>4, <2>5, <2>6 DEF Full, Keeps
<1> QED
  BY <1>2, <1>3 DEF Closes, Clears

\* The agent a close_agent or clearAgent is about is alive and out.
LEMMA SubjectAgent ==
  ASSUME IInv, RInv, Owned, OneCloser, NEW x \in Task, task[x] # G!Idle
  PROVE  /\ Subject(x).agent \in Agent
         /\ ~Back(x) => Subject(x).agent \in born \ dead
  BY SubjectLogin DEF Owned, Out

LEMMA SubjectRecord ==
  ASSUME IInv, RInv, Records, OneCloser, NEW x \in Task, task[x] # G!Idle, ~LoggedOut(x)
  PROVE  LET u == Subject(x).uid IN
         /\ u \in Uid /\ users[u] # Nil /\ users[u].key = Subject(x).key
         /\ users[u].agent = Subject(x).agent /\ users[u].agent \in Agent
<1>1. PICK p \in LoginTask : /\ lt[p].uid = Subject(x).uid /\ lt[p].key = Subject(x).key
                             /\ lt[p].agent = Subject(x).agent /\ lt[p].agent \in Agent
                             /\ Full(p)
  BY SubjectLogin
<1> QED
  BY <1>1, RecordIs, Witnessed

LEMMA LeavingRecord ==
  ASSUME IInv, RInv, Records, OneCloser, NEW x \in Task, leaving[x] # Nil
  PROVE  LET u == leaving[x].uid IN
         /\ u \in Uid /\ users[u] # Nil /\ users[u].key = leaving[x].key
         /\ users[u].agent = Subject(x).agent /\ users[u].agent \in Agent
         /\ task[x] # G!Idle /\ ~LoggedOut(x)
<1>1. Closer(x) /\ Level(x)
  BY DEF RInv, Errands, IInv, Chains, Stacks
<1>2. /\ task[x] # G!Idle /\ leaving[x].uid = Subject(x).uid /\ leaving[x].key = Subject(x).key
  BY <1>1 DEF Closer
<1>3. task[x].at = "logout"
  BY <1>1, <1>2 DEF Level, Calls
<1>4. ~Has("gate", x, "ret")
  <2> SUFFICES ASSUME NEW i \in DOMAIN mq["gate"], mq["gate"][i].t = x, mq["gate"][i].op = "ret"
               PROVE  FALSE
    BY DEF Has
  <2>1. "gate" \in Service /\ "gate" \notin Agent
    BY Names
  <2>2. mq["gate"][i] \in Message /\ In("gate", mq["gate"][i])
    BY <2>1 DEF IInv, Chains, Mail, In
  <2>3. Fits("gate", mq["gate"][i])
    BY <2>1, <2>2 DEF IInv, Chains, AllFit
  <2> QED
    BY <2>1, <2>3 DEF Fits, GateMail
<1>5. ~LoggedOut(x)
  BY <1>3, <1>4 DEF LoggedOut
<1> QED
  BY <1>2, <1>5, SubjectRecord

-----------------------------------------------------------------------------
(* Steps in which no login moves on.                                         *)

\* Login t is under way and its client has no session.
Early(t) ==
  t \in LoginTask /\ Active(t) /\ (lt[t].at # "gate" \/ Has("gate", t, "register") \/ Clears(t))

LEMMA EarlyView ==
  ASSUME IInv, RInv, NEW t, Early(t)
  PROVE  /\ lt[t].fd \in Fd /\ c[lt[t].fd].uid = Nil /\ ~InSession(t) /\ t \in Task
         /\ lt[t].at \notin {"idle", "done"}
<1>1. t \in Task /\ lt[t].at # "idle"
  BY Names DEF Early, Active
<1>2. lt[t].fd \in Fd
  BY <1>1, LoginFd
<1>3. Wants(t, lt[t].fd)
  BY DEF Wants, Early
<1>4. c[lt[t].fd].uid = Nil
  BY <1>2, <1>3 DEF RInv, Patience, Makes, Early
<1> QED
  BY <1>1, <1>2, <1>4 DEF InSession, Session, Early, Active

LEMMA EarlyNext ==
  ASSUME IInv, RInv, NEW t, Early(t), SameSessions, lt'[t].fd = lt[t].fd
  PROVE  ~InSession(t)' /\ c'[lt'[t].fd].uid = Nil
  BY EarlyView DEF InSession, Session, SameSessions

LEMMA FixedRest ==
  ASSUME IInv, RInv, NEW t \in Task, Local(t), lt' = lt, Closer(t)', ~Has("login", t, "packet")',
         \A s \in Service, x \in Message : In(s, x)' /\ x.t = t => Errand(s, x)',
         t \in CloseTask \/ Early(t)
  PROVE  RInv'
<1>1. Plain(t)'
  BY DEF RInv, Errands, Plain
<1>2. ASSUME t \in LoginTask
      PROVE  /\ \A x \in LoginTask : x # t /\ lt'[t].at # "idle" /\ lt[x].at # "idle" => lt'[t].key # lt[x].key
             /\ \A fd \in Fd : Wants(t, fd)' => Wants(t, fd) \/ ~Asking(fd)
             /\ \A fd \in Fd : c[fd].uid # Nil /\ Wants(t, fd)' => Makes(t, fd)'
             /\ \A fd \in Fd : c[fd].uid # Nil /\ SessionOf(t, fd) => SessionOf(t, fd)'
  <2>1. Early(t) /\ c[lt[t].fd].uid = Nil
    BY <1>2, EarlyView, Names
  <2>2. \A fd : Wants(t, fd)' => Active(t) /\ lt[t].fd = fd
    BY DEF Wants, Has, Active
  <2>3. \A x \in LoginTask : x # t /\ lt'[t].at # "idle" /\ lt[x].at # "idle" => lt'[t].key # lt[x].key
    BY <1>2 DEF RInv, UniqueKeys
  <2> QED
    BY <2>1, <2>2, <2>3 DEF Wants, SessionOf
<1> QED
  BY <1>1, <1>2, RestStep

LEMMA FixedStays ==
  ASSUME IInv, XInv, NEW t \in Task, Local(t), lt' = lt, UNCHANGED <<users, pool, born, dead>>,
         RInv', \A fd : (EndsIt(t, fd)' <=> EndsIt(t, fd)) /\ (Hands(t, fd)' <=> Hands(t, fd)),
         t \in LoginTask =>
           /\ (Blank(t)' <=> Blank(t)) /\ (Full(t)' <=> Full(t)) /\ (Keeps(t)' <=> Keeps(t))
           /\ lt[t].at = "get" => \A a : Gives(t, a)' <=> Gives(t, a)
  PROVE  XInv'
<1>1. Records'
  BY RecordsSame DEF XInv
<1>2. Owned' /\ Lossless'
  <2>1. t \in LoginTask => \A a \in Agent : /\ Out(t, a)' => Out(t, a)
                                            /\ Out(t, a) \/ Lost(t, a) => Out(t, a)' \/ Lost(t, a)'
    BY DEF Out, Lost
  <2> QED
    BY <2>1, OwnedSame DEF XInv
<1> QED
  BY <1>1, <1>2 DEF XInv

LEMMA SelfCloser ==
  ASSUME IInv, NEW t \in Task, Closer(t), SameSessions, lt'[t] = lt[t], task'[t] = task[t],
         leaving'[t] = leaving[t] \/ leaving'[t] = Nil, logging'[t] = logging[t] \/ logging'[t] = Nil
  PROVE  Subject(t)' = Subject(t) /\ Closer(t)'
<1>1. /\ Closes(t)' <=> Closes(t)
      /\ Clears(t)' <=> Clears(t)
  BY DEF Closes, Clears
<1>2. Mine(t)' = Mine(t)
  BY DEF Mine
<1>3. Closes(t) => /\ task[t].fd \in Fd /\ Session(task[t].fd)
                   /\ c'[task[t].fd] = c[task[t].fd] /\ task[t].fd \in connection'
  BY CloserFd DEF Closes, Closer, Session, SameSessions
<1>4. Subject(t)' = Subject(t)
  BY <1>1, <1>2, <1>3 DEF Subject
<1>5. Closes(t) => Session(task[t].fd)'
  BY <1>1, <1>3 DEF Session
<1> QED
  BY <1>1, <1>2, <1>3, <1>4, <1>5 DEF Closer, C!User
-----------------------------------------------------------------------------
(* What the mailboxes hold after a step.                                     *)

LEMMA ToStep ==
  ASSUME IInv, NEW s \in Service, NEW d \in Service, s # d, NEW op, Handles(s, op),
         NEW m, IsHead(s, m), NEW n \in Message, n.t = m.t, To(s, d, n)
  PROVE  Mail /\ Mail' /\ MailKept(m.t) /\ Holds(m.t, s, m) /\ Holds(m.t, d, n)'
<1>1. Mail /\ One /\ mq[s] # << >> /\ m \in Message
  BY HeadFacts, StateFacts DEF IsHead
<1>2. Mail' /\ MailKept(m.t) /\ Only(s, m) /\ Only(d, n)'
  BY <1>1, ToMail
<1>3. Holds(n.t, d, n)'
  BY <1>2, OnlyHoldsNext
<1>4. Holds(m.t, s, m)
  BY <1>1, <1>2, OnlyHolds
<1> QED
  BY <1>1, <1>2, <1>3, <1>4

LEMMA EatStep ==
  ASSUME IInv, NEW s \in Service, NEW op, Handles(s, op), NEW m, IsHead(s, m), Eat(s)
  PROVE  Mail /\ Mail' /\ MailKept(m.t) /\ Holds(m.t, s, m) /\ HoldsNone(m.t)'
<1>1. Mail /\ One /\ mq[s] # << >> /\ m \in Message
  BY HeadFacts, StateFacts DEF IsHead
<1>2. Mail' /\ MailKept(m.t) /\ Only(s, m) /\ Absent(m.t)'
  BY <1>1, EatMail
<1> QED
  BY <1>1, <1>2, OnlyHolds, NoneHoldsNext

LEMMA PostStep ==
  ASSUME IInv, NEW d \in Service, NEW n \in Message, NEW t, n.t = t, Absent(t), Post(d, n)
  PROVE  Mail /\ Mail' /\ MailKept(t) /\ HoldsNone(t) /\ Holds(t, d, n)'
<1>1. Mail /\ One
  BY StateFacts
<1>2. Mail' /\ MailKept(n.t) /\ Only(d, n)'
  BY <1>1, PostMail
<1>3. Holds(n.t, d, n)'
  BY <1>2, OnlyHoldsNext
<1> QED
  BY <1>1, <1>2, <1>3, NoneHolds

-----------------------------------------------------------------------------
(* The gateway: sockets and the beginning of close_agent.                    *)

LEMMA NobodyStays ==
  ASSUME IInv, XInv, UNCHANGED <<mq, task, centerV, poolV, agentV, loginV>>, SameSessions
  PROVE  XInv'
<1>1. PICK t : t = Nil
  OBVIOUS
<1>2. t \notin Task /\ t \notin LoginTask
  BY <1>1, Names
<1>3. Mail /\ Mail' /\ MailKept(t)
  BY StateFacts DEF Mail, MailKept, In
<1>4. Local(t)
  BY <1>3 DEF Local, Apart, Others, centerV, poolV, agentV, loginV
<1>5. \A s \in Service, x \in Message : In(s, x)' /\ x.t = t => Errand(s, x)'
  BY <1>2, MessageChain
<1>6. RInv'
  BY <1>2, <1>4, <1>5, RestStep DEF XInv
<1>7. Records'
  BY <1>2, <1>4, RecordsSame DEF XInv, centerV
<1>8. Owned' /\ Lossless'
  BY <1>2, <1>4, OwnedSame DEF XInv, poolV
<1> QED
  BY <1>6, <1>7, <1>8 DEF XInv

LEMMA SessionKnown ==
  ASSUME IInv, RInv, NEW fd \in Fd, c[fd].uid # Nil
  PROVE  sock[fd] # "fresh"
<1>1. PICK p \in LoginTask : SessionOf(p, fd)
  BY DEF RInv, Sessions
<1>2. p \in Task /\ lt[p].at # "idle"
  BY <1>1, Names DEF SessionOf
<1> QED
  BY <1>1, <1>2, LoginUser DEF SessionOf, Known

LEMMA XGateSocket ==
  ASSUME IInv, XInv, NEW fd \in Fd, GateSocket(fd)
  PROVE  XInv'
<1>1. UNCHANGED <<mq, task, centerV, poolV, agentV, loginV>>
  BY DEF GateSocket, G!Open, G!OpenRefused, G!Handshake, G!PeerClose, G!BadPacket
<1>2. CASE UNCHANGED <<connection, c>>
  BY <1>1, <1>2, NobodyStays DEF SameSessions
<1>3. CASE G!Open(fd)
  <2>1. c[fd].uid = Nil
    BY <1>3, SessionKnown DEF XInv, G!Open
  <2>2. c \in [Fd -> G!Record]
    BY StateFacts, GateFacts
  <2>3. SameSessions
    BY <1>3, <2>1, <2>2 DEF G!Open, SameSessions, G!NewRecord
  <2> QED
    BY <1>1, <2>3, NobodyStays
<1> QED
  BY <1>2, <1>3 DEF GateSocket, G!OpenRefused, G!Handshake, G!PeerClose, G!BadPacket

LEMMA CloseSessionStays ==
  ASSUME IInv, XInv, NEW t \in Task, NEW fd \in Fd, NEW src \in {"kick", "hup", "frame"},
         G!CloseSession(t, fd, src), UNCHANGED <<centerV, poolV, agentV, loginV>>,
         Mail, Mail', MailKept(t), ~Says("login", t, "true"), leaving[t] = Nil,
         NEW n, n.op = "logout", n.uid = c[fd].uid, n.key = c[fd].key, Holds(t, "center", n)',
         t \in CloseTask \/ (t \in LoginTask /\ lt[t].at = "login")
  PROVE  XInv'
<1>1. /\ fd \in connection /\ c[fd].uid # Nil /\ task[t] = G!Idle
      /\ task' = [task EXCEPT ![t] = [at |-> "logout", fd |-> fd, src |-> src, data |-> G!NewRecord]]
      /\ UNCHANGED <<connection, c>>
  BY DEF G!CloseSession
<1>2. task \in [Task -> G!Suspended \cup {G!Idle}]
  BY StateFacts
<1>3. /\ task'[t].at = "logout" /\ task'[t].fd = fd /\ task'[t].src = src
      /\ \A x \in Task : x # t => task'[x] = task[x]
  BY <1>1, <1>2
<1>4. lt' = lt /\ leaving' = leaving /\ logging' = logging /\ users' = users
      /\ UNCHANGED <<pool, born, dead, making, job>>
  BY DEF centerV, poolV, agentV, loginV
<1>5. Local(t)
  BY <1>1, <1>3, <1>4 DEF Local, Apart, Others, SameSessions
<1>6. task'[t] # G!Idle /\ Closes(t)' /\ ~Clears(t)'
  BY <1>3 DEF Closes, Clears, G!Idle
<1>7. {"gate", "login", "center", "pool"} \subseteq Service /\ Agent \cap {"gate", "login", "center", "pool"} = {}
      /\ LoginTask \cap CloseTask = {}
  BY Names
<1>8. Subject(t)' = c[fd]
  BY <1>1, <1>3, <1>6 DEF Subject
<1>9. Closer(t)'
  <2>1. Closer(t)
    BY DEF XInv, RInv, Errands
  <2>2. Session(task[t].fd)'
    BY <1>1, <1>3 DEF Session
  <2> QED
    BY <1>3, <1>4, <1>6, <2>1, <2>2 DEF Closer, C!User
<1>10. \A s \in Service, x \in Message : In(s, x)' /\ x.t = t => Errand(s, x)'
  <2> SUFFICES ASSUME NEW s \in Service, NEW x \in Message, In(s, x)', x.t = t
               PROVE  Errand(s, x)'
    OBVIOUS
  <2>1. s = "center" /\ x = n
    BY DEF Holds
  <2>2. Subject(x.t)' = c[fd]
    BY <1>8
  <2> QED
    BY <1>7, <2>1, <2>2 DEF Errand
<1>11. ~LoggedOut(t)' /\ ~Back(t)' /\ ~Has("login", t, "packet")' /\ ~Says("login", t, "true")'
  BY <1>3, <1>7 DEF LoggedOut, Back, Holds
<1>12. t \in LoginTask => Early(t)
  BY <1>7 DEF Early, Active
<1>13. RInv'
  BY <1>4, <1>5, <1>9, <1>10, <1>11, <1>12, FixedRest DEF XInv
<1>14. \A f : (EndsIt(t, f)' <=> EndsIt(t, f)) /\ (Hands(t, f)' <=> Hands(t, f))
  BY <1>1, <1>11 DEF EndsIt, Hands, Closes
<1>15. ASSUME t \in LoginTask
       PROVE  /\ (Blank(t)' <=> Blank(t)) /\ (Full(t)' <=> Full(t)) /\ (Keeps(t)' <=> Keeps(t))
              /\ lt[t].at = "get" => \A a : Gives(t, a)' <=> Gives(t, a)
  <2>1. lt[t].at = "login" /\ Early(t)
    BY <1>7, <1>12, <1>15
  <2>2. ~InSession(t) /\ ~InSession(t)'
    BY <1>4, <1>5, <2>1, EarlyView, EarlyNext DEF XInv, Local
  <2>3. ~Clears(t)
    BY <1>1 DEF Clears
  <2> QED
    BY <1>4, <1>6, <1>11, <2>1, <2>2, <2>3 DEF Blank, Full, Keeps
<1> QED
  BY <1>4, <1>5, <1>13, <1>14, <1>15, FixedStays

LEMMA AnonymousSessions ==
  ASSUME NEW fd, NEW src, G!CloseAnonymous(fd, src)
  PROVE  SameSessions /\ task' = task /\ ~Session(fd)
  BY DEF G!CloseAnonymous, SameSessions, Session

LEMMA XGateClose ==
  ASSUME IInv, XInv, NEW fd \in Fd, NEW t \in CloseTask, GateClose(t, fd) \/ GateFrame(t, fd)
  PROVE  XInv'
<1>1. PICK src \in {"hup", "frame"} : G!close_agent(t, fd, src) /\ Closing(t, fd)
  BY DEF GateClose, GateFrame, G!MsgClose, G!CloseFrame
<1>2. t \in Task /\ "center" \in Service
  BY Names
<1>3. CASE G!CloseAnonymous(fd, src)
  BY <1>1, <1>3, AnonymousSessions, NobodyStays DEF Closing
<1>4. CASE G!CloseSession(t, fd, src)
  <2>1. Session(fd) /\ task[t] = G!Idle
    BY <1>4 DEF G!CloseSession, Session
  <2>2. PICK n : n = AskLogout(t, c[fd].uid, c[fd].key, "gate")
    OBVIOUS
  <2>3. c[fd].uid \in Uid /\ c[fd].key \in Key
    BY <2>1, SessionData
  <2>4. n \in Message
    BY <1>2, <2>2, <2>3, Messages DEF From
  <2>5. n.t = t /\ n.op = "logout" /\ n.uid = c[fd].uid /\ n.key = c[fd].key
    BY <2>2 DEF AskLogout
  <2>6. Post("center", n) /\ UNCHANGED <<centerV, poolV, agentV, loginV>>
    BY <1>1, <2>1, <2>2 DEF Closing
  <2>7. Absent(t) /\ Bottom(t)
    BY <2>1, CloseAbsent
  <2>8. Mail /\ Mail' /\ MailKept(t) /\ HoldsNone(t) /\ Holds(t, "center", n)'
    BY <1>2, <2>4, <2>5, <2>6, <2>7, PostStep
  <2>9. ~Says("login", t, "true") /\ leaving[t] = Nil
    BY <2>7, <2>8, Names DEF HoldsNone, Bottom
  <2> QED
    BY <1>2, <1>4, <2>5, <2>6, <2>8, <2>9, CloseSessionStays
<1> QED
  BY <1>1, <1>3, <1>4 DEF G!close_agent

\* t waits for gate.kick in the center.
LEMMA KickFacts ==
  ASSUME IInv, Handles("gate", "kick"), NEW m, IsHead("gate", m)
  PROVE  /\ m.t \in LoginTask /\ m.t \in Task /\ m.fd \in Fd /\ task[m.t] = G!Idle /\ leaving[m.t] = Nil
         /\ logging[m.t] # Nil /\ lt[m.t].at = "login" /\ m.op = "kick" /\ m \in Message
<1>1. "gate" \in Service /\ "gate" \notin Agent
  BY Names
<1>2. /\ m \in Message /\ m.t \in Task /\ m.op = "kick" /\ Fits("gate", m)
      /\ Level(m.t) /\ Knows(m.t)
  BY <1>1, HeadFacts DEF IsHead
<1>3. /\ m.fd \in Fd /\ task[m.t] = G!Idle /\ leaving[m.t] = Nil /\ logging[m.t] # Nil
  BY <1>1, <1>2 DEF Fits, GateMail, Known, Answer
<1> QED
  BY <1>2, <1>3 DEF Level, Knows

LEMMA XGateKick ==
  ASSUME IInv, XInv, GateKick
  PROVE  XInv'
<1>1. PICK m : IsHead("gate", m)
  BY DEF IsHead
<1>2. Handles("gate", "kick") /\ UNCHANGED <<centerV, poolV, agentV, loginV>>
  BY DEF GateKick
<1> DEFINE t == m.t
           fd == m.fd
<1>3. /\ t \in LoginTask /\ t \in Task /\ fd \in Fd /\ task[t] = G!Idle /\ leaving[t] = Nil
      /\ logging[t] # Nil /\ lt[t].at = "login" /\ m.op = "kick" /\ m \in Message
  BY <1>1, <1>2, KickFacts
<1>4. /\ G!CloseAnonymous(fd, "kick") \/ G!CloseSession(t, fd, "kick")
      /\ Session(fd) => To("gate", "center", AskLogout(t, c[fd].uid, c[fd].key, "gate"))
      /\ ~Session(fd) => To("gate", "center", Ret(t, "true"))
  BY <1>1 DEF GateKick, G!kick, G!close_agent, IsHead
<1>5. {"gate", "login", "center", "pool"} \subseteq Service /\ Agent \cap {"gate", "login", "center", "pool"} = {}
  BY Names
<1> HIDE DEF t, fd
<1>6. CASE G!CloseAnonymous(fd, "kick")
  <2>1. SameSessions /\ task' = task /\ ~Session(fd)
    BY <1>6, AnonymousSessions
  <2>2. PICK n : n = Ret(t, "true")
    OBVIOUS
  <2>3. n \in Message /\ n.t = m.t /\ n.op = "ret"
    BY <1>3, <2>2, Messages DEF Value, Ret, t
  <2>4. Mail /\ Mail' /\ MailKept(t) /\ Holds(t, "gate", m) /\ Holds(t, "center", n)'
    BY <1>1, <1>2, <1>4, <1>5, <2>1, <2>2, <2>3, ToStep DEF t
  <2>5. lt' = lt /\ leaving' = leaving /\ logging' = logging /\ users' = users
        /\ UNCHANGED <<pool, born, dead, making, job>>
    BY <1>2 DEF centerV, poolV, agentV, loginV
  <2>6. Local(t)
    BY <2>1, <2>4, <2>5 DEF Local, Apart, Others
  <2>7. Closer(t)'
    BY <1>3, <2>1, <2>5, SelfCloser DEF XInv, RInv, Errands
  <2>8. \A s \in Service, x \in Message : In(s, x)' /\ x.t = t => Errand(s, x)'
    <3> SUFFICES ASSUME NEW s \in Service, NEW x \in Message, In(s, x)', x.t = t
                 PROVE  Errand(s, x)'
      OBVIOUS
    <3>1. s = "center" /\ x = n
      BY <2>4 DEF Holds
    <3> QED
      BY <1>3, <1>5, <2>3, <2>5, <3>1 DEF Errand
  <2>9. ~Has("login", t, "packet")' /\ ~Says("login", t, "true")' /\ ~Says("login", t, "true")
    BY <1>5, <2>4 DEF Holds
  <2>10. Early(t)
    BY <1>3 DEF Early, Active
  <2>11. RInv'
    BY <1>3, <2>5, <2>6, <2>7, <2>8, <2>9, <2>10, FixedRest DEF XInv
  <2>12. ~Closes(t) /\ ~Closes(t)' /\ ~Clears(t) /\ ~Clears(t)'
    BY <1>3, <2>1 DEF Closes, Clears
  <2>13. ~InSession(t) /\ ~InSession(t)'
    BY <2>1, <2>5, <2>10, EarlyView, EarlyNext DEF XInv
  <2>14. \A f : (EndsIt(t, f)' <=> EndsIt(t, f)) /\ (Hands(t, f)' <=> Hands(t, f))
    BY <2>12 DEF EndsIt, Hands
  <2>15. (Blank(t)' <=> Blank(t)) /\ (Full(t)' <=> Full(t)) /\ (Keeps(t)' <=> Keeps(t))
    BY <1>3, <2>5, <2>9, <2>12, <2>13 DEF Blank, Full, Keeps
  <2> QED
    BY <1>3, <2>5, <2>6, <2>11, <2>14, <2>15, FixedStays
<1>7. CASE G!CloseSession(t, fd, "kick")
  <2>1. Session(fd)
    BY <1>7 DEF G!CloseSession, Session
  <2>2. PICK n : n = AskLogout(t, c[fd].uid, c[fd].key, "gate")
    OBVIOUS
  <2>3. c[fd].uid \in Uid /\ c[fd].key \in Key
    BY <1>3, <2>1, SessionData
  <2>4. n \in Message
    BY <1>3, <2>2, <2>3, Messages DEF From
  <2>5. n.t = m.t /\ n.op = "logout" /\ n.uid = c[fd].uid /\ n.key = c[fd].key
    BY <2>2 DEF AskLogout, t
  <2>6. Mail /\ Mail' /\ MailKept(t) /\ Holds(t, "gate", m) /\ Holds(t, "center", n)'
    BY <1>1, <1>2, <1>4, <1>5, <2>1, <2>2, <2>4, <2>5, ToStep DEF t
  <2>7. ~Says("login", t, "true")
    BY <1>5, <2>6 DEF Holds
  <2> QED
    BY <1>2, <1>3, <1>7, <2>5, <2>6, <2>7, CloseSessionStays
<1> QED
  BY <1>4, <1>6, <1>7
-----------------------------------------------------------------------------
(* The gateway: register and the end of close_agent.                         *)

\* A chain passes on a call or an answer; nothing else of it changes.
LEMMA FixedSame ==
  ASSUME IInv, XInv, NEW t \in Task, Local(t), lt' = lt, task'[t] = task[t],
         UNCHANGED <<users, pool, born, dead>>,
         Closer(t)', ~Has("login", t, "packet")', t \in CloseTask \/ Early(t),
         \A s \in Service, x \in Message : In(s, x)' /\ x.t = t => Errand(s, x)',
         task[t] # G!Idle => (LoggedOut(t)' <=> LoggedOut(t)) /\ (Back(t)' <=> Back(t)),
         lt[t].at = "login" => (Says("login", t, "true")' <=> Says("login", t, "true")),
         lt[t].at = "register" => (Has("center", t, "register")' <=> Has("center", t, "register")),
         lt[t].at = "gate" => (Has("gate", t, "register")' <=> Has("gate", t, "register")),
         lt[t].at = "get" => \A a : Gives(t, a)' <=> Gives(t, a)
  PROVE  XInv'
<1>1. RInv'
  BY FixedRest DEF XInv
<1>2. (Closes(t)' <=> Closes(t)) /\ (Clears(t)' <=> Clears(t))
  BY DEF Closes, Clears
<1>3. \A f : (EndsIt(t, f)' <=> EndsIt(t, f)) /\ (Hands(t, f)' <=> Hands(t, f))
  BY <1>2 DEF EndsIt, Hands, Closes
<1>4. ASSUME t \in LoginTask
      PROVE  (Blank(t)' <=> Blank(t)) /\ (Full(t)' <=> Full(t)) /\ (Keeps(t)' <=> Keeps(t))
  <2>1. Early(t)
    BY <1>4, Names
  <2>2. ~InSession(t) /\ ~InSession(t)'
    BY <2>1, EarlyView, EarlyNext DEF XInv, Local
  <2>3. Blank(t)' <=> Blank(t)
    BY DEF Blank
  <2>4. Full(t)' <=> Full(t)
    BY <1>2, <2>2 DEF Full, Clears
  <2>5. Keeps(t)' <=> Keeps(t)
    BY <1>2, <2>2 DEF Keeps, Clears
  <2> QED
    BY <2>3, <2>4, <2>5
<1> QED
  BY <1>1, <1>3, <1>4, FixedStays

\* t waits for gate.register in the login service.
LEMMA BindFacts ==
  ASSUME IInv, Handles("gate", "register"), NEW m, IsHead("gate", m)
  PROVE  /\ m.t \in LoginTask /\ m.t \in Task /\ m.fd \in Fd /\ m.fd = lt[m.t].fd /\ m.data = Mine(m.t)
         /\ Bottom(m.t) /\ lt[m.t].at = "gate" /\ lt[m.t].agent \in Agent /\ m.op = "register" /\ m \in Message
<1>1. "gate" \in Service /\ "gate" \notin Agent
  BY Names
<1>2. /\ m \in Message /\ m.t \in Task /\ m.op = "register" /\ Fits("gate", m)
      /\ Level(m.t) /\ Knows(m.t)
  BY <1>1, HeadFacts DEF IsHead
<1>3. /\ m.fd = lt[m.t].fd /\ Bottom(m.t) /\ lt[m.t].at = "gate" /\ m.data = Mine(m.t)
  BY <1>1, <1>2 DEF Fits, GateMail, Answer, Asked, Mine
<1>4. m.t \in LoginTask /\ lt[m.t].fd \in Fd /\ lt[m.t].agent \in Agent
  BY <1>2, <1>3 DEF Knows, Known
<1> QED
  BY <1>2, <1>3, <1>4

LEMMA XRegister ==
  ASSUME IInv, XInv, GateRegister, NEW m, IsHead("gate", m), G!Register(m.fd, m.data),
         To("gate", "login", Ret(m.t, "true"))
  PROVE  XInv'
<1> DEFINE t == m.t
           fd == m.fd
<1>1. Handles("gate", "register") /\ UNCHANGED <<centerV, poolV, agentV, loginV>>
  BY DEF GateRegister
<1>2. /\ t \in LoginTask /\ t \in Task /\ fd \in Fd /\ fd = lt[t].fd /\ m.data = Mine(t)
      /\ Bottom(t) /\ lt[t].at = "gate" /\ lt[t].agent \in Agent /\ m.op = "register" /\ m \in Message
  BY <1>1, BindFacts
<1>3. {"gate", "login", "center", "pool"} \subseteq Service /\ Agent \cap {"gate", "login", "center", "pool"} = {}
      /\ LoginTask \subseteq Task
  BY Names
<1>4. PICK n : n = Ret(t, "true")
  OBVIOUS
<1>5. n \in Message /\ n.t = m.t /\ n.op = "ret" /\ n.val = "true"
  BY <1>2, <1>4, Messages DEF Value, Ret
<1>6. Mail /\ Mail' /\ MailKept(t) /\ Holds(t, "gate", m) /\ Holds(t, "login", n)'
  BY <1>1, <1>3, <1>4, <1>5, ToStep
<1>7. /\ lt' = lt /\ leaving' = leaving /\ logging' = logging /\ users' = users
      /\ UNCHANGED <<pool, born, dead, making, job>>
  BY <1>1 DEF centerV, poolV, agentV, loginV
<1>8. c \in [Fd -> G!Record]
  BY StateFacts, GateFacts
<1>9. /\ fd \in connection /\ connection' = connection /\ task' = task /\ c'[fd] = Mine(t)
      /\ \A f \in Fd : f # fd => c'[f] = c[f]
  BY <1>2, <1>8 DEF G!Register
<1> HIDE DEF t, fd
<1>10. Apart(t)
  BY <1>6, <1>7, <1>9 DEF Apart, Others
<1>11. /\ ~Has("gate", t, "register")' /\ Has("gate", t, "register") /\ ~Clears(t) /\ ~Clears(t)'
       /\ Early(t) /\ \A f : Wants(t, f)' <=> f = fd
  BY <1>2, <1>3, <1>5, <1>6, <1>7, <1>9 DEF Holds, Bottom, Clears, Early, Active
<1>12. c[fd].uid = Nil /\ ~InSession(t) /\ Wants(t, fd)
  BY <1>2, <1>11, EarlyView DEF XInv, Wants, Early
<1>13. /\ c'[fd].uid = lt[t].uid /\ c'[fd].key = lt[t].key /\ c'[fd].agent = lt[t].agent
       /\ c'[fd].uid # Nil
  <2>1. lt[t].uid \in Uid
    BY <1>2, LoginFd
  <2> QED
    BY <1>9, <2>1, Names DEF Mine
<1>14. \A x \in LoginTask : Wants(x, fd) => x = t
  BY <1>2, <1>12 DEF XInv, RInv, Patience
<1>15. \A x \in Task : Closes(x) => /\ task[x].fd \in Fd /\ task[x].fd # fd
                                    /\ c'[task[x].fd] = c[task[x].fd]
  BY <1>9, <1>12, CloserFd DEF XInv, RInv, Errands, Closer, Closes, Session
<1>16. UniqueKeys'
  BY <1>7 DEF XInv, RInv, UniqueKeys
<1>17. Sessions'
  <2> SUFFICES ASSUME NEW f \in Fd, c'[f].uid # Nil PROVE \E x \in LoginTask : SessionOf(x, f)'
    BY DEF Sessions
  <2>1. CASE f = fd
    <3>1. SessionOf(t, fd)'
      BY <1>2, <1>7, <1>11, <1>13 DEF SessionOf
    <3> QED
      BY <1>2, <2>1, <3>1
  <2>2. CASE f # fd
    <3>1. c'[f] = c[f]
      BY <1>9, <2>2
    <3>2. PICK x \in LoginTask : SessionOf(x, f)
      BY <3>1 DEF XInv, RInv, Sessions
    <3>3. x # t /\ x \in Task
      BY <1>2, <1>3, <2>2, <3>2 DEF SessionOf
    <3>4. SessionOf(x, f)'
      BY <1>3, <1>7, <1>9, <1>10, <3>1, <3>2, <3>3, OthersPlain DEF SessionOf, SameMail
    <3> QED
      BY <3>4
  <2> QED
    BY <2>1, <2>2
<1>18. Patience'
  <2>1. \A x \in LoginTask : \A f : Wants(x, f)' => Wants(x, f)
    <3> SUFFICES ASSUME NEW x \in LoginTask, NEW f, Wants(x, f)' PROVE Wants(x, f)
      OBVIOUS
    <3>1. CASE x = t
      BY <1>11, <1>12, <3>1
    <3>2. CASE x # t
      BY <1>3, <1>10, <3>2, OthersPlain DEF SameMail
    <3> QED
      BY <3>1, <3>2
  <2> SUFFICES ASSUME NEW f \in Fd, NEW x \in LoginTask, Wants(x, f)'
               PROVE  /\ \A y \in LoginTask : Wants(y, f)' => x = y
                      /\ c'[f].uid # Nil => Makes(x, f)'
    BY DEF Patience
  <2>2. \A y \in LoginTask : Wants(y, f)' => x = y
    BY <2>1 DEF XInv, RInv, Patience
  <2>3. ASSUME c'[f].uid # Nil PROVE Makes(x, f)'
    <3>1. CASE f = fd
      <4>1. x = t
        BY <1>14, <2>1, <3>1
      <4> QED
        BY <1>2, <1>7, <1>11, <1>13, <3>1, <4>1 DEF Makes
    <3>2. CASE f # fd
      <4>1. c'[f] = c[f] /\ Makes(x, f)
        BY <1>9, <2>1, <2>3, <3>2 DEF XInv, RInv, Patience
      <4>2. x # t /\ x \in Task
        BY <1>2, <1>3, <3>2, <4>1 DEF Makes
      <4> QED
        BY <1>3, <1>7, <1>10, <4>1, <4>2, OthersPlain DEF Makes, SameMail
    <3> QED
      BY <3>1, <3>2
  <2> QED
    BY <2>2, <2>3
<1>19. ASSUME NEW x \in Task PROVE Subject(x)' = Subject(x) /\ Closer(x)' /\ Plain(x)'
  <2>1. Closer(x) /\ Plain(x) /\ Mine(x)' = Mine(x) /\ (Closes(x)' <=> Closes(x)) /\ (Clears(x)' <=> Clears(x))
    BY <1>7, <1>9 DEF XInv, RInv, Errands, Mine, Closes, Clears
  <2>2. Subject(x)' = Subject(x)
    BY <1>9, <1>15, <2>1 DEF Subject
  <2>3. Closes(x) => Session(task[x].fd)'
    <3> SUFFICES ASSUME Closes(x) PROVE Session(task[x].fd)'
      OBVIOUS
    <3>1. Session(task[x].fd)
      BY <2>1 DEF Closer
    <3> QED
      BY <1>9, <1>15, <2>1, <3>1 DEF Session
  <2> QED
    BY <1>7, <1>9, <1>15, <2>1, <2>2, <2>3 DEF Closer, Plain, C!User
<1>20. ASSUME NEW s \in Service, NEW i \in DOMAIN mq'[s]
       PROVE  Errand(s, mq[s][i])'
  <2>1. PICK w : w = mq'[s][i]
    OBVIOUS
  <2>2. w \in Message /\ w.t \in Task /\ In(s, w)'
    BY <1>6, <2>1, MessageChain DEF Mail, In
  <2>3. Errand(s, w)'
    <3>1. CASE w.t = t
      <4>1. s = "login" /\ w = n
        BY <1>6, <2>2, <3>1 DEF Holds
      <4> QED
        BY <1>3, <1>5, <4>1 DEF Errand
    <3>2. CASE w.t # t
      <4>1. In(s, w)
        BY <1>6, <2>2, <3>2 DEF MailKept
      <4>2. Errand(s, w)
        BY <4>1 DEF XInv, RInv, Errands, In
      <4>3. Subject(w.t)' = Subject(w.t) /\ lt'[w.t] = lt[w.t] /\ leaving'[w.t] = leaving[w.t]
        BY <1>7, <1>19, <2>2
      <4>4. lt[w.t].at = "gate" => lt[w.t].fd \in Fd /\ lt[w.t].fd # fd
        BY <1>14, <2>2, <3>2, LoginFd DEF Wants, Active
      <4>5. lt[w.t].at = "gate" => c'[lt[w.t].fd] = c[lt[w.t].fd]
        BY <1>9, <4>4
      <4> QED
        BY <4>2, <4>3, <4>5 DEF Errand
    <3> QED
      BY <3>1, <3>2
  <2> QED
    BY <2>1, <2>3, ErrandAt
<1>21. RInv'
  BY <1>16, <1>17, <1>18, <1>19, <1>20 DEF RInv, Errands
<1>22. \A f : (EndsIt(t, f)' <=> EndsIt(t, f)) /\ (Hands(t, f)' <=> Hands(t, f))
  BY <1>2, <1>9 DEF Bottom, EndsIt, Hands, Closes
<1>23. /\ ~Ended(fd) /\ ~Ended(fd)' /\ ~Returned(fd) /\ ~Returned(fd)'
  BY <1>9, <1>15 DEF Ended, Returned, EndsIt, Hands, Closes
<1>24. Full(t) /\ Full(t)' /\ Keeps(t) /\ Keeps(t)' /\ ~Blank(t) /\ ~Blank(t)'
  <2>1. InSession(t)'
    BY <1>2, <1>7, <1>9, <1>13 DEF InSession, Session
  <2>2. ~Ended(lt[t].fd)' /\ ~Returned(lt[t].fd)'
    BY <1>2, <1>7, <1>23 DEF Ended, EndsIt, Closes, LoggedOut, Has, Returned, Hands, Back
  <2> QED
    BY <1>2, <1>7, <1>11, <2>1, <2>2 DEF Full, Keeps, Blank
<1>25. ASSUME NEW x \in LoginTask, x # t
       PROVE  /\ (Blank(x)' <=> Blank(x)) /\ (Full(x)' <=> Full(x))
              /\ \A a : (Out(x, a)' <=> Out(x, a)) /\ (Lost(x, a)' <=> Lost(x, a))
  <2>1. PICK f : f = lt[x].fd
    OBVIOUS
  <2>2. (Ended(f)' <=> Ended(f)) /\ (Returned(f)' <=> Returned(f))
    BY <1>10, <1>22, EndedKept, ReturnedKept
  <2>3. InSession(x)' <=> InSession(x)
    <3>1. CASE lt[x].at = "idle"
      BY <1>7, <3>1 DEF InSession
    <3>2. CASE lt[x].at # "idle" /\ f # fd
      <4>1. f \in Fd
        BY <1>3, <2>1, <3>2, LoginFd
      <4> QED
        BY <1>7, <1>9, <2>1, <3>2, <4>1 DEF InSession, Session
    <3>3. CASE lt[x].at # "idle" /\ f = fd
      <4>1. lt[x].key # lt[t].key
        BY <1>2, <1>25, <3>3 DEF XInv, RInv, UniqueKeys
      <4> QED
        BY <1>7, <1>12, <1>13, <2>1, <3>3, <4>1 DEF InSession, Session
    <3> QED
      BY <3>1, <3>2, <3>3
  <2> QED
    BY <1>3, <1>10, <1>25, <2>1, <2>2, <2>3, OthersPlain, FullOthers, KeepsOthers
<1>26. Records'
  BY <1>2, <1>7, <1>24, <1>25, RecordsEqual DEF XInv
<1>27. \A a : (Out(t, a)' <=> Out(t, a)) /\ (Lost(t, a)' <=> Lost(t, a))
  BY <1>2, <1>7, <1>24 DEF Out, Lost
<1>28. Owned' /\ Lossless'
  BY <1>7, <1>25, <1>27, OwnedEqual DEF XInv
<1> QED
  BY <1>21, <1>26, <1>28 DEF XInv
LEMMA TaskStage ==
  ASSUME IInv, NEW x \in Task, task[x] # G!Idle
  PROVE  x \in CloseTask \/ Early(x)
<1>1. CASE Clears(x)
  BY <1>1, CloserFd DEF Early, Active
<1>2. CASE Closes(x)
  <2>1. lt[x].at = "login" => x \in LoginTask
    BY LoginFd
  <2> QED
    BY <1>2, <2>1, CloserFd DEF Early, Active
<1> QED
  BY <1>1, <1>2 DEF Closes, Clears

LEMMA XRegisterGone ==
  ASSUME IInv, XInv, GateRegister, NEW m, IsHead("gate", m), G!RegisterGone(m.t, m.fd, m.data),
         To("gate", "center", AskLogout(m.t, m.data.uid, m.data.key, "gate"))
  PROVE  XInv'
<1> DEFINE t == m.t
           fd == m.fd
<1>1. Handles("gate", "register") /\ UNCHANGED <<centerV, poolV, agentV, loginV>>
  BY DEF GateRegister
<1>2. /\ t \in LoginTask /\ t \in Task /\ fd \in Fd /\ fd = lt[t].fd /\ m.data = Mine(t)
      /\ Bottom(t) /\ lt[t].at = "gate" /\ lt[t].agent \in Agent /\ m.op = "register" /\ m \in Message
  BY <1>1, BindFacts
<1>3. {"gate", "login", "center", "pool"} \subseteq Service /\ Agent \cap {"gate", "login", "center", "pool"} = {}
      /\ LoginTask \subseteq Task
  BY Names
<1>4. PICK n : n = AskLogout(t, m.data.uid, m.data.key, "gate")
  OBVIOUS
<1>5. n.t = m.t /\ n.op = "logout" /\ n.uid = lt[t].uid /\ n.key = lt[t].key
  BY <1>2, <1>4 DEF AskLogout, Mine
<1>6. n \in Message
  BY <1>2, <1>4, LoginFd, Messages DEF From, Mine
<1>7. Mail /\ Mail' /\ MailKept(t) /\ Holds(t, "gate", m) /\ Holds(t, "center", n)'
  BY <1>1, <1>3, <1>4, <1>5, <1>6, ToStep
<1>8. /\ lt' = lt /\ leaving' = leaving /\ logging' = logging /\ users' = users
      /\ UNCHANGED <<pool, born, dead, making, job>>
  BY <1>1 DEF centerV, poolV, agentV, loginV
<1>9. task \in [Task -> G!Suspended \cup {G!Idle}]
  BY StateFacts
<1>10. /\ UNCHANGED <<connection, c>> /\ task[t] = G!Idle
       /\ task'[t] = [at |-> "logout", fd |-> fd, src |-> "register", data |-> m.data]
       /\ \A x \in Task : x # t => task'[x] = task[x]
  BY <1>2, <1>9 DEF G!RegisterGone
<1>11. task'[t].at = "logout" /\ task'[t].data = Mine(t) /\ Clears(t)' /\ ~Closes(t)' /\ ~Closes(t) /\ ~Clears(t)
  BY <1>2, <1>10 DEF Clears, Closes, G!Idle
<1> HIDE DEF t, fd
<1>12. Local(t)
  BY <1>7, <1>8, <1>10 DEF Local, Apart, Others, SameSessions
<1>13. /\ Mine(t)' = Mine(t) /\ Subject(t)' = Mine(t)
  BY <1>8, <1>11 DEF Mine, Subject
<1>14. Closer(t)'
  BY <1>2, <1>8, <1>11, <1>13 DEF Closer, Bottom
<1>15. \A s \in Service, x \in Message : In(s, x)' /\ x.t = t => Errand(s, x)'
  <2> SUFFICES ASSUME NEW s \in Service, NEW x \in Message, In(s, x)', x.t = t
               PROVE  Errand(s, x)'
    OBVIOUS
  <2>1. s = "center" /\ x = n
    BY <1>7 DEF Holds
  <2>2. Subject(x.t)' = Mine(t)
    BY <1>13
  <2> QED
    BY <1>3, <1>5, <2>1, <2>2 DEF Errand, Mine
<1>16. /\ ~Has("login", t, "packet")' /\ ~Has("gate", t, "ret")' /\ Has("gate", t, "register")
  BY <1>2, <1>3, <1>5, <1>7 DEF Holds
<1>17. Early(t)
  BY <1>2, <1>16 DEF Early, Active
<1>18. RInv'
  BY <1>2, <1>8, <1>12, <1>14, <1>15, <1>16, <1>17, FixedRest DEF XInv
<1>19. \A f : (EndsIt(t, f)' <=> EndsIt(t, f)) /\ (Hands(t, f)' <=> Hands(t, f))
  BY <1>11 DEF EndsIt, Hands
<1>20. (Blank(t)' <=> Blank(t)) /\ (Full(t)' <=> Full(t)) /\ (Keeps(t)' <=> Keeps(t))
  BY <1>2, <1>8, <1>11, <1>16 DEF Blank, Full, Keeps, LoggedOut, Back
<1> QED
  BY <1>2, <1>8, <1>12, <1>18, <1>19, <1>20, FixedStays

LEMMA XGateRegister ==
  ASSUME IInv, XInv, GateRegister
  PROVE  XInv'
<1>1. PICK m : IsHead("gate", m)
  BY DEF IsHead
<1>2. \/ G!Register(m.fd, m.data) /\ To("gate", "login", Ret(m.t, "true"))
      \/ /\ G!RegisterGone(m.t, m.fd, m.data)
         /\ To("gate", "center", AskLogout(m.t, m.data.uid, m.data.key, "gate"))
  BY <1>1 DEF GateRegister, IsHead
<1> QED
  BY <1>1, <1>2, XRegister, XRegisterGone

\* The answer to the logout or the recycle of a close_agent or clearAgent.
LEMMA ResumeFacts ==
  ASSUME IInv, RInv, OneCloser, Handles("gate", "ret"), NEW m, IsHead("gate", m)
  PROVE  /\ m.t \in Task /\ m \in Message /\ m.op = "ret" /\ task[m.t] # G!Idle /\ leaving[m.t] = Nil
         /\ Closer(m.t) /\ Subject(m.t).agent \in Agent /\ (m.t \in CloseTask \/ Early(m.t))
         /\ task[m.t] \in G!Suspended
<1>1. "gate" \in Service /\ "gate" \notin Agent
  BY Names
<1>2. m \in Message /\ m.t \in Task /\ m.op = "ret" /\ Fits("gate", m)
  BY <1>1, HeadFacts DEF IsHead
<1>3. task[m.t] # G!Idle /\ leaving[m.t] = Nil
  BY <1>1, <1>2 DEF Fits, GateMail
<1>4. Closer(m.t)
  BY <1>2 DEF RInv, Errands
<1>5. task[m.t] \in G!Suspended
  BY <1>2, <1>3, StateFacts
<1>6. Subject(m.t).agent \in Agent
  BY <1>2, <1>3, SubjectLogin
<1> QED
  BY <1>2, <1>3, <1>4, <1>5, <1>6, TaskStage

LEMMA XLogoutDone ==
  ASSUME IInv, XInv, OneCloser, GateResume, NEW m, IsHead("gate", m), G!LogoutDone(m.t),
         To("gate", "pool", AskRecycle(m.t, G!AgentOf(m.t), "gate"))
  PROVE  XInv'
<1> DEFINE t == m.t
<1>1. Handles("gate", "ret") /\ UNCHANGED <<centerV, poolV, agentV, loginV>>
  BY DEF GateResume
<1>2. /\ t \in Task /\ m \in Message /\ m.op = "ret" /\ task[t] # G!Idle /\ leaving[t] = Nil
      /\ Closer(t) /\ Subject(t).agent \in Agent /\ (t \in CloseTask \/ Early(t)) /\ task[t] \in G!Suspended
  BY <1>1, ResumeFacts DEF XInv
<1>3. {"gate", "login", "center", "pool"} \subseteq Service /\ Agent \cap {"gate", "login", "center", "pool"} = {}
      /\ LoginTask \cap CloseTask = {}
  BY Names
<1>4. PICK a : a = G!AgentOf(t)
  OBVIOUS
<1>5. a = Subject(t).agent /\ a \in Agent
  BY <1>2, <1>4 DEF G!AgentOf, Subject, Closer, Closes, Clears, Mine
<1>6. PICK n : n = AskRecycle(t, a, "gate")
  OBVIOUS
<1>7. n \in Message /\ n.t = m.t /\ n.op = "recycle" /\ n.agent = a /\ n.from = "gate"
  BY <1>2, <1>5, <1>6, Messages DEF AskRecycle, From
<1>8. Mail /\ Mail' /\ MailKept(t) /\ Holds(t, "gate", m) /\ Holds(t, "pool", n)'
  BY <1>1, <1>3, <1>4, <1>6, <1>7, ToStep
<1>9. /\ lt' = lt /\ leaving' = leaving /\ logging' = logging /\ users' = users
      /\ UNCHANGED <<pool, born, dead, making, job>>
  BY <1>1 DEF centerV, poolV, agentV, loginV
<1>10. task \in [Task -> G!Suspended \cup {G!Idle}]
  BY StateFacts
<1>11. /\ task[t].at = "logout" /\ UNCHANGED <<connection, c>>
       /\ task'[t].at = "recycle" /\ task'[t].fd = task[t].fd /\ task'[t].src = task[t].src
       /\ task'[t].data = [task[t].data EXCEPT !.agent = a]
       /\ \A x \in Task : x # t => task'[x] = task[x]
  BY <1>2, <1>4, <1>10 DEF G!LogoutDone, G!Suspended
<1>12. task'[t].data.agent = a /\ (a = task[t].data.agent => task'[t].data = task[t].data)
  BY <1>2, <1>11 DEF G!Suspended, G!Record
<1> HIDE DEF t
<1>13. Local(t)
  BY <1>8, <1>9, <1>11 DEF Local, Apart, Others, SameSessions
<1>14. task'[t] # G!Idle /\ (Closes(t)' <=> Closes(t)) /\ (Clears(t)' <=> Clears(t))
  BY <1>2, <1>11 DEF Closes, Clears, G!Idle
<1>15. Mine(t)' = Mine(t) /\ Subject(t)' = Subject(t)
  BY <1>9, <1>11, <1>14 DEF Mine, Subject
<1>16. Closer(t)'
  <2>1. Closes(t) => Session(task[t].fd)'
    BY <1>2, <1>11 DEF Closer, Session
  <2>2. Clears(t) => task'[t].data = Mine(t)
    BY <1>2, <1>5, <1>12 DEF Closer, Subject, Mine, Clears, Closes
  <2>3. Closes(t) => task'[t].data.agent = c'[task'[t].fd].agent
    BY <1>5, <1>11, <1>12 DEF Subject
  <2> QED
    BY <1>2, <1>9, <1>14, <1>15, <2>1, <2>2, <2>3 DEF Closer, C!User
<1>17. \A s \in Service, x \in Message : In(s, x)' /\ x.t = t => Errand(s, x)'
  <2> SUFFICES ASSUME NEW s \in Service, NEW x \in Message, In(s, x)', x.t = t
               PROVE  Errand(s, x)'
    OBVIOUS
  <2>1. s = "pool" /\ x = n
    BY <1>8 DEF Holds
  <2>2. Subject(x.t)' = Subject(t)
    BY <1>15
  <2> QED
    BY <1>3, <1>5, <1>7, <2>1, <2>2 DEF Errand
<1>18. /\ ~Has("login", t, "packet")' /\ Has("pool", t, "recycle")' /\ Has("gate", t, "ret")
       /\ ~Says("login", t, "true") /\ ~Says("login", t, "true")'
       /\ ~Has("gate", t, "register") /\ ~Has("gate", t, "register")'
  BY <1>2, <1>3, <1>7, <1>8 DEF Holds
<1>19. RInv'
  BY <1>2, <1>9, <1>13, <1>16, <1>17, <1>18, FixedRest DEF XInv
<1>20. LoggedOut(t) /\ LoggedOut(t)' /\ ~Back(t) /\ ~Back(t)'
  BY <1>11, <1>18 DEF LoggedOut, Back
<1>21. \A f : (EndsIt(t, f)' <=> EndsIt(t, f)) /\ (Hands(t, f)' <=> Hands(t, f))
  BY <1>11, <1>14, <1>20 DEF EndsIt, Hands
<1>22. ASSUME t \in LoginTask
       PROVE  /\ (Blank(t)' <=> Blank(t)) /\ (Full(t)' <=> Full(t)) /\ (Keeps(t)' <=> Keeps(t))
              /\ lt[t].at \in {"login", "gate"}
  <2>1. ~InSession(t) /\ ~InSession(t)' /\ lt[t].at \in {"login", "gate"}
    BY <1>2, <1>3, <1>9, <1>13, <1>22, EarlyView, EarlyNext, CloserFd DEF XInv, Local, Closes, Clears
  <2> QED
    BY <1>9, <1>14, <1>18, <1>20, <2>1 DEF Blank, Full, Keeps
<1> QED
  BY <1>2, <1>9, <1>13, <1>19, <1>21, <1>22, FixedStays

LEMMA XClearDone ==
  ASSUME IInv, XInv, OneCloser, GateResume, NEW m, IsHead("gate", m), G!ClearDone(m.t), GateAnswer(m.t, "false")
  PROVE  XInv'
<1> DEFINE t == m.t
<1>1. Handles("gate", "ret") /\ UNCHANGED <<centerV, poolV, agentV, loginV>>
  BY DEF GateResume
<1>2. /\ t \in Task /\ m \in Message /\ m.op = "ret" /\ task[t] # G!Idle /\ leaving[t] = Nil
      /\ Closer(t) /\ task[t] \in G!Suspended
  BY <1>1, ResumeFacts DEF XInv
<1>3. {"gate", "login", "center", "pool"} \subseteq Service /\ Agent \cap {"gate", "login", "center", "pool"} = {}
  BY Names
<1>4. PICK n : n = Ret(t, "false")
  OBVIOUS
<1>5. n \in Message /\ n.t = m.t /\ n.op = "ret" /\ n.val = "false"
  BY <1>2, <1>4, Messages DEF Value, Ret
<1>6. /\ task[t].at = "recycle" /\ task[t].src = "register" /\ UNCHANGED <<connection, c>>
      /\ task'[t] = G!Idle /\ \A x \in Task : x # t => task'[x] = task[x]
  BY <1>2, StateFacts DEF G!ClearDone
<1>7. To("gate", "login", n)
  BY <1>4, <1>6 DEF GateAnswer
<1>8. Mail /\ Mail' /\ MailKept(t) /\ Holds(t, "gate", m) /\ Holds(t, "login", n)'
  BY <1>1, <1>3, <1>5, <1>7, ToStep
<1>9. /\ lt' = lt /\ leaving' = leaving /\ logging' = logging /\ users' = users
      /\ UNCHANGED <<pool, born, dead, making, job>>
  BY <1>1 DEF centerV, poolV, agentV, loginV
<1> HIDE DEF t
<1>10. Local(t)
  BY <1>6, <1>8, <1>9 DEF Local, Apart, Others, SameSessions
<1>11. Clears(t) /\ ~Closes(t) /\ ~Closes(t)' /\ ~Clears(t)'
  BY <1>2, <1>6 DEF Clears, Closes
<1>12. lt[t].at = "gate" /\ logging[t] = Nil /\ t \in LoginTask /\ Early(t)
  BY <1>2, <1>11, CloserFd DEF Early, Active
<1>13. ~InSession(t) /\ ~InSession(t)' /\ c'[lt'[t].fd].uid = Nil
  BY <1>9, <1>10, <1>12, EarlyView, EarlyNext DEF XInv, Local
<1>14. Closer(t)'
  BY <1>2, <1>6, <1>9, <1>11, <1>12 DEF Closer
<1>15. \A s \in Service, x \in Message : In(s, x)' /\ x.t = t => Errand(s, x)'
  <2> SUFFICES ASSUME NEW s \in Service, NEW x \in Message, In(s, x)', x.t = t
               PROVE  Errand(s, x)'
    OBVIOUS
  <2>1. s = "login" /\ x = n
    BY <1>8 DEF Holds
  <2> QED
    BY <1>3, <1>5, <1>9, <1>12, <1>13, <2>1 DEF Errand
<1>16. /\ ~Has("login", t, "packet")' /\ ~Has("pool", t, "recycle")
       /\ ~Has("gate", t, "register") /\ ~Has("gate", t, "register")'
  BY <1>2, <1>3, <1>5, <1>8 DEF Holds
<1>17. RInv'
  BY <1>2, <1>9, <1>10, <1>12, <1>14, <1>15, <1>16, FixedRest DEF XInv
<1>18. LoggedOut(t) /\ Back(t)
  BY <1>6, <1>16 DEF LoggedOut, Back
<1>19. \A f : (EndsIt(t, f)' <=> EndsIt(t, f)) /\ (Hands(t, f)' <=> Hands(t, f))
  BY <1>11 DEF EndsIt, Hands
<1>20. (Blank(t)' <=> Blank(t)) /\ (Full(t)' <=> Full(t)) /\ (Keeps(t)' <=> Keeps(t))
  BY <1>9, <1>11, <1>12, <1>13, <1>16, <1>18 DEF Blank, Full, Keeps
<1> QED
  BY <1>2, <1>9, <1>10, <1>12, <1>17, <1>19, <1>20, FixedStays
LEMMA XRecycleDone ==
  ASSUME IInv, XInv, OneCloser, GateResume, NEW m, IsHead("gate", m), G!RecycleDone(m.t), GateAnswer(m.t, "true")
  PROVE  XInv'
<1> DEFINE t == m.t
           fd == task[m.t].fd
<1>1. Handles("gate", "ret") /\ UNCHANGED <<centerV, poolV, agentV, loginV>>
  BY DEF GateResume
<1>2. /\ t \in Task /\ m \in Message /\ m.op = "ret" /\ task[t] # G!Idle /\ leaving[t] = Nil
      /\ Closer(t) /\ (t \in CloseTask \/ Early(t)) /\ task[t] \in G!Suspended
  BY <1>1, ResumeFacts DEF XInv
<1>3. {"gate", "login", "center", "pool"} \subseteq Service /\ Agent \cap {"gate", "login", "center", "pool"} = {}
      /\ LoginTask \subseteq Task /\ LoginTask \cap CloseTask = {}
  BY Names
<1>4. fd \in Fd /\ c \in [Fd -> G!Record]
  BY <1>2, CloserFd, StateFacts, GateFacts
<1>5. /\ task[t].at = "recycle" /\ task[t].src # "register"
      /\ connection' = connection \ {fd}
      /\ c'[fd].uid = c[fd].uid /\ c'[fd].key = c[fd].key
      /\ \A f \in Fd : f # fd => c'[f] = c[f]
      /\ task'[t] = G!Idle /\ \A x \in Task : x # t => task'[x] = task[x]
  <2>1. /\ task[t].at = "recycle" /\ task[t].src # "register"
        /\ connection' = connection \ {fd}
        /\ c' = [c EXCEPT ![fd].agent = Nil]
        /\ task' = [task EXCEPT ![t] = G!Idle]
    BY DEF G!RecycleDone
  <2>2. task \in [Task -> G!Suspended \cup {G!Idle}]
    BY StateFacts
  <2>3. c'[fd].uid = c[fd].uid /\ c'[fd].key = c[fd].key /\ \A f \in Fd : f # fd => c'[f] = c[f]
    <3>1. c[fd] \in G!Record
      BY <1>4
    <3>2. c'[fd] = [c[fd] EXCEPT !.agent = Nil] /\ \A f \in Fd : f # fd => c'[f] = c[f]
      BY <1>4, <2>1
    <3> QED
      BY <3>1, <3>2 DEF G!Record
  <2>4. task'[t] = G!Idle /\ \A x \in Task : x # t => task'[x] = task[x]
    BY <1>2, <2>1, <2>2
  <2> QED
    BY <2>1, <2>3, <2>4
<1>6. /\ lt' = lt /\ leaving' = leaving /\ logging' = logging /\ users' = users
      /\ UNCHANGED <<pool, born, dead, making, job>>
  BY <1>1 DEF centerV, poolV, agentV, loginV
<1>7. /\ Mail /\ Mail' /\ MailKept(t) /\ Holds(t, "gate", m)
      /\ \A z \in Service : \A op : Has(z, t, op)' => z = "center"
      /\ \A z \in Service : \A v : Says(z, t, v)' => z = "center"
      /\ \A f : Wants(t, f)' => Active(t)' /\ lt'[t].fd = f
      /\ \A z \in Service, x \in Message : In(z, x)' /\ x.t = t => z = "center" /\ x.op = "ret"
  <2>1. CASE task[t].src = "kick"
    <3>1. PICK n : n = Ret(t, "true")
      OBVIOUS
    <3>2. n \in Message /\ n.t = m.t /\ n.op = "ret"
      BY <1>2, <3>1, Messages DEF Value, Ret
    <3>3. To("gate", "center", n)
      BY <2>1, <3>1 DEF GateAnswer
    <3>4. Mail /\ Mail' /\ MailKept(t) /\ Holds(t, "gate", m) /\ Holds(t, "center", n)'
      BY <1>1, <1>3, <3>2, <3>3, ToStep
    <3> QED
      BY <1>3, <3>2, <3>4 DEF Holds
  <2>2. CASE task[t].src # "kick"
    <3>1. Eat("gate")
      BY <1>5, <2>2 DEF GateAnswer
    <3>2. Mail /\ Mail' /\ MailKept(t) /\ Holds(t, "gate", m) /\ HoldsNone(t)'
      BY <1>1, <1>3, <3>1, EatStep
    <3> QED
      BY <1>3, <3>2 DEF HoldsNone
  <2> QED
    BY <2>1, <2>2
<1> HIDE DEF t, fd
<1>8. Apart(t)
  BY <1>5, <1>6, <1>7 DEF Apart, Others
<1>9. /\ Closes(t) /\ ~Clears(t) /\ ~Closes(t)' /\ ~Clears(t)'
      /\ LoggedOut(t) /\ Back(t) /\ Session(fd) /\ Ended(fd) /\ Returned(fd)
  <2>1. Closes(t) /\ ~Clears(t) /\ ~Closes(t)' /\ ~Clears(t)'
    BY <1>2, <1>5 DEF Closes, Clears
  <2>2. LoggedOut(t) /\ Back(t)
    BY <1>2, <1>3, <1>5, <1>7 DEF LoggedOut, Back, Holds
  <2> QED
    BY <1>2, <2>1, <2>2 DEF Closer, Ended, Returned, EndsIt, Hands, fd, t
<1>10. t \in LoginTask => Early(t) /\ lt[t].at = "login" /\ ~InSession(t) /\ c[lt[t].fd].uid = Nil
  <2>1. t \in LoginTask => Early(t) /\ lt[t].at = "login"
    BY <1>2, <1>3, <1>9, CloserFd
  <2> QED
    BY <2>1, EarlyView DEF XInv
<1>11. \A x \in Task : x # t /\ Closes(x) =>
         /\ task[x].fd \in Fd /\ task[x].fd # fd
         /\ c'[task[x].fd] = c[task[x].fd] /\ (task[x].fd \in connection => task[x].fd \in connection')
  <2> SUFFICES ASSUME NEW x \in Task, x # t, Closes(x)
               PROVE  /\ task[x].fd \in Fd /\ task[x].fd # fd
                      /\ c'[task[x].fd] = c[task[x].fd] /\ (task[x].fd \in connection => task[x].fd \in connection')
    OBVIOUS
  <2>1. task[x].fd \in Fd
    BY CloserFd DEF Closes
  <2>2. task[x].fd # fd
    BY <1>2, <1>9 DEF OneCloser, fd, t
  <2> QED
    BY <1>5, <2>1, <2>2
<1>12. \A f \in Fd : c'[f].uid = c[f].uid /\ c'[f].key = c[f].key
  BY <1>5
<1>13. UniqueKeys'
  BY <1>6 DEF XInv, RInv, UniqueKeys
<1>14. Sessions'
  <2> SUFFICES ASSUME NEW f \in Fd, c'[f].uid # Nil PROVE \E x \in LoginTask : SessionOf(x, f)'
    BY DEF Sessions
  <2>1. PICK x \in LoginTask : SessionOf(x, f)
    BY <1>12 DEF XInv, RInv, Sessions
  <2>2. x # t /\ x \in Task
    BY <1>3, <1>10, <2>1 DEF SessionOf
  <2>3. f \in connection' => f # fd /\ f \in connection
    BY <1>5
  <2>4. SessionOf(x, f)'
    BY <1>3, <1>5, <1>6, <1>8, <1>12, <2>1, <2>2, <2>3, OthersPlain DEF SessionOf, SameMail
  <2> QED
    BY <2>4
<1>15. Patience'
  <2>1. \A x \in LoginTask : \A f : Wants(x, f)' => Wants(x, f)
    <3> SUFFICES ASSUME NEW x \in LoginTask, NEW f, Wants(x, f)' PROVE Wants(x, f)
      OBVIOUS
    <3>1. CASE x = t
      BY <1>6, <1>7, <3>1 DEF Wants, Active
    <3>2. CASE x # t
      BY <1>3, <1>8, <3>2, OthersPlain DEF SameMail
    <3> QED
      BY <3>1, <3>2
  <2> SUFFICES ASSUME NEW f \in Fd, NEW x \in LoginTask, Wants(x, f)'
               PROVE  /\ \A y \in LoginTask : Wants(y, f)' => x = y
                      /\ c'[f].uid # Nil => Makes(x, f)'
    BY DEF Patience
  <2>2. \A y \in LoginTask : Wants(y, f)' => x = y
    BY <2>1 DEF XInv, RInv, Patience
  <2>3. ASSUME c'[f].uid # Nil PROVE Makes(x, f)'
    <3>1. Makes(x, f)
      BY <1>12, <2>1, <2>3 DEF XInv, RInv, Patience
    <3>2. x # t /\ x \in Task
      BY <1>3, <1>10, <3>1 DEF Makes
    <3> QED
      BY <1>3, <1>6, <1>8, <1>12, <3>1, <3>2, OthersPlain DEF Makes, SameMail
  <2> QED
    BY <2>2, <2>3
<1>16. ASSUME NEW x \in Task, x # t PROVE Subject(x)' = Subject(x) /\ Closer(x)'
  <2>1. /\ Closer(x) /\ Mine(x)' = Mine(x) /\ (Closes(x)' <=> Closes(x)) /\ (Clears(x)' <=> Clears(x))
        /\ task'[x] = task[x]
    BY <1>5, <1>6, <1>16 DEF XInv, RInv, Errands, Mine, Closes, Clears
  <2>2. Subject(x)' = Subject(x)
    BY <1>11, <1>16, <2>1 DEF Subject
  <2>3. Closes(x) => Session(task[x].fd)'
    BY <1>11, <1>16, <2>1 DEF Closer, Session
  <2> QED
    BY <1>6, <1>11, <1>16, <2>1, <2>2, <2>3 DEF Closer, C!User
<1>17. Closer(t)'
  BY <1>2, <1>6, <1>9 DEF Closer, C!User
<1>18. \A x \in Task : Plain(x)'
  <2>1. \A x \in Task : Plain(x)
    BY DEF XInv, RInv, Errands
  <2> QED
    BY <1>6, <2>1 DEF Plain
<1>19. ASSUME NEW s \in Service, NEW i \in DOMAIN mq'[s]
       PROVE  Errand(s, mq[s][i])'
  <2>1. PICK w : w = mq'[s][i]
    OBVIOUS
  <2>2. w \in Message /\ w.t \in Task /\ In(s, w)'
    BY <1>7, <2>1, MessageChain DEF Mail, In
  <2>3. Errand(s, w)'
    <3>1. CASE w.t = t
      BY <1>2, <1>3, <1>6, <1>7, <2>2, <3>1 DEF Errand
    <3>2. CASE w.t # t
      <4>1. In(s, w)
        BY <1>7, <2>2, <3>2 DEF MailKept
      <4>2. Errand(s, w)
        BY <4>1 DEF XInv, RInv, Errands, In
      <4>3. Subject(w.t)' = Subject(w.t) /\ lt'[w.t] = lt[w.t] /\ leaving'[w.t] = leaving[w.t]
        BY <1>6, <1>16, <2>2, <3>2
      <4>4. lt[w.t].at = "gate" => c'[lt[w.t].fd].uid = c[lt[w.t].fd].uid
        BY <1>12, <2>2, LoginFd
      <4> QED
        BY <4>2, <4>3, <4>4 DEF Errand
    <3> QED
      BY <3>1, <3>2
  <2> QED
    BY <2>1, <2>3, ErrandAt
<1>20. RInv'
  BY <1>13, <1>14, <1>15, <1>16, <1>17, <1>18, <1>19 DEF RInv, Errands
<1>21. ASSUME t \in LoginTask
       PROVE  /\ ~Blank(t) /\ ~Blank(t)' /\ ~Full(t) /\ ~Full(t)'
              /\ \A a : ~Out(t, a) /\ ~Out(t, a)' /\ ~Lost(t, a)
  <2>1. lt[t].at = "login" /\ ~InSession(t) /\ lt[t].fd \in Fd /\ c[lt[t].fd].uid = Nil
    BY <1>2, <1>10, <1>21, LoginFd
  <2>2. ~InSession(t)'
    BY <1>6, <1>12, <2>1 DEF InSession, Session
  <2>3. ~Says("login", t, "true") /\ ~Says("login", t, "true")'
    BY <1>3, <1>7 DEF Holds
  <2> QED
    BY <1>6, <1>9, <2>1, <2>2, <2>3 DEF Blank, Full, Out, Keeps, Lost
<1>22. ASSUME NEW x \in LoginTask, x # t
       PROVE  /\ (Blank(x)' <=> Blank(x)) /\ (Full(x)' <=> Full(x))
              /\ \A a : (Out(x, a)' <=> Out(x, a)) /\ (Lost(x, a)' <=> Lost(x, a))
  <2>1. PICK f : f = lt[x].fd
    OBVIOUS
  <2>2. /\ (InSession(x)' /\ ~Ended(f)') <=> (InSession(x) /\ ~Ended(f))
        /\ (InSession(x)' /\ ~Returned(f)') <=> (InSession(x) /\ ~Returned(f))
    <3>1. CASE lt[x].at = "idle"
      BY <1>6, <3>1 DEF InSession
    <3>2. CASE lt[x].at # "idle" /\ f # fd
      <4>1. f \in Fd
        BY <1>3, <2>1, <3>2, LoginFd
      <4>2. InSession(x)' <=> InSession(x)
        BY <1>5, <1>6, <2>1, <3>2, <4>1 DEF InSession, Session
      <4>3. (EndsIt(t, f)' <=> EndsIt(t, f)) /\ (Hands(t, f)' <=> Hands(t, f))
        BY <1>9, <3>2 DEF EndsIt, Hands, fd, t
      <4>4. (Ended(f)' <=> Ended(f)) /\ (Returned(f)' <=> Returned(f))
        BY <1>8, <4>3, EndedKept, ReturnedKept
      <4> QED
        BY <4>2, <4>4
    <3>3. CASE f = fd
      <4>1. ~InSession(x)'
        BY <1>5, <1>6, <2>1, <3>3 DEF InSession, Session
      <4> QED
        BY <1>9, <3>3, <4>1
    <3> QED
      BY <3>1, <3>2, <3>3
  <2>3. Blank(x)' <=> Blank(x)
    BY <1>3, <1>8, <1>22, OthersPlain
  <2> QED
    BY <1>8, <1>22, <2>1, <2>2, <2>3, FullOthers, KeepsOthers
<1>23. Records'
  BY <1>6, <1>21, <1>22, RecordsEqual DEF XInv
<1>24. Owned' /\ Lossless'
  BY <1>6, <1>21, <1>22, OwnedEqual DEF XInv
<1> QED
  BY <1>20, <1>23, <1>24 DEF XInv

LEMMA XGateResume ==
  ASSUME IInv, XInv, OneCloser, GateResume
  PROVE  XInv'
<1>1. PICK m : IsHead("gate", m)
  BY DEF IsHead
<1>2. Handles("gate", "ret")
  BY DEF GateResume
<1>3. /\ Closer(m.t) /\ Subject(m.t).agent \in Agent /\ task[m.t] # G!Idle
  BY <1>1, <1>2, ResumeFacts DEF XInv
<1>4. ~G!RecycleRaise(m.t)
  BY <1>3, Names DEF G!RecycleRaise, Closer, Closes, Clears, Subject, Mine
<1>5. \/ G!LogoutDone(m.t) /\ To("gate", "pool", AskRecycle(m.t, G!AgentOf(m.t), "gate"))
      \/ G!RecycleDone(m.t) /\ GateAnswer(m.t, "true")
      \/ G!ClearDone(m.t) /\ GateAnswer(m.t, "false")
  BY <1>1, <1>4 DEF GateResume, IsHead
<1> QED
  BY <1>1, <1>5, XLogoutDone, XRecycleDone, XClearDone

LEMMA XGatePacket ==
  ASSUME IInv, XInv, NEW fd \in Fd, NEW t \in LoginTask, NEW u \in Uid, fd \in Patient, GatePacket(t, fd, u)
  PROVE  XInv'
<1>1. /\ lt[t].at = "idle" /\ ~Asking(fd) /\ gs.conn[fd] = "open" /\ G!Route(fd) = Nil
      /\ Post("login", Packet(t, fd, u)) /\ UNCHANGED <<gateV, centerV, poolV, agentV, loginV>>
  BY DEF GatePacket
<1>2. {"gate", "login", "center", "pool"} \subseteq Service /\ Agent \cap {"gate", "login", "center", "pool"} = {}
      /\ LoginTask \subseteq Task /\ LoginTask \cap CloseTask = {}
  BY Names
<1>3. Absent(t)
  BY DEF GatePacket, Absent, IInv, Chains, Mail
<1>4. PICK n : n = Packet(t, fd, u)
  OBVIOUS
<1>5. n \in Message /\ n.t = t /\ n.op = "packet" /\ n.fd = fd
  BY <1>2, <1>4, Messages DEF Packet
<1>6. Mail /\ Mail' /\ MailKept(t) /\ HoldsNone(t) /\ Holds(t, "login", n)'
  BY <1>1, <1>2, <1>3, <1>4, <1>5, PostStep
<1>7. /\ lt' = lt /\ leaving' = leaving /\ logging' = logging /\ users' = users
      /\ UNCHANGED <<pool, born, dead, making, job, task, c, connection>>
  BY <1>1 DEF gateV, centerV, poolV, agentV, loginV
<1>8. Local(t)
  BY <1>6, <1>7 DEF Local, Apart, Others, SameSessions
<1>9. c[fd].uid = Nil
  <2>1. fd \in GP!Live(gs)
    BY <1>1 DEF GP!Live
  <2>2. c[fd].uid # Nil => c[fd].agent # Nil
    BY <2>1 DEF IInv, GP!IInv, GP!Routable
  <2> QED
    BY <1>1, <2>2 DEF G!Route
<1>10. Closer(t)' /\ Plain(t)'
  BY <1>2, <1>7, <1>8, SelfCloser DEF XInv, RInv, Errands, Plain, Local
<1>11. \A s \in Service, x \in Message : In(s, x)' /\ x.t = t => Errand(s, x)'
  <2> SUFFICES ASSUME NEW s \in Service, NEW x \in Message, In(s, x)', x.t = t
               PROVE  Errand(s, x)'
    OBVIOUS
  <2>1. s = "login" /\ x = n
    BY <1>6 DEF Holds
  <2> QED
    BY <1>2, <1>5, <2>1 DEF Errand
<1>12. \A f : Wants(t, f)' => f = fd
  BY <1>1, <1>2, <1>5, <1>6, <1>7 DEF Holds, Active
<1>13. \A f \in Fd : ~SessionOf(t, f)
  BY <1>1 DEF SessionOf
<1>14. RInv'
  BY <1>1, <1>7, <1>8, <1>9, <1>10, <1>11, <1>12, <1>13, RestStep DEF XInv
<1>15. task[t] = G!Idle
  BY <1>1, <1>2, TaskStage DEF Early, Active
<1>16. \A f : (EndsIt(t, f)' <=> EndsIt(t, f)) /\ (Hands(t, f)' <=> Hands(t, f))
  BY <1>7, <1>15 DEF EndsIt, Hands, Closes
<1>17. (Blank(t)' <=> Blank(t)) /\ (Full(t)' <=> Full(t)) /\ (Keeps(t)' <=> Keeps(t))
  BY <1>1, <1>7, <1>15 DEF Blank, Full, Keeps, InSession, Clears
<1> QED
  BY <1>1, <1>2, <1>7, <1>8, <1>14, <1>16, <1>17, FixedStays

-----------------------------------------------------------------------------
(* The center.                                                               *)

LEMMA OthersRecord ==
  ASSUME IInv, NEW t, Local(t), t \in Task => \A fd : EndsIt(t, fd)' <=> EndsIt(t, fd),
         NEW x \in LoginTask, x # t
  PROVE  (Blank(x)' <=> Blank(x)) /\ (Full(x)' <=> Full(x))
<1>1. x \in Task /\ Apart(t)
  BY Names DEF Local
<1>2. PICK f : f = lt[x].fd
  OBVIOUS
<1>3. Ended(f)' <=> Ended(f)
  BY <1>1, EndedKept
<1>4. (InSession(x)' <=> InSession(x)) /\ (Blank(x)' <=> Blank(x))
  BY <1>1, OthersView
<1> QED
  BY <1>1, <1>2, <1>3, <1>4, FullOthers

\* The center has made the record of login t and says so.
LEMMA RecordMade ==
  ASSUME IInv, XInv, NEW t \in Task, Early(t), lt[t].at = "login", task[t] = G!Idle, Local(t), lt' = lt,
         task' = task, NEW u, u = lt[t].uid, users[u] = Nil, users' = [users EXCEPT ![u] = Rec(t, Nil)],
         UNCHANGED <<pool, born, dead>>, Closer(t)', ~Says("login", t, "true"),
         NEW n, Holds(t, "login", n)', n.op = "ret", n.val = "true"
  PROVE  XInv'
<1>1. {"gate", "login", "center", "pool"} \subseteq Service /\ Agent \cap {"gate", "login", "center", "pool"} = {}
      /\ t \in LoginTask
  BY Names DEF Early
<1>2. Says("login", t, "true")' /\ ~Has("login", t, "packet")'
  BY <1>1 DEF Holds
<1>3. \A s \in Service, x \in Message : In(s, x)' /\ x.t = t => Errand(s, x)'
  <2> SUFFICES ASSUME NEW s \in Service, NEW x \in Message, In(s, x)', x.t = t
               PROVE  Errand(s, x)'
    OBVIOUS
  <2>1. s = "login"
    BY DEF Holds
  <2> QED
    BY <1>1, <2>1 DEF Errand
<1>4. RInv'
  BY <1>2, <1>3, FixedRest DEF XInv
<1>5. ~Closes(t) /\ ~Closes(t)' /\ ~Clears(t) /\ ~Clears(t)'
  BY DEF Closes, Clears
<1>6. \A f : (EndsIt(t, f)' <=> EndsIt(t, f)) /\ (Hands(t, f)' <=> Hands(t, f))
  BY <1>5 DEF EndsIt, Hands
<1>7. ~InSession(t) /\ ~InSession(t)'
  BY EarlyView, EarlyNext DEF XInv, Local
<1>8. Blank(t)' /\ ~Full(t)'
  BY <1>2, <1>5, <1>7 DEF Blank, Full
<1>9. \A x \in LoginTask : x # t => (Blank(x)' <=> Blank(x)) /\ (Full(x)' <=> Full(x))
  BY <1>6, OthersRecord
<1>10. Records'
  BY <1>1, <1>8, <1>9, RecordsOne DEF XInv, RInv
<1>11. \A a : ~Out(t, a) /\ ~Out(t, a)' /\ ~Lost(t, a)
  BY <1>5, <1>7 DEF Out, Keeps, Lost
<1>12. Owned' /\ Lossless'
  BY <1>6, <1>11, OwnedSame DEF XInv
<1> QED
  BY <1>4, <1>10, <1>12 DEF XInv

LEMMA XCenterLogin ==
  ASSUME IInv, XInv, CenterLogin
  PROVE  XInv'
<1>1. PICK m : IsHead("center", m)
  BY DEF IsHead
<1> DEFINE t == m.t
           u == m.uid
<1>2. /\ Handles("center", "login")
      /\ \/ \E ret \in Bool : C!login(u, m.data, ret) /\ To("center", "login", Ret(t, ret))
         \/ /\ C!login_kick(t, u, m.data)
            /\ To("center", "gate", AskKick(t, users[u].fd))
      /\ UNCHANGED <<gateV, poolV, agentV, loginV>>
  BY <1>1 DEF CenterLogin, IsHead
<1>3. {"gate", "login", "center", "pool"} \subseteq Service /\ Agent \cap {"gate", "login", "center", "pool"} = {}
  BY Names
<1>4. /\ m \in Message /\ t \in Task /\ m.op = "login" /\ Fits("center", m)
  BY <1>1, <1>2, <1>3, HeadFacts DEF IsHead
<1>5. Asked(t, "login") /\ u = lt[t].uid /\ m.data = C!User(lt[t].fd, lt[t].key)
  BY <1>3, <1>4 DEF Fits, CenterMail, Answer
<1>6. /\ lt[t].at = "login" /\ task[t] = G!Idle /\ logging[t] = Nil /\ leaving[t] = Nil /\ m.data = Rec(t, Nil)
  BY <1>5 DEF Asked, Bottom, Rec, C!User
<1>7. /\ lt' = lt /\ task' = task /\ UNCHANGED <<pool, born, dead, making, job, c, connection>>
  BY <1>2 DEF gateV, poolV, agentV, loginV
<1>8. logging \in [Task -> [uid : Uid, data : User] \cup {Nil}]
  BY StateFacts
<1>9. \A n \in Message : \A d \in {"login", "gate"} : n.t = t /\ To("center", d, n) =>
         Mail /\ Mail' /\ MailKept(t) /\ Holds(t, "center", m) /\ Holds(t, d, n)'
  BY <1>1, <1>2, <1>3, ToStep
<1> HIDE DEF t, u
<1>10. t \in LoginTask /\ Early(t)
  BY <1>4, <1>6, LoginFd DEF Early, Active
<1>11. Closer(t)
  BY <1>4 DEF XInv, RInv, Errands
<1>12. ASSUME NEW ret \in Bool, C!login(u, m.data, ret), To("center", "login", Ret(t, ret))
       PROVE  XInv'
  <2>1. PICK n : n = Ret(t, ret)
    OBVIOUS
  <2>2. n \in Message /\ n.t = t /\ n.op = "ret" /\ n.val = ret
    BY <1>4, <1>12, <2>1, Messages DEF Ret, Value, Bool
  <2>3. Mail /\ Mail' /\ MailKept(t) /\ Holds(t, "center", m) /\ Holds(t, "login", n)'
    BY <1>9, <1>12, <2>1, <2>2
  <2>4. logging' = logging /\ leaving' = leaving
    BY <1>12 DEF C!login
  <2>5. Local(t)
    BY <1>7, <2>3, <2>4 DEF Local, Apart, Others, SameSessions
  <2>6. Closer(t)'
    BY <1>4, <1>7, <1>11, <2>4, <2>5, SelfCloser DEF Local
  <2>7. ~Says("login", t, "true") /\ ~Has("login", t, "packet")'
    BY <1>3, <2>2, <2>3 DEF Holds
  <2>8. CASE users[u] = Nil
    <3>1. users' = [users EXCEPT ![u] = Rec(t, Nil)] /\ ret = "true"
      BY <1>6, <1>12, <2>8 DEF C!login
    <3> QED
      BY <1>4, <1>5, <1>6, <1>7, <1>10, <2>2, <2>3, <2>5, <2>6, <2>7, <2>8, <3>1, RecordMade
  <2>9. CASE users[u] # Nil
    <3>1. users' = users /\ ret = "false"
      BY <1>12, <2>9 DEF C!login
    <3>2. ~Says("login", t, "true")'
      BY <1>3, <2>2, <2>3, <3>1 DEF Holds
    <3>3. \A s \in Service, x \in Message : In(s, x)' /\ x.t = t => Errand(s, x)'
      <4> SUFFICES ASSUME NEW s \in Service, NEW x \in Message, In(s, x)', x.t = t
                   PROVE  Errand(s, x)'
        OBVIOUS
      <4>1. s = "login"
        BY <2>3 DEF Holds
      <4> QED
        BY <1>3, <1>6, <1>7, <4>1 DEF Errand
    <3> QED
      BY <1>4, <1>6, <1>7, <1>10, <2>5, <2>6, <2>7, <3>1, <3>2, <3>3, FixedSame
  <2> QED
    BY <2>8, <2>9
<1>13. CASE C!login_kick(t, u, m.data) /\ To("center", "gate", AskKick(t, users[u].fd))
  <2>1. PICK n : n = AskKick(t, users[u].fd)
    OBVIOUS
  <2>2. users[u] # Nil /\ users' = users /\ leaving' = leaving
        /\ logging' = [logging EXCEPT ![t] = [uid |-> u, data |-> m.data]]
    BY <1>13 DEF C!login_kick
  <2>3. users[u].fd \in Fd
    <3>1. u \in Uid
      BY <1>4, <1>5, <1>6, LoginFd
    <3> QED
      BY <2>2, <3>1 DEF IInv, Entered, Known
  <2>4. n \in Message /\ n.t = t /\ n.op = "kick"
    BY <1>4, <2>1, <2>3, Messages DEF AskKick
  <2>5. Mail /\ Mail' /\ MailKept(t) /\ Holds(t, "center", m) /\ Holds(t, "gate", n)'
    BY <1>9, <1>13, <2>1, <2>4
  <2>6. /\ logging'[t] = [uid |-> u, data |-> m.data]
        /\ \A x \in Task : x # t => logging'[x] = logging[x]
    BY <1>4, <1>8, <2>2
  <2>7. Local(t)
    BY <1>7, <2>2, <2>5, <2>6 DEF Local, Apart, Others, SameSessions
  <2>8. Closer(t)'
    BY <1>5, <1>6, <1>7, <2>2, <2>6 DEF Closer, Closes, Clears, C!User
  <2>9. ~Says("login", t, "true") /\ ~Says("login", t, "true")' /\ ~Has("login", t, "packet")'
    BY <1>3, <2>5 DEF Holds
  <2>10. \A s \in Service, x \in Message : In(s, x)' /\ x.t = t => Errand(s, x)'
    <3> SUFFICES ASSUME NEW s \in Service, NEW x \in Message, In(s, x)', x.t = t
                 PROVE  Errand(s, x)'
      OBVIOUS
    <3>1. s = "gate"
      BY <2>5 DEF Holds
    <3> QED
      BY <1>3, <3>1 DEF Errand
  <2> QED
    BY <1>4, <1>6, <1>7, <1>10, <2>2, <2>7, <2>8, <2>9, <2>10, FixedSame
<1> QED
  BY <1>2, <1>12, <1>13 DEF t, u

LEMMA XCenterRegister ==
  ASSUME IInv, XInv, CenterRegister
  PROVE  XInv'
<1>1. PICK m : IsHead("center", m)
  BY DEF IsHead
<1> DEFINE t == m.t
           u == m.uid
<1>2. /\ Handles("center", "register")
      /\ \E ret \in Bool : C!register(u, m.key, m.agent, ret) /\ To("center", "login", Ret(t, ret))
      /\ UNCHANGED <<gateV, poolV, agentV, loginV>>
  BY <1>1 DEF CenterRegister, IsHead
<1>3. {"gate", "login", "center", "pool"} \subseteq Service /\ Agent \cap {"gate", "login", "center", "pool"} = {}
  BY Names
<1>4. /\ m \in Message /\ t \in Task /\ m.op = "register" /\ Fits("center", m)
  BY <1>1, <1>2, <1>3, HeadFacts DEF IsHead
<1>5. Asked(t, "register") /\ u = lt[t].uid /\ m.key = lt[t].key /\ m.agent = lt[t].agent
  BY <1>3, <1>4 DEF Fits, CenterMail, Answer
<1>6. /\ lt[t].at = "register" /\ task[t] = G!Idle /\ logging[t] = Nil /\ leaving[t] = Nil
  BY <1>5 DEF Asked, Bottom
<1>7. /\ lt' = lt /\ task' = task /\ UNCHANGED <<pool, born, dead, making, job, c, connection>>
  BY <1>2 DEF gateV, poolV, agentV, loginV
<1>8. PICK ret \in Bool : C!register(u, m.key, m.agent, ret) /\ To("center", "login", Ret(t, ret))
  BY <1>2
<1>9. PICK n : n = Ret(t, ret)
  OBVIOUS
<1>10. n \in Message /\ n.t = m.t /\ n.op = "ret" /\ n.val = ret
  BY <1>4, <1>9, Messages DEF Ret, Value, Bool
<1>11. Mail /\ Mail' /\ MailKept(t) /\ Holds(t, "center", m) /\ Holds(t, "login", n)'
  BY <1>1, <1>2, <1>3, <1>8, <1>9, <1>10, ToStep
<1> HIDE DEF t, u
<1>12. t \in LoginTask /\ Early(t) /\ u \in Uid /\ lt[t].fd \in Fd /\ lt[t].key \in Key /\ lt[t].at # "idle"
  BY <1>4, <1>5, <1>6, LoginFd DEF Early, Active
<1>13. Has("center", t, "register") /\ ~Has("center", t, "register")' /\ ~Has("login", t, "packet")'
  BY <1>3, <1>4, <1>10, <1>11 DEF Holds
<1>14. Blank(t) /\ ~Blank(t)' /\ Full(t)'
  BY <1>6, <1>7, <1>13 DEF Blank, Full
<1>15. users[u] = Rec(t, Nil) /\ users[u] # Nil
  BY <1>5, <1>12, <1>14, RecordIs DEF XInv, Records, Recorded
<1>16. users[u].key = lt[t].key /\ users[u].agent = Nil
  BY <1>15 DEF Rec
<1>17. logging' = logging /\ leaving' = leaving /\ ret = "true" /\ users' = [users EXCEPT ![u].agent = lt[t].agent]
  BY <1>5, <1>8, <1>15, <1>16 DEF C!register
<1>18. users' = [users EXCEPT ![u] = Rec(t, lt[t].agent)]
  <2>1. [users[u] EXCEPT !.agent = lt[t].agent] = Rec(t, lt[t].agent)
    BY <1>15 DEF Rec
  <2> QED
    BY <1>17, <2>1
<1>19. Local(t)
  BY <1>7, <1>11, <1>17 DEF Local, Apart, Others, SameSessions
<1>20. Closer(t)'
  BY <1>4, <1>7, <1>17, <1>19, SelfCloser DEF XInv, RInv, Errands, Local
<1>21. \A s \in Service, x \in Message : In(s, x)' /\ x.t = t => Errand(s, x)'
  <2> SUFFICES ASSUME NEW s \in Service, NEW x \in Message, In(s, x)', x.t = t
               PROVE  Errand(s, x)'
    OBVIOUS
  <2>1. s = "login" /\ x = n
    BY <1>11 DEF Holds
  <2> QED
    BY <1>3, <1>6, <1>7, <1>10, <1>17, <2>1 DEF Errand
<1>22. RInv'
  BY <1>4, <1>7, <1>12, <1>13, <1>19, <1>20, <1>21, FixedRest DEF XInv
<1>23. \A f : (EndsIt(t, f)' <=> EndsIt(t, f)) /\ (Hands(t, f)' <=> Hands(t, f))
  BY <1>6, <1>7 DEF EndsIt, Hands, Closes
<1>24. \A x \in LoginTask : x # t => (Blank(x)' <=> Blank(x)) /\ (Full(x)' <=> Full(x))
  BY <1>19, <1>23, OthersRecord
<1>25. Records'
  BY <1>5, <1>7, <1>12, <1>14, <1>16, <1>18, <1>24, RecordsOne DEF XInv, RInv
<1>26. \A a : (Out(t, a)' <=> Out(t, a)) /\ (Lost(t, a)' <=> Lost(t, a))
  BY <1>6, <1>7 DEF Out, Keeps, Lost
<1>27. Owned' /\ Lossless'
  BY <1>7, <1>19, <1>23, <1>26, OwnedSame DEF XInv
<1> QED
  BY <1>22, <1>25, <1>27 DEF XInv

LEMMA XCenterLogout ==
  ASSUME IInv, XInv, OneCloser, CenterLogout
  PROVE  XInv'
<1>1. PICK m : IsHead("center", m)
  BY DEF IsHead
<1> DEFINE t == m.t
           u == m.uid
<1>2. /\ Handles("center", "logout")
      /\ \/ \E ret \in Bool : C!logout(u, m.key, ret) /\ To("center", m.from, Ret(t, ret))
         \/ /\ C!logout_kick(t, u, m.key, m.from)
            /\ To("center", users[u].agent, AskAgent(t, A!Kick))
      /\ UNCHANGED <<gateV, poolV, agentV, loginV>>
  BY <1>1 DEF CenterLogout, IsHead
<1>3. {"gate", "login", "center", "pool"} \subseteq Service /\ Agent \cap {"gate", "login", "center", "pool"} = {}
      /\ Agent \subseteq Service /\ Nil \notin Agent
  BY Names
<1>4. /\ m \in Message /\ t \in Task /\ m.op = "logout" /\ Fits("center", m)
  BY <1>1, <1>2, <1>3, HeadFacts DEF IsHead
<1>5. leaving[t] = Nil /\ Calls(t, m.from, "logout")
  BY <1>3, <1>4 DEF Fits, CenterMail, Answer
<1>6. u = Subject(t).uid /\ m.key = Subject(t).key
  <2>1. In("center", m)
    BY <1>1, <1>2, <1>3, HeadFacts, StateFacts, HeadOnly DEF In, IsHead
  <2>2. Errand("center", m)
    BY <1>3, <2>1 DEF XInv, RInv, Errands, In
  <2> QED
    BY <1>4, <2>2 DEF Errand
<1>7. /\ lt' = lt /\ task' = task /\ UNCHANGED <<pool, born, dead, making, job, c, connection>>
  BY <1>2 DEF gateV, poolV, agentV, loginV
<1>8. leaving \in [Task -> [uid : Uid, key : Key, from : From] \cup {Nil}]
  BY StateFacts
<1>9. \A n \in Message : \A d \in Service : d # "center" /\ n.t = t /\ To("center", d, n) =>
         Mail /\ Mail' /\ MailKept(t) /\ Holds(t, "center", m) /\ Holds(t, d, n)'
  BY <1>1, <1>2, <1>3, ToStep
<1> HIDE DEF t, u
<1>10. Closer(t)
  BY <1>4 DEF XInv, RInv, Errands
<1>11. CASE task[t] # G!Idle
  <2>1. m.from = "gate" /\ task[t].at = "logout" /\ (t \in CloseTask \/ Early(t))
    BY <1>4, <1>5, <1>11, TaskStage DEF Calls
  <2>2. ~Has("gate", t, "ret")
    <3> SUFFICES ASSUME Has("gate", t, "ret") PROVE FALSE
      OBVIOUS
    <3>1. Mail /\ One /\ mq["center"] # << >>
      BY <1>2, StateFacts DEF Handles
    <3>2. Only("center", m)
      BY <1>1, <1>3, <3>1, OnlyHead
    <3>3. Holds(t, "center", m)
      BY <1>3, <1>4, <3>1, <3>2, OnlyHolds DEF t
    <3> QED
      BY <1>3, <3>3 DEF Holds
  <2>3. ~LoggedOut(t) /\ ~Back(t)
    BY <2>1, <2>2 DEF LoggedOut, Back
  <2>4. /\ users[u] # Nil /\ users[u].key = m.key /\ users[u].agent = Subject(t).agent
        /\ users[u].agent \in Agent
    BY <1>4, <1>6, <1>11, <2>3, SubjectRecord DEF XInv
  <2>5. C!logout_kick(t, u, m.key, m.from) /\ To("center", users[u].agent, AskAgent(t, A!Kick))
    BY <1>2, <1>3, <2>4 DEF C!logout, t, u
  <2>6. PICK n : n = AskAgent(t, A!Kick)
    OBVIOUS
  <2>7. PICK a : a = users[u].agent
    OBVIOUS
  <2>8. n \in Message /\ n.t = t /\ n.op = "command"
    BY <1>4, <2>6, Messages DEF AskAgent, Job
  <2>9. a \in Service /\ a # "center" /\ a \in Agent /\ a = Subject(t).agent /\ To("center", a, n)
    BY <1>3, <2>4, <2>5, <2>6, <2>7
  <2>10. Mail /\ Mail' /\ MailKept(t) /\ Holds(t, "center", m) /\ Holds(t, a, n)'
    BY <1>9, <2>8, <2>9
  <2>11. users' = users /\ logging' = logging
         /\ leaving' = [leaving EXCEPT ![t] = [uid |-> u, key |-> m.key, from |-> m.from]]
    BY <2>5 DEF C!logout_kick
  <2>12. /\ leaving'[t] = [uid |-> u, key |-> m.key, from |-> m.from]
         /\ \A x \in Task : x # t => leaving'[x] = leaving[x]
    BY <1>4, <1>8, <2>11
  <2>13. leaving'[t].uid = u /\ leaving'[t].key = m.key
    BY <2>12
  <2>14. Local(t)
    BY <1>7, <2>10, <2>11, <2>12 DEF Local, Apart, Others, SameSessions
  <2>15. Subject(t)' = Subject(t) /\ (Closes(t)' <=> Closes(t)) /\ (Clears(t)' <=> Clears(t)) /\ Mine(t)' = Mine(t)
    BY <1>7 DEF Subject, Closes, Clears, Mine
  <2>16. Closer(t)'
    <3>1. Closes(t) => Session(task[t].fd)'
      BY <1>7, <1>10 DEF Closer, Session
    <3> QED
      BY <1>6, <1>7, <1>10, <1>11, <2>11, <2>13, <2>15, <3>1 DEF Closer, C!User
  <2>17. \A s \in Service, x \in Message : In(s, x)' /\ x.t = t => Errand(s, x)'
    <3> SUFFICES ASSUME NEW s \in Service, NEW x \in Message, In(s, x)', x.t = t
                 PROVE  Errand(s, x)'
      OBVIOUS
    <3>1. s = a
      BY <2>10 DEF Holds
    <3>2. Subject(x.t)' = Subject(t)
      BY <2>15
    <3> QED
      BY <1>3, <2>9, <3>1, <3>2 DEF Errand
  <2>18. /\ ~Has("gate", t, "ret")' /\ ~Has("login", t, "packet")'
         /\ ~Says("login", t, "true") /\ ~Says("login", t, "true")'
         /\ ~Has("center", t, "register") /\ ~Has("center", t, "register")'
         /\ ~Has("gate", t, "register") /\ ~Has("gate", t, "register")'
         /\ \A b : ~Gives(t, b) /\ ~Gives(t, b)'
    BY <1>3, <1>4, <2>9, <2>8, <2>10 DEF Holds
  <2>19. ~LoggedOut(t)' /\ ~Back(t)'
    BY <1>7, <2>1, <2>18 DEF LoggedOut, Back
  <2> QED
    BY <1>4, <1>7, <2>1, <2>3, <2>11, <2>14, <2>16, <2>17, <2>18, <2>19, FixedSame
<1>12. CASE task[t] = G!Idle
  <2>1. m.from = "login" /\ lt[t].at = "undo_logout" /\ t \in LoginTask /\ Early(t)
    BY <1>4, <1>5, <1>12, LoginFd DEF Calls, Early, Active
  <2>2. Subject(t) = Mine(t) /\ u = lt[t].uid /\ m.key = lt[t].key /\ u \in Uid
    <3>1. Subject(t) = Mine(t)
      BY <1>12 DEF Subject, Closes
    <3> QED
      BY <1>4, <1>6, <2>1, <3>1, LoginFd DEF Mine
  <2>3. ~Blank(t) /\ ~Full(t)
    BY <1>12, <2>1, EarlyView DEF XInv, Blank, Full, Clears
  <2>4. users[u] # Nil => users[u].key # m.key
    <3> SUFFICES ASSUME users[u] # Nil, users[u].key = m.key PROVE FALSE
      OBVIOUS
    <3>1. PICK x \in LoginTask : lt[x].uid = u /\ (Blank(x) \/ Full(x))
      BY <2>2 DEF XInv, Records, Justified
    <3>2. users[u].key = lt[x].key /\ lt[x].at # "idle"
      BY <3>1, RecordIs, Witnessed DEF XInv
    <3>3. x = t
      BY <2>1, <2>2, <3>2 DEF XInv, RInv, UniqueKeys
    <3> QED
      BY <2>3, <3>1, <3>3
  <2>5. PICK ret \in Bool : C!logout(u, m.key, ret) /\ To("center", m.from, Ret(t, ret))
    BY <1>2, <2>4 DEF C!logout_kick, t, u
  <2>6. PICK n : n = Ret(t, ret)
    OBVIOUS
  <2>7. n \in Message /\ n.t = t /\ n.op = "ret"
    BY <1>4, <2>6, Messages DEF Ret, Value, Bool
  <2>8. Mail /\ Mail' /\ MailKept(t) /\ Holds(t, "center", m) /\ Holds(t, "login", n)'
    BY <1>3, <1>9, <2>1, <2>5, <2>6, <2>7
  <2>9. users' = users /\ logging' = logging /\ leaving' = leaving
    BY <2>4, <2>5 DEF C!logout
  <2>10. Local(t)
    BY <1>7, <2>8, <2>9 DEF Local, Apart, Others, SameSessions
  <2>11. Closer(t)'
    BY <1>4, <1>7, <1>10, <2>9, <2>10, SelfCloser DEF Local
  <2>12. \A s \in Service, x \in Message : In(s, x)' /\ x.t = t => Errand(s, x)'
    <3> SUFFICES ASSUME NEW s \in Service, NEW x \in Message, In(s, x)', x.t = t
                 PROVE  Errand(s, x)'
      OBVIOUS
    <3>1. s = "login"
      BY <2>8 DEF Holds
    <3> QED
      BY <1>3, <1>7, <2>1, <3>1 DEF Errand
  <2>13. ~Has("login", t, "packet")'
    BY <1>3, <2>7, <2>8 DEF Holds
  <2> QED
    BY <1>4, <1>7, <1>12, <2>1, <2>9, <2>10, <2>11, <2>12, <2>13, FixedSame
<1> QED
  BY <1>11, <1>12

\* The logout of a close_agent or clearAgent removes the record of its login.
LEMMA XLogoutKicked ==
  ASSUME IInv, XInv, OneCloser, CenterResume, NEW m, IsHead("center", m), leaving[m.t] # Nil,
         NEW ret \in Bool, C!logout_kicked(m.t, m.val, ret), To("center", leaving[m.t].from, Ret(m.t, ret))
  PROVE  XInv'
<1> DEFINE t == m.t
<1>1. Handles("center", "ret") /\ UNCHANGED <<gateV, poolV, agentV, loginV>>
  BY DEF CenterResume
<1>2. {"gate", "login", "center", "pool"} \subseteq Service /\ Agent \cap {"gate", "login", "center", "pool"} = {}
      /\ LoginTask \subseteq Task /\ LoginTask \cap CloseTask = {}
  BY Names
<1>3. /\ m \in Message /\ t \in Task /\ m.op = "ret" /\ Level(t)
  BY <1>1, <1>2, HeadFacts DEF IsHead
<1>4. m.val = "true"
  <2>1. In("center", m)
    BY <1>1, <1>2, HeadFacts, StateFacts, HeadOnly DEF In, IsHead
  <2>2. Errand("center", m)
    BY <1>2, <2>1 DEF XInv, RInv, Errands, In
  <2> QED
    BY <1>3, <2>2 DEF Errand
<1>5. PICK u : u = leaving[t].uid
  OBVIOUS
<1>6. /\ u \in Uid /\ users[u] # Nil /\ users[u].key = leaving[t].key /\ task[t] # G!Idle /\ ~LoggedOut(t)
  BY <1>3, <1>5, LeavingRecord DEF XInv
<1>7. Closer(t) /\ u = Subject(t).uid /\ users[u].key = Subject(t).key
  BY <1>3, <1>5, <1>6 DEF XInv, RInv, Errands, Closer
<1>8. leaving[t].from = "gate" /\ task[t].at = "logout"
  BY <1>3, <1>6 DEF Level, Calls
<1>9. PICK n : n = Ret(t, ret)
  OBVIOUS
<1>10. n \in Message /\ n.t = m.t /\ n.op = "ret"
  BY <1>3, <1>9, Messages DEF Ret, Value, Bool
<1>11. Mail /\ Mail' /\ MailKept(t) /\ Holds(t, "center", m) /\ Holds(t, "gate", n)'
  BY <1>1, <1>2, <1>8, <1>9, <1>10, ToStep
<1>12. /\ lt' = lt /\ task' = task /\ UNCHANGED <<pool, born, dead, making, job, c, connection>>
  BY <1>1 DEF gateV, poolV, agentV, loginV
<1>13. users' = [users EXCEPT ![u] = Nil] /\ logging' = logging /\ leaving' = [leaving EXCEPT ![t] = Nil]
  BY <1>4, <1>5 DEF C!logout_kicked
<1>14. leaving'[t] = Nil /\ \A x \in Task : x # t => leaving'[x] = leaving[x]
  BY <1>3, <1>13, StateFacts
<1> HIDE DEF t
<1>15. Local(t)
  BY <1>11, <1>12, <1>13, <1>14 DEF Local, Apart, Others, SameSessions
<1>16. Closer(t)' /\ Apart(t)
  BY <1>3, <1>7, <1>12, <1>13, <1>14, <1>15, SelfCloser DEF Local
<1>17. \A s \in Service, x \in Message : In(s, x)' /\ x.t = t => Errand(s, x)'
  <2> SUFFICES ASSUME NEW s \in Service, NEW x \in Message, In(s, x)', x.t = t
               PROVE  Errand(s, x)'
    OBVIOUS
  <2>1. s = "gate"
    BY <1>11 DEF Holds
  <2> QED
    BY <1>2, <2>1 DEF Errand
<1>18. /\ ~Has("login", t, "packet")' /\ Has("gate", t, "ret")'
       /\ ~Says("login", t, "true") /\ ~Says("login", t, "true")'
       /\ ~Has("gate", t, "register") /\ ~Has("gate", t, "register")'
  BY <1>2, <1>3, <1>10, <1>11 DEF Holds
<1>19. t \in CloseTask \/ Early(t)
  BY <1>3, <1>6, TaskStage
<1>20. RInv'
  BY <1>3, <1>12, <1>15, <1>16, <1>17, <1>18, <1>19, FixedRest DEF XInv
<1>21. LoggedOut(t)' /\ ~Back(t) /\ ~Back(t)' /\ (Closes(t)' <=> Closes(t)) /\ (Clears(t)' <=> Clears(t))
  BY <1>8, <1>12, <1>18 DEF LoggedOut, Back, Closes, Clears
<1>22. PICK p \in LoginTask :
         /\ lt[p].at # "idle" /\ lt[p].uid = u /\ lt[p].key = Subject(t).key
         /\ Closes(t) => SessionOf(p, task[t].fd) /\ InSession(p)
         /\ Clears(t) => p = t
  BY <1>3, <1>6, <1>7, SubjectLogin DEF XInv
<1>23. t \in LoginTask => /\ ~InSession(t) /\ ~InSession(t)'
                          /\ (Closes(t) => lt[t].at = "login") /\ (Clears(t) => lt[t].at = "gate")
  <2>1. t \in LoginTask => ~InSession(t) /\ ~InSession(t)'
    BY <1>2, <1>12, <1>15, <1>19, EarlyView, EarlyNext DEF XInv, Local
  <2> QED
    BY <1>2, <1>3, <1>6, <2>1, CloserFd
<1>24. ~Blank(p)' /\ ~Full(p)'
  <2>1. CASE Clears(t)
    BY <1>12, <1>18, <1>21, <1>22, <1>23, <2>1 DEF Blank, Full
  <2>2. CASE Closes(t)
    <3>1. p # t /\ p \in Task
      BY <1>2, <1>22, <1>23, <2>2 DEF SessionOf
    <3>2. ~Has("gate", p, "register")' /\ ~Clears(p)' /\ lt'[p] = lt[p]
      BY <1>2, <1>16, <1>22, <2>2, <3>1, OthersPlain DEF SameMail, SessionOf
    <3>3. PICK f : f = task[t].fd
      OBVIOUS
    <3>4. EndsIt(t, f)'
      BY <1>12, <1>21, <2>2, <3>3 DEF EndsIt
    <3>5. Ended(f)' /\ lt[p].fd = f
      BY <1>3, <1>22, <2>2, <3>3, <3>4 DEF Ended, SessionOf
    <3>6. Full(p)' => ~Ended(f)'
      BY <1>22, <2>2, <3>2, <3>5 DEF Full, SessionOf
    <3> QED
      BY <1>22, <2>2, <3>2, <3>5, <3>6 DEF Blank, SessionOf
  <2> QED
    BY <1>6, <2>1, <2>2 DEF Closes, Clears
<1>25. ASSUME NEW x \in LoginTask, x # p
       PROVE  (Blank(x)' <=> Blank(x)) /\ (Full(x)' <=> Full(x))
  <2>1. CASE x = t
    <3>1. Closes(t) /\ ~Clears(t)
      BY <1>6, <1>22, <1>25, <2>1 DEF Closes, Clears
    <3> QED
      BY <1>12, <1>18, <1>21, <1>23, <1>25, <2>1, <3>1 DEF Blank, Full
  <2>2. CASE x # t
    <3>1. PICK f : f = lt[x].fd
      OBVIOUS
    <3>2. (Blank(x)' <=> Blank(x)) /\ (InSession(x)' <=> InSession(x))
      BY <1>2, <1>15, <2>2, OthersView
    <3>3. InSession(x) => (EndsIt(t, f)' <=> EndsIt(t, f))
      <4> SUFFICES ASSUME InSession(x), Closes(t), task[t].fd = f PROVE FALSE
        BY <1>12, <1>21 DEF EndsIt
      <4>1. c[f].key = lt[x].key /\ c[f].key = lt[p].key /\ lt[x].at # "idle"
        BY <1>22, <3>1 DEF InSession, SessionOf
      <4> QED
        BY <1>22, <1>25, <4>1 DEF XInv, RInv, UniqueKeys
    <3>4. InSession(x) => (Ended(f)' <=> Ended(f))
      BY <1>16, <3>3, EndedKept
    <3> QED
      BY <1>16, <2>2, <3>1, <3>2, <3>4, FullOthers
  <2> QED
    BY <2>1, <2>2
<1>26. Records'
  BY <1>7, <1>12, <1>13, <1>22, <1>24, <1>25, RecordsOne DEF XInv, RInv
<1>27. \A f : Hands(t, f)' <=> Hands(t, f)
  BY <1>21 DEF Hands
<1>28. t \in LoginTask => \A a : (Out(t, a)' <=> Out(t, a)) /\ (Lost(t, a)' <=> Lost(t, a))
  BY <1>6, <1>12, <1>18, <1>21, <1>23 DEF Out, Keeps, Lost, Closes, Clears
<1>29. Owned' /\ Lossless'
  BY <1>12, <1>15, <1>27, <1>28, OwnedSame DEF XInv
<1> QED
  BY <1>20, <1>26, <1>29 DEF XInv

\* The login of the center goes on when gate.kick has answered.
LEMMA XLoginKicked ==
  ASSUME IInv, XInv, CenterResume, NEW m, IsHead("center", m), leaving[m.t] = Nil,
         NEW ret \in Bool, C!login_kicked(m.t, m.val, ret), To("center", "login", Ret(m.t, ret))
  PROVE  XInv'
<1> DEFINE t == m.t
<1>1. Handles("center", "ret") /\ UNCHANGED <<gateV, poolV, agentV, loginV>>
  BY DEF CenterResume
<1>2. {"gate", "login", "center", "pool"} \subseteq Service /\ Agent \cap {"gate", "login", "center", "pool"} = {}
  BY Names
<1>3. /\ m \in Message /\ t \in Task /\ m.op = "ret" /\ Level(t) /\ Fits("center", m)
  BY <1>1, <1>2, HeadFacts DEF IsHead
<1>4. task[t] = G!Idle /\ logging[t] # Nil
  BY <1>2, <1>3 DEF Fits, CenterMail
<1>5. lt[t].at = "login"
  BY <1>3, <1>4 DEF Level
<1>6. PICK n : n = Ret(t, ret)
  OBVIOUS
<1>7. n \in Message /\ n.t = m.t /\ n.op = "ret" /\ n.val = ret
  BY <1>3, <1>6, Messages DEF Ret, Value, Bool
<1>8. Mail /\ Mail' /\ MailKept(t) /\ Holds(t, "center", m) /\ Holds(t, "login", n)'
  BY <1>1, <1>2, <1>6, <1>7, ToStep
<1>9. /\ lt' = lt /\ task' = task /\ UNCHANGED <<pool, born, dead, making, job, c, connection>>
  BY <1>1 DEF gateV, poolV, agentV, loginV
<1>10. Closer(t)
  BY <1>3 DEF XInv, RInv, Errands
<1>11. logging[t].uid = lt[t].uid /\ logging[t].data = Rec(t, Nil)
  BY <1>4, <1>10 DEF Closer, Rec, C!User
<1>12. PICK u : u = lt[t].uid
  OBVIOUS
<1>13. /\ \/ users[u] = Nil /\ users' = [users EXCEPT ![u] = Rec(t, Nil)] /\ ret = "true"
          \/ users' = users /\ ret = "false"
       /\ logging' = [logging EXCEPT ![t] = Nil] /\ leaving' = leaving
  <2>1. /\ logging[t].uid = u
        /\ users' = IF m.val = "true" /\ users[u] = Nil THEN [users EXCEPT ![u] = logging[t].data] ELSE users
        /\ ret = IF m.val = "true" /\ users[u] = Nil THEN "true" ELSE "false"
        /\ logging' = [logging EXCEPT ![t] = Nil] /\ leaving' = leaving
    BY <1>11, <1>12 DEF C!login_kicked
  <2> QED
    BY <1>11, <2>1
<1>14. logging'[t] = Nil /\ \A x \in Task : x # t => logging'[x] = logging[x]
  BY <1>3, <1>13, StateFacts
<1> HIDE DEF t
<1>15. Local(t)
  BY <1>8, <1>9, <1>13, <1>14 DEF Local, Apart, Others, SameSessions
<1>16. Closer(t)'
  BY <1>3, <1>9, <1>10, <1>13, <1>14, <1>15, SelfCloser DEF Local
<1>17. Early(t)
  BY <1>3, <1>5, LoginFd DEF Early, Active
<1>18. ~Says("login", t, "true") /\ ~Has("login", t, "packet")'
  BY <1>2, <1>7, <1>8 DEF Holds
<1>19. CASE users[u] = Nil /\ users' = [users EXCEPT ![u] = Rec(t, Nil)] /\ ret = "true"
  BY <1>3, <1>4, <1>5, <1>7, <1>8, <1>9, <1>12, <1>15, <1>16, <1>17, <1>18, <1>19, RecordMade
<1>20. CASE users' = users /\ ret = "false"
  <2>1. ~Says("login", t, "true")'
    BY <1>2, <1>7, <1>8, <1>20 DEF Holds
  <2>2. \A s \in Service, x \in Message : In(s, x)' /\ x.t = t => Errand(s, x)'
    <3> SUFFICES ASSUME NEW s \in Service, NEW x \in Message, In(s, x)', x.t = t
                 PROVE  Errand(s, x)'
      OBVIOUS
    <3>1. s = "login"
      BY <1>8 DEF Holds
    <3> QED
      BY <1>2, <1>5, <1>9, <3>1 DEF Errand
  <2> QED
    BY <1>3, <1>4, <1>5, <1>9, <1>15, <1>16, <1>17, <1>18, <1>20, <2>1, <2>2, FixedSame
<1> QED
  BY <1>13, <1>19, <1>20

LEMMA XCenterResume ==
  ASSUME IInv, XInv, OneCloser, CenterResume
  PROVE  XInv'
<1>1. PICK m : IsHead("center", m)
  BY DEF IsHead
<1>2. PICK ret \in Bool :
         \/ /\ leaving[m.t] # Nil
            /\ C!logout_kicked(m.t, m.val, ret)
            /\ To("center", leaving[m.t].from, Ret(m.t, ret))
         \/ /\ leaving[m.t] = Nil
            /\ C!login_kicked(m.t, m.val, ret)
            /\ To("center", "login", Ret(m.t, ret))
  BY <1>1 DEF CenterResume, IsHead
<1> QED
  BY <1>1, <1>2, XLogoutKicked, XLoginKicked

-----------------------------------------------------------------------------
(* The agent pool.                                                           *)

Lists(q, a) == \E i \in DOMAIN q : q[i] = a
Apiece(q)   == \A i, j \in DOMAIN q : q[i] = q[j] => i = j

LEMMA AppendList ==
  ASSUME NEW q \in Seq(Agent), NEW a \in Agent
  PROVE  /\ \A b : Lists(Append(q, a), b) <=> Lists(q, b) \/ b = a
         /\ Apiece(q) /\ ~Lists(q, a) => Apiece(Append(q, a))
<1>1. /\ DOMAIN Append(q, a) = 1 .. (Len(q) + 1) /\ DOMAIN q = 1 .. Len(q) /\ Len(q) \in Nat
      /\ \A i \in DOMAIN q : Append(q, a)[i] = q[i]
      /\ Append(q, a)[Len(q) + 1] = a
  OBVIOUS
<1>2. /\ Len(q) + 1 \in DOMAIN Append(q, a)
      /\ \A i \in DOMAIN q : i \in DOMAIN Append(q, a)
      /\ \A i \in DOMAIN Append(q, a) : i \in DOMAIN q \/ i = Len(q) + 1
  BY <1>1
<1>3. PICK r : r = Append(q, a)
  OBVIOUS
<1> QED
  BY <1>1, <1>2, <1>3 DEF Lists, Apiece

LEMMA FrontList ==
  ASSUME NEW q \in Seq(Agent), q # << >>, Apiece(q)
  PROVE  /\ \A b : Lists(P!Front(q), b) <=> Lists(q, b) /\ b # P!Last(q)
         /\ Apiece(P!Front(q)) /\ Lists(q, P!Last(q))
<1>1. PICK r : r = SubSeq(q, 1, Len(q) - 1)
  OBVIOUS
<1>2. /\ Len(q) \in Nat /\ Len(q) # 0 /\ DOMAIN q = 1 .. Len(q)
      /\ DOMAIN r = 1 .. (Len(q) - 1)
      /\ \A i \in DOMAIN r : r[i] = q[i]
  BY <1>1
<1>3. /\ Len(q) \in DOMAIN q /\ Len(q) \notin DOMAIN r
      /\ \A i : i \in DOMAIN q <=> i \in DOMAIN r \/ i = Len(q)
  BY <1>2
<1>4. P!Front(q) = r /\ P!Last(q) = q[Len(q)]
  BY <1>1 DEF P!Front, P!Last
<1>5. \A b : Lists(r, b) <=> Lists(q, b) /\ b # q[Len(q)]
  BY <1>2, <1>3 DEF Lists, Apiece
<1>6. Apiece(r)
  BY <1>2, <1>3 DEF Apiece
<1> QED
  BY <1>3, <1>4, <1>5, <1>6 DEF Lists

LEMMA PrependList ==
  ASSUME NEW q \in Seq(Agent), NEW a \in Agent
  PROVE  /\ \A b : Lists(<<a>> \o q, b) <=> Lists(q, b) \/ b = a
         /\ Apiece(q) /\ ~Lists(q, a) => Apiece(<<a>> \o q)
<1>1. PICK r : r = <<a>> \o q
  OBVIOUS
<1>2. /\ Len(q) \in Nat /\ DOMAIN q = 1 .. Len(q) /\ DOMAIN r = 1 .. (Len(q) + 1) /\ r[1] = a
      /\ \A i \in DOMAIN r : i # 1 => r[i] = q[i - 1]
  BY <1>1
<1>3. /\ 1 \in DOMAIN r /\ \A i \in DOMAIN q : i + 1 \in DOMAIN r /\ i + 1 # 1 /\ r[i + 1] = q[i]
      /\ \A i \in DOMAIN r : i # 1 => i - 1 \in DOMAIN q
  BY <1>2
<1>4. \A b : Lists(r, b) <=> Lists(q, b) \/ b = a
  BY <1>2, <1>3 DEF Lists
<1>5. ASSUME Apiece(q), ~Lists(q, a), NEW i \in DOMAIN r, NEW j \in DOMAIN r, r[i] = r[j]
      PROVE  i = j
  <2>1. CASE i = 1 \/ j = 1
    BY <1>2, <1>3, <1>5, <2>1 DEF Lists
  <2>2. CASE i # 1 /\ j # 1
    <3>1. i - 1 = j - 1
      BY <1>2, <1>3, <1>5, <2>2 DEF Apiece
    <3> QED
      BY <1>2, <3>1
  <2> QED
    BY <2>1, <2>2
<1>6. Apiece(q) /\ ~Lists(q, a) => Apiece(r)
  BY <1>5 DEF Apiece
<1> QED
  BY <1>1, <1>4, <1>6

LEMMA PoolList ==
  /\ \A a : InPool(a) <=> Lists(pool["agentpool1"], a)
  /\ Owned => Apiece(pool["agentpool1"])
  BY DEF InPool, Lists, Pooled, Owned, Apiece

LEMMA PoolListNext ==
  ASSUME NEW q, q = pool'["agentpool1"]
  PROVE  /\ \A a : InPool(a)' <=> Lists(q, a)
         /\ Apiece(q) => \A i, j \in DOMAIN Pooled' : Pooled'[i] = Pooled'[j] => i = j
  BY DEF InPool, Lists, Pooled, Apiece

\* init_pool: the new agent waits in the pool.
LEMMA XPoolStart ==
  ASSUME IInv, XInv, PoolStart
  PROVE  XInv'
<1>1. PICK a \in Agent : P!init_pool("agentpool1", a)
  BY DEF PoolStart
<1>2. UNCHANGED <<gateV, centerV, agentV, loginV, mq>>
  BY DEF PoolStart
<1>3. /\ a \notin born /\ born' = born \cup {a} /\ dead' = dead /\ making' = making
      /\ pool' = [pool EXCEPT !["agentpool1"] = Append(@, a)]
  BY <1>1 DEF P!init_pool
<1>4. PICK t : t = Nil
  OBVIOUS
<1>5. t \notin Task /\ t \notin LoginTask
  BY <1>4, Names
<1>6. Mail /\ Mail' /\ MailKept(t)
  BY <1>2, StateFacts DEF Mail, MailKept, In
<1>7. Local(t) /\ users' = users
  BY <1>2, <1>3, <1>6 DEF Local, Apart, Others, SameSessions, gateV, centerV, agentV, loginV
<1>8. \A s \in Service, x \in Message : In(s, x)' /\ x.t = t => Errand(s, x)'
  BY <1>5, MessageChain
<1>9. RInv'
  BY <1>5, <1>7, <1>8, RestStep DEF XInv
<1>10. Records'
  BY <1>5, <1>7, RecordsSame DEF XInv
<1>11. \A x \in LoginTask : \A b : (Out(x, b)' <=> Out(x, b)) /\ (Lost(x, b)' <=> Lost(x, b))
  BY <1>5, <1>7, OutSame
<1>12. PICK q : q = pool["agentpool1"]
  OBVIOUS
<1>13. q \in Seq(Agent) /\ pool'["agentpool1"] = Append(q, a)
  BY <1>3, <1>12, PoolFacts
<1>14. Apiece(q) /\ ~Lists(q, a) /\ (\A b : InPool(b) <=> Lists(q, b))
  BY <1>3, <1>12, PoolList DEF XInv, Owned
<1>15. /\ \A b : InPool(b)' <=> InPool(b) \/ b = a
       /\ \A i, j \in DOMAIN Pooled' : Pooled'[i] = Pooled'[j] => i = j
  <2>1. PICK r : r = Append(q, a)
    OBVIOUS
  <2>2. Apiece(r) /\ \A b : Lists(r, b) <=> Lists(q, b) \/ b = a
    BY <1>13, <1>14, <2>1, AppendList
  <2> QED
    BY <1>13, <1>14, <2>1, <2>2, PoolListNext
<1>16. Owned'
  BY <1>3, <1>11, <1>15 DEF XInv, Owned
<1>17. Lossless'
  BY <1>3, <1>11, <1>15 DEF XInv, Lossless
<1> QED
  BY <1>9, <1>10, <1>16, <1>17 DEF XInv

\* Agent a, idle or new, goes to login t.
LEMMA OwnedGiven ==
  ASSUME IInv, Owned, Lossless, NEW t \in LoginTask, NEW a \in Agent, dead' = dead,
         a \notin dead, born' = born \cup {a},
         \A b : InPool(b)' <=> InPool(b) /\ b # a,
         \A i, j \in DOMAIN Pooled' : Pooled'[i] = Pooled'[j] => i = j,
         \A x \in LoginTask : ~Out(x, a),
         \A x \in LoginTask : x # t => \A b : (Out(x, b)' <=> Out(x, b)) /\ (Lost(x, b)' <=> Lost(x, b)),
         \A b : ~Out(t, b) /\ ~Lost(t, b) /\ (Out(t, b)' <=> b = a)
  PROVE  Owned' /\ Lossless'
<1>1. dead' \subseteq born'
  BY DEF Owned
<1>2. \A x \in LoginTask, b \in Agent : Out(x, b)' => b \in born' \ dead' /\ ~InPool(b)'
  BY DEF Owned
<1>3. \A y, x \in LoginTask, b \in Agent : Out(y, b)' /\ Out(x, b)' => y = x
  BY DEF Owned
<1>4. \A b \in Agent : InPool(b)' => b \in born' \ dead'
  BY DEF Owned
<1>5. Owned'
  BY <1>1, <1>2, <1>3, <1>4 DEF Owned
<1>6. ASSUME NEW b \in born' \ dead'
      PROVE  InPool(b)' \/ \E x \in LoginTask : Out(x, b)' \/ Lost(x, b)'
  <2>1. CASE b = a
    BY <2>1
  <2>2. CASE b # a
    <3>1. InPool(b) \/ \E x \in LoginTask : Out(x, b) \/ Lost(x, b)
      BY <1>6, <2>2 DEF Lossless
    <3> QED
      BY <2>2, <3>1
  <2> QED
    BY <2>1, <2>2
<1>7. Lossless'
  BY <1>6 DEF Lossless
<1> QED
  BY <1>5, <1>7

\* The pool answers get: all but the pool itself.
LEMMA PoolGives ==
  ASSUME IInv, XInv, NEW t \in Task, Asked(t, "get"), UNCHANGED <<gateV, centerV, agentV, loginV>>, Mail, Mail', MailKept(t),
         \A x \in Task : x # t => making'[x] = making[x],
         \A b : ~Gives(t, b), NEW n \in Message, n.t = t, n.op = "ret", NEW a \in Agent, n.agent = a, Holds(t, "login", n)'
  PROVE  /\ RInv' /\ Records' /\ t \in LoginTask
         /\ \A x \in LoginTask : x # t => \A b : (Out(x, b)' <=> Out(x, b)) /\ (Lost(x, b)' <=> Lost(x, b))
         /\ \A b : ~Out(t, b) /\ ~Lost(t, b) /\ (Out(t, b)' <=> b = a)
<1>1. {"gate", "login", "center", "pool"} \subseteq Service /\ Agent \cap {"gate", "login", "center", "pool"} = {}
  BY Names
<1>2. /\ lt[t].at = "get" /\ task[t] = G!Idle
  BY DEF Asked, Bottom
<1>3. t \in LoginTask /\ Early(t)
  BY <1>2, LoginFd DEF Early, Active
<1>4. /\ lt' = lt /\ task' = task /\ leaving' = leaving /\ logging' = logging /\ users' = users
      /\ UNCHANGED <<job, c, connection>>
  BY DEF gateV, centerV, agentV, loginV
<1>5. Local(t)
  BY <1>4 DEF Local, Apart, Others, SameSessions
<1>6. Closer(t)'
  BY <1>4, <1>5, SelfCloser DEF XInv, RInv, Errands, Local
<1>7. \A s \in Service, x \in Message : In(s, x)' /\ x.t = t => Errand(s, x)'
  <2> SUFFICES ASSUME NEW s \in Service, NEW x \in Message, In(s, x)', x.t = t
               PROVE  Errand(s, x)'
    OBVIOUS
  <2>1. s = "login"
    BY DEF Holds
  <2> QED
    BY <1>1, <1>2, <1>4, <2>1 DEF Errand
<1>8. ~Has("login", t, "packet")' /\ \A b : Gives(t, b)' <=> b = a
  BY <1>1 DEF Holds
<1>9. RInv'
  BY <1>3, <1>4, <1>5, <1>6, <1>7, <1>8, FixedRest DEF XInv
<1>10. ~InSession(t) /\ ~InSession(t)'
  BY <1>3, <1>4, <1>5, EarlyView, EarlyNext DEF XInv, Local
<1>11. \A f : (EndsIt(t, f)' <=> EndsIt(t, f)) /\ (Hands(t, f)' <=> Hands(t, f))
  BY <1>2, <1>4 DEF EndsIt, Hands, Closes
<1>12. (Blank(t)' <=> Blank(t)) /\ (Full(t)' <=> Full(t))
  BY <1>2, <1>4, <1>10 DEF Blank, Full, Clears
<1>13. Records'
  BY <1>4, <1>5, <1>11, <1>12, RecordsSame DEF XInv
<1>14. \A b : ~Out(t, b) /\ ~Lost(t, b) /\ (Out(t, b)' <=> b = a)
  BY <1>2, <1>4, <1>8, <1>10 DEF Out, Keeps, Lost, Clears
<1> QED
  BY <1>3, <1>5, <1>9, <1>11, <1>13, <1>14, OutSame

LEMMA XPoolGet ==
  ASSUME IInv, XInv, PoolGet
  PROVE  XInv'
<1>1. PICK m : IsHead("pool", m)
  BY DEF IsHead
<1> DEFINE t == m.t
<1>2. /\ Handles("pool", "get")
      /\ \/ \E a \in Agent : P!get("agentpool1", a) /\ To("pool", "login", RetAgent(t, a))
         \/ P!get_new("agentpool1", t) /\ Eat("pool")
      /\ UNCHANGED <<gateV, centerV, agentV, loginV>>
  BY <1>1 DEF PoolGet, IsHead
<1>3. {"gate", "login", "center", "pool"} \subseteq Service /\ Agent \cap {"gate", "login", "center", "pool"} = {}
  BY Names
<1>4. /\ m \in Message /\ t \in Task /\ m.op = "get" /\ Fits("pool", m)
  BY <1>1, <1>2, <1>3, HeadFacts DEF IsHead
<1>5. Asked(t, "get")
  BY <1>3, <1>4 DEF Fits, PoolMail
<1>6. ASSUME NEW a \in Agent, P!get("agentpool1", a), To("pool", "login", RetAgent(t, a))
      PROVE  XInv'
  <2>1. PICK n : n = RetAgent(t, a)
    OBVIOUS
  <2>2. n \in Message /\ n.t = m.t /\ n.op = "ret" /\ n.agent = a
    BY <1>4, <2>1, Messages DEF RetAgent
  <2>3. Mail /\ Mail' /\ MailKept(t) /\ Holds(t, "pool", m) /\ Holds(t, "login", n)'
    BY <1>1, <1>2, <1>3, <1>6, <2>1, <2>2, ToStep
  <2>4. \A b : ~Gives(t, b)
    BY <1>3, <2>3 DEF Holds
  <2>5. /\ pool' = [pool EXCEPT !["agentpool1"] = P!Front(@)] /\ pool["agentpool1"] # << >>
        /\ a = P!Last(pool["agentpool1"]) /\ making' = making /\ born' = born /\ dead' = dead
    BY <1>6 DEF P!get
  <2> HIDE DEF t
  <2>6. /\ RInv' /\ Records' /\ t \in LoginTask
        /\ \A x \in LoginTask : x # t => \A b : (Out(x, b)' <=> Out(x, b)) /\ (Lost(x, b)' <=> Lost(x, b))
        /\ \A b : ~Out(t, b) /\ ~Lost(t, b) /\ (Out(t, b)' <=> b = a)
    BY <1>2, <1>4, <1>5, <2>2, <2>3, <2>4, <2>5, PoolGives DEF t
  <2>7. PICK q : q = pool["agentpool1"]
    OBVIOUS
  <2>8. q \in Seq(Agent) /\ pool'["agentpool1"] = P!Front(q) /\ q # << >> /\ a = P!Last(q)
    BY <2>5, <2>7, PoolFacts
  <2>9. Apiece(q) /\ (\A b : InPool(b) <=> Lists(q, b))
    BY <2>7, PoolList DEF XInv
  <2>10. /\ \A b : InPool(b)' <=> InPool(b) /\ b # a
         /\ \A i, j \in DOMAIN Pooled' : Pooled'[i] = Pooled'[j] => i = j
         /\ InPool(a)
    <3>1. PICK r : r = P!Front(q)
      OBVIOUS
    <3>2. Apiece(r) /\ (\A b : Lists(r, b) <=> Lists(q, b) /\ b # a) /\ Lists(q, a)
      BY <2>8, <2>9, <3>1, FrontList
    <3> QED
      BY <2>8, <2>9, <3>1, <3>2, PoolListNext
  <2>11. a \in born /\ a \notin dead /\ \A x \in LoginTask : ~Out(x, a)
    BY <2>10 DEF XInv, Owned
  <2>12. born' = born \cup {a}
    BY <2>5, <2>11
  <2>13. Owned' /\ Lossless'
    BY <2>5, <2>6, <2>10, <2>11, <2>12, OwnedGiven DEF XInv
  <2> QED
    BY <2>6, <2>13 DEF XInv
<1>7. CASE P!get_new("agentpool1", t) /\ Eat("pool")
  <2>1. Mail /\ Mail' /\ MailKept(t) /\ Holds(t, "pool", m) /\ HoldsNone(t)'
    BY <1>1, <1>2, <1>3, <1>7, EatStep
  <2>2. UNCHANGED <<pool, born, dead>> /\ \A x \in Task : x # t => making'[x] = making[x]
    BY <1>4, <1>7, PoolFacts DEF P!get_new
  <2>3. /\ lt' = lt /\ task' = task /\ leaving' = leaving /\ logging' = logging /\ users' = users
        /\ UNCHANGED <<job, c, connection>>
    BY <1>2 DEF gateV, centerV, agentV, loginV
  <2> HIDE DEF t
  <2>4. Local(t)
    BY <2>1, <2>2, <2>3 DEF Local, Apart, Others, SameSessions
  <2>5. Closer(t)'
    BY <1>4, <2>3, <2>4, SelfCloser DEF XInv, RInv, Errands, Local
  <2>6. \A s \in Service, x \in Message : In(s, x)' /\ x.t = t => Errand(s, x)'
    BY <2>1 DEF HoldsNone
  <2>7. ~Has("login", t, "packet")' /\ \A b : ~Gives(t, b)' /\ ~Gives(t, b)
    BY <1>3, <2>1 DEF HoldsNone, Holds
  <2>8. lt[t].at = "get" /\ task[t] = G!Idle
    BY <1>5 DEF Asked, Bottom
  <2>9. Early(t)
    BY <1>4, <2>8, LoginFd DEF Early, Active
  <2> QED
    BY <1>4, <2>2, <2>3, <2>4, <2>5, <2>6, <2>7, <2>8, <2>9, FixedSame
<1> QED
  BY <1>2, <1>6, <1>7

LEMMA XPoolNew ==
  ASSUME IInv, XInv, NEW t \in LoginTask, PoolNew(t)
  PROVE  XInv'
<1>1. PICK a \in Agent : P!newservice(t, a) /\ Post("login", RetAgent(t, a))
  BY DEF PoolNew
<1>2. UNCHANGED <<gateV, centerV, agentV, loginV>>
  BY DEF PoolNew
<1>3. {"gate", "login", "center", "pool"} \subseteq Service /\ t \in Task
  BY Names
<1>4. /\ making[t] # Nil /\ a \notin born /\ born' = born \cup {a} /\ pool' = pool /\ dead' = dead
      /\ \A x \in Task : x # t => making'[x] = making[x]
  BY <1>1, <1>3, PoolFacts DEF P!newservice
<1>5. Asked(t, "get") /\ Absent(t)
  BY <1>3, <1>4 DEF IInv, Chains, Stacks, Level
<1>6. PICK n : n = RetAgent(t, a)
  OBVIOUS
<1>7. n \in Message /\ n.t = t /\ n.op = "ret" /\ n.agent = a
  BY <1>3, <1>6, Messages DEF RetAgent
<1>8. Mail /\ Mail' /\ MailKept(t) /\ HoldsNone(t) /\ Holds(t, "login", n)'
  BY <1>1, <1>3, <1>5, <1>6, <1>7, PostStep
<1>9. \A b : ~Gives(t, b)
  BY <1>8 DEF HoldsNone
<1>10. /\ RInv' /\ Records'
       /\ \A x \in LoginTask : x # t => \A b : (Out(x, b)' <=> Out(x, b)) /\ (Lost(x, b)' <=> Lost(x, b))
       /\ \A b : ~Out(t, b) /\ ~Lost(t, b) /\ (Out(t, b)' <=> b = a)
  BY <1>2, <1>3, <1>4, <1>5, <1>7, <1>8, <1>9, PoolGives
<1>11. a \notin dead /\ ~InPool(a) /\ \A x \in LoginTask : ~Out(x, a)
  BY <1>4 DEF XInv, Owned
<1>12. /\ \A b : InPool(b)' <=> InPool(b) /\ b # a
       /\ \A i, j \in DOMAIN Pooled' : Pooled'[i] = Pooled'[j] => i = j
  <2>1. Pooled' = Pooled /\ \A b : InPool(b)' <=> InPool(b)
    BY <1>4 DEF Pooled, InPool
  <2> QED
    BY <1>11, <2>1 DEF XInv, Owned
<1>13. Owned' /\ Lossless'
  BY <1>4, <1>10, <1>11, <1>12, OwnedGiven DEF XInv
<1> QED
  BY <1>10, <1>13 DEF XInv

\* Agent a of login p goes back into the pool or is killed.
LEMMA OwnedBack ==
  ASSUME IInv, Owned, Lossless, NEW p \in LoginTask, NEW a \in Agent, Out(p, a), P!recycle("agentpool1", a),
         \A x \in LoginTask : x # p => \A b : (Out(x, b)' <=> Out(x, b)) /\ (Lost(x, b)' <=> Lost(x, b)),
         \A b : ~Out(p, b)' /\ ~Lost(p, b) /\ (Out(p, b) => b = a)
  PROVE  Owned' /\ Lossless'
<1>1. born' = born /\ a \in born \ dead /\ ~InPool(a) /\ \A x \in LoginTask : Out(x, a) => x = p
  BY DEF Owned, P!recycle
<1>2. CASE pool' = pool /\ dead' = dead \cup {a}
  <2>1. Pooled' = Pooled /\ \A b : InPool(b)' <=> InPool(b)
    BY <1>2 DEF Pooled, InPool
  <2>2. dead' \subseteq born'
    BY <1>1, <1>2 DEF Owned
  <2>3. \A x \in LoginTask, b \in Agent : Out(x, b)' => b \in born' \ dead' /\ ~InPool(b)'
    BY <1>1, <1>2, <2>1 DEF Owned
  <2>4. \A y, x \in LoginTask, b \in Agent : Out(y, b)' /\ Out(x, b)' => y = x
    BY DEF Owned
  <2>5. \A b \in Agent : InPool(b)' => b \in born' \ dead'
    BY <1>1, <1>2, <2>1 DEF Owned
  <2>6. Owned'
    BY <2>1, <2>2, <2>3, <2>4, <2>5 DEF Owned
  <2>7. ASSUME NEW b \in born' \ dead'
        PROVE  InPool(b)' \/ \E x \in LoginTask : Out(x, b)' \/ Lost(x, b)'
    <3>1. b # a /\ b \in born \ dead
      BY <1>1, <1>2, <2>7
    <3>2. InPool(b) \/ \E x \in LoginTask : Out(x, b) \/ Lost(x, b)
      BY <3>1 DEF Lossless
    <3> QED
      BY <2>1, <3>1, <3>2
  <2> QED
    BY <2>6, <2>7 DEF Lossless
<1>3. CASE pool' = [pool EXCEPT !["agentpool1"] = <<a>> \o @] /\ dead' = dead
  <2>1. PICK q : q = pool["agentpool1"]
    OBVIOUS
  <2>2. q \in Seq(Agent) /\ pool'["agentpool1"] = <<a>> \o q
    BY <1>3, <2>1, PoolFacts
  <2>3. Apiece(q) /\ ~Lists(q, a) /\ (\A b : InPool(b) <=> Lists(q, b))
    BY <1>1, <2>1, PoolList
  <2>4. /\ \A b : InPool(b)' <=> InPool(b) \/ b = a
        /\ \A i, j \in DOMAIN Pooled' : Pooled'[i] = Pooled'[j] => i = j
    <3>1. PICK r : r = <<a>> \o q
      OBVIOUS
    <3>2. Apiece(r) /\ \A b : Lists(r, b) <=> Lists(q, b) \/ b = a
      BY <2>2, <2>3, <3>1, PrependList
    <3> QED
      BY <2>2, <2>3, <3>1, <3>2, PoolListNext
  <2>5. \A x \in LoginTask, b \in Agent : Out(x, b)' => b \in born' \ dead' /\ ~InPool(b)'
    <3> SUFFICES ASSUME NEW x \in LoginTask, NEW b \in Agent, Out(x, b)'
                 PROVE  b \in born' \ dead' /\ ~InPool(b)'
      OBVIOUS
    <3>1. x # p /\ Out(x, b)
      OBVIOUS
    <3>2. b # a
      BY <1>1, <3>1
    <3> QED
      BY <1>1, <1>3, <2>4, <3>1, <3>2 DEF Owned
  <2>6. \A y, x \in LoginTask, b \in Agent : Out(y, b)' /\ Out(x, b)' => y = x
    BY DEF Owned
  <2>7. \A b \in Agent : InPool(b)' => b \in born' \ dead'
    BY <1>1, <1>3, <2>4 DEF Owned
  <2>8. Owned'
    BY <1>1, <1>3, <2>4, <2>5, <2>6, <2>7 DEF Owned
  <2>9. ASSUME NEW b \in born' \ dead'
        PROVE  InPool(b)' \/ \E x \in LoginTask : Out(x, b)' \/ Lost(x, b)'
    <3>1. InPool(b) \/ \E x \in LoginTask : Out(x, b) \/ Lost(x, b)
      BY <1>1, <1>3, <2>9 DEF Lossless
    <3> QED
      BY <2>4, <3>1
  <2> QED
    BY <2>8, <2>9 DEF Lossless
<1> QED
  BY <1>2, <1>3 DEF P!recycle

LEMMA XPoolRecycle ==
  ASSUME IInv, XInv, OneCloser, PoolRecycle
  PROVE  XInv'
<1>1. PICK m : IsHead("pool", m)
  BY DEF IsHead
<1> DEFINE t == m.t
           a == m.agent
<1>2. /\ Handles("pool", "recycle")
      /\ \/ a # Nil /\ P!recycle("agentpool1", a) /\ To("pool", m.from, Ret(t, "true"))
         \/ a = Nil /\ UNCHANGED poolV /\ To("pool", m.from, Ret(t, "error"))
      /\ UNCHANGED <<gateV, centerV, agentV, loginV>>
  BY <1>1 DEF PoolRecycle, IsHead
<1>3. {"gate", "login", "center", "pool"} \subseteq Service /\ Agent \cap {"gate", "login", "center", "pool"} = {}
      /\ LoginTask \subseteq Task /\ LoginTask \cap CloseTask = {} /\ Nil \notin Agent
  BY Names
<1>4. /\ m \in Message /\ t \in Task /\ m.op = "recycle" /\ Fits("pool", m)
  BY <1>1, <1>2, <1>3, HeadFacts DEF IsHead
<1>5. leaving[t] = Nil /\ Calls(t, m.from, "recycle")
  BY <1>3, <1>4 DEF Fits, PoolMail
<1>6. m.from = "gate" /\ a = Subject(t).agent
  <2>1. In("pool", m)
    BY <1>1, <1>2, <1>3, HeadFacts, StateFacts, HeadOnly DEF In, IsHead
  <2>2. Errand("pool", m)
    BY <1>3, <2>1 DEF XInv, RInv, Errands, In
  <2> QED
    BY <1>4, <2>2 DEF Errand
<1>7. task[t] # G!Idle /\ task[t].at = "recycle"
  BY <1>5, <1>6 DEF Calls
<1>8. a \in Agent
  BY <1>4, <1>6, <1>7, SubjectLogin DEF XInv
<1>9. P!recycle("agentpool1", a) /\ To("pool", "gate", Ret(t, "true"))
  BY <1>2, <1>3, <1>6, <1>8
<1>10. PICK n : n = Ret(t, "true")
  OBVIOUS
<1>11. n \in Message /\ n.t = m.t /\ n.op = "ret"
  BY <1>4, <1>10, Messages DEF Ret, Value
<1>12. Mail /\ Mail' /\ MailKept(t) /\ Holds(t, "pool", m) /\ Holds(t, "gate", n)'
  BY <1>1, <1>2, <1>3, <1>9, <1>10, <1>11, ToStep
<1>13. /\ lt' = lt /\ task' = task /\ leaving' = leaving /\ logging' = logging /\ users' = users
       /\ making' = making /\ UNCHANGED <<job, c, connection>>
  BY <1>2, <1>9 DEF gateV, centerV, agentV, loginV, P!recycle
<1> HIDE DEF t, a
<1>14. Local(t) /\ Apart(t)
  BY <1>12, <1>13 DEF Local, Apart, Others, SameSessions
<1>15. Closer(t)'
  BY <1>4, <1>13, <1>14, SelfCloser DEF XInv, RInv, Errands, Local
<1>16. \A s \in Service, x \in Message : In(s, x)' /\ x.t = t => Errand(s, x)'
  <2> SUFFICES ASSUME NEW s \in Service, NEW x \in Message, In(s, x)', x.t = t
               PROVE  Errand(s, x)'
    OBVIOUS
  <2>1. s = "gate"
    BY <1>12 DEF Holds
  <2> QED
    BY <1>3, <2>1 DEF Errand
<1>17. /\ ~Has("login", t, "packet")' /\ Has("pool", t, "recycle") /\ ~Has("pool", t, "recycle")'
       /\ ~Says("login", t, "true") /\ ~Says("login", t, "true")'
       /\ ~Has("gate", t, "register") /\ ~Has("gate", t, "register")'
  BY <1>3, <1>4, <1>11, <1>12 DEF Holds
<1>18. t \in CloseTask \/ Early(t)
  BY <1>4, <1>7, TaskStage
<1>19. RInv'
  BY <1>4, <1>13, <1>14, <1>15, <1>16, <1>17, <1>18, FixedRest DEF XInv
<1>20. /\ LoggedOut(t) /\ LoggedOut(t)' /\ ~Back(t) /\ Back(t)'
       /\ (Closes(t)' <=> Closes(t)) /\ (Clears(t)' <=> Clears(t))
  BY <1>7, <1>13, <1>17 DEF LoggedOut, Back, Closes, Clears
<1>21. PICK p \in LoginTask :
         /\ lt[p].at # "idle" /\ lt[p].key = Subject(t).key /\ lt[p].agent = a
         /\ Closes(t) => SessionOf(p, task[t].fd) /\ InSession(p)
         /\ Clears(t) => p = t
         /\ Keeps(p)
  BY <1>4, <1>6, <1>7, <1>20, SubjectLogin DEF XInv
<1>22. t \in LoginTask => /\ ~InSession(t) /\ ~InSession(t)'
                          /\ (Closes(t) => lt[t].at = "login") /\ (Clears(t) => lt[t].at = "gate")
  <2>1. t \in LoginTask => ~InSession(t) /\ ~InSession(t)'
    BY <1>3, <1>13, <1>14, <1>18, EarlyView, EarlyNext DEF XInv, Local
  <2> QED
    BY <1>3, <1>4, <1>7, <2>1, CloserFd
<1>23. \A f : EndsIt(t, f)' <=> EndsIt(t, f)
  BY <1>13, <1>20 DEF EndsIt
<1>24. t \in LoginTask => (Blank(t)' <=> Blank(t)) /\ (Full(t)' <=> Full(t))
  BY <1>7, <1>13, <1>17, <1>20, <1>22 DEF Blank, Full, Closes, Clears
<1>25. Records'
  BY <1>13, <1>14, <1>23, <1>24, RecordsSame DEF XInv
<1>26. ~Keeps(p)' /\ lt[p].at # "get" /\ ~(lt[p].at = "done" /\ lt[p].result = "raised")
  <2>1. CASE Clears(t)
    BY <1>13, <1>17, <1>20, <1>21, <1>22, <2>1 DEF Keeps
  <2>2. CASE Closes(t)
    <3>1. p # t /\ p \in Task
      BY <1>3, <1>21, <1>22, <2>2 DEF SessionOf
    <3>2. ~Has("gate", p, "register")' /\ ~Clears(p)' /\ lt'[p] = lt[p]
      BY <1>3, <1>14, <1>21, <2>2, <3>1, OthersPlain DEF SameMail, SessionOf
    <3>3. PICK f : f = task[t].fd
      OBVIOUS
    <3>4. Hands(t, f)'
      BY <1>13, <1>20, <2>2, <3>3 DEF Hands
    <3>5. Returned(f)' /\ lt[p].fd = f
      BY <1>4, <1>21, <2>2, <3>3, <3>4 DEF Returned, SessionOf
    <3>6. Keeps(p)' => ~Returned(f)'
      BY <1>21, <2>2, <3>2, <3>5 DEF Keeps, SessionOf
    <3> QED
      BY <1>21, <2>2, <3>5, <3>6 DEF SessionOf
  <2> QED
    BY <1>7, <2>1, <2>2 DEF Closes, Clears
<1>27. Out(p, a) /\ \A b : ~Out(p, b)' /\ ~Lost(p, b) /\ (Out(p, b) => b = a)
  BY <1>13, <1>21, <1>26 DEF Out, Lost
<1>28. ASSUME NEW x \in LoginTask, x # p
       PROVE  \A b : (Out(x, b)' <=> Out(x, b)) /\ (Lost(x, b)' <=> Lost(x, b))
  <2>1. CASE x = t
    <3>1. Closes(t) /\ ~Clears(t)
      BY <1>7, <1>21, <1>28, <2>1 DEF Closes, Clears
    <3> QED
      BY <1>13, <1>20, <1>22, <1>28, <2>1, <3>1 DEF Out, Keeps, Lost
  <2>2. CASE x # t
    <3>1. PICK f : f = lt[x].fd
      OBVIOUS
    <3>2. InSession(x)' <=> InSession(x)
      BY <1>3, <1>14, <2>2, OthersView
    <3>3. InSession(x) => (Hands(t, f)' <=> Hands(t, f))
      <4> SUFFICES ASSUME InSession(x), Closes(t), task[t].fd = f PROVE FALSE
        BY <1>13, <1>20 DEF Hands
      <4>1. c[f].key = lt[x].key /\ c[f].key = lt[p].key /\ lt[x].at # "idle"
        BY <1>21, <3>1 DEF InSession, SessionOf
      <4> QED
        BY <1>21, <1>28, <4>1 DEF XInv, RInv, UniqueKeys
    <3>4. InSession(x) => (Returned(f)' <=> Returned(f))
      BY <1>14, <3>3, ReturnedKept
    <3> QED
      BY <1>14, <2>2, <3>1, <3>2, <3>4, KeepsOthers
  <2> QED
    BY <2>1, <2>2
<1>29. Owned' /\ Lossless'
  BY <1>8, <1>9, <1>27, <1>28, OwnedBack DEF XInv, a, t
<1> QED
  BY <1>19, <1>25, <1>29 DEF XInv

-----------------------------------------------------------------------------
(* The agents.                                                               *)

\* A command is the start of a login or the kick of a close_agent or clearAgent.
LEMMA WorkStage ==
  ASSUME IInv, XInv, OneCloser, NEW t \in Task, NEW j, Works(t, j)
  PROVE  /\ t \in CloseTask \/ Early(t)
         /\ \/ j.cmd = "start" /\ lt[t].at = "start" /\ leaving[t] = Nil /\ task[t] = G!Idle /\ t \in LoginTask
            \/ j.cmd = "kick" /\ leaving[t] # Nil /\ task[t] # G!Idle /\ task[t].at = "logout"
                 /\ lt[t].at \notin {"get", "start", "register"} /\ ~LoggedOut(t)
<1>1. CASE j.cmd = "start" /\ Asked(t, "start")
  <2>1. lt[t].at = "start" /\ leaving[t] = Nil /\ task[t] = G!Idle
    BY <1>1 DEF Asked, Bottom
  <2>2. t \in LoginTask
    BY <2>1, LoginFd
  <2> QED
    BY <1>1, <2>1, <2>2 DEF Early, Active
<1>2. CASE j.cmd = "kick" /\ leaving[t] # Nil
  <2>1. task[t] # G!Idle /\ ~LoggedOut(t)
    BY <1>2, LeavingRecord DEF XInv
  <2>2. task[t].at = "logout"
    BY <2>1, CloserFd DEF LoggedOut
  <2>3. lt[t].at \notin {"get", "start", "register"}
    <3>1. lt[t].at # "idle" => t \in LoginTask
      BY LoginFd
    <3> QED
      BY <2>1, <3>1, CloserFd, Names DEF Closes, Clears
  <2> QED
    BY <1>2, <2>1, <2>2, <2>3, TaskStage
<1> QED
  BY <1>1, <1>2 DEF Works

\* Nothing of t waits in a mailbox of the four services.
Outside(t) ==
  /\ \A z \in {"gate", "login", "center", "pool"} : \A op : ~Has(z, t, op)
  /\ \A v : ~Says("login", t, v)
  /\ \A b : ~Gives(t, b)

LEMMA OutsideHeld ==
  ASSUME NEW t, NEW a \in Agent, NEW m, Holds(t, a, m)
  PROVE  Outside(t)
  BY Names DEF Outside, Holds

LEMMA OutsideNone ==
  ASSUME NEW t, HoldsNone(t)
  PROVE  Outside(t)
  BY Names DEF Outside, HoldsNone

LEMMA WorkSame ==
  ASSUME IInv, XInv, OneCloser, NEW t \in Task, NEW j, Works(t, j),
         UNCHANGED <<gateV, centerV, poolV, loginV>>,
         \A x \in Task : x # t => job'[x] = job[x],
         Mail, Mail', MailKept(t), Outside(t),
         \/ HoldsNone(t)'
         \/ \E n : /\ Holds(t, Caller(j), n)' /\ n.op = "ret"
                   /\ n.val # "true" => j.cmd = "start" /\ DbMayFail
  PROVE  XInv'
<1>1. /\ lt' = lt /\ task' = task /\ leaving' = leaving /\ logging' = logging /\ making' = making
      /\ UNCHANGED <<users, pool, born, dead, c, connection>>
  BY DEF gateV, centerV, poolV, loginV
<1>2. Local(t)
  BY <1>1 DEF Local, Apart, Others, SameSessions
<1>3. Closer(t)'
  BY <1>1, <1>2, SelfCloser DEF XInv, RInv, Errands, Local
<1>4. /\ t \in CloseTask \/ Early(t)
      /\ \/ j.cmd = "start" /\ lt[t].at = "start" /\ leaving[t] = Nil /\ task[t] = G!Idle
         \/ j.cmd = "kick" /\ leaving[t] # Nil /\ task[t] # G!Idle /\ task[t].at = "logout"
              /\ lt[t].at \notin {"get", "start", "register"}
  BY WorkStage
<1>5. {"gate", "login", "center", "pool"} \subseteq Service /\ Agent \cap {"gate", "login", "center", "pool"} = {}
  BY Names
<1>6. CASE HoldsNone(t)'
  <2>1. \A s \in Service, x \in Message : In(s, x)' /\ x.t = t => Errand(s, x)'
    BY <1>6 DEF HoldsNone
  <2>2. Outside(t)'
    BY <1>5, <1>6 DEF Outside, HoldsNone
  <2>3. /\ ~Has("login", t, "packet")'
        /\ LoggedOut(t)' <=> LoggedOut(t)
        /\ Back(t)' <=> Back(t)
    BY <1>1, <2>2 DEF Outside, LoggedOut, Back
  <2> QED
    BY <1>1, <1>2, <1>3, <1>4, <2>1, <2>2, <2>3, FixedSame DEF Outside
<1>7. ASSUME NEW n, Holds(t, Caller(j), n)', n.op = "ret",
             n.val # "true" => j.cmd = "start" /\ DbMayFail
      PROVE  XInv'
  <2>1. Caller(j) = IF j.cmd = "start" THEN "login" ELSE "center"
    BY DEF Caller
  <2>2. \A s \in Service, x \in Message : In(s, x)' /\ x.t = t => Errand(s, x)'
    <3> SUFFICES ASSUME NEW s \in Service, NEW x \in Message, In(s, x)', x.t = t
                 PROVE  Errand(s, x)'
      OBVIOUS
    <3>1. s = Caller(j) /\ x = n
      BY <1>7 DEF Holds
    <3> QED
      BY <1>1, <1>4, <1>5, <1>7, <2>1, <3>1 DEF Errand
  <2>3. /\ \A z \in {"gate", "login", "center", "pool"} : \A op : Has(z, t, op)' => z = Caller(j) /\ op = "ret"
        /\ j.cmd = "kick" => (\A v : ~Says("login", t, v)') /\ (\A b : ~Gives(t, b)')
    BY <1>5, <1>7, <2>1 DEF Holds
  <2>4. /\ ~Has("login", t, "packet")' /\ ~Has("center", t, "register")' /\ ~Has("gate", t, "register")'
        /\ ~Has("gate", t, "ret")' /\ ~Has("pool", t, "recycle")'
    BY <2>1, <2>3
  <2>5. (LoggedOut(t)' <=> LoggedOut(t)) /\ (Back(t)' <=> Back(t))
    BY <1>1, <2>4 DEF LoggedOut, Back, Outside
  <2> QED
    BY <1>1, <1>2, <1>3, <1>4, <2>2, <2>3, <2>4, <2>5, FixedSame DEF Outside
<1> QED
  BY <1>6, <1>7

\* A command waits in the mailbox of the agent of its chain.
LEMMA CommandFacts ==
  ASSUME IInv, XInv, NEW a \in Agent, Handles(a, "command"), NEW m, IsHead(a, m)
  PROVE  m.t \in Task /\ m \in ToAgent /\ Works(m.t, m.job) /\ Subject(m.t).agent = a
<1>1. a \in Service /\ a \notin {"gate", "login", "center", "pool"}
  BY Names
<1>2. m \in Message /\ m.t \in Task /\ Fits(a, m)
  BY <1>1, HeadFacts DEF IsHead
<1>3. In(a, m)
  BY <1>1, HeadFacts, StateFacts, HeadOnly DEF In, IsHead
<1>4. Errand(a, m)
  BY <1>1, <1>3 DEF XInv, RInv, Errands, In
<1> QED
  BY <1>1, <1>2, <1>4 DEF Fits, AgentMail, Errand

LEMMA XAgentCommand ==
  ASSUME IInv, XInv, OneCloser, NEW a \in Agent, AgentCommand(a)
  PROVE  XInv'
<1>1. PICK m : IsHead(a, m)
  BY DEF IsHead
<1> DEFINE t == m.t
           j == m.job
<1>2. /\ Handles(a, "command") /\ A!Command(a, t, j) /\ Eat(a)
      /\ UNCHANGED <<gateV, centerV, poolV, loginV>>
  BY <1>1 DEF AgentCommand, IsHead
<1>3. t \in Task /\ Works(t, j)
  BY <1>1, <1>2, CommandFacts
<1>4. a \in Service
  BY Names
<1>5. Mail /\ Mail' /\ MailKept(t) /\ Holds(t, a, m) /\ HoldsNone(t)'
  BY <1>1, <1>2, <1>4, EatStep
<1>6. Outside(t)
  BY <1>5, OutsideHeld
<1>7. \A x \in Task : x # t => job'[x] = job[x]
  BY <1>2, <1>3, StateFacts DEF A!Command
<1> HIDE DEF t, j
<1> QED
  BY <1>2, <1>3, <1>5, <1>6, <1>7, WorkSame

\* Nobody calls an agent the pool has killed.
LEMMA NotGone ==
  ASSUME IInv, XInv, OneCloser, NEW a \in Agent, Handles(a, "command")
  PROVE  a \notin dead
<1>1. PICK m : IsHead(a, m)
  BY DEF IsHead
<1> DEFINE t == m.t
           j == m.job
<1>2. t \in Task /\ Works(t, j) /\ Subject(t).agent = a
  BY <1>1, CommandFacts
<1> HIDE DEF t, j
<1>3. CASE lt[t].at = "start" /\ task[t] = G!Idle /\ t \in LoginTask
  <2>1. Out(t, a)
    BY <1>2, <1>3 DEF Out, Keeps, Subject, Closes, Mine
  <2> QED
    BY <1>3, <2>1 DEF XInv, Owned
<1>4. CASE task[t] # G!Idle /\ task[t].at = "logout"
  BY <1>2, <1>4, SubjectAgent DEF XInv, Back
<1> QED
  BY <1>2, <1>3, <1>4, WorkStage

LEMMA XAgentEnds ==
  ASSUME IInv, XInv, OneCloser, NEW a \in Agent, AgentDone(a) \/ AgentFail(a)
  PROVE  XInv'
<1>1. PICK t, j : t = current[a] /\ j = job[t]
  OBVIOUS
<1>2. PICK val \in Value : /\ Post(Caller(j), Ret(t, val))
                           /\ val # "true" => j.cmd = "start" /\ DbMayFail
  BY <1>1 DEF AgentDone, AgentFail, Caller, Value
<1>3. current[a] # Nil /\ A!Leave(a) /\ UNCHANGED <<gateV, centerV, poolV, loginV>>
  BY DEF AgentDone, AgentFail
<1>4. t \in Task /\ j # Nil
  BY <1>1, <1>3, AgentFacts DEF Section
<1>5. Works(t, j) /\ Absent(t)
  BY <1>1, <1>4 DEF IInv, Chains, Stacks, Level
<1>6. PICK n : n = Ret(t, val)
  OBVIOUS
<1>7. n \in Message /\ n.t = t /\ n.op = "ret" /\ n.val = val
  BY <1>4, <1>6, Messages DEF Ret
<1>8. PICK d : d = Caller(j)
  OBVIOUS
<1>9. d \in Service
  BY <1>8, Names DEF Caller
<1>10. Mail /\ Mail' /\ MailKept(t) /\ HoldsNone(t) /\ Holds(t, d, n)'
  BY <1>2, <1>5, <1>6, <1>7, <1>8, <1>9, PostStep
<1>11. Outside(t)
  BY <1>10, OutsideNone
<1>12. \A x \in Task : x # t => job'[x] = job[x]
  BY <1>1, <1>3, <1>4, StateFacts DEF A!Leave
<1>13. Holds(t, Caller(j), n)' /\ n.op = "ret" /\ (n.val # "true" => j.cmd = "start" /\ DbMayFail)
  BY <1>1, <1>2, <1>7, <1>8, <1>10
<1> QED
  BY <1>3, <1>4, <1>5, <1>10, <1>11, <1>12, <1>13, WorkSame

-----------------------------------------------------------------------------
(* The login service.                                                        *)

LEMMA GoesResult ==
  ASSUME IInv, NEW t \in Task, NEW at \in L!At
  PROVE  /\ L!Goto(t, at) => lt'[t].result = lt[t].result
         /\ \A res \in L!Result : L!Undo(t, at, res) => lt'[t].result = res
         /\ \A res \in L!Result : L!Done(t, res) => lt'[t].result = res /\ lt'[t].agent = lt[t].agent
         /\ \A a \in Agent : L!Take(t, a) => lt'[t].result = lt[t].result
<1>1. lt \in [Task -> LoginRec] /\ lt[t] \in LoginRec
  BY StateFacts DEF LoginRec
<1>2. ASSUME L!Goto(t, at) PROVE lt'[t].result = lt[t].result
  BY <1>1, <1>2 DEF L!Goto, LoginRec
<1>3. ASSUME NEW res \in L!Result, L!Undo(t, at, res) PROVE lt'[t].result = res
  BY <1>1, <1>3 DEF L!Undo, LoginRec
<1>4. ASSUME NEW res \in L!Result, L!Done(t, res) PROVE lt'[t].result = res /\ lt'[t].agent = lt[t].agent
  BY <1>1, <1>4 DEF L!Done, LoginRec
<1>5. ASSUME NEW a \in Agent, L!Take(t, a) PROVE lt'[t].result = lt[t].result
  BY <1>1, <1>5 DEF L!Take, LoginRec
<1> QED
  BY <1>2, <1>3, <1>4, <1>5

\* The login service goes on with t: nobody else is inside a call of its chain.
LoginGoes(t) ==
  /\ Bottom(t) /\ UNCHANGED <<gateV, centerV, poolV, agentV>>
  /\ \A x \in Task : x # t => lt'[x] = lt[x]
  /\ Mail /\ Mail' /\ MailKept(t)

LEMMA LoginLocal ==
  ASSUME IInv, NEW t \in Task, LoginGoes(t)
  PROVE  /\ Local(t) /\ users' = users /\ UNCHANGED <<pool, born, dead, c, connection>>
         /\ ~Closes(t) /\ ~Closes(t)' /\ ~Clears(t) /\ ~Clears(t)' /\ Closer(t)'
         /\ Subject(t)' = Mine(t)'
         /\ \A f : (EndsIt(t, f)' <=> EndsIt(t, f)) /\ (Hands(t, f)' <=> Hands(t, f))
<1>1. /\ task' = task /\ leaving' = leaving /\ logging' = logging /\ making' = making /\ job' = job
      /\ users' = users /\ UNCHANGED <<pool, born, dead, c, connection>>
  BY DEF LoginGoes, gateV, centerV, poolV, agentV
<1>2. Local(t)
  BY <1>1 DEF LoginGoes, Local, Apart, Others, SameSessions
<1>3. ~Closes(t) /\ ~Closes(t)' /\ ~Clears(t) /\ ~Clears(t)'
  BY <1>1 DEF LoginGoes, Bottom, Closes, Clears
<1>4. Closer(t)'
  BY <1>1, <1>3 DEF LoginGoes, Bottom, Closer
<1>5. Subject(t)' = Mine(t)'
  BY <1>3 DEF Subject
<1> QED
  BY <1>1, <1>2, <1>3, <1>4, <1>5 DEF EndsIt, Hands

\* A login whose client has no session goes on.
LEMMA LoginEarly ==
  ASSUME IInv, XInv, NEW t \in LoginTask, LoginGoes(t), lt[t].at # "idle", c[lt[t].fd].uid = Nil,
         NEW at, Becomes(t, at), Plain(t)', ~Has("login", t, "packet")',
         \/ HoldsNone(t)'
         \/ \E s \in Service : \E n : Holds(t, s, n)' /\ Errand(s, n)',
         Active(t)' => Active(t),
         Blank(t)' <=> Blank(t), Full(t)' <=> Full(t), Full(t) => lt'[t].agent = lt[t].agent,
         \A a \in Agent : /\ Out(t, a)' => Out(t, a)
                          /\ Out(t, a) => Out(t, a)' \/ Lost(t, a)'
                          /\ ~Lost(t, a)
  PROVE  XInv'
<1>1. t \in Task
  BY Names
<1>2. /\ Local(t) /\ users' = users /\ UNCHANGED <<pool, born, dead, c, connection>> /\ Closer(t)'
      /\ \A f : (EndsIt(t, f)' <=> EndsIt(t, f)) /\ (Hands(t, f)' <=> Hands(t, f))
  BY <1>1, LoginLocal
<1>3. lt'[t].fd = lt[t].fd /\ lt'[t].uid = lt[t].uid /\ lt'[t].key = lt[t].key
  BY DEF Becomes
<1>4. \A s \in Service, x \in Message : In(s, x)' /\ x.t = t => Errand(s, x)'
  <2> SUFFICES ASSUME NEW s \in Service, NEW x \in Message, In(s, x)', x.t = t
               PROVE  Errand(s, x)'
    OBVIOUS
  <2>1. PICK n : Holds(t, s, n)' /\ Errand(s, n)' /\ x = n
    BY DEF Holds, HoldsNone
  <2> QED
    BY <2>1
<1>5. \A fd \in Fd : Wants(t, fd)' => fd = lt[t].fd /\ Active(t)
  BY <1>3 DEF Wants, Has
<1>6. \A x \in LoginTask : x # t /\ lt'[t].at # "idle" /\ lt[x].at # "idle" => lt'[t].key # lt[x].key
  BY <1>3 DEF XInv, RInv, UniqueKeys
<1>7. \A fd \in Fd : Wants(t, fd)' => Wants(t, fd)
  BY <1>5 DEF Wants
<1>8. RInv'
  BY <1>1, <1>2, <1>4, <1>5, <1>6, <1>7, RestStep DEF XInv, SessionOf
<1>9. Records'
  BY <1>2, <1>3, RecordsSame DEF XInv
<1>10. Owned' /\ Lossless'
  BY <1>2, OwnedSame DEF XInv
<1> QED
  BY <1>8, <1>9, <1>10 DEF XInv

LEMMA XLoginPacket ==
  ASSUME IInv, XInv, LoginPacket
  PROVE  XInv'
<1>1. PICK m : IsHead("login", m)
  BY DEF IsHead
<1> DEFINE t == m.t
<1>2. /\ Handles("login", "packet") /\ L!Login(t, m.fd, m.uid) /\ Eat("login")
      /\ UNCHANGED <<gateV, centerV, poolV, agentV>>
  BY <1>1 DEF LoginPacket, IsHead
<1>3. {"gate", "login", "center", "pool"} \subseteq Service /\ LoginTask \subseteq Task
  BY Names
<1>4. /\ m \in Message /\ t \in Task /\ m.op = "packet" /\ Fits("login", m)
  BY <1>1, <1>2, <1>3, HeadFacts DEF IsHead
<1>5. m \in ToLogin /\ t \in LoginTask /\ Asked(t, "idle")
  BY <1>4, Names DEF Fits, LoginMail, Answer
<1>6. lt[t].at = "idle" /\ Bottom(t) /\ m.fd \in Fd /\ m.uid \in Uid
  BY <1>5 DEF Asked, ToLogin
<1>7. Mail /\ Mail' /\ MailKept(t) /\ Holds(t, "login", m) /\ HoldsNone(t)'
  BY <1>1, <1>2, <1>3, EatStep
<1>8. /\ lt'[t].at = "auth" /\ lt'[t].fd = m.fd /\ lt'[t].key = key_seq + 1 /\ lt'[t].result = "none"
      /\ \A x \in Task : x # t => lt'[x] = lt[x]
  <2>1. lt \in [Task -> LoginRec]
    BY StateFacts DEF LoginRec
  <2> QED
    BY <1>2, <1>4, <2>1 DEF L!Login, L!Fresh
<1> HIDE DEF t
<1>9. LoginGoes(t)
  BY <1>2, <1>6, <1>7, <1>8 DEF LoginGoes
<1>10. /\ Local(t) /\ users' = users /\ UNCHANGED <<pool, born, dead, c, connection>> /\ Closer(t)'
       /\ ~Clears(t) /\ ~Clears(t)'
       /\ \A f : (EndsIt(t, f)' <=> EndsIt(t, f)) /\ (Hands(t, f)' <=> Hands(t, f))
  BY <1>4, <1>9, LoginLocal
<1>11. Wants(t, m.fd)
  BY <1>4, <1>7 DEF Holds
<1>12. c[m.fd].uid = Nil
  BY <1>5, <1>6, <1>11 DEF XInv, RInv, Patience, Makes
<1>13. \A fd : Wants(t, fd)' => fd = m.fd
  BY <1>7, <1>8 DEF HoldsNone
<1>14. \A x \in LoginTask : x # t /\ lt[x].at # "idle" => lt'[t].key # lt[x].key
  <2>1. key_seq \in Nat
    BY StateFacts
  <2>2. \A x \in LoginTask : lt[x].at # "idle" => lt[x].key \in 0 .. key_seq
    BY <1>3 DEF IInv, Chains, Stacks, Knows
  <2> QED
    BY <1>8, <2>1, <2>2
<1>15. Plain(t)'
  BY <1>8 DEF Plain
<1>16. \A s \in Service, x \in Message : In(s, x)' /\ x.t = t => Errand(s, x)'
  BY <1>7 DEF HoldsNone
<1>17. RInv'
  BY <1>4, <1>6, <1>10, <1>11, <1>12, <1>13, <1>14, <1>15, <1>16, RestStep DEF XInv, SessionOf
<1>18. ~InSession(t) /\ ~InSession(t)'
  BY <1>6, <1>8, <1>10, <1>12 DEF InSession, Session
<1>19. ~Blank(t) /\ ~Blank(t)' /\ ~Full(t) /\ ~Full(t)'
  BY <1>6, <1>8, <1>10, <1>18 DEF Blank, Full
<1>20. \A a : ~Out(t, a) /\ ~Out(t, a)' /\ ~Lost(t, a) /\ ~Lost(t, a)'
  BY <1>6, <1>8, <1>10, <1>18 DEF Out, Keeps, Lost
<1>21. Records'
  BY <1>10, <1>19, RecordsSame DEF XInv
<1>22. Owned' /\ Lossless'
  BY <1>10, <1>20, OwnedSame DEF XInv
<1> QED
  BY <1>17, <1>21, <1>22 DEF XInv

\* What a step of a login without a session says of its records and agents.
LEMMA LoginViews ==
  ASSUME IInv, NEW t \in LoginTask, LoginGoes(t), c[lt[t].fd].uid = Nil, NEW at, Becomes(t, at)
  PROVE  ~InSession(t) /\ ~InSession(t)' /\ ~Clears(t) /\ ~Clears(t)'
<1>1. t \in Task
  BY Names
<1>2. UNCHANGED <<c, connection>> /\ ~Clears(t) /\ ~Clears(t)'
  BY <1>1, LoginLocal
<1> QED
  BY <1>2 DEF InSession, Session, Becomes

LEMMA XLoginAuth ==
  ASSUME IInv, XInv, NEW t \in LoginTask, LoginAuth(t)
  PROVE  XInv'
<1>1. t \in Task /\ {"gate", "login", "center", "pool"} \subseteq Service
      /\ Agent \cap {"gate", "login", "center", "pool"} = {}
  BY Names
<1>2. PICK l : l = lt[t]
  OBVIOUS
<1>3. /\ l.at = "auth" /\ UNCHANGED <<gateV, centerV, poolV, agentV>>
      /\ \/ L!Goto(t, "login") /\ Post("center", AskLogin(t, l.uid, C!User(l.fd, l.key)))
         \/ L!Done(t, "wrong_password") /\ mq' = mq
  BY <1>2 DEF LoginAuth
<1>4. Bottom(t) /\ Absent(t) /\ Mail
  BY <1>1, <1>2, <1>3 DEF IInv, Chains, Stacks, Level
<1>5. HoldsNone(t)
  BY <1>4, NoneHolds
<1>6. c[lt[t].fd].uid = Nil
  BY <1>2, <1>3, EarlyView DEF XInv, Early, Active
<1>7. Plain(t)
  BY <1>1 DEF XInv, RInv, Errands
<1>8. CASE L!Goto(t, "login") /\ Post("center", AskLogin(t, l.uid, C!User(l.fd, l.key)))
  <2>1. PICK n : n = AskLogin(t, l.uid, C!User(l.fd, l.key))
    OBVIOUS
  <2>2. n \in Message
    BY <1>1, <1>2, <1>3, <2>1, LoginUser, Messages
  <2>3. n.t = t /\ n.op = "login"
    BY <2>1 DEF AskLogin
  <2>4. Becomes(t, "login") /\ lt'[t].result = lt[t].result
    BY <1>1, <1>8, Goes, GoesResult DEF L!At
  <2>5. Mail' /\ MailKept(t) /\ Holds(t, "center", n)'
    BY <1>1, <1>4, <1>8, <2>1, <2>2, <2>3, PostStep
  <2>6. LoginGoes(t)
    BY <1>3, <1>4, <2>4, <2>5 DEF LoginGoes, Becomes
  <2>7. ~InSession(t) /\ ~InSession(t)' /\ ~Clears(t) /\ ~Clears(t)'
    BY <1>6, <2>4, <2>6, LoginViews
  <2>8. Errand("center", n)' /\ Plain(t)'
    BY <1>1, <1>2, <1>3, <1>7, <2>3, <2>4 DEF Errand, Plain, Becomes
  <2>9. /\ ~Has("login", t, "packet")' /\ ~Says("login", t, "true")'
        /\ lt'[t].at = "login" /\ lt[t].at = "auth"
    BY <1>1, <1>2, <1>3, <2>4, <2>5 DEF Holds, Becomes
  <2>10. ~Blank(t) /\ ~Blank(t)' /\ ~Full(t) /\ ~Full(t)'
    BY <2>7, <2>9 DEF Blank, Full
  <2>11. \A a : ~Out(t, a) /\ ~Out(t, a)' /\ ~Lost(t, a)
    BY <2>7, <2>9 DEF Out, Keeps, Lost
  <2> QED
    BY <1>1, <1>6, <2>4, <2>5, <2>6, <2>8, <2>9, <2>10, <2>11, LoginEarly DEF Active
<1>9. CASE L!Done(t, "wrong_password") /\ mq' = mq
  <2>1. Becomes(t, "done") /\ lt'[t].result = "wrong_password"
    BY <1>1, <1>9, Goes, GoesResult DEF L!At, L!Result
  <2>2. Absent(t)' /\ Mail' /\ MailKept(t)
    BY <1>4, <1>9 DEF Absent, Mail, MailKept, In
  <2>3. HoldsNone(t)'
    BY <2>2, NoneHoldsNext
  <2>4. LoginGoes(t)
    BY <1>3, <1>4, <2>1, <2>2 DEF LoginGoes, Becomes
  <2>5. ~InSession(t) /\ ~InSession(t)' /\ ~Clears(t) /\ ~Clears(t)'
    BY <1>6, <2>1, <2>4, LoginViews
  <2>6. /\ ~Has("login", t, "packet")' /\ lt'[t].at = "done" /\ lt[t].at = "auth"
    BY <1>1, <1>2, <1>3, <2>1, <2>3 DEF HoldsNone, Becomes
  <2>7. Plain(t)'
    BY <2>1, <2>6 DEF Plain
  <2>8. ~Blank(t) /\ ~Blank(t)' /\ ~Full(t) /\ ~Full(t)'
    BY <2>1, <2>5, <2>6 DEF Blank, Full
  <2>9. \A a : ~Out(t, a) /\ ~Out(t, a)' /\ ~Lost(t, a)
    BY <2>1, <2>5, <2>6 DEF Out, Keeps, Lost
  <2> QED
    BY <1>6, <2>1, <2>3, <2>4, <2>6, <2>7, <2>8, <2>9, LoginEarly DEF Active
<1> QED
  BY <1>3, <1>8, <1>9

\* The answer at the head of the mailbox, and the login it belongs to.
LEMMA AnswerFacts ==
  ASSUME IInv, XInv, Handles("login", "ret"), NEW m, IsHead("login", m)
  PROVE  /\ m \in Message /\ m.op = "ret" /\ m.t \in LoginTask /\ m.t \in Task /\ Bottom(m.t) /\ Plain(m.t)
         /\ lt[m.t].at \in Waits \ {"undo_recycle"}
         /\ lt[m.t].at = "get" => m.agent \in Agent
         /\ lt[m.t].at = "register" => m.val = "true"
         /\ lt[m.t].at = "start" /\ m.val # "true" => DbMayFail
         /\ lt[m.t].at # "gate" \/ m.val # "true" => c[lt[m.t].fd].uid = Nil
<1>1. "login" \in Service /\ "login" \notin Agent
  BY Names
<1>2. /\ m \in Message /\ m.t \in Task /\ m.op = "ret" /\ Fits("login", m)
  BY <1>1, HeadFacts DEF IsHead
<1>3. In("login", m)
  BY <1>1, HeadFacts, StateFacts, HeadOnly DEF In, IsHead
<1>4. Errand("login", m)
  BY <1>1, <1>3 DEF XInv, RInv, Errands, In
<1>5. Bottom(m.t) /\ lt[m.t].at \in Waits /\ (lt[m.t].at = "get" => m.agent \in Agent)
  BY <1>1, <1>2 DEF Fits, LoginMail, ToLogin
<1>6. m.t \in LoginTask
  BY <1>2, <1>5, LoginFd DEF Waits
<1>7. Plain(m.t)
  BY <1>2 DEF XInv, RInv, Errands
<1>8. lt[m.t].at # "gate" => c[lt[m.t].fd].uid = Nil
  BY <1>5, <1>6, EarlyView DEF XInv, Early, Active, Waits
<1> QED
  BY <1>2, <1>4, <1>5, <1>6, <1>7, <1>8 DEF Errand, Plain

LEMMA LoginSends ==
  ASSUME IInv, XInv, LoginResume, NEW m, IsHead("login", m), NEW t, t = m.t,
         NEW at, Becomes(t, at), NEW d \in Service, d # "login", NEW n \in Message, n.t = t, To("login", d, n),
         c[lt[t].fd].uid = Nil
  PROVE  /\ LoginGoes(t) /\ Holds(t, "login", m) /\ Holds(t, d, n)' /\ ~Has("login", t, "packet")'
         /\ ~InSession(t) /\ ~InSession(t)' /\ ~Clears(t) /\ ~Clears(t)' /\ Subject(t)' = Mine(t)'
<1>1. Handles("login", "ret") /\ UNCHANGED <<gateV, centerV, poolV, agentV>> /\ "login" \in Service
  BY Names DEF LoginResume
<1>2. t \in LoginTask /\ t \in Task /\ Bottom(t)
  BY <1>1, AnswerFacts
<1>3. Mail /\ Mail' /\ MailKept(t) /\ Holds(t, "login", m) /\ Holds(t, d, n)'
  BY <1>1, ToStep
<1>4. LoginGoes(t)
  BY <1>1, <1>2, <1>3 DEF LoginGoes, Becomes
<1>5. Subject(t)' = Mine(t)'
  BY <1>2, <1>4, LoginLocal
<1>6. ~Has("login", t, "packet")'
  BY <1>1, <1>3 DEF Holds
<1> QED
  BY <1>2, <1>3, <1>4, <1>5, <1>6, LoginViews

LEMMA LoginReturns ==
  ASSUME IInv, XInv, LoginResume, NEW m, IsHead("login", m), NEW t, t = m.t,
         Becomes(t, "done"), Eat("login")
  PROVE  /\ LoginGoes(t) /\ Holds(t, "login", m) /\ HoldsNone(t)' /\ ~Has("login", t, "packet")'
         /\ ~Clears(t) /\ ~Clears(t)'
         /\ c[lt[t].fd].uid = Nil => ~InSession(t) /\ ~InSession(t)'
<1>1. Handles("login", "ret") /\ UNCHANGED <<gateV, centerV, poolV, agentV>> /\ "login" \in Service
  BY Names DEF LoginResume
<1>2. t \in LoginTask /\ t \in Task /\ Bottom(t)
  BY <1>1, AnswerFacts
<1>3. Mail /\ Mail' /\ MailKept(t) /\ Holds(t, "login", m) /\ HoldsNone(t)'
  BY <1>1, EatStep
<1>4. LoginGoes(t)
  BY <1>1, <1>2, <1>3 DEF LoginGoes, Becomes
<1>5. ~Has("login", t, "packet")'
  BY <1>1, <1>3 DEF HoldsNone
<1>6. ~Clears(t) /\ ~Clears(t)'
  BY <1>2, <1>4, LoginLocal
<1> QED
  BY <1>2, <1>3, <1>4, <1>5, <1>6, LoginViews

\* center.login has answered true: agentpool.get.
LEMMA XLoginGet ==
  ASSUME IInv, XInv, LoginResume, NEW m, IsHead("login", m), NEW t, t = m.t,
         lt[t].at = "login", m.val = "true", L!Goto(t, "get"), To("login", "pool", AskGet(t))
  PROVE  XInv'
<1>1. {"gate", "login", "center", "pool"} \subseteq Service /\ Agent \cap {"gate", "login", "center", "pool"} = {}
  BY Names
<1>2. t \in LoginTask /\ t \in Task /\ c[lt[t].fd].uid = Nil /\ m.op = "ret" /\ Plain(t)
  BY AnswerFacts DEF LoginResume
<1>3. Becomes(t, "get") /\ lt'[t].result = lt[t].result /\ lt'[t].agent = lt[t].agent
  BY <1>2, Goes, GoesResult DEF L!At
<1>4. PICK n : n = AskGet(t)
  OBVIOUS
<1>5. n \in Message /\ n.t = t /\ n.op = "get"
  BY <1>2, <1>4, Messages DEF AskGet
<1>6. /\ LoginGoes(t) /\ Holds(t, "login", m) /\ Holds(t, "pool", n)' /\ ~Has("login", t, "packet")'
      /\ ~InSession(t) /\ ~InSession(t)' /\ ~Clears(t) /\ ~Clears(t)'
  <2>1. "pool" \in Service /\ "pool" # "login" /\ To("login", "pool", n) /\ n.t = t /\ n \in Message
    BY <1>1, <1>4, <1>5
  <2> QED
    BY <1>2, <1>3, <2>1, LoginSends
<1>7. lt'[t].at = "get" /\ Says("login", t, "true") /\ \A a : ~Gives(t, a)'
  BY <1>1, <1>2, <1>3, <1>6 DEF Becomes, Holds
<1>8. Errand("pool", n)' /\ Plain(t)'
  BY <1>1, <1>2, <1>3, <1>5, <1>7 DEF Errand, Plain
<1>9. Blank(t) /\ Blank(t)' /\ ~Full(t) /\ ~Full(t)'
  BY <1>6, <1>7 DEF Blank, Full
<1>10. \A a : ~Out(t, a) /\ ~Out(t, a)' /\ ~Lost(t, a)
  BY <1>6, <1>7 DEF Out, Keeps, Lost
<1> QED
  BY <1>1, <1>2, <1>3, <1>6, <1>7, <1>8, <1>9, <1>10, LoginEarly DEF Active

\* agentpool.get has answered: the agent is called.
LEMMA XLoginTake ==
  ASSUME IInv, XInv, LoginResume, NEW m, IsHead("login", m), NEW t, t = m.t,
         lt[t].at = "get", L!Take(t, m.agent),
         To("login", m.agent, AskAgent(t, A!Start(lt[t].fd, lt[t].uid)))
  PROVE  XInv'
<1>1. {"gate", "login", "center", "pool"} \subseteq Service /\ Agent \cap {"gate", "login", "center", "pool"} = {}
      /\ Agent \subseteq Service
  BY Names
<1>2. t \in LoginTask /\ t \in Task /\ c[lt[t].fd].uid = Nil /\ m.op = "ret" /\ Plain(t) /\ m.agent \in Agent
  BY AnswerFacts DEF LoginResume
<1>3. PICK a : a = m.agent
  OBVIOUS
<1>4. Becomes(t, "start") /\ lt'[t].result = lt[t].result /\ lt'[t].agent = a
  BY <1>2, <1>3, Goes, GoesResult DEF L!At
<1>5. PICK n : n = AskAgent(t, A!Start(lt[t].fd, lt[t].uid))
  OBVIOUS
<1>6. n \in Message /\ n.t = t /\ n.op = "command"
  <2>1. lt[t].fd \in Fd /\ lt[t].uid \in Uid
    BY <1>2, LoginFd
  <2>2. A!Start(lt[t].fd, lt[t].uid) \in Job
    BY <2>1 DEF Job
  <2> QED
    BY <1>2, <1>5, <2>2, Messages DEF AskAgent
<1>7. a \in Service /\ a # "login"
  BY <1>1, <1>2, <1>3
<1>8. /\ LoginGoes(t) /\ Holds(t, "login", m) /\ Holds(t, a, n)' /\ ~Has("login", t, "packet")'
      /\ ~InSession(t) /\ ~InSession(t)' /\ ~Clears(t) /\ ~Clears(t)' /\ Subject(t)' = Mine(t)'
  BY <1>1, <1>2, <1>3, <1>4, <1>5, <1>6, <1>7, LoginSends
<1>9. lt'[t].at = "start" /\ \A b : Gives(t, b) <=> b = a
  <2>1. \A b : Gives(t, b) <=> b = a
    BY <1>2, <1>3, <1>8 DEF Holds
  <2> QED
    BY <1>4, <2>1 DEF Becomes
<1>10. Errand(a, n)' /\ Plain(t)'
  <2>1. Subject(n.t)'.agent = a
    BY <1>4, <1>6, <1>8 DEF Mine
  <2> QED
    BY <1>1, <1>2, <1>3, <1>4, <1>6, <1>9, <2>1 DEF Errand, Plain
<1>11. Blank(t) /\ Blank(t)' /\ ~Full(t) /\ ~Full(t)'
  BY <1>8, <1>9 DEF Blank, Full
<1>12. \A b : /\ Out(t, b)' => Out(t, b)
              /\ Out(t, b) => Out(t, b)'
              /\ ~Lost(t, b)
  BY <1>4, <1>8, <1>9 DEF Out, Keeps, Lost
<1> QED
  BY <1>2, <1>4, <1>7, <1>8, <1>9, <1>10, <1>11, <1>12, LoginEarly DEF Active

\* The agent has started: center.register.
LEMMA XLoginRegister ==
  ASSUME IInv, XInv, LoginResume, NEW m, IsHead("login", m), NEW t, t = m.t,
         lt[t].at = "start", L!Goto(t, "register"),
         To("login", "center", AskRegister(t, lt[t].uid, lt[t].key, lt[t].agent))
  PROVE  XInv'
<1>1. {"gate", "login", "center", "pool"} \subseteq Service /\ Agent \cap {"gate", "login", "center", "pool"} = {}
  BY Names
<1>2. t \in LoginTask /\ t \in Task /\ c[lt[t].fd].uid = Nil /\ m.op = "ret" /\ Plain(t)
  BY AnswerFacts DEF LoginResume
<1>3. Becomes(t, "register") /\ lt'[t].result = lt[t].result /\ lt'[t].agent = lt[t].agent
  BY <1>2, Goes, GoesResult DEF L!At
<1>4. PICK n : n = AskRegister(t, lt[t].uid, lt[t].key, lt[t].agent)
  OBVIOUS
<1>5. n \in Message /\ n.t = t /\ n.op = "register"
  <2>1. lt[t].uid \in Uid /\ lt[t].key \in Key
    BY <1>2, LoginFd
  <2>2. lt[t].agent \in Agent
    BY <1>2 DEF IInv, Chains, Stacks, Knows
  <2> QED
    BY <1>2, <1>4, <2>1, <2>2, Messages DEF AskRegister
<1>6. /\ LoginGoes(t) /\ Holds(t, "login", m) /\ Holds(t, "center", n)' /\ ~Has("login", t, "packet")'
      /\ ~InSession(t) /\ ~InSession(t)' /\ ~Clears(t) /\ ~Clears(t)'
  <2>1. "center" \in Service /\ "center" # "login" /\ To("login", "center", n) /\ n.t = t /\ n \in Message
    BY <1>1, <1>4, <1>5
  <2> QED
    BY <1>2, <1>3, <2>1, LoginSends
<1>7. lt'[t].at = "register" /\ Has("center", t, "register")'
  <2>1. Has("center", t, "register")'
    BY <1>1, <1>5, <1>6 DEF Holds
  <2> QED
    BY <1>3, <2>1 DEF Becomes
<1>8. Errand("center", n)' /\ Plain(t)'
  BY <1>1, <1>2, <1>3, <1>5, <1>7 DEF Errand, Plain
<1>9. Blank(t) /\ Blank(t)' /\ ~Full(t) /\ ~Full(t)'
  BY <1>6, <1>7 DEF Blank, Full
<1>10. \A b : /\ Out(t, b)' <=> Out(t, b)
              /\ ~Lost(t, b)
  BY <1>3, <1>6, <1>7 DEF Out, Keeps, Lost
<1> QED
  BY <1>1, <1>2, <1>3, <1>6, <1>7, <1>8, <1>9, <1>10, LoginEarly DEF Active

\* center.register has answered: gate.register.
LEMMA XLoginBind ==
  ASSUME IInv, XInv, LoginResume, NEW m, IsHead("login", m), NEW t, t = m.t,
         lt[t].at = "register", L!Goto(t, "gate"), To("login", "gate", AskBind(t, lt[t].fd, Mine(t)))
  PROVE  XInv'
<1>1. {"gate", "login", "center", "pool"} \subseteq Service /\ Agent \cap {"gate", "login", "center", "pool"} = {}
  BY Names
<1>2. t \in LoginTask /\ t \in Task /\ c[lt[t].fd].uid = Nil /\ m.op = "ret" /\ Plain(t)
  BY AnswerFacts DEF LoginResume
<1>3. Becomes(t, "gate") /\ lt'[t].result = lt[t].result /\ lt'[t].agent = lt[t].agent
  BY <1>2, Goes, GoesResult DEF L!At
<1>4. PICK n : n = AskBind(t, lt[t].fd, Mine(t))
  OBVIOUS
<1>5. n \in Message /\ n.t = t /\ n.op = "register"
  <2>1. lt[t].fd \in Fd /\ lt[t].uid \in Uid /\ lt[t].key \in Key
    BY <1>2, LoginFd
  <2>2. lt[t].agent \in Agent
    BY <1>2 DEF IInv, Chains, Stacks, Knows
  <2>3. Mine(t) \in G!Session
    BY <2>1, <2>2 DEF Mine, G!Session
  <2> QED
    BY <1>2, <1>4, <2>1, <2>3, Messages DEF AskBind
<1>6. /\ LoginGoes(t) /\ Holds(t, "login", m) /\ Holds(t, "gate", n)' /\ ~Has("login", t, "packet")'
      /\ ~InSession(t) /\ ~InSession(t)' /\ ~Clears(t) /\ ~Clears(t)'
  <2>1. "gate" \in Service /\ "gate" # "login" /\ To("login", "gate", n) /\ n.t = t /\ n \in Message
    BY <1>1, <1>4, <1>5
  <2> QED
    BY <1>2, <1>3, <2>1, LoginSends
<1>7. lt'[t].at = "gate" /\ Has("gate", t, "register")' /\ ~Has("center", t, "register")
  BY <1>1, <1>3, <1>5, <1>6 DEF Becomes, Holds
<1>8. Errand("gate", n)' /\ Plain(t)'
  BY <1>1, <1>2, <1>3, <1>5, <1>7 DEF Errand, Plain
<1>9. ~Blank(t) /\ ~Blank(t)' /\ Full(t) /\ Full(t)'
  BY <1>6, <1>7 DEF Blank, Full
<1>10. \A b : /\ Out(t, b)' <=> Out(t, b)
              /\ ~Lost(t, b)
  BY <1>3, <1>6, <1>7 DEF Out, Keeps, Lost
<1> QED
  BY <1>1, <1>2, <1>3, <1>6, <1>7, <1>8, <1>9, <1>10, LoginEarly DEF Active

\* gate.register has found the client gone: center.logout.
LEMMA XLoginUndo ==
  ASSUME IInv, XInv, LoginResume, NEW m, IsHead("login", m), NEW t, t = m.t,
         lt[t].at = "gate", m.val # "true", L!Undo(t, "undo_logout", "register_gate_fail"),
         To("login", "center", AskLogout(t, lt[t].uid, lt[t].key, "login"))
  PROVE  XInv'
<1>1. {"gate", "login", "center", "pool"} \subseteq Service /\ Agent \cap {"gate", "login", "center", "pool"} = {}
  BY Names
<1>2. t \in LoginTask /\ t \in Task /\ c[lt[t].fd].uid = Nil /\ m.op = "ret" /\ Plain(t)
  BY AnswerFacts DEF LoginResume
<1>3. Becomes(t, "undo_logout") /\ lt'[t].result = "register_gate_fail" /\ lt'[t].agent = lt[t].agent
  <2>1. "undo_logout" \in L!At /\ "register_gate_fail" \in L!Result
    BY DEF L!At, L!Result
  <2> QED
    BY <1>2, <2>1, Goes, GoesResult
<1>4. PICK n : n = AskLogout(t, lt[t].uid, lt[t].key, "login")
  OBVIOUS
<1>5. n \in Message /\ n.t = t /\ n.op = "logout" /\ n.uid = lt[t].uid /\ n.key = lt[t].key
  <2>1. lt[t].uid \in Uid /\ lt[t].key \in Key
    BY <1>2, LoginFd
  <2> QED
    BY <1>2, <1>4, <2>1, Messages DEF AskLogout, From
<1>6. /\ LoginGoes(t) /\ Holds(t, "login", m) /\ Holds(t, "center", n)' /\ ~Has("login", t, "packet")'
      /\ ~InSession(t) /\ ~InSession(t)' /\ ~Clears(t) /\ ~Clears(t)' /\ Subject(t)' = Mine(t)'
  <2>1. "center" \in Service /\ "center" # "login" /\ To("login", "center", n) /\ n.t = t /\ n \in Message
    BY <1>1, <1>4, <1>5
  <2> QED
    BY <1>2, <1>3, <2>1, LoginSends
<1>7. /\ lt'[t].at = "undo_logout" /\ ~Has("gate", t, "register")
      /\ lt'[t].uid = lt[t].uid /\ lt'[t].key = lt[t].key
  <2>1. ~Has("gate", t, "register")
    BY <1>1, <1>6 DEF Holds
  <2> QED
    BY <1>3, <2>1 DEF Becomes
<1>8. Errand("center", n)' /\ Plain(t)'
  <2>1. Subject(n.t)'.uid = lt[t].uid /\ Subject(n.t)'.key = lt[t].key
    BY <1>5, <1>6, <1>7 DEF Mine
  <2> QED
    BY <1>1, <1>3, <1>5, <1>7, <2>1 DEF Errand, Plain
<1>9. ~Blank(t) /\ ~Blank(t)' /\ ~Full(t) /\ ~Full(t)'
  BY <1>6, <1>7 DEF Blank, Full
<1>10. \A b : ~Out(t, b)' /\ ~Out(t, b) /\ ~Lost(t, b)
  BY <1>6, <1>7 DEF Out, Keeps, Lost
<1> QED
  BY <1>1, <1>2, <1>3, <1>6, <1>7, <1>8, <1>9, <1>10, LoginEarly DEF Active

\* A login that ends without a session.
LEMMA XLoginFails ==
  ASSUME IInv, XInv, LoginResume, NEW m, IsHead("login", m), NEW t, t = m.t, Eat("login"),
         NEW res \in L!Result, L!Done(t, res),
         \/ lt[t].at = "login" /\ m.val # "true" /\ res = "center_fail"
         \/ lt[t].at = "start" /\ m.val # "true" /\ res = "raised"
         \/ lt[t].at = "undo_logout" /\ res = lt[t].result
  PROVE  XInv'
<1>1. t \in LoginTask /\ t \in Task /\ c[lt[t].fd].uid = Nil /\ m.op = "ret" /\ Plain(t)
      /\ (lt[t].at = "start" => DbMayFail)
  BY AnswerFacts DEF LoginResume
<1>2. Becomes(t, "done") /\ lt'[t].result = res /\ lt'[t].agent = lt[t].agent
  BY <1>1, Goes, GoesResult DEF L!At
<1>3. /\ LoginGoes(t) /\ Holds(t, "login", m) /\ HoldsNone(t)' /\ ~Has("login", t, "packet")'
      /\ ~InSession(t) /\ ~InSession(t)' /\ ~Clears(t) /\ ~Clears(t)'
  BY ZenonT(60), <1>1, <1>2, LoginReturns
<1>4. lt'[t].at = "done" /\ (lt[t].at = "login" => ~Says("login", t, "true"))
  BY <1>2, <1>3, Names DEF Becomes, Holds
<1>5. lt[t].at # "start" => res # "raised"
  BY <1>1 DEF Plain
<1>6. Plain(t)'
  BY <1>1, <1>2, <1>4, <1>5 DEF Plain
<1>7. (Blank(t)' <=> Blank(t)) /\ ~Full(t) /\ ~Full(t)'
  BY <1>2, <1>3, <1>4, <1>5 DEF Blank, Full
<1>8. \A b : ~Out(t, b)' /\ (Out(t, b) => Lost(t, b)') /\ ~Lost(t, b)
  BY <1>2, <1>3, <1>4 DEF Out, Keeps, Lost
<1> QED
  BY <1>1, <1>2, <1>3, <1>4, <1>6, <1>7, <1>8, LoginEarly DEF Active

\* gate.register has made the session: the login ends.
LEMMA XLoginOk ==
  ASSUME IInv, XInv, LoginResume, NEW m, IsHead("login", m), NEW t, t = m.t, Eat("login"),
         L!Done(t, "ok"), lt[t].at = "gate"
  PROVE  XInv'
<1>1. t \in LoginTask /\ t \in Task /\ {"gate", "login", "center", "pool"} \subseteq Service
  BY AnswerFacts, Names DEF LoginResume
<1>2. Becomes(t, "done") /\ lt'[t].result = "ok" /\ lt'[t].agent = lt[t].agent
  BY <1>1, Goes, GoesResult DEF L!At, L!Result
<1>3. /\ LoginGoes(t) /\ Holds(t, "login", m) /\ HoldsNone(t)'
  BY <1>1, <1>2, LoginReturns
<1>4. /\ Local(t) /\ users' = users /\ UNCHANGED <<pool, born, dead, c, connection>> /\ Closer(t)'
      /\ ~Clears(t) /\ ~Clears(t)'
      /\ \A f : (EndsIt(t, f)' <=> EndsIt(t, f)) /\ (Hands(t, f)' <=> Hands(t, f))
  BY <1>1, <1>3, LoginLocal
<1>5. /\ lt'[t].at = "done" /\ lt'[t].fd = lt[t].fd /\ lt'[t].uid = lt[t].uid /\ lt'[t].key = lt[t].key
      /\ ~Has("gate", t, "register") /\ ~Has("gate", t, "register")'
      /\ \A fd : ~Wants(t, fd)'
  BY <1>1, <1>2, <1>3, AnswerFacts DEF Becomes, Holds, HoldsNone, LoginResume, Active
<1>6. \A s \in Service, x \in Message : In(s, x)' /\ x.t = t => Errand(s, x)'
  BY <1>3 DEF HoldsNone
<1>7. \A x \in LoginTask : x # t /\ lt'[t].at # "idle" /\ lt[x].at # "idle" => lt'[t].key # lt[x].key
  BY <1>1, <1>5 DEF XInv, RInv, UniqueKeys
<1>8. \A fd \in Fd : SessionOf(t, fd) => SessionOf(t, fd)'
  BY <1>2, <1>4, <1>5 DEF SessionOf
<1>9. Plain(t)'
  BY <1>2, <1>5 DEF Plain
<1>10. RInv'
  BY <1>1, <1>4, <1>5, <1>6, <1>7, <1>8, <1>9, RestStep DEF XInv
<1>11. InSession(t)' <=> InSession(t)
  BY <1>4, <1>5 DEF InSession, Session
<1>12. PICK f : f = lt[t].fd
  OBVIOUS
<1>13. (Ended(f)' <=> Ended(f)) /\ (Returned(f)' <=> Returned(f))
  BY <1>4, EndedKept, ReturnedKept DEF Local
<1>14. /\ Ended(lt[t].fd)' <=> Ended(f)'
       /\ Returned(lt[t].fd)' <=> Returned(f)'
  BY <1>5, <1>12 DEF Ended, Returned, EndsIt, Hands, Closes, LoggedOut, Back, Has
<1>15. ~Blank(t) /\ ~Blank(t)' /\ (Full(t)' <=> Full(t))
  BY <1>2, <1>4, <1>5, <1>11, <1>12, <1>13, <1>14 DEF Blank, Full
<1>16. \A b : (Out(t, b)' <=> Out(t, b)) /\ ~Lost(t, b)
  BY <1>2, <1>4, <1>5, <1>11, <1>12, <1>13, <1>14 DEF Out, Keeps, Lost
<1>17. Records'
  BY <1>2, <1>4, <1>5, <1>15, RecordsSame DEF XInv
<1>18. Owned' /\ Lossless'
  BY <1>4, <1>16, OwnedSame DEF XInv
<1> QED
  BY <1>10, <1>17, <1>18 DEF XInv

LEMMA XLoginResume ==
  ASSUME IInv, XInv, LoginResume
  PROVE  XInv'
<1>1. PICK m : IsHead("login", m)
  BY DEF IsHead
<1>2. PICK t, l : t = m.t /\ l = lt[t]
  OBVIOUS
<1>3. /\ l.at \in Waits \ {"undo_recycle"} /\ (l.at = "register" => m.val = "true") /\ l.result \in L!Result
  <2>1. lt[t] \in LoginRec
    BY <1>1, <1>2, AnswerFacts, StateFacts DEF LoginResume, LoginRec
  <2> QED
    BY <1>1, <1>2, <2>1, AnswerFacts DEF LoginResume, LoginRec
<1>4. Mine(t) = [uid |-> l.uid, agent |-> l.agent, key |-> l.key]
  BY <1>2 DEF Mine
<1>5. \/ l.at = "login" /\ m.val = "true" /\ L!Goto(t, "get") /\ To("login", "pool", AskGet(t))
      \/ l.at = "login" /\ m.val # "true" /\ L!Done(t, "center_fail") /\ Eat("login")
      \/ l.at = "get" /\ L!Take(t, m.agent) /\ To("login", m.agent, AskAgent(t, A!Start(l.fd, l.uid)))
      \/ l.at = "start" /\ L!Goto(t, "register") /\ To("login", "center", AskRegister(t, l.uid, l.key, l.agent))
      \/ l.at = "start" /\ m.val # "true" /\ L!Done(t, "raised") /\ Eat("login")
      \/ l.at = "register" /\ L!Goto(t, "gate") /\ To("login", "gate", AskBind(t, l.fd, Mine(t)))
      \/ l.at = "gate" /\ L!Done(t, "ok") /\ Eat("login")
      \/ l.at = "gate" /\ m.val # "true" /\ L!Undo(t, "undo_logout", "register_gate_fail")
           /\ To("login", "center", AskLogout(t, l.uid, l.key, "login"))
      \/ l.at = "undo_logout" /\ L!Done(t, l.result) /\ Eat("login")
  BY SMTT(60), ZenonT(60), <1>1, <1>2, <1>3, <1>4 DEF LoginResume, LoginStep, IsHead
<1>6. {"center_fail", "raised", "ok"} \subseteq L!Result
  BY DEF L!Result
<1> QED
  BY <1>1, <1>2, <1>3, <1>5, <1>6, XLoginGet, XLoginTake, XLoginRegister, XLoginBind, XLoginUndo, XLoginFails, XLoginOk

-----------------------------------------------------------------------------
(* The whole system.                                                         *)

LEMMA XInit ==
  ASSUME Init
  PROVE  XInv
<1>1. IInv
  BY InitInv
<1>2. /\ G!Init /\ C!CenterInit /\ P!PoolInit /\ A!AgentInit /\ L!LoginInit
      /\ mq = [s \in Service |-> << >>]
  BY DEF Init
<1>3. /\ \A t \in Task : /\ lt[t].at = "idle" /\ lt[t].result = "none" /\ task[t] = G!Idle
                         /\ logging[t] = Nil /\ leaving[t] = Nil
      /\ \A u \in Uid : users[u] = Nil
      /\ \A fd \in Fd : c[fd].uid = Nil
      /\ pool["agentpool1"] = << >> /\ born = {} /\ dead = {}
  BY <1>2 DEF G!Init, G!NewRecord, C!CenterInit, P!PoolInit, L!LoginInit, L!Fresh
<1>4. \A s \in Service : DOMAIN mq[s] = {}
  BY <1>2
<1>5. LoginTask \subseteq Task /\ {"gate", "login", "center", "pool"} \subseteq Service
  BY Names
<1>6. \A x \in Task : ~Closes(x) /\ ~Clears(x)
  BY <1>3 DEF Closes, Clears
<1>7. ASSUME NEW t \in LoginTask
      PROVE  ~Blank(t) /\ ~Full(t) /\ \A a : ~Out(t, a)
  <2>1. lt[t].at = "idle" /\ ~Clears(t) /\ ~InSession(t)
    BY <1>3, <1>5, <1>6 DEF InSession
  <2> QED
    BY <2>1 DEF Blank, Full, Out, Keeps
<1>8. Records
  BY <1>3, <1>7 DEF Records, Recorded, Justified
<1>9. Owned /\ Lossless
  <2>1. \A a : ~InPool(a)
    BY <1>3 DEF InPool, Pooled
  <2>2. DOMAIN Pooled = {}
    BY <1>3 DEF Pooled
  <2> QED
    BY <1>3, <1>7, <2>1, <2>2 DEF Owned, Lossless
<1>10. UniqueKeys /\ Sessions
  BY <1>3, <1>5 DEF UniqueKeys, Sessions
<1>11. Patience
  BY <1>3, <1>4, <1>5 DEF Patience, Wants, Active
<1>12. Errands
  BY <1>3, <1>4, <1>6 DEF Errands, Closer, Plain
<1> QED
  BY <1>8, <1>9, <1>10, <1>11, <1>12 DEF XInv, RInv

LEMMA XNext ==
  ASSUME Patient = Fd, IInv, XInv, OneCloser, [Next]_vars
  PROVE  XInv'
<1>1. CASE UNCHANGED vars
  <2>1. UNCHANGED <<mq, task, centerV, poolV, agentV, loginV>> /\ SameSessions
    BY <1>1 DEF vars, gateV, SameSessions
  <2> QED
    BY <2>1, NobodyStays
<1>2. ASSUME NEW fd \in Fd, GateSocket(fd) PROVE XInv'
  BY <1>2, XGateSocket
<1>3. ASSUME NEW fd \in Fd, NEW t \in LoginTask, NEW u \in Uid, GatePacket(t, fd, u)
      PROVE  XInv'
  BY <1>3, XGatePacket
<1>4. ASSUME NEW fd \in Fd, NEW t \in CloseTask, GateClose(t, fd) \/ GateFrame(t, fd)
      PROVE  XInv'
  BY <1>4, XGateClose
<1>5. CASE GateKick
  BY <1>5, XGateKick
<1>6. CASE GateRegister
  BY <1>6, XGateRegister
<1>7. CASE GateResume
  BY <1>7, XGateResume
<1>8. CASE CenterLogin
  BY <1>8, XCenterLogin
<1>9. CASE CenterRegister
  BY <1>9, XCenterRegister
<1>10. CASE CenterLogout
  BY <1>10, XCenterLogout
<1>11. CASE CenterResume
  BY <1>11, XCenterResume
<1>12. CASE PoolStart
  BY <1>12, XPoolStart
<1>13. CASE PoolGet
  BY <1>13, XPoolGet
<1>14. CASE PoolRecycle
  BY <1>14, XPoolRecycle
<1>15. CASE LoginPacket
  BY <1>15, XLoginPacket
<1>16. CASE LoginResume
  BY <1>16, XLoginResume
<1>17. ASSUME NEW t \in LoginTask, LoginAuth(t) PROVE XInv'
  BY <1>17, XLoginAuth
<1>18. ASSUME NEW t \in LoginTask, PoolNew(t) PROVE XInv'
  BY <1>18, XPoolNew
<1>19. ASSUME NEW a \in Agent, AgentCommand(a) PROVE XInv'
  BY <1>19, XAgentCommand
<1>20. ASSUME NEW a \in Agent, AgentGone(a) PROVE XInv'
  BY <1>20, NotGone DEF AgentGone
<1>21. ASSUME NEW a \in Agent, AgentDone(a) \/ AgentFail(a) PROVE XInv'
  BY <1>21, XAgentEnds
<1> QED
  BY <1>1, <1>2, <1>3, <1>4, <1>5, <1>6, <1>7, <1>8, <1>9, <1>10, <1>11, <1>12, <1>13, <1>14,
     <1>15, <1>16, <1>17, <1>18, <1>19, <1>20, <1>21 DEF Next

\* A login with a full record has an agent, and that agent is out for it.
LEMMA FullKeeps ==
  ASSUME IInv, XInv, NEW t \in LoginTask, Full(t)
  PROVE  Keeps(t) /\ lt[t].agent \in Agent /\ Out(t, lt[t].agent)
<1>1. t \in Task
  BY Names
<1>2. \A x : Back(x) => LoggedOut(x)
  BY DEF Back, LoggedOut
<1>3. \A fd : Returned(fd) => Ended(fd)
  BY <1>2 DEF Returned, Ended, Hands, EndsIt
<1>4. Keeps(t)
  BY <1>2, <1>3 DEF Full, Keeps
<1>5. lt[t].at \in {"register", "gate"} => lt[t].agent \in Agent
  BY <1>1 DEF IInv, Chains, Stacks, Knows
<1>6. Clears(t) => lt[t].at = "gate"
  BY <1>1, CloserFd DEF Clears
<1>7. InSession(t) => lt[t].agent \in Agent
  <2> SUFFICES ASSUME InSession(t) PROVE lt[t].agent \in Agent
    OBVIOUS
  <2>1. lt[t].fd \in Fd /\ c[lt[t].fd].uid # Nil /\ lt[t].at # "idle" /\ c[lt[t].fd].key = lt[t].key
    BY <1>1, LoginFd DEF InSession, Session
  <2>2. PICK p \in LoginTask : SessionOf(p, lt[t].fd)
    BY <2>1 DEF XInv, RInv, Sessions
  <2>3. p = t
    BY <2>1, <2>2 DEF XInv, RInv, UniqueKeys, SessionOf
  <2> QED
    BY <2>2, <2>3 DEF SessionOf
<1>8. lt[t].agent \in Agent
  BY <1>5, <1>6, <1>7 DEF Full
<1> QED
  BY <1>4, <1>8 DEF Out

\* A record with an agent is the record of a login that has the agent.
LEMMA RecordLogin ==
  ASSUME IInv, XInv, NEW u \in Uid, users[u] # Nil
  PROVE  \E t \in LoginTask :
           /\ lt[t].uid = u /\ (Blank(t) \/ Full(t)) /\ users[u].key = lt[t].key /\ users[u].fd = lt[t].fd
           /\ users[u].agent # Nil => Full(t) /\ users[u].agent = lt[t].agent /\ Out(t, users[u].agent)
           /\ users[u].agent = Nil => Blank(t)
<1>1. PICK t \in LoginTask : lt[t].uid = u /\ (Blank(t) \/ Full(t))
  BY DEF XInv, Records, Justified
<1>2. /\ users[u].fd = lt[t].fd /\ users[u].key = lt[t].key
      /\ Full(t) => users[u].agent = lt[t].agent
      /\ ~Full(t) => users[u].agent = Nil
  BY <1>1, RecordIs DEF XInv
<1>3. Full(t) => lt[t].agent \in Agent /\ Out(t, lt[t].agent)
  BY FullKeeps
<1> QED
  BY <1>1, <1>2, <1>3, Names

LEMMA SessionsExclusive ==
  ASSUME IInv, XInv
  PROVE  AgentExclusive
<1> SUFFICES ASSUME NEW a \in Agent, Online(a) # {}
             PROVE  a \notin dead /\ Idle(a) = {} /\ Cardinality(Online(a)) = 1
  BY DEF AgentExclusive
<1>1. a # Nil
  BY Names
<1>2. PICK u \in Uid : u \in Online(a)
  BY DEF Online
<1>3. ASSUME NEW v \in Online(a)
      PROVE  \E t \in LoginTask : lt[t].uid = v /\ Out(t, a)
  <2>1. v \in Uid /\ users[v] # Nil /\ users[v].agent = a
    BY DEF Online
  <2> QED
    BY <1>1, <2>1, RecordLogin
<1>4. PICK t \in LoginTask : lt[t].uid = u /\ Out(t, a)
  BY <1>2, <1>3
<1>5. a \notin dead /\ ~InPool(a) /\ \A x \in LoginTask : Out(x, a) => x = t
  BY <1>4 DEF XInv, Owned
<1>6. Online(a) = {u}
  BY <1>2, <1>3, <1>4, <1>5
<1>7. Idle(a) = {}
  <2>1. pool["agentpool1"] \in Seq(Agent)
    BY PoolFacts
  <2> QED
    BY <1>5, <2>1 DEF Idle, InPool, Pooled
<1>8. Cardinality(Online(a)) = 1
  BY <1>6, FS_Singleton
<1> QED
  BY <1>5, <1>7, <1>8

LEMMA SessionsRecords ==
  ASSUME IInv, XInv, ~DbMayFail, TypeOK
  PROVE  RecordMeansLogin
<1> SUFFICES ASSUME NEW u \in Uid, users[u] # Nil, users[u].agent = Nil
             PROVE  \E t \in LoginTask :
                      /\ lt[t].uid = u /\ lt[t].key = users[u].key
                      /\ lt[t].at \in {"login", "get", "start", "register"}
  BY DEF RecordMeansLogin
<1>1. PICK t \in LoginTask : lt[t].uid = u /\ users[u].key = lt[t].key /\ Blank(t)
  BY RecordLogin
<1>2. lt[t].result # "raised"
  BY Names DEF XInv, RInv, Errands, Plain
<1> QED
  BY <1>1, <1>2 DEF Blank

\* When nothing is under way, the logins with a record or an agent are those
\* the gateway has the session of.
LEMMA QuietLogins ==
  ASSUME IInv, XInv, ~DbMayFail, Quiet, NEW t \in LoginTask
  PROVE  /\ ~Blank(t) /\ (Full(t) <=> InSession(t))
         /\ \A a : ~Lost(t, a) /\ (Out(t, a) <=> InSession(t) /\ lt[t].agent = a)
<1>1. t \in Task /\ {"gate", "login", "center", "pool"} \subseteq Service
  BY Names
<1>2. \A x \in Task : task[x] = G!Idle
  BY GateFacts, StateFacts DEF Quiet
<1>3. ~Clears(t) /\ (\A fd : ~Ended(fd)) /\ (\A fd : ~Returned(fd))
  BY <1>1, <1>2 DEF Clears, Ended, Returned, EndsIt, Hands, Closes
<1>4. lt[t].at \in {"idle", "done"} /\ lt[t].result # "raised"
  BY <1>1 DEF Quiet, XInv, RInv, Errands, Plain
<1>5. ~Blank(t) /\ (Full(t) <=> InSession(t))
  BY <1>3, <1>4 DEF Blank, Full
<1>6. Keeps(t) <=> InSession(t)
  BY <1>3, <1>4 DEF Keeps
<1> QED
  BY <1>4, <1>5, <1>6 DEF Out, Lost

LEMMA QuietSession ==
  ASSUME IInv, XInv, NEW t \in LoginTask, InSession(t)
  PROVE  /\ lt[t].fd \in connection /\ lt[t].fd \in Fd /\ lt[t].uid \in Uid /\ lt[t].agent \in Agent
         /\ c[lt[t].fd] = [uid |-> lt[t].uid, agent |-> lt[t].agent, key |-> lt[t].key]
<1>1. t \in Task
  BY Names
<1>2. /\ lt[t].fd \in Fd /\ lt[t].uid \in Uid /\ lt[t].at # "idle" /\ c[lt[t].fd].key = lt[t].key
      /\ lt[t].fd \in connection /\ c[lt[t].fd].uid # Nil
  BY <1>1, LoginFd DEF InSession, Session
<1>3. PICK p \in LoginTask : SessionOf(p, lt[t].fd)
  BY <1>2 DEF XInv, RInv, Sessions
<1>4. p = t
  BY <1>2, <1>3 DEF XInv, RInv, UniqueKeys, SessionOf
<1>5. c[lt[t].fd] \in G!Record
  BY <1>2, StateFacts, GateFacts
<1>6. c[lt[t].fd].uid = lt[t].uid /\ c[lt[t].fd].agent = lt[t].agent /\ lt[t].agent \in Agent
  BY <1>2, <1>3, <1>4 DEF SessionOf
<1> QED
  BY <1>2, <1>5, <1>6 DEF G!Record

LEMMA SessionsAtRest ==
  ASSUME IInv, XInv, ~DbMayFail
  PROVE  AtRest
<1> SUFFICES ASSUME Quiet
             PROVE  /\ \A u \in Uid : users[u] # Nil =>
                         /\ users[u].fd \in connection
                         /\ c[users[u].fd] = [uid |-> u, agent |-> users[u].agent, key |-> users[u].key]
                    /\ \A fd \in connection : c[fd].uid # Nil =>
                         users[c[fd].uid] = [fd |-> fd, key |-> c[fd].key, agent |-> c[fd].agent]
                    /\ \A a \in born \ dead : Cardinality(Idle(a)) + Cardinality(Online(a)) = 1
  BY DEF AtRest
<1>1. ASSUME NEW u \in Uid, users[u] # Nil
      PROVE  /\ users[u].fd \in connection
             /\ c[users[u].fd] = [uid |-> u, agent |-> users[u].agent, key |-> users[u].key]
  <2>1. PICK t \in LoginTask : /\ lt[t].uid = u /\ (Blank(t) \/ Full(t))
                               /\ users[u].key = lt[t].key /\ users[u].fd = lt[t].fd
                               /\ users[u].agent # Nil => users[u].agent = lt[t].agent
                               /\ users[u].agent = Nil => Blank(t)
    BY <1>1, RecordLogin
  <2>2. InSession(t) /\ ~Blank(t)
    BY <2>1, QuietLogins
  <2> QED
    BY <2>1, <2>2, QuietSession
<1>2. ASSUME NEW fd \in connection, c[fd].uid # Nil
      PROVE  users[c[fd].uid] = [fd |-> fd, key |-> c[fd].key, agent |-> c[fd].agent]
  <2>1. fd \in Fd
    BY GateFacts, StateFacts
  <2>2. PICK t \in LoginTask : SessionOf(t, fd)
    BY <1>2, <2>1 DEF XInv, RInv, Sessions
  <2>3. /\ lt[t].fd = fd /\ lt[t].uid = c[fd].uid /\ lt[t].key = c[fd].key /\ lt[t].agent = c[fd].agent
        /\ InSession(t)
    BY <1>2, <2>2 DEF SessionOf, InSession, Session
  <2>4. Full(t)
    BY <2>3, QuietLogins
  <2> QED
    BY <2>3, <2>4 DEF XInv, Records, Recorded, Rec
<1>3. ASSUME NEW a \in born \ dead
      PROVE  Cardinality(Idle(a)) + Cardinality(Online(a)) = 1
  <2>1. a \in Agent /\ pool["agentpool1"] \in Seq(Agent)
    BY PoolFacts
  <2>2. CASE InPool(a)
    <3>1. PICK i \in DOMAIN Pooled : Pooled[i] = a
      BY <2>2 DEF InPool
    <3>2. Idle(a) = {i}
      BY <2>1, <3>1 DEF XInv, Owned, Idle, Pooled
    <3>3. Online(a) = {}
      BY <2>1, <3>2, SessionsExclusive DEF AgentExclusive
    <3> QED
      BY <3>2, <3>3, FS_Singleton, FS_EmptySet
  <2>3. CASE ~InPool(a)
    <3>1. PICK t \in LoginTask : Out(t, a)
      BY <2>3, QuietLogins DEF XInv, Lossless
    <3>2. InSession(t) /\ lt[t].agent = a /\ Full(t)
      BY <3>1, QuietLogins
    <3>3. lt[t].uid \in Uid
      BY <3>2, QuietSession
    <3>4. lt[t].uid \in Online(a)
      BY <3>2, <3>3, RecordIs DEF XInv, Online
    <3>5. Idle(a) = {} /\ Cardinality(Online(a)) = 1
      BY <2>1, <3>4, SessionsExclusive DEF AgentExclusive
    <3> QED
      BY <3>5, FS_EmptySet
  <2> QED
    BY <2>2, <2>3
<1> QED
  BY <1>1, <1>2, <1>3

-----------------------------------------------------------------------------
(* The theorems.  The clients wait for the answer to a login before they     *)
(* send another one (Patient = Fd), and close_agent runs once at a time for  *)
(* a connection (OneCloser); the players, clients, agents and logins are as  *)
(* many as one likes, whatever overlaps.                                     *)

LEMMA SessionInv ==
  ASSUME Patient = Fd
  PROVE  Spec /\ []OneCloser => [](IInv /\ XInv)
<1>1. Init => IInv /\ XInv
  BY InitInv, XInit
<1>2. IInv /\ XInv /\ OneCloser /\ [Next]_vars => IInv' /\ XInv'
  BY NextInv, XNext
<1> QED
  BY <1>1, <1>2, PTL DEF Spec

\* A player that is online has a live agent of its own, which no other player
\* has and which the pool does not hold, whatever kicks, hangups and logins
\* overlap: center/login.lua, gate.lua and agentpool.lua together never hand an
\* agent out twice.
THEOREM SessionsKeepAgent ==
  ASSUME Patient = Fd
  PROVE  Spec /\ []OneCloser => []AgentExclusive
<1>1. Spec /\ []OneCloser => [](IInv /\ XInv)
  BY SessionInv
<1>2. IInv /\ XInv => AgentExclusive
  BY SessionsExclusive
<1> QED
  BY <1>1, <1>2, PTL

\* When the database answers, a record of center/login.lua that has no agent
\* always belongs to a login under way that has still to register: the player
\* the center refuses for it is not locked out.
THEOREM SessionsRecordMeansLogin ==
  ASSUME Patient = Fd, ~DbMayFail
  PROVE  Spec /\ []OneCloser => []RecordMeansLogin
<1>1. Spec /\ []OneCloser => [](IInv /\ XInv)
  BY SessionInv
<1>2. Spec => []TypeOK
  BY FlowType
<1>3. IInv /\ XInv /\ TypeOK => RecordMeansLogin
  BY SessionsRecords
<1> QED
  BY <1>1, <1>2, <1>3, PTL

\* When the database answers and nothing is under way, the tables agree: the
\* users of center/login.lua are the sessions of gate.lua, and every agent alive
\* is in agentpool.lua once or has one player.  No path of login, logout and
\* undoing loses an agent or a session.
THEOREM SessionsAgreeAtRest ==
  ASSUME Patient = Fd, ~DbMayFail
  PROVE  Spec /\ []OneCloser => []AtRest
<1>1. Spec /\ []OneCloser => [](IInv /\ XInv)
  BY SessionInv
<1>2. IInv /\ XInv => AtRest
  BY SessionsAtRest
<1> QED
  BY <1>1, <1>2, PTL

\* The record that lib.logout of center/login.lua deletes after agent.kick has
\* answered is the one it was called for: nothing has replaced it during the
\* yield.
THEOREM SessionsKeyGuardsLogout ==
  ASSUME Patient = Fd
  PROVE  Spec /\ []OneCloser => KeyGuardsLogout
<1> DEFINE Guarded == \A t \in Task : (leaving[t] # Nil /\ leaving'[t] = Nil) =>
                        LET u == leaving[t].uid IN
                        (users[u] # Nil /\ users'[u] = Nil) => users[u].key = leaving[t].key
<1>1. Spec /\ []OneCloser => [](IInv /\ XInv)
  BY SessionInv
<1>2. IInv /\ XInv /\ OneCloser => [Guarded]_vars
  BY LeavingRecord DEF XInv
<1> QED
  BY <1>1, <1>2, PTL DEF KeyGuardsLogout
=============================================================================
