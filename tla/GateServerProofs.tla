-------------------------- MODULE GateServerProofs --------------------------
(***************************************************************************)
(* TypeOK, CountExact and Routable of GateServer, for every number of      *)
(* clients, coroutines and every limit, in both builds.                    *)
(***************************************************************************)
EXTENDS GateServer, FiniteSetTheorems, TLAPS

GS == [conn : [Fd -> ConnState], client_number : Int]

\* The table g counts what it keeps.
Counted(g) ==
  /\ g \in GS
  /\ IsFiniteSet(Kept(g))
  /\ g.client_number = Cardinality(Kept(g))

\* A socket the gateserver was not told of has no entry anywhere; this is why
\* MSG.open always counts a new fd.
FreshUnknown ==
  \A fd \in Fd : sock[fd] = "fresh" => gs.conn[fd] = "nil"

IInv == TypeOK /\ Counted(gs) /\ gs.client_number <= MaxClient /\ Routable /\ FreshUnknown

-----------------------------------------------------------------------------
\* An entry that is not "nil" leaves the table and the count drops by one.
LEMMA DropOne ==
  ASSUME NEW g, Counted(g), NEW fd \in Fd, fd \in Kept(g)
  PROVE  LET h == [conn |-> [g.conn EXCEPT ![fd] = "nil"],
                   client_number |-> g.client_number - 1]
         IN  Counted(h) /\ h.client_number <= g.client_number
<1> DEFINE h == [conn |-> [g.conn EXCEPT ![fd] = "nil"],
                 client_number |-> g.client_number - 1]
<1>1. h \in GS
  BY DEF Counted, GS, ConnState
<1>2. Kept(h) = Kept(g) \ {fd}
  BY DEF Kept, Counted, GS
<1>3. IsFiniteSet(Kept(h)) /\ Cardinality(Kept(h)) = Cardinality(Kept(g)) - 1
  BY <1>2, FS_RemoveElement DEF Counted
<1>4. h.client_number = Cardinality(Kept(h))
  BY <1>3 DEF Counted
<1>5. h.client_number <= g.client_number
  BY DEF Counted, GS
<1> QED
  BY <1>1, <1>3, <1>4, <1>5 DEF Counted

\* closeclient keeps the count exact; fd is not live any more, and nothing
\* else changes.
LEMMA CloseClient ==
  ASSUME NEW g, Counted(g), NEW fd \in Fd
  PROVE  /\ Counted(closeclient(g, fd))
         /\ closeclient(g, fd).client_number <= g.client_number
         /\ Live(closeclient(g, fd)) = Live(g) \ {fd}
         /\ \A f \in Fd : g.conn[f] = "nil" => closeclient(g, fd).conn[f] = "nil"
<1>1. CASE fd \notin Live(g)
  BY <1>1 DEF closeclient, Counted, GS
<1>2. CASE fd \in Live(g) /\ proto = "ws"
  <2>1. fd \in Kept(g)
    BY <1>2 DEF Live, Kept
  <2>2. closeclient(g, fd) = [conn |-> [g.conn EXCEPT ![fd] = "nil"],
                              client_number |-> g.client_number - 1]
    BY <1>2 DEF closeclient
  <2>3. Counted(closeclient(g, fd))
        /\ closeclient(g, fd).client_number <= g.client_number
    BY <2>1, <2>2, DropOne
  <2> QED
    BY <2>2, <2>3 DEF Live, Counted, GS
<1>3. CASE fd \in Live(g) /\ proto # "ws"
  <2>1. closeclient(g, fd) = [conn |-> [g.conn EXCEPT ![fd] = "closed"],
                              client_number |-> g.client_number]
    BY <1>3 DEF closeclient
  <2>2. closeclient(g, fd) \in GS
    BY <2>1 DEF Counted, GS, ConnState
  <2>3. Kept(closeclient(g, fd)) = Kept(g)
    BY <1>3, <2>1 DEF Kept, Live, Counted, GS
  <2> QED
    BY <1>3, <2>1, <2>2, <2>3 DEF Live, Counted, GS
<1> QED
  BY <1>1, <1>2, <1>3

\* close_fd forgets fd and keeps the count exact.
LEMMA CloseFd ==
  ASSUME NEW g, Counted(g), NEW fd \in Fd
  PROVE  /\ Counted(close_fd(g, fd))
         /\ close_fd(g, fd).client_number <= g.client_number
         /\ Live(close_fd(g, fd)) = Live(g) \ {fd}
         /\ \A f \in Fd : g.conn[f] = "nil" => close_fd(g, fd).conn[f] = "nil"
<1>1. CASE fd \notin Kept(g)
  BY <1>1 DEF close_fd, Counted, GS, Kept, Live
<1>2. CASE fd \in Kept(g)
  <2>1. close_fd(g, fd) = [conn |-> [g.conn EXCEPT ![fd] = "nil"],
                           client_number |-> g.client_number - 1]
    BY <1>2 DEF close_fd
  <2>2. Counted(close_fd(g, fd)) /\ close_fd(g, fd).client_number <= g.client_number
    BY <1>2, <2>1, DropOne
  <2> QED
    BY <2>1, <2>2 DEF Live, Counted, GS
<1> QED
  BY <1>1, <1>2

\* The end of close_agent, with or without the close_fd of an event.
LEMMA Finish ==
  ASSUME NEW g, Counted(g), NEW fd \in Fd, NEW src
  PROVE  /\ Counted(finish(g, fd, src))
         /\ finish(g, fd, src).client_number <= g.client_number
         /\ Live(finish(g, fd, src)) = Live(g) \ {fd}
         /\ \A f \in Fd : g.conn[f] = "nil" => finish(g, fd, src).conn[f] = "nil"
<1> DEFINE g1 == closeclient(g, fd)
<1>1. /\ Counted(g1) /\ g1.client_number <= g.client_number
      /\ Live(g1) = Live(g) \ {fd}
      /\ \A f \in Fd : g.conn[f] = "nil" => g1.conn[f] = "nil"
  BY CloseClient
<1> HIDE DEF g1
<1>2. /\ Counted(close_fd(g1, fd)) /\ close_fd(g1, fd).client_number <= g1.client_number
      /\ Live(close_fd(g1, fd)) = Live(g1) \ {fd}
      /\ \A f \in Fd : g1.conn[f] = "nil" => close_fd(g1, fd).conn[f] = "nil"
  BY <1>1, CloseFd
<1>3. close_fd(g1, fd).client_number <= g.client_number
  BY <1>1, <1>2 DEF Counted, GS
<1>4. finish(g, fd, src) = IF src = "kick" THEN g1 ELSE close_fd(g1, fd)
  BY DEF finish, g1
<1> QED
  BY <1>1, <1>2, <1>3, <1>4

-----------------------------------------------------------------------------
\* The invariant holds before the listen socket is opened.
LEMMA InitIInv == Init => IInv
<1> SUFFICES ASSUME Init PROVE IInv
  OBVIOUS
<1>1. TypeOK
  BY DEF Init, TypeOK, ConnState, Record, NewRecord, Suspended, Idle
<1>2. Kept(gs) = {} /\ Live(gs) = {}
  BY DEF Init, Kept, Live
<1>3. Counted(gs) /\ gs.client_number <= MaxClient
  BY SMTT(60), <1>1, <1>2, FS_EmptySet, GateConstants DEF Init, Counted, GS, TypeOK
<1> QED
  BY <1>1, <1>2, <1>3 DEF IInv, Routable, FreshUnknown, Init

\* A step that leaves the gateserver table, the records of live fds and the
\* fresh sockets alone keeps the parts of the invariant that speak of them.
LEMMA SameTable ==
  ASSUME IInv, TypeOK', gs' = gs,
         connection' = connection,
         \A fd \in Live(gs) : c'[fd] = c[fd] \/ c'[fd].agent # Nil,
         \A fd \in Fd : sock'[fd] = "fresh" => sock[fd] = "fresh"
  PROVE  IInv'
<1>1. Counted(gs)' /\ gs'.client_number <= MaxClient
  BY DEF IInv, Counted, Kept
<1>2. Routable'
  BY DEF IInv, Routable, Live
<1>3. FreshUnknown'
  BY DEF IInv, FreshUnknown
<1> QED
  BY <1>1, <1>2, <1>3 DEF IInv

\* The steps that drop fd from the tables.
LEMMA Dropping ==
  ASSUME IInv, TypeOK', NEW fd \in Fd,
         Counted(gs'), gs'.client_number <= gs.client_number,
         Live(gs') = Live(gs) \ {fd},
         \A f \in Fd : gs.conn[f] = "nil" => gs'.conn[f] = "nil",
         connection \ {fd} \subseteq connection',
         \A f \in Fd \ {fd} : c'[f] = c[f],
         \A f \in Fd : sock'[f] = "fresh" => sock[f] = "fresh"
  PROVE  IInv'
<1>1. gs'.client_number <= MaxClient
  BY GateConstants DEF IInv, Counted, GS
<1>2. Routable'
  <2> SUFFICES ASSUME NEW f \in Live(gs') PROVE f \in connection' /\ (c'[f].uid # Nil => c'[f].agent # Nil)
    BY DEF Routable, Live
  <2>1. f \in Live(gs) /\ f # fd
    OBVIOUS
  <2>2. f \in Fd
    BY <2>1 DEF Live
  <2>3. f \in connection /\ (c[f].uid # Nil => c[f].agent # Nil)
    BY <2>1 DEF IInv, Routable
  <2> QED
    BY <2>1, <2>2, <2>3
<1>3. FreshUnknown'
  BY DEF IInv, FreshUnknown
<1>4. Counted(gs)'
  BY DEF Counted, Kept
<1> QED
  BY <1>1, <1>2, <1>3, <1>4 DEF IInv

\* Every step keeps the types.
LEMMA StepType == TypeOK /\ [Next]_gateVars => TypeOK'
<1> SUFFICES ASSUME TypeOK, [Next]_gateVars PROVE TypeOK'
  OBVIOUS
<1> USE GateConstants
<1>g. gs \in GS /\ gs.conn \in [Fd -> ConnState] /\ gs.client_number \in Int
  BY DEF TypeOK, GS
<1>h. \A g \in GS, fd \in Fd : closeclient(g, fd) \in GS /\ close_fd(g, fd) \in GS
  BY DEF closeclient, close_fd, GS, ConnState
<1>f. \A fd \in Fd, src \in Src : finish(gs, fd, src) \in GS
  BY <1>g, <1>h DEF finish
<1>gs. ASSUME gs' \in GS PROVE gs' \in [conn : [Fd -> ConnState], client_number : Int]
  BY <1>gs DEF GS
<1>1. ASSUME NEW fd \in Fd, OpenRefused(fd) PROVE TypeOK'
  BY <1>1 DEF TypeOK, OpenRefused, DriverClose
<1>2. ASSUME NEW fd \in Fd, Open(fd) PROVE TypeOK'
  <2>1. gs' \in GS
    BY <1>2, <1>g DEF Open, GS, ConnState
  <2>2. c' \in [Fd -> Record]
    BY <1>2 DEF Open, TypeOK, Record, NewRecord
  <2> QED
    BY <1>2, <2>1, <2>2, <1>gs DEF TypeOK, Open
<1>3. ASSUME NEW fd \in Fd, Handshake(fd) PROVE TypeOK'
  <2>1. gs' \in GS
    BY <1>3, <1>g DEF Handshake, GS, ConnState
  <2> QED
    BY <1>3, <2>1, <1>gs DEF TypeOK, Handshake
<1>4. ASSUME NEW fd \in Fd, BadPacket(fd) PROVE TypeOK'
  <2>1. gs' \in GS
    BY <1>4, <1>g, <1>h DEF BadPacket
  <2> QED
    BY <1>4, <2>1, <1>gs DEF TypeOK, BadPacket, DriverClose
<1>5. ASSUME NEW fd \in Fd, PeerClose(fd) PROVE TypeOK'
  BY <1>5 DEF TypeOK, PeerClose, DriverClose
<1>6. ASSUME NEW fd \in Fd, NEW t \in Task, NEW src \in Src, close_agent(t, fd, src),
             src = "hup" => hup[fd] > 0
      PROVE TypeOK'
  <2>1. CASE CloseAnonymous(fd, src)
    <3>1. gs' \in GS
      BY <2>1, <1>g, <1>h, <1>f DEF CloseAnonymous
    <3>2. hup' \in [Fd -> Nat]
      BY <2>1, <1>6 DEF CloseAnonymous, TypeOK
    <3>3. sock' \in [Fd -> {"fresh", "open", "shut"}]
      BY <2>1 DEF CloseAnonymous, TypeOK
    <3> QED
      BY <2>1, <3>1, <3>2, <3>3, <1>gs DEF TypeOK, CloseAnonymous
  <2>2. CASE CloseSession(t, fd, src)
    <3>1. hup' \in [Fd -> Nat]
      BY <2>2, <1>6 DEF CloseSession, TypeOK
    <3>2. task' \in [Task -> Suspended \cup {Idle}]
      BY <2>2 DEF CloseSession, TypeOK, Suspended, Record, NewRecord
    <3> QED
      BY <2>2, <3>1, <3>2 DEF TypeOK, CloseSession
  <2> QED
    BY <1>6, <2>1, <2>2 DEF close_agent
<1>7. ASSUME NEW fd \in Fd, NEW t \in Task, MsgClose(t, fd) PROVE TypeOK'
  BY <1>6, <1>7 DEF MsgClose, Src
<1>8. ASSUME NEW fd \in Fd, NEW t \in Task, CloseFrame(t, fd) PROVE TypeOK'
  BY <1>6, <1>8 DEF CloseFrame, Src
<1>9. ASSUME NEW fd \in Fd, NEW t \in Task, kick(t, fd) PROVE TypeOK'
  BY <1>6, <1>9 DEF kick, Src
<1>10. ASSUME NEW fd \in Fd, NEW data \in Session, Register(fd, data) PROVE TypeOK'
  <2>1. c' \in [Fd -> Record]
    BY <1>10 DEF Register, TypeOK, Record, Session
  <2> QED
    BY <1>10, <2>1 DEF TypeOK, Register
<1>11. ASSUME NEW fd \in Fd, NEW t \in Task, NEW data \in Session, RegisterGone(t, fd, data)
       PROVE TypeOK'
  <2>1. task' \in [Task -> Suspended \cup {Idle}]
    <3>1. [at |-> "logout", fd |-> fd, src |-> "register", data |-> data] \in Suspended
      BY DEF Suspended, Src, Record, Session
    <3> QED
      BY <1>11, <3>1 DEF RegisterGone, TypeOK
  <2> QED
    BY <1>11, <2>1 DEF TypeOK, RegisterGone
<1>12. ASSUME NEW t \in Task, Resume(t) PROVE TypeOK'
  <2>0. task[t].at \in {"logout", "recycle"} => task[t] \in Suspended
    BY DEF TypeOK, Idle
  <2>1. CASE LogoutDone(t)
    <3>0. task[t] \in Suspended
      BY <2>0, <2>1 DEF LogoutDone
    <3>1. AgentOf(t) \in Agent \cup {Nil}
      BY <3>0 DEF AgentOf, Suspended, Record, TypeOK
    <3>2. [task[t] EXCEPT !.at = "recycle", !.data.agent = AgentOf(t)] \in Suspended
      BY <3>0, <3>1 DEF Suspended, Record
    <3>3. task' \in [Task -> Suspended \cup {Idle}]
      BY <2>1, <3>2 DEF LogoutDone, TypeOK
    <3> QED
      BY <2>1, <3>3 DEF TypeOK, LogoutDone
  <2>2. CASE RecycleRaise(t)
    BY <2>2 DEF TypeOK, RecycleRaise
  <2>3. CASE RecycleDone(t)
    <3>1. task[t].fd \in Fd /\ task[t].src \in Src
      BY <2>0, <2>3 DEF RecycleDone, Suspended
    <3>2. gs' \in GS
      BY <2>3, <3>1, <1>f DEF RecycleDone
    <3>3. c' \in [Fd -> Record]
      BY ZenonT(60), <2>3, <3>1 DEF RecycleDone, TypeOK, Record
    <3>4. sock' \in [Fd -> {"fresh", "open", "shut"}] /\ hup' \in [Fd -> Nat]
      BY <2>3, <3>1 DEF RecycleDone, TypeOK, DriverClose
    <3> QED
      BY <2>3, <3>2, <3>3, <3>4, <1>gs DEF TypeOK, RecycleDone
  <2>4. CASE ClearDone(t)
    BY <2>4 DEF TypeOK, ClearDone
  <2> QED
    BY <1>12, <2>1, <2>2, <2>3, <2>4 DEF Resume
<1>13. ASSUME UNCHANGED gateVars PROVE TypeOK'
  BY <1>13 DEF TypeOK, gateVars
<1> QED
  BY <1>1, <1>2, <1>3, <1>4, <1>5, <1>7, <1>8, <1>9, <1>10, <1>11, <1>12, <1>13
     DEF Next, Command

\* Every step keeps the invariant: MSG.open counts a fresh fd, the closing
\* steps are those of Dropping, the others are those of SameTable.
LEMMA StepIInv == IInv /\ [Next]_gateVars => IInv'
<1> SUFFICES ASSUME IInv, [Next]_gateVars PROVE IInv'
  OBVIOUS
<1> USE GateConstants
<1>T. TypeOK /\ TypeOK'
  BY StepType DEF IInv
<1>C. Counted(gs) /\ gs.conn \in [Fd -> ConnState] /\ gs.client_number \in Int
  BY <1>T DEF IInv, TypeOK
<1>1. ASSUME NEW fd \in Fd, OpenRefused(fd) \/ PeerClose(fd) PROVE IInv'
  BY <1>1, <1>T, SameTable DEF OpenRefused, PeerClose, DriverClose, TypeOK
<1>2. ASSUME NEW fd \in Fd, Open(fd) PROVE IInv'
  <2>1. gs.conn[fd] = "nil" /\ fd \notin Kept(gs)
    BY <1>2 DEF Open, IInv, FreshUnknown, Kept
  <2>2. gs'.conn = [gs.conn EXCEPT ![fd] = IF proto = "ws" THEN "shake" ELSE "open"]
        /\ gs'.client_number = gs.client_number + 1
    BY <1>2 DEF Open
  <2>3. Kept(gs') = Kept(gs) \cup {fd}
    BY <1>C, <2>2 DEF Kept
  <2>4. IsFiniteSet(Kept(gs')) /\ Cardinality(Kept(gs')) = Cardinality(Kept(gs)) + 1
    BY <1>C, <2>1, <2>3, FS_AddElement DEF Counted
  <2>5. Counted(gs')
    BY <1>C, <1>T, <2>2, <2>4 DEF Counted, TypeOK, GS
  <2>6. gs'.client_number <= MaxClient
    BY <1>2, <1>C, <2>2 DEF Open
  <2>7. Routable'
    <3> SUFFICES ASSUME NEW f \in Live(gs')
                 PROVE f \in connection' /\ (c'[f].uid # Nil => c'[f].agent # Nil)
      BY DEF Routable, Live
    <3>1. CASE f = fd
      BY <1>2, <3>1, <1>T DEF Open, NewRecord, TypeOK
    <3>2. CASE f # fd
      <4>1. f \in Live(gs)
        BY <1>C, <2>2, <3>2 DEF Live
      <4> QED
        BY <1>2, <1>T, <3>2, <4>1 DEF IInv, Routable, Open, TypeOK, Live
    <3> QED
      BY <3>1, <3>2
  <2>8. FreshUnknown'
    BY <1>2, <1>C, <1>T, <2>2 DEF IInv, FreshUnknown, Open, TypeOK
  <2> QED
    BY <1>T, <2>5, <2>6, <2>7, <2>8 DEF IInv, Counted, Kept
<1>3. ASSUME NEW fd \in Fd, Handshake(fd) PROVE IInv'
  <2>1. gs'.conn = [gs.conn EXCEPT ![fd] = "open"] /\ gs'.client_number = gs.client_number
        /\ gs.conn[fd] = "shake"
    BY <1>3 DEF Handshake
  <2>2. Kept(gs') = Kept(gs) /\ Live(gs') = Live(gs)
    BY <1>C, <2>1 DEF Kept, Live
  <2>3. Counted(gs') /\ gs'.client_number <= MaxClient
    BY <1>C, <1>T, <2>1, <2>2 DEF Counted, TypeOK, GS, IInv
  <2>4. Routable'
    BY <1>3, <2>2 DEF IInv, Routable, Handshake, Live
  <2>5. FreshUnknown'
    BY <1>3, <1>C, <2>1 DEF IInv, FreshUnknown, Handshake
  <2> QED
    BY <1>T, <2>3, <2>4, <2>5 DEF IInv, Counted, Kept
<1>4. ASSUME NEW fd \in Fd, BadPacket(fd) PROVE IInv'
  <2>1. gs' = closeclient(gs, fd) /\ connection' = connection /\ c' = c
    BY <1>4 DEF BadPacket
  <2>2. \A f \in Fd : sock'[f] = "fresh" => sock[f] = "fresh"
    BY <1>4, <1>T DEF BadPacket, DriverClose, TypeOK
  <2> QED
    BY ZenonT(60), <2>1, <2>2, <1>T, <1>C, CloseClient, Dropping
<1>5. ASSUME NEW fd \in Fd, NEW t \in Task, NEW src \in Src, close_agent(t, fd, src)
      PROVE IInv'
  <2>1. CASE CloseAnonymous(fd, src) /\ fd \in connection
    <3>1. gs' = finish(gs, fd, src) /\ connection' = connection \ {fd} /\ c' = c
      BY <2>1 DEF CloseAnonymous
    <3>2. \A f \in Fd : sock'[f] = "fresh" => sock[f] = "fresh"
      BY <2>1, <1>T DEF CloseAnonymous, TypeOK
    <3> QED
      BY <3>1, <3>2, <1>T, <1>C, Finish, Dropping
  <2>2. CASE CloseAnonymous(fd, src) /\ fd \notin connection /\ src = "kick"
    BY <2>2, <1>T, SameTable DEF CloseAnonymous, TypeOK
  <2>3. CASE CloseAnonymous(fd, src) /\ fd \notin connection /\ src # "kick"
    <3>1. gs' = close_fd(gs, fd) /\ connection' = connection \ {fd} /\ c' = c /\ sock' = sock
      BY <2>3 DEF CloseAnonymous
    <3> QED
      BY <3>1, <1>T, <1>C, CloseFd, Dropping
  <2>4. CASE CloseSession(t, fd, src)
    BY <2>4, <1>T, SameTable DEF CloseSession
  <2> QED
    BY <1>5, <2>1, <2>2, <2>3, <2>4 DEF close_agent
<1>6. ASSUME NEW fd \in Fd, NEW t \in Task, MsgClose(t, fd) \/ CloseFrame(t, fd) \/ kick(t, fd)
      PROVE IInv'
  BY <1>5, <1>6 DEF MsgClose, CloseFrame, kick, Src
<1>7. ASSUME NEW fd \in Fd, NEW data \in Session, Register(fd, data) PROVE IInv'
  <2>1. \A f \in Live(gs) : c'[f] = c[f] \/ c'[f].agent # Nil
    BY <1>7, <1>T DEF Register, TypeOK, Session, Live
  <2> QED
    BY <1>7, <2>1, <1>T, SameTable DEF Register
<1>8. ASSUME NEW fd \in Fd, NEW t \in Task, NEW data \in Session, RegisterGone(t, fd, data)
      PROVE IInv'
  BY <1>8, <1>T, SameTable DEF RegisterGone
<1>9. ASSUME NEW t \in Task, LogoutDone(t) \/ RecycleRaise(t) \/ ClearDone(t) PROVE IInv'
  BY <1>9, <1>T, SameTable DEF LogoutDone, RecycleRaise, ClearDone
<1>10. ASSUME NEW t \in Task, RecycleDone(t) PROVE IInv'
  <2> DEFINE fd == task[t].fd
  <2>1. fd \in Fd
    BY <1>10, <1>T DEF RecycleDone, TypeOK, Suspended, Idle
  <2>2. gs' = finish(gs, fd, task[t].src) /\ connection' = connection \ {fd}
        /\ c' = [c EXCEPT ![fd].agent = Nil]
    BY <1>10 DEF RecycleDone
  <2>3. \A f \in Fd : sock'[f] = "fresh" => sock[f] = "fresh"
    BY <1>10, <1>T, <2>1 DEF RecycleDone, TypeOK, DriverClose
  <2>4. \A f \in Fd \ {fd} : c'[f] = c[f]
    BY <2>1, <2>2, <1>T DEF TypeOK
  <2> HIDE DEF fd
  <2> QED
    BY <2>1, <2>2, <2>3, <2>4, <1>T, <1>C, Finish, Dropping
<1>11. ASSUME UNCHANGED gateVars PROVE IInv'
  BY <1>11, <1>T, SameTable DEF gateVars
<1> QED
  BY <1>1, <1>2, <1>3, <1>4, <1>6, <1>7, <1>8, <1>9, <1>10, <1>11
     DEF Next, Command, Resume

\* client_number always counts the kept fds and respects maxclient
\* (gateserver_ws.lua and gateserver_tcp.lua, MSG.open, closeclient, close_fd).
THEOREM GateCount == Spec => []CountExact
<1>1. IInv => CountExact
  BY DEF IInv, Counted, CountExact
<1> QED
  BY <1>1, InitIInv, StepIInv, PTL DEF Spec

\* handler.message of gate.lua never indexes a missing record or redirects to
\* a nil agent.
THEOREM GateRoutable == Spec => []Routable
<1>1. IInv => Routable
  BY DEF IInv
<1> QED
  BY <1>1, InitIInv, StepIInv, PTL DEF Spec

\* The state of the gateway keeps its types; the number of pending close
\* events never goes below zero.
THEOREM GateType == Spec => []TypeOK
<1>1. Init => TypeOK
  BY InitIInv DEF IInv
<1> QED
  BY <1>1, StepType, PTL DEF Spec
=============================================================================
