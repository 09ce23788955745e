------------------------------ MODULE WsAgent ------------------------------
(***************************************************************************)
(* service/agent/wsagent.lua: the commands start and kick, serialised by   *)
(* the critical section cs (skynet/lualib/skynet/queue.lua), and what they *)
(* run (mod/agent/agent_login.lua, agent_info.lua, agent_room.lua).  Each  *)
(* command yields inside the critical section: start for the loads from    *)
(* the database, kick for leaving the room and for the last save.  Their   *)
(* consecutive waits change nothing another service can see and are one    *)
(* wait here.                                                              *)
(***************************************************************************)
EXTENDS Naturals, Sequences

CONSTANTS Agent, Uid, Fd, Task, Nil

VARIABLES
  conf,          \* the locals fd and account of wsagent.lua: Nil or [fd, uid]
  current,       \* cs: current_thread
  thread_queue,  \* cs: thread_queue
  job            \* the command a coroutine runs or waits to run, or Nil

agentVars == <<conf, current, thread_queue, job>>

Start(fd, u) == [cmd |-> "start", fd |-> fd, uid |-> u]
Kick         == [cmd |-> "kick", fd |-> Nil, uid |-> Nil]

AgentInit ==
  /\ conf = [a \in Agent |-> Nil]
  /\ current = [a \in Agent |-> Nil]
  /\ thread_queue = [a \in Agent |-> <<>>]
  /\ job = [t \in Task |-> Nil]

\* The first lines of a command, once it has the critical section.
Begin(a, j) ==
  conf' = IF j.cmd = "start" THEN [conf EXCEPT ![a] = [fd |-> j.fd, uid |-> j.uid]]
          ELSE conf

\* A command arrives: it enters cs or waits for its turn.
Command(a, t, j) ==
  /\ job' = [job EXCEPT ![t] = j]
  /\ IF current[a] = Nil
       THEN /\ current' = [current EXCEPT ![a] = t]
            /\ Begin(a, j)
            /\ UNCHANGED thread_queue
       ELSE /\ thread_queue' = [thread_queue EXCEPT ![a] = Append(@, t)]
            /\ UNCHANGED <<current, conf>>

\* The command in cs ends, by its return or by an error: xpcall_ret wakes the
\* next coroutine, which runs before the agent takes its next message.
Leave(a) ==
  /\ job' = [job EXCEPT ![current[a]] = Nil]
  /\ IF thread_queue[a] = <<>>
       THEN /\ current' = [current EXCEPT ![a] = Nil]
            /\ UNCHANGED <<conf, thread_queue>>
       ELSE /\ current' = [current EXCEPT ![a] = Head(thread_queue[a])]
            /\ thread_queue' = [thread_queue EXCEPT ![a] = Tail(@)]
            /\ Begin(a, job[Head(thread_queue[a])])

AgentType ==
  /\ conf \in [Agent -> [fd : Fd, uid : Uid] \cup {Nil}]
  /\ current \in [Agent -> Task \cup {Nil}]
  /\ thread_queue \in [Agent -> Seq(Task)]
  /\ job \in [Task -> {Start(fd, u) : fd \in Fd, u \in Uid} \cup {Kick, Nil}]
=============================================================================
