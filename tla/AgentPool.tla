----------------------------- MODULE AgentPool -----------------------------
(***************************************************************************)
(* service/agentpool.lua, and the choice mod/libwsagentpool.lua makes      *)
(* between several of them.  Each pool service keeps the sequence `pool'   *)
(* of idle agents and the table `agentlist'.  Agents are services: they    *)
(* are born by skynet.newservice, which suspends the calling coroutine,    *)
(* and die by skynet.kill.  Addresses are never reused.                    *)
(***************************************************************************)
EXTENDS Integers, Sequences, SequencesExt

CONSTANTS
  Pool,        \* the agentpool services of this node
  Agent,       \* addresses agents may get
  Caller,      \* coroutines that call a pool
  Nil,
  MaxNum,      \* cnf.maxnum
  RecyRemove   \* cnf.recyremove == 1

ASSUME PoolConstants ==
  /\ MaxNum \in Nat
  /\ RecyRemove \in BOOLEAN
  /\ Nil \notin Agent \cup Pool

VARIABLES
  pool,       \* pool[p]: the idle agents of p, the last one is handed out
  agentlist,  \* agentlist[p]: "all of agent, include dispatched"
  started,    \* started[p]: newservice calls init_pool has completed
  making,     \* making[w]: the pool in which the call of w waits for newservice
  born,       \* addresses used so far
  dead        \* killed agents

poolVars == <<pool, agentlist, started, making, born, dead>>

PoolInit ==
  /\ pool = [p \in Pool |-> <<>>]
  /\ agentlist = [p \in Pool |-> {}]
  /\ started = [p \in Pool |-> 0]
  /\ making = [w \in Caller |-> Nil]
  /\ born = {}
  /\ dead = {}

\* main_node.lua opens the gateway when every init_pool has returned.
Ready == \A p \in Pool : started[p] = MaxNum

\* One turn of the loop of CMD.init_pool.
init_pool(p, a) ==
  /\ started[p] < MaxNum
  /\ a \in Agent \ born
  /\ born' = born \cup {a}
  /\ pool' = [pool EXCEPT ![p] = Append(@, a)]
  /\ agentlist' = [agentlist EXCEPT ![p] = @ \cup {a}]
  /\ started' = [started EXCEPT ![p] = @ + 1]
  /\ UNCHANGED <<making, dead>>

\* The bug: pool[#pool] instead of table.remove(pool).
get_peeks(p, a) ==
  /\ pool[p] # <<>>
  /\ a = Last(pool[p])
  /\ UNCHANGED poolVars

\* CMD.get with an idle agent: table.remove(pool).
get(p, a) ==
  /\ pool[p] # <<>>
  /\ a = Last(pool[p])
  /\ pool' = [pool EXCEPT ![p] = Front(@)]
  /\ UNCHANGED <<agentlist, started, making, born, dead>>

\* CMD.get on an empty pool: suspend in skynet.newservice.
get_new(p, w) ==
  /\ pool[p] = <<>>
  /\ making[w] = Nil
  /\ making' = [making EXCEPT ![w] = p]
  /\ UNCHANGED <<pool, agentlist, started, born, dead>>

\* The bug: a new agent is handed out and not entered in agentlist.
newservice_unlisted(w, a) ==
  /\ making[w] # Nil
  /\ a \in Agent \ born
  /\ born' = born \cup {a}
  /\ making' = [making EXCEPT ![w] = Nil]
  /\ UNCHANGED <<pool, agentlist, started, dead>>

\* newservice returns the address of the new agent.
newservice(w, a) ==
  /\ making[w] # Nil
  /\ a \in Agent \ born
  /\ born' = born \cup {a}
  /\ agentlist' = [agentlist EXCEPT ![making[w]] = @ \cup {a}]
  /\ making' = [making EXCEPT ![w] = Nil]
  /\ UNCHANGED <<pool, started, dead>>

\* The bug: one agent too many.
Full_late(p) == RecyRemove /\ Len(pool[p]) > MaxNum

Full(p) == RecyRemove /\ Len(pool[p]) >= MaxNum

\* CMD.recycle(agent), agent not nil.
recycle(p, a) ==
  /\ IF Full(p)
       THEN /\ agentlist' = [agentlist EXCEPT ![p] = @ \ {a}]
            /\ dead' = dead \cup {a}
            /\ UNCHANGED pool
       ELSE /\ pool' = [pool EXCEPT ![p] = <<a>> \o @]
            /\ UNCHANGED <<agentlist, dead>>
  /\ UNCHANGED <<started, making, born>>

PoolType ==
  /\ pool \in [Pool -> Seq(Agent)]
  /\ agentlist \in [Pool -> SUBSET Agent]
  /\ started \in [Pool -> 0..MaxNum]
  /\ making \in [Caller -> Pool \cup {Nil}]
  /\ born \in SUBSET Agent
  /\ dead \in SUBSET Agent
=============================================================================
