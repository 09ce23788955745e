---------------------------- MODULE PoolClients ----------------------------
(***************************************************************************)
(* The agent pools with the callers they expect: a coroutine takes an      *)
(* agent with libagentpool.get, keeps it for a session and gives it back   *)
(* once, to whichever pool math.random names (libwsagentpool.lua).         *)
(* LoginFlow shows which callers of the real system are of this kind.      *)
(***************************************************************************)
EXTENDS AgentPool

VARIABLE held   \* held[w]: the agent w has taken, or Nil

vars == <<poolVars, held>>

Init == PoolInit /\ held = [w \in Caller |-> Nil]

StartPool(p) == \E a \in Agent : init_pool(p, a) /\ UNCHANGED held

Get(w, p) ==
  /\ Ready /\ held[w] = Nil /\ making[w] = Nil
  /\ \E a \in Agent : get(p, a) /\ held' = [held EXCEPT ![w] = a]

GetNew(w, p) ==
  /\ Ready /\ held[w] = Nil
  /\ get_new(p, w) /\ UNCHANGED held

NewService(w) == \E a \in Agent : newservice(w, a) /\ held' = [held EXCEPT ![w] = a]

Recycle(w, p) ==
  /\ held[w] # Nil
  /\ recycle(p, held[w])
  /\ held' = [held EXCEPT ![w] = Nil]

Next ==
  \/ \E p \in Pool : StartPool(p)
  \/ \E w \in Caller, p \in Pool : Get(w, p) \/ GetNew(w, p) \/ Recycle(w, p)
  \/ \E w \in Caller : NewService(w)

Spec == Init /\ [][Next]_vars

-----------------------------------------------------------------------------
TypeOK == PoolType /\ held \in [Caller -> Agent \cup {Nil}]

Idle(p) == {pool[p][i] : i \in 1..Len(pool[p])}
Held    == {held[w] : w \in Caller} \ {Nil}

(***************************************************************************)
(* An agent is in one place: no pool holds it twice, no two pools hold it, *)
(* no two callers have it and no caller has one that is idle - so get      *)
(* never hands the same agent to two sessions ("1:1", README.md:17), even  *)
(* though get and recycle may go to different pools.  An agent that        *)
(* CMD.recycle has killed is in none of them.                              *)
(***************************************************************************)
OnePlace ==
  /\ \A p, q \in Pool : \A i \in 1..Len(pool[p]), j \in 1..Len(pool[q]) :
       pool[p][i] = pool[q][j] => p = q /\ i = j
  /\ \A w, v \in Caller : held[w] = held[v] /\ held[w] # Nil => w = v
  /\ \A p \in Pool : Idle(p) \cap Held = {}
  /\ \A a \in dead : a \notin Held /\ \A p \in Pool : a \notin Idle(p)

\* With recyremove a pool never grows beyond maxnum (CMD.recycle).
Bounded == RecyRemove => \A p \in Pool : Len(pool[p]) <= MaxNum

\* agentlist has "all of agent, include dispatched" (agentpool.lua:7): a living
\* agent is in the list of one pool, the one that made it, although any pool may
\* hold it or be given it back.
AgentListed ==
  /\ TypeOK
  /\ \A a \in (UNION {Idle(p) : p \in Pool}) \cup Held :
       \E p \in Pool : \A q \in Pool : a \in agentlist[q] <=> q = p
=============================================================================
