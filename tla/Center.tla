------------------------------- MODULE Center -------------------------------
(***************************************************************************)
(* mod/center/login.lua: the table of players that are logged in or about  *)
(* to be.  Two handlers yield: login while it waits for gate.kick, logout  *)
(* while it waits for agent.kick.  `ret' is what the handler returns; an   *)
(* error raised inside one is caught by lua_dispatch of                    *)
(* lualib/faci/dispatch.lua, and the caller reads nil, that is "false".    *)
(***************************************************************************)
EXTENDS Naturals

CONSTANTS Uid, Fd, Agent, Key, Task, Nil

VARIABLES
  users,      \* env.users: Nil or [fd, key, agent]
  logging,    \* coroutines inside login: Nil or [uid, data]
  leaving     \* coroutines inside logout: Nil or [uid, key, from]

centerVars == <<users, logging, leaving>>

CenterInit ==
  /\ users = [u \in Uid |-> Nil]
  /\ logging = [t \in Task |-> Nil]
  /\ leaving = [t \in Task |-> Nil]

User(fd, key) == [fd |-> fd, key |-> key, agent |-> Nil]

-----------------------------------------------------------------------------
\* login: nobody there, or a login of the same player under way.
login(u, data, ret) ==
  /\ \/ users[u] = Nil /\ users' = [users EXCEPT ![u] = data] /\ ret = "true"
     \/ users[u] # Nil /\ users[u].agent = Nil /\ UNCHANGED users /\ ret = "false"
  /\ UNCHANGED <<logging, leaving>>

\* login: the player is online, call gate.kick(user.fd) and wait.
login_kick(t, u, data) ==
  /\ users[u] # Nil /\ users[u].agent # Nil
  /\ logging' = [logging EXCEPT ![t] = [uid |-> u, data |-> data]]
  /\ UNCHANGED <<users, leaving>>

\* login goes on with the answer of gate.kick; users[u] is read again.
login_kicked(t, ok, ret) ==
  LET u == logging[t].uid
      free == ok = "true" /\ users[u] = Nil
  IN  /\ users' = IF free THEN [users EXCEPT ![u] = logging[t].data] ELSE users
      /\ ret = IF free THEN "true" ELSE "false"
      /\ logging' = [logging EXCEPT ![t] = Nil]
      /\ UNCHANGED leaving

\* The bug: register accepts and does not enter the agent.
register_no_agent(u, key, agent, ret) ==
  /\ ret = IF users[u] # Nil /\ users[u].key = key /\ users[u].agent = Nil
           THEN "true" ELSE "false"
  /\ UNCHANGED centerVars

register(u, key, agent, ret) ==
  LET ok == users[u] # Nil /\ users[u].key = key /\ users[u].agent = Nil
  IN  /\ users' = IF ok THEN [users EXCEPT ![u].agent = agent] ELSE users
      /\ ret = IF ok THEN "true" ELSE "false"
      /\ UNCHANGED <<logging, leaving>>

\* logout: nobody there, another login's record, or a login under way.
logout(u, key, ret) ==
  /\ \/ users[u] = Nil /\ UNCHANGED users /\ ret = "true"
     \/ users[u] # Nil /\ users[u].key # key /\ UNCHANGED users /\ ret = "false"
     \/ /\ users[u] # Nil /\ users[u].key = key /\ users[u].agent = Nil
        /\ users' = [users EXCEPT ![u] = Nil]
        /\ ret = "true"
  /\ UNCHANGED <<logging, leaving>>

\* The bug: the key is not compared.
logout_kick_any(t, u, key, from) ==
  /\ users[u] # Nil /\ users[u].agent # Nil
  /\ leaving' = [leaving EXCEPT ![t] = [uid |-> u, key |-> key, from |-> from]]
  /\ UNCHANGED <<users, logging>>

\* logout: the player is online, call agent.kick and wait.
logout_kick(t, u, key, from) ==
  /\ users[u] # Nil /\ users[u].key = key /\ users[u].agent # Nil
  /\ leaving' = [leaving EXCEPT ![t] = [uid |-> u, key |-> key, from |-> from]]
  /\ UNCHANGED <<users, logging>>

\* logout goes on with the answer of agent.kick; users[u] is not read again.
logout_kicked(t, ok, ret) ==
  /\ users' = IF ok = "true" THEN [users EXCEPT ![leaving[t].uid] = Nil] ELSE users
  /\ ret = IF ok = "true" THEN "true" ELSE "false"
  /\ leaving' = [leaving EXCEPT ![t] = Nil]
  /\ UNCHANGED logging

CenterType ==
  LET Rec == [fd : Fd, key : Key, agent : Agent \cup {Nil}] IN
  /\ users \in [Uid -> Rec \cup {Nil}]
  /\ logging \in [Task -> [uid : Uid, data : Rec] \cup {Nil}]
  /\ leaving \in [Task -> [uid : Uid, key : Key, from : {"gate", "login"}] \cup {Nil}]
=============================================================================
