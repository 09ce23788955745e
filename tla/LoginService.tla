---------------------------- MODULE LoginService ----------------------------
(***************************************************************************)
(* mod/login/login.lua: forward.login, one coroutine per login packet.  It *)
(* is one chain of calls; `at' names the call whose answer it waits for.   *)
(* The branch for a false answer of agent.start is left out: env.login     *)
(* returns true or raises (mod/agent/agent_login.lua).                     *)
(***************************************************************************)
EXTENDS Naturals

CONSTANTS Task, Fd, Uid, Agent, Nil

VARIABLES
  key_seq,   \* the last login key
  lt         \* the login coroutines: [at, fd, uid, key, agent, result]

loginVars == <<key_seq, lt>>

At == {"idle", "auth", "login", "get", "start", "register", "gate",
       "undo_recycle", "undo_logout", "done"}
Result == {"none", "ok", "wrong_password", "center_fail", "register_center_fail",
           "register_gate_fail", "raised"}

Fresh == [at |-> "idle", fd |-> Nil, uid |-> Nil, key |-> 0, agent |-> Nil, result |-> "none"]

LoginInit == key_seq = 1 /\ lt = [t \in Task |-> Fresh]

\* The packet arrives: a new key, then login_auth.
Login(t, fd, u) ==
  /\ key_seq' = key_seq + 1
  /\ lt' = [lt EXCEPT ![t] = [Fresh EXCEPT !.at = "auth", !.fd = fd, !.uid = u,
                                           !.key = key_seq + 1]]

Goto(t, at)  == lt' = [lt EXCEPT ![t].at = at] /\ UNCHANGED key_seq

\* forward.login returns msgresult, or raises and is caught by local_dispatch,
\* which answers nothing.
Done(t, res) ==
  /\ lt' = [lt EXCEPT ![t].at = "done", ![t].result = res]
  /\ UNCHANGED key_seq

\* libagentpool.login has its agent.
Take(t, a) ==
  /\ lt' = [lt EXCEPT ![t].at = "start", ![t].agent = a]
  /\ UNCHANGED key_seq

\* An undoing path: the result is fixed, the calls that undo come first.
Undo(t, at, res) ==
  /\ lt' = [lt EXCEPT ![t].at = at, ![t].result = res]
  /\ UNCHANGED key_seq

LoginType ==
  /\ key_seq \in Nat
  /\ lt \in [Task -> [at : At, fd : Fd \cup {Nil}, uid : Uid \cup {Nil}, key : Nat,
                      agent : Agent \cup {Nil}, result : Result]]
=============================================================================
