------------------------------ MODULE Accounts ------------------------------
(***************************************************************************)
(* First login of an account: mod/login/login_auth.lua, the uid allocator  *)
(* of mod/dbproxy/dbproxy.lua and the upsert of lualib/mysqldb.lua.        *)
(*                                                                         *)
(* Every query suspends its coroutine.  All increments go through one      *)
(* dbproxy (fetch_dbproxy(1)), whose connection to the global database     *)
(* runs the queries in the order they were sent: `wire'.  The queries of   *)
(* accounts are spread over the dbproxies in turn, so the database may run *)
(* them in any order.                                                      *)
(*                                                                         *)
(* A table is the set of its rows.  The tables exist; neither has a unique *)
(* key besides the automatic id, so a row may be inserted for an account   *)
(* that has one, and `limit 1' takes any.                                  *)
(***************************************************************************)
EXTENDS Integers, Sequences, FiniteSets

CONSTANTS
  Account, Password,
  Task,       \* coroutines of the login services inside login_auth
  Base,       \* t_max_uuid.account.uuid as written in dbproxy.lua
  MaxUid,     \* bound: the largest uid given out
  MaxRestart  \* bound: restarts of the node

ASSUME AccountConstants ==
  Base \in Nat /\ MaxUid \in Nat /\ MaxRestart \in Nat

VARIABLES
  uuid,      \* t_max_uuid.account.uuid
  tb_key,    \* the rows of tb_key for "account": their column uuid
  wire,      \* queries on tb_key sent and not yet run: [t, op, uuid]
  account,   \* the rows of account: [account, uid, password]
  auth,      \* the coroutines: [at, account, password, uid]
  restarts

vars == <<uuid, tb_key, wire, account, auth, restarts>>

Row(x, u, p) == [account |-> x, uid |-> u, password |-> p]
Rows(x)      == {r \in account : r.account = x}

\* No coroutine; one that has returned is the same with at "ok" or "refused".
NoAuth == [at |-> "idle"]
Active(t) == auth[t].at \notin {"idle", "ok", "refused"}

\* tb_key has its row, or no increment has ever been saved.
Init ==
  /\ uuid = Base
  /\ tb_key \in {{}, {Base}}
  /\ wire = <<>>
  /\ account = {}
  /\ auth = [t \in Task |-> NoAuth]
  /\ restarts = 0

Goto(t, at) == auth' = [auth EXCEPT ![t].at = at]

-----------------------------------------------------------------------------
\* A login packet reaches check_normal_sdk.
Login(t, x, p) ==
  /\ ~ Active(t)
  /\ auth' = [auth EXCEPT ![t] = [at |-> "check", account |-> x, password |-> p, uid |-> Base]]
  /\ UNCHANGED <<uuid, tb_key, wire, account, restarts>>

\* check_normal_sdk: get_accountdata; a row with the password is a login,
\* anything else an attempt to register.
Check(t) ==
  /\ auth[t].at = "check"
  /\ \/ \E r \in Rows(auth[t].account) :
          IF r.password = auth[t].password
            THEN auth' = [auth EXCEPT ![t].at = "ok", ![t].uid = r.uid]
            ELSE Goto(t, "lookup")
     \/ Rows(auth[t].account) = {} /\ Goto(t, "lookup")
  /\ UNCHANGED <<uuid, tb_key, wire, account, restarts>>

\* register: get_accountdata once more; refuse an account that exists.
Lookup(t) ==
  /\ auth[t].at = "lookup"
  /\ Goto(t, IF Rows(auth[t].account) = {} THEN "incr" ELSE "refused")
  /\ UNCHANGED <<uuid, tb_key, wire, account, restarts>>

\* The bug of taking the stored number plus one.
incr_from_db(t) ==
  /\ auth[t].at = "incr"
  /\ \E v \in tb_key : /\ v < MaxUid /\ uuid' = v + 1
                       /\ wire' = Append(wire, [t |-> t, op |-> "update", uuid |-> v + 1])
                       /\ auth' = [auth EXCEPT ![t].at = "saving", ![t].uid = v + 1]
  /\ UNCHANGED <<tb_key, account, restarts>>

\* dispatch.incr up to its first yield: the next uid, and update tb_key.
incr(t) ==
  /\ auth[t].at = "incr" /\ uuid < MaxUid
  /\ uuid' = uuid + 1
  /\ wire' = Append(wire, [t |-> t, op |-> "update", uuid |-> uuid + 1])
  /\ auth' = [auth EXCEPT ![t].at = "saving", ![t].uid = uuid + 1]
  /\ UNCHANGED <<tb_key, account, restarts>>

\* The database runs an update of tb_key.  The driver connects with
\* CLIENT_FOUND_ROWS: affected_rows counts the rows the selector found.
UpdateKey ==
  /\ wire # <<>> /\ Head(wire).op = "update"
  /\ tb_key' = IF tb_key = {} THEN {} ELSE {Head(wire).uuid}
  /\ Goto(Head(wire).t, IF tb_key = {} THEN "missing" ELSE "saved")
  /\ wire' = Tail(wire)
  /\ UNCHANGED <<uuid, account, restarts>>

\* mysqldb:update with upsert, no row was affected: send an insert.  The
\* answers of one connection wake their coroutines in turn.
Upsert(t) ==
  /\ auth[t].at = "missing"
  /\ \A s \in Task : auth[s].at = "missing" => auth[t].uid <= auth[s].uid
  /\ wire' = Append(wire, [t |-> t, op |-> "insert", uuid |-> auth[t].uid])
  /\ Goto(t, "saving")
  /\ UNCHANGED <<uuid, tb_key, account, restarts>>

InsertKey ==
  /\ wire # <<>> /\ Head(wire).op = "insert"
  /\ tb_key' = tb_key \cup {Head(wire).uuid}
  /\ Goto(Head(wire).t, "saved")
  /\ wire' = Tail(wire)
  /\ UNCHANGED <<uuid, account, restarts>>

\* The bug of an update without upsert.
SetAccount_no_upsert(t) ==
  LET a == auth[t]
      mine == Rows(a.account)
  IN  /\ a.at = "saved"
      /\ account' = IF mine = {} THEN account
                    ELSE (account \ mine) \cup {Row(a.account, a.uid, a.password)}
      /\ Goto(t, "ok")
      /\ UNCHANGED <<uuid, tb_key, wire, restarts>>

\* set_accountdata: update the rows of the account, if it has any.
SetAccount(t) ==
  LET a == auth[t]
      mine == Rows(a.account)
  IN  /\ a.at = "saved"
      /\ account' = IF mine = {} THEN account
                    ELSE (account \ mine) \cup {Row(a.account, a.uid, a.password)}
      /\ Goto(t, IF mine = {} THEN "absent" ELSE "ok")
      /\ UNCHANGED <<uuid, tb_key, wire, restarts>>

\* The bug of data without the uid.
InsertAccount_no_uid(t) ==
  /\ auth[t].at = "absent"
  /\ account' = account \cup {[account |-> auth[t].account, password |-> auth[t].password]}
  /\ Goto(t, "ok")
  /\ UNCHANGED <<uuid, tb_key, wire, restarts>>

\* No row was affected: insert one.
InsertAccount(t) ==
  /\ auth[t].at = "absent"
  /\ account' = account \cup {Row(auth[t].account, auth[t].uid, auth[t].password)}
  /\ Goto(t, "ok")
  /\ UNCHANGED <<uuid, tb_key, wire, restarts>>

\* What event.start makes of t_max_uuid.  event.exit leaves tb_key as it is:
\* its selector is empty, which is no SQL.
Restart ==
  /\ restarts < MaxRestart
  /\ restarts' = restarts + 1
  /\ \/ tb_key = {} /\ uuid' = Base
     \/ \E v \in tb_key : uuid' = v
  /\ wire' = <<>>
  /\ auth' = [t \in Task |-> NoAuth]
  /\ UNCHANGED <<tb_key, account>>

\* A query is answered, or its answer taken.
Answers ==
  \/ \E t \in Task : \/ Check(t) \/ Lookup(t) \/ incr(t) \/ Upsert(t)
                     \/ SetAccount(t) \/ InsertAccount(t)
  \/ UpdateKey \/ InsertKey

Next ==
  \/ \E t \in Task, x \in Account, p \in Password : Login(t, x, p)
  \/ Answers
  \/ Restart

Spec == Init /\ [][Next]_vars

\* The database answers; nothing obliges a client to log in.
FairSpec == Spec /\ WF_vars(Answers)

-----------------------------------------------------------------------------
At == {"check", "lookup", "incr", "saving", "missing", "saved", "absent", "ok", "refused"}

TypeOK ==
  /\ uuid \in Nat /\ restarts \in Nat
  /\ tb_key \in SUBSET Nat
  /\ wire \in Seq([t : Task, op : {"update", "insert"}, uuid : Nat])
  /\ account \in SUBSET [account : Account, uid : Nat, password : Password]
  /\ auth \in [Task -> [at : At, account : Account, password : Password, uid : Nat]
                       \cup {NoAuth}]

(***************************************************************************)
(* "The unique id of the role" (dbproxy.lua): if tb_key has its row at the *)
(* start, two accounts never have the same uid, although increments        *)
(* overlap and the number is read back from the database after a restart.  *)
(***************************************************************************)
Unique == \A r, s \in account : r.uid = s.uid => r.account = s.account

UidUnique == tb_key # {} => []Unique

(***************************************************************************)
(* The uid login_auth has returned leads to a row of account: what         *)
(* assert(data) of load_account_info in agent_info.lua relies on when the  *)
(* agent of that login starts.  It does as long as no account is logged in *)
(* by two coroutines at once, on an empty database too.                    *)
(***************************************************************************)
Serial ==
  \A s, t \in Task : Active(s) /\ Active(t) /\ s # t => auth[s].account # auth[t].account

Loads ==
  \A t \in Task : auth[t].at = "ok" => \E r \in account : r.uid = auth[t].uid

AccountLoads == []Serial => []Loads
=============================================================================
