-------------------------- MODULE AccountsProofs ---------------------------
(***************************************************************************)
(* Once tb_key has its row, uids are unique: for any accounts, coroutines, *)
(* overlapping increments and restarts.                                    *)
(***************************************************************************)
EXTENDS Accounts, TLAPS

\* A coroutine that owns a uid nobody else has.
Owns(t) == auth[t].at \in {"saving", "saved", "absent"}

\* A restart will not give out u again.
Stored(u) == \A v \in tb_key : u <= v

\* tb_key has its one row, and the number in memory is not behind it.
KeyKept ==
  /\ tb_key # {} /\ \A v, w \in tb_key : v = w
  /\ \A v \in tb_key : v <= uuid

\* The saves on their way are updates in the order of their numbers, each of
\* the coroutine that waits for it.
WireOrdered ==
  /\ \A i \in 1..Len(wire) :
       /\ wire[i].op = "update" /\ wire[i].uuid <= uuid
       /\ auth[wire[i].t].at = "saving" /\ auth[wire[i].t].uid = wire[i].uuid
       /\ \A v \in tb_key : v <= wire[i].uuid
  /\ \A i, j \in 1..Len(wire) : i < j => wire[i].uuid < wire[j].uuid

\* A uid is used in account only after a number not below it was stored.
UsedIsStored ==
  /\ \A t \in Task : /\ auth[t].at # "missing"
                     /\ Owns(t) => auth[t].uid <= uuid
                     /\ auth[t].at \in {"saved", "absent"} => Stored(auth[t].uid)
  /\ \A r \in account : Stored(r.uid)

OwnersDiffer ==
  /\ \A s, t \in Task : Owns(s) /\ Owns(t) /\ s # t => auth[s].uid # auth[t].uid
  /\ \A t \in Task, r \in account : Owns(t) => r.uid # auth[t].uid

IInv == TypeOK /\ KeyKept /\ WireOrdered /\ UsedIsStored /\ OwnersDiffer /\ Unique

-----------------------------------------------------------------------------
Running == [at : At, account : Account, password : Password, uid : Nat]
Query == [t : Task, op : {"update", "insert"}, uuid : Nat]

\* A coroutine that moves on keeps all but its place.
LEMMA GotoFacts ==
  ASSUME TypeOK, NEW t \in Task, auth[t].at # "idle", NEW a \in At, Goto(t, a)
  PROVE  /\ auth' \in [Task -> Running \cup {NoAuth}]
         /\ auth[t] \in Running /\ auth'[t] \in Running
         /\ auth'[t].at = a /\ auth'[t].uid = auth[t].uid
         /\ \A s \in Task : s # t => auth'[s] = auth[s]
<1>1. auth \in [Task -> Running \cup {NoAuth}]
  BY DEF TypeOK, Running
<1>2. auth[t] \in Running
  BY <1>1 DEF NoAuth
<1>3. auth' = [auth EXCEPT ![t] = [auth[t] EXCEPT !.at = a]]
  BY DEF Goto
<1>4. /\ [auth[t] EXCEPT !.at = a] \in Running
      /\ [auth[t] EXCEPT !.at = a].at = a
      /\ [auth[t] EXCEPT !.at = a].uid = auth[t].uid
  BY <1>2 DEF Running
<1> QED
  BY <1>1, <1>2, <1>3, <1>4

\* The entries of wire have their type.
LEMMA WireType ==
  ASSUME TypeOK
  PROVE  /\ wire \in Seq(Query)
         /\ \A i \in 1..Len(wire) : wire[i] \in Query /\ wire[i].t \in Task /\ wire[i].uuid \in Nat
<1>1. wire \in Seq(Query)
  BY DEF TypeOK, Query
<1>2. \A i \in 1..Len(wire) : wire[i] \in Query
  BY <1>1
<1>3. \A q \in Query : q.t \in Task /\ q.uuid \in Nat
  BY DEF Query
<1> QED BY <1>1, <1>2, <1>3

\* The initial states satisfy the invariant when tb_key has its row.
LEMMA InitIInv == ASSUME Init, tb_key # {} PROVE IInv
<1>1. auth \in [Task -> {NoAuth}] /\ \A t \in Task : auth[t].at = "idle"
  BY DEF Init, NoAuth
<1>2. TypeOK
  BY AccountConstants, <1>1 DEF Init, TypeOK
<1>3. KeyKept /\ WireOrdered
  BY AccountConstants DEF Init, KeyKept, WireOrdered
<1>4. UsedIsStored /\ OwnersDiffer /\ Unique
  BY <1>1 DEF Init, UsedIsStored, OwnersDiffer, Unique, Owns
<1> QED BY <1>2, <1>3, <1>4 DEF IInv

\* Steps that touch neither tables nor numbers and leave no coroutine an owner
\* that was not one: login, the two lookups, and the end of a refused login.
LEMMA QuietStep ==
  ASSUME IInv, UNCHANGED <<uuid, tb_key, wire, account, restarts>>, NEW t \in Task,
         auth' \in [Task -> Running \cup {NoAuth}],
         \A s \in Task : s # t => auth'[s] = auth[s],
         ~ Owns(t), ~ Owns(t)', auth'[t].at # "missing"
  PROVE  IInv'
<1>1. TypeOK'
  BY DEF IInv, TypeOK, Running
<1>2. \A s \in Task : Owns(s)' => Owns(s) /\ auth'[s] = auth[s]
  BY DEF Owns
<1>3. KeyKept' /\ Unique'
  BY DEF IInv, KeyKept, Unique
<1>4. \A i \in 1..Len(wire) : wire[i].t \in Task /\ wire[i].t # t
  BY WireType DEF IInv, WireOrdered, Owns
<1>5. WireOrdered'
  BY <1>4 DEF IInv, WireOrdered
<1>6. UsedIsStored'
  BY <1>2 DEF IInv, UsedIsStored, Stored, Owns
<1>7. OwnersDiffer'
  BY <1>2 DEF IInv, OwnersDiffer
<1> QED BY <1>1, <1>3, <1>5, <1>6, <1>7 DEF IInv

\* incr: the number is above every one given out so far.
LEMMA IncrStep ==
  ASSUME IInv, NEW t \in Task, incr(t) PROVE IInv'
<1> DEFINE q == [t |-> t, op |-> "update", uuid |-> uuid + 1]
<1>1. uuid \in Nat /\ uuid' = uuid + 1 /\ UNCHANGED <<tb_key, account, restarts>>
  BY DEF IInv, TypeOK, incr
<1>2. auth \in [Task -> Running \cup {NoAuth}] /\ auth[t] \in Running /\ ~ Owns(t)
  BY DEF IInv, TypeOK, Running, NoAuth, Owns, incr
<1>3. /\ auth' \in [Task -> Running \cup {NoAuth}]
      /\ auth'[t].at = "saving" /\ auth'[t].uid = uuid + 1
      /\ \A s \in Task : s # t => auth'[s] = auth[s]
  <2> DEFINE r == [auth[t] EXCEPT !.at = "saving"]
             n == [r EXCEPT !.uid = uuid + 1]
  <2>1. r \in Running /\ r.at = "saving"
    BY <1>2 DEF Running, At
  <2>2. n \in Running /\ n.at = "saving" /\ n.uid = uuid + 1
    <3> HIDE DEF r
    <3> QED BY <1>1, <2>1 DEF Running
  <2>3. auth' = [auth EXCEPT ![t] = n]
    BY DEF incr
  <2> HIDE DEF n
  <2> QED BY <1>2, <2>2, <2>3
<1>4. wire' = Append(wire, q) /\ q \in Query
  BY <1>1 DEF incr, Query
<1>5. /\ wire' \in Seq(Query) /\ Len(wire') = Len(wire) + 1
      /\ \A i \in 1..Len(wire) : wire'[i] = wire[i]
      /\ wire'[Len(wire) + 1] = q
  BY <1>4, WireType DEF IInv
<1>6. TypeOK'
  BY <1>1, <1>3, <1>5 DEF IInv, TypeOK, Running, Query
<1>7. KeyKept' /\ Unique'
  BY <1>1 DEF IInv, TypeOK, KeyKept, Unique
<1>8. \A s \in Task : s # t /\ Owns(s)' => Owns(s) /\ auth'[s] = auth[s] /\ auth[s].uid <= uuid
  BY <1>3 DEF Owns, IInv, UsedIsStored
<1>9. WireOrdered'
  <2>1. \A i \in 1..Len(wire) : wire[i].t \in Task /\ wire[i].t # t /\ wire[i].uuid \in Nat
    BY <1>2, WireType DEF IInv, WireOrdered, Owns
  <2>2. \A i \in 1..Len(wire) :
          /\ wire'[i].op = "update" /\ wire'[i].uuid <= uuid
          /\ auth'[wire'[i].t].at = "saving" /\ auth'[wire'[i].t].uid = wire'[i].uuid
          /\ \A v \in tb_key : v <= wire'[i].uuid
    BY <1>3, <1>5, <2>1 DEF IInv, WireOrdered
  <2>3. /\ wire'[Len(wire) + 1].op = "update" /\ wire'[Len(wire) + 1].uuid = uuid + 1
        /\ wire'[Len(wire) + 1].t = t
    BY <1>5
  <2>4. \A v \in tb_key : v \in Nat /\ v <= uuid
    BY DEF IInv, TypeOK, KeyKept
  <2>5. Len(wire) \in Nat
    BY WireType DEF IInv
  <2>6. \A i, j \in 1..Len(wire') : i < j => wire'[i].uuid < wire'[j].uuid
    <3> SUFFICES ASSUME NEW i \in 1..Len(wire'), NEW j \in 1..Len(wire'), i < j
                 PROVE  wire'[i].uuid < wire'[j].uuid
      OBVIOUS
    <3>1. i \in 1..Len(wire) /\ wire'[i].uuid \in Nat
      BY <1>5, <2>1, <2>5
    <3>2. CASE j = Len(wire) + 1
      BY <1>1, <2>2, <2>3, <3>1, <3>2
    <3>3. CASE j # Len(wire) + 1
      <4>1. j \in 1..Len(wire)
        BY <1>5, <2>5, <3>3
      <4> QED BY <1>5, <3>1, <4>1 DEF IInv, WireOrdered
    <3> QED BY <3>2, <3>3
  <2>7. \A i \in 1..Len(wire') :
          /\ wire'[i].op = "update" /\ wire'[i].uuid <= uuid'
          /\ auth'[wire'[i].t].at = "saving" /\ auth'[wire'[i].t].uid = wire'[i].uuid
          /\ \A v \in tb_key' : v <= wire'[i].uuid
    <3> SUFFICES ASSUME NEW i \in 1..Len(wire')
                 PROVE  /\ wire'[i].op = "update" /\ wire'[i].uuid <= uuid'
                        /\ auth'[wire'[i].t].at = "saving" /\ auth'[wire'[i].t].uid = wire'[i].uuid
                        /\ \A v \in tb_key' : v <= wire'[i].uuid
      OBVIOUS
    <3>1. CASE i = Len(wire) + 1
      BY <1>1, <1>3, <2>3, <2>4, <3>1
    <3>2. CASE i \in 1..Len(wire)
      BY <1>1, <1>5, <2>1, <2>2, <3>2
    <3> QED BY <1>5, <2>5, <3>1, <3>2
  <2> QED BY <2>6, <2>7 DEF WireOrdered
<1>10. UsedIsStored'
  <2>1. \A s \in Task : /\ auth'[s].at # "missing"
                        /\ Owns(s)' => auth'[s].uid <= uuid'
    <3> SUFFICES ASSUME NEW s \in Task
                 PROVE  auth'[s].at # "missing" /\ (Owns(s)' => auth'[s].uid <= uuid')
      OBVIOUS
    <3>1. CASE s = t
      BY <1>1, <1>3, <3>1
    <3>2. CASE s # t
      <4>1. Owns(s) => auth[s].uid \in Nat
        BY <1>2 DEF Owns, Running, NoAuth
      <4> QED BY <1>1, <1>3, <1>8, <3>2, <4>1 DEF IInv, UsedIsStored
    <3> QED BY <3>1, <3>2
  <2>2. \A s \in Task : auth'[s].at \in {"saved", "absent"} => Stored(auth[s].uid) /\ auth'[s] = auth[s]
    BY <1>3 DEF IInv, UsedIsStored
  <2> QED BY <1>1, <2>1, <2>2 DEF IInv, UsedIsStored, Stored
<1>11. OwnersDiffer'
  <2>1. \A s \in Task : s # t /\ Owns(s)' => auth[s].uid # uuid + 1
    <3>1. \A s \in Task : Owns(s) => auth[s].uid \in Nat
      BY <1>2 DEF Owns, Running, NoAuth
    <3> QED BY <1>1, <1>8, <3>1
  <2>2. \A r \in account : r.uid # uuid + 1
    <3>1. \A r \in account : r.uid \in Nat
      BY DEF IInv, TypeOK
    <3>2. PICK v \in tb_key : v \in Nat /\ v <= uuid
      BY DEF IInv, KeyKept, TypeOK
    <3> QED BY <1>1, <3>1, <3>2 DEF IInv, UsedIsStored, Stored
  <2>3. \A s \in Task : s # t /\ Owns(s)' => Owns(s) /\ auth'[s] = auth[s]
    BY <1>8
  <2> QED BY <1>1, <1>3, <2>1, <2>2, <2>3 DEF IInv, OwnersDiffer
<1> QED BY <1>6, <1>7, <1>9, <1>10, <1>11 DEF IInv

\* The database runs a save: the number grows, and its coroutine goes on.
LEMMA UpdateKeyStep == ASSUME IInv, UpdateKey PROVE IInv'
<1> DEFINE q == wire[1]
<1>1. /\ wire \in Seq(Query) /\ wire # <<>> /\ Len(wire) \in Nat /\ 1 \in 1..Len(wire)
      /\ Head(wire) = q /\ q.t \in Task /\ q.uuid \in Nat /\ q \in Query
  BY WireType DEF IInv, UpdateKey
<1>2. tb_key # {} /\ tb_key' = {q.uuid} /\ UNCHANGED <<uuid, account, restarts>>
  BY <1>1 DEF IInv, KeyKept, UpdateKey
<1>3. auth[q.t].at = "saving" /\ auth[q.t].uid = q.uuid /\ q.uuid <= uuid
  BY <1>1 DEF IInv, WireOrdered
<1>4. Goto(q.t, "saved")
  BY <1>1, <1>2 DEF UpdateKey
<1>5. /\ auth' \in [Task -> Running \cup {NoAuth}]
      /\ auth'[q.t].at = "saved" /\ auth'[q.t].uid = q.uuid
      /\ \A s \in Task : s # q.t => auth'[s] = auth[s]
  BY <1>1, <1>3, <1>4, GotoFacts DEF IInv, At
<1>6. /\ wire' \in Seq(Query) /\ Len(wire') = Len(wire) - 1
      /\ \A i \in 1..Len(wire') : wire'[i] = wire[i + 1] /\ i + 1 \in 1..Len(wire)
  BY <1>1 DEF UpdateKey
<1>7. TypeOK'
  BY <1>1, <1>2, <1>5, <1>6 DEF IInv, TypeOK, Running, Query
<1>8. KeyKept' /\ Unique'
  BY <1>1, <1>2, <1>3 DEF IInv, KeyKept, Unique
<1>9. \A v \in tb_key : v \in Nat /\ v <= q.uuid
  BY <1>1 DEF IInv, TypeOK, WireOrdered
<1>10. \A s \in Task : auth'[s].uid = auth[s].uid /\ (Owns(s)' <=> Owns(s))
  BY <1>3, <1>5 DEF Owns
<1>11. WireOrdered'
  <2>1. \A i \in 2..Len(wire) : /\ wire[i].t \in Task /\ wire[i].t # q.t
                                /\ q.uuid < wire[i].uuid
    <3> SUFFICES ASSUME NEW i \in 2..Len(wire)
                 PROVE  wire[i].t \in Task /\ wire[i].t # q.t /\ q.uuid < wire[i].uuid
      OBVIOUS
    <3>1. i \in 1..Len(wire) /\ 1 < i
      BY <1>1
    <3>2. wire[i].t \in Task /\ wire[i].uuid \in Nat /\ auth[wire[i].t].uid = wire[i].uuid
      BY <3>1, WireType DEF IInv, WireOrdered
    <3>3. q.uuid < wire[i].uuid
      BY <1>1, <3>1 DEF IInv, WireOrdered
    <3> QED BY <1>1, <1>3, <3>2, <3>3
  <2>2. \A i \in 1..Len(wire') :
          /\ wire'[i].op = "update" /\ wire'[i].uuid <= uuid'
          /\ auth'[wire'[i].t].at = "saving" /\ auth'[wire'[i].t].uid = wire'[i].uuid
          /\ \A v \in tb_key' : v <= wire'[i].uuid
    <3> SUFFICES ASSUME NEW i \in 1..Len(wire')
                 PROVE  /\ wire'[i].op = "update" /\ wire'[i].uuid <= uuid'
                        /\ auth'[wire'[i].t].at = "saving" /\ auth'[wire'[i].t].uid = wire'[i].uuid
                        /\ \A v \in tb_key' : v <= wire'[i].uuid
      OBVIOUS
    <3>1. wire'[i] = wire[i + 1] /\ i + 1 \in 1..Len(wire) /\ i + 1 \in 2..Len(wire)
      BY <1>1, <1>6
    <3>2. wire[i + 1].uuid \in Nat
      BY <3>1, WireType DEF IInv
    <3>3. wire[i + 1].t \in Task /\ wire[i + 1].t # q.t /\ q.uuid < wire[i + 1].uuid
      BY <2>1, <3>1
    <3> HIDE DEF q
    <3> QED BY <1>1, <1>2, <1>5, <3>1, <3>2, <3>3 DEF IInv, WireOrdered
  <2>3. \A i, j \in 1..Len(wire') : i < j => wire'[i].uuid < wire'[j].uuid
    <3> SUFFICES ASSUME NEW i \in 1..Len(wire'), NEW j \in 1..Len(wire'), i < j
                 PROVE  wire'[i].uuid < wire'[j].uuid
      OBVIOUS
    <3>1. i + 1 \in 1..Len(wire) /\ j + 1 \in 1..Len(wire) /\ i + 1 < j + 1
      BY <1>1, <1>6
    <3>2. wire[i + 1].uuid < wire[j + 1].uuid
      BY <3>1 DEF IInv, WireOrdered
    <3> QED BY <1>6, <3>2
  <2> QED BY <2>2, <2>3 DEF WireOrdered
<1>12. UsedIsStored'
  <2>1. \A s \in Task : /\ auth'[s].at # "missing"
                        /\ Owns(s)' => auth'[s].uid <= uuid'
    BY <1>2, <1>5, <1>10 DEF IInv, UsedIsStored
  <2>2. \A u \in Nat : Stored(u) => u <= q.uuid
    BY <1>1, <1>2, <1>9 DEF Stored
  <2>3. \A s \in Task : auth'[s].at \in {"saved", "absent"} => auth'[s].uid <= q.uuid
    <3>1. \A s \in Task : auth[s].at \in {"saved", "absent"} => auth[s].uid \in Nat /\ Stored(auth[s].uid)
      BY DEF IInv, TypeOK, UsedIsStored, NoAuth
    <3> QED BY <1>1, <1>5, <2>2, <3>1
  <2>4. \A r \in account : r.uid <= q.uuid
    <3>1. \A r \in account : r.uid \in Nat /\ Stored(r.uid)
      BY DEF IInv, TypeOK, UsedIsStored
    <3> QED BY <2>2, <3>1
  <2> QED BY <1>2, <2>1, <2>3, <2>4 DEF UsedIsStored, Stored
<1>13. OwnersDiffer'
  BY <1>2, <1>10 DEF IInv, OwnersDiffer
<1> QED BY <1>7, <1>8, <1>11, <1>12, <1>13 DEF IInv

\* A coroutine whose uid is stored moves on, with or without its row.
LEMMA StoredStep ==
  ASSUME IInv, NEW t \in Task, auth[t].at \in {"saved", "absent"},
         UNCHANGED <<uuid, tb_key, wire, restarts>>,
         \/ Goto(t, "absent") /\ account' = account
         \/ /\ Goto(t, "ok")
            /\ account' \subseteq account \cup {Row(auth[t].account, auth[t].uid, auth[t].password)}
  PROVE  IInv'
<1> DEFINE new == Row(auth[t].account, auth[t].uid, auth[t].password)
<1>1. /\ auth' \in [Task -> Running \cup {NoAuth}] /\ auth[t] \in Running
      /\ auth'[t].at \in {"ok", "absent"} /\ auth'[t].uid = auth[t].uid
      /\ \A s \in Task : s # t => auth'[s] = auth[s]
  BY GotoFacts DEF IInv, At
<1>2. /\ new \in [account : Account, uid : Nat, password : Password]
      /\ new.uid = auth[t].uid
  BY <1>1 DEF Running, Row
<1>3. account' \subseteq account \cup {new} /\ (auth'[t].at = "absent" => account' = account)
  <2>1. CASE Goto(t, "absent") /\ account' = account
    BY <2>1
  <2>2. CASE ~ (Goto(t, "absent") /\ account' = account)
    <3>1. Goto(t, "ok") /\ account' \subseteq account \cup {new}
      BY <2>2
    <3>2. auth'[t].at = "ok"
      BY <3>1, GotoFacts DEF IInv, At
    <3> QED BY <3>1, <3>2
  <2> QED BY <2>1, <2>2
<1> HIDE DEF new
<1>4. TypeOK'
  BY <1>1, <1>2, <1>3 DEF IInv, TypeOK, Running
<1>5. KeyKept'
  BY DEF IInv, KeyKept
<1>6. Owns(t) /\ Stored(auth[t].uid) /\ \A r \in account : r.uid # new.uid
  BY <1>2 DEF IInv, UsedIsStored, OwnersDiffer, Owns
<1>7. WireOrdered'
  <2>1. \A i \in 1..Len(wire) : wire[i].t \in Task /\ wire[i].t # t
    BY WireType DEF IInv, WireOrdered
  <2> QED BY <1>1, <2>1 DEF IInv, WireOrdered
<1>8. \A s \in Task : auth'[s].uid = auth[s].uid /\ (Owns(s)' => Owns(s))
  BY <1>1, <1>6 DEF Owns
<1>9. UsedIsStored'
  <2>1. \A s \in Task : /\ auth'[s].at # "missing"
                        /\ Owns(s)' => auth'[s].uid <= uuid'
                        /\ auth'[s].at \in {"saved", "absent"} => Stored(auth[s].uid)
    BY <1>1, <1>6, <1>8 DEF IInv, UsedIsStored
  <2>2. \A r \in account' : Stored(r.uid)
    BY <1>2, <1>3, <1>6 DEF IInv, UsedIsStored
  <2> QED BY <1>8, <2>1, <2>2 DEF UsedIsStored, Stored
<1>10. OwnersDiffer'
  <2>1. \A s \in Task, r \in account' : Owns(s)' => r.uid # auth[s].uid
    <3> SUFFICES ASSUME NEW s \in Task, NEW r \in account', Owns(s)'
                 PROVE  r.uid # auth[s].uid
      OBVIOUS
    <3>1. CASE r \in account
      BY <1>8, <3>1 DEF IInv, OwnersDiffer
    <3>2. CASE r \notin account
      <4>1. r = new /\ auth'[t].at = "ok"
        BY <1>1, <1>3, <3>2
      <4>2. s # t
        BY <4>1 DEF Owns
      <4> QED BY <1>2, <1>6, <1>8, <4>1, <4>2 DEF IInv, OwnersDiffer
    <3> QED BY <3>1, <3>2
  <2> QED BY <1>8, <2>1 DEF IInv, OwnersDiffer
<1>11. Unique'
  BY <1>3, <1>6 DEF IInv, Unique
<1> QED BY <1>4, <1>5, <1>7, <1>9, <1>10, <1>11 DEF IInv

\* After a restart the number is the stored one, which no row exceeds.
LEMMA RestartStep == ASSUME IInv, Restart PROVE IInv'
<1>1. /\ tb_key # {} /\ uuid' \in tb_key /\ wire' = <<>>
      /\ UNCHANGED <<tb_key, account>> /\ restarts' \in Nat /\ tb_key \subseteq Nat
  <2>1. tb_key # {} /\ tb_key \subseteq Nat /\ restarts \in Nat
    BY DEF IInv, TypeOK, KeyKept
  <2>2. uuid' \in tb_key
    <3>1. \E v \in tb_key : uuid' = v
      BY <2>1 DEF Restart
    <3> QED BY <3>1
  <2>3. restarts' \in Nat /\ wire' = <<>> /\ UNCHANGED <<tb_key, account>>
    BY <2>1 DEF Restart
  <2> QED BY <2>1, <2>2, <2>3
<1>2. auth' \in [Task -> {NoAuth}] /\ \A t \in Task : auth'[t].at = "idle"
  BY DEF Restart, NoAuth
<1>3. TypeOK'
  BY <1>1, <1>2 DEF IInv, TypeOK
<1>4. KeyKept' /\ WireOrdered' /\ Unique'
  BY <1>1 DEF IInv, KeyKept, WireOrdered, Unique
<1>5. UsedIsStored' /\ OwnersDiffer'
  BY <1>1, <1>2 DEF IInv, UsedIsStored, OwnersDiffer, Owns, Stored
<1> QED BY <1>3, <1>4, <1>5 DEF IInv

\* Every step preserves the invariant.
LEMMA NextIInv == ASSUME IInv, [Next]_vars PROVE IInv'
<1>1. ASSUME NEW t \in Task, NEW x \in Account, NEW p \in Password, Login(t, x, p)
      PROVE  IInv'
  <2> DEFINE new == [at |-> "check", account |-> x, password |-> p, uid |-> Base]
  <2>1. new \in Running /\ new.at = "check"
    BY AccountConstants DEF Running, At
  <2>2. /\ auth \in [Task -> Running \cup {NoAuth}] /\ auth' = [auth EXCEPT ![t] = new]
        /\ UNCHANGED <<uuid, tb_key, wire, account, restarts>>
    BY <1>1 DEF IInv, TypeOK, Running, Login
  <2>3. ~ Owns(t)
    BY <1>1 DEF Login, Active, Owns
  <2> HIDE DEF new
  <2>4. /\ auth' \in [Task -> Running \cup {NoAuth}] /\ auth'[t].at = "check"
        /\ \A s \in Task : s # t => auth'[s] = auth[s]
    BY <2>1, <2>2
  <2>5. ~ Owns(t)'
    BY <2>4 DEF Owns
  <2> QED BY <2>2, <2>3, <2>4, <2>5, QuietStep
<1>2. ASSUME NEW t \in Task, NEW a \in {"lookup", "incr", "refused"}, Goto(t, a),
             auth[t].at \in {"check", "lookup"},
             UNCHANGED <<uuid, tb_key, wire, account, restarts>>
      PROVE  IInv'
  <2>1. /\ auth' \in [Task -> Running \cup {NoAuth}] /\ auth'[t].at = a
        /\ \A s \in Task : s # t => auth'[s] = auth[s]
    BY <1>2, GotoFacts DEF IInv, At
  <2>2. ~ Owns(t) /\ ~ Owns(t)'
    BY <1>2, <2>1 DEF Owns
  <2> QED BY <1>2, <2>1, <2>2, QuietStep
<1>3. ASSUME NEW t \in Task, Check(t) PROVE IInv'
  <2>1. CASE Goto(t, "lookup")
    BY <1>2, <1>3, <2>1 DEF Check
  <2>2. CASE ~ Goto(t, "lookup")
    <3>1. PICK r \in account : auth' = [auth EXCEPT ![t].at = "ok", ![t].uid = r.uid]
      BY <1>3, <2>2 DEF Check, Rows
    <3>2. /\ r.uid \in Nat /\ auth \in [Task -> Running \cup {NoAuth}] /\ auth[t] \in Running
          /\ ~ Owns(t)
      BY <1>3 DEF IInv, TypeOK, Running, NoAuth, Check, Owns
    <3> DEFINE m == [auth[t] EXCEPT !.at = "ok"]
               n == [m EXCEPT !.uid = r.uid]
    <3>3. m \in Running /\ m.at = "ok"
      BY <3>2 DEF Running, At
    <3>4. n \in Running /\ n.at = "ok"
      <4> HIDE DEF m
      <4> QED BY <3>2, <3>3 DEF Running
    <3>5. auth' = [auth EXCEPT ![t] = n]
      BY <3>1
    <3> HIDE DEF n
    <3>6. /\ auth' \in [Task -> Running \cup {NoAuth}] /\ auth'[t].at = "ok"
          /\ \A s \in Task : s # t => auth'[s] = auth[s]
      BY <3>2, <3>4, <3>5
    <3>7. ~ Owns(t)'
      BY <3>6 DEF Owns
    <3> QED BY <1>3, <3>2, <3>6, <3>7, QuietStep DEF Check
  <2> QED BY <2>1, <2>2
<1>4. ASSUME NEW t \in Task, Lookup(t) PROVE IInv'
  <2>1. PICK a \in {"incr", "refused"} : Goto(t, a)
    BY <1>4 DEF Lookup
  <2> QED BY <1>2, <1>4, <2>1 DEF Lookup
<1>5. ASSUME NEW t \in Task, Upsert(t) PROVE IInv'
  BY <1>5 DEF IInv, UsedIsStored, Upsert
<1>6. ASSUME NEW t \in Task, SetAccount(t) PROVE IInv'
  <2>1. CASE Rows(auth[t].account) = {}
    BY <1>6, <2>1, StoredStep DEF SetAccount
  <2>2. CASE Rows(auth[t].account) # {}
    <3>1. /\ auth[t].at = "saved" /\ Goto(t, "ok") /\ UNCHANGED <<uuid, tb_key, wire, restarts>>
          /\ account' \subseteq account \cup {Row(auth[t].account, auth[t].uid, auth[t].password)}
      BY <1>6, <2>2 DEF SetAccount
    <3> QED BY <3>1, StoredStep
  <2> QED BY <2>1, <2>2
<1>7. ASSUME NEW t \in Task, InsertAccount(t) PROVE IInv'
  BY <1>7, StoredStep DEF InsertAccount
<1>8. CASE InsertKey
  BY <1>8, WireType DEF IInv, WireOrdered, InsertKey
<1>9. CASE UNCHANGED vars
  BY <1>9 DEF vars, IInv, TypeOK, KeyKept, WireOrdered, UsedIsStored, OwnersDiffer, Unique,
              Owns, Stored
<1> QED
  BY <1>1, <1>3, <1>4, <1>5, <1>6, <1>7, <1>8, <1>9, IncrStep, UpdateKeyStep, RestartStep DEF Next, Answers

(***************************************************************************)
(* With its row in tb_key, dispatch.incr never lets two accounts share a   *)
(* uid: however many logins overlap, in one process or over restarts.      *)
(***************************************************************************)
THEOREM AccountsUidUnique == Spec => UidUnique
<1>1. Init /\ tb_key # {} => IInv
  BY InitIInv
<1>2. IInv /\ [Next]_vars => IInv'
  BY NextIInv
<1>3. IInv => Unique
  BY DEF IInv
<1> QED BY <1>1, <1>2, <1>3, PTL DEF Spec, UidUnique

(***************************************************************************)
(* The type invariant of the allocator and of the rows and coroutines of   *)
(* login_auth, under the same condition.                                   *)
(***************************************************************************)
THEOREM AccountsTypeOK == Spec => (tb_key # {} => []TypeOK)
<1>1. Init /\ tb_key # {} => IInv
  BY InitIInv
<1>2. IInv /\ [Next]_vars => IInv'
  BY NextIInv
<1>3. IInv => TypeOK
  BY DEF IInv
<1> QED BY <1>1, <1>2, <1>3, PTL DEF Spec
=============================================================================
