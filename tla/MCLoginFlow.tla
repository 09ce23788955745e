----------------------------- MODULE MCLoginFlow -----------------------------
(* LoginFlow for TLC: who logs in and who may leave in each run.            *)
EXTENDS LoginFlow, TLC

CONSTANTS f1, f2, f3, u1, u2, t1, t2, t3

Own          == f1 :> {u1} @@ f2 :> {u2}
Same         == [fd \in {f1, f2} |-> {u1}]
SameAndOther == Same @@ f3 :> {u2}

Stay         == [fd \in Fd |-> {}]
FirstLeaves  == [Stay EXCEPT ![f1] = {"tcp"}]
MayLeave     == [fd \in Fd |-> {"tcp"}]
Anyhow       == [fd \in Fd |-> {"tcp", "frame", "bad"}]

Plan(as, hangup, tasks) == [as |-> as, hangup |-> hangup, tasks |-> tasks]

\* Two players who may leave; two connections of one player who stays.
LeaveOrRelogin ==
  {Plan(Own, MayLeave, {t1, t2}), Plan(Same, Stay, {t1, t2, t3})}
Impatient == {Plan(Same, Anyhow, LoginTask)}
Kicked    == {Plan(SameAndOther, FirstLeaves, LoginTask)}

Sym == Permutations(Agent) \cup Permutations(LoginTask)
=============================================================================
