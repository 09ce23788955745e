------------------------------- MODULE Alarms -------------------------------
(* What skynet.timeout promises: a timer set for n ticks fires when n ticks  *)
(* have passed, no tick passes while a timer is due, and of the timers due   *)
(* at one tick the one set first fires first.                                *)
EXTENDS Naturals, Sequences, SequencesExt

CONSTANTS Timer, Timeouts

VARIABLES
  due,    \* due[i]: ticks until i fires; meaningless unless i is set
  set     \* the timers that are set, in the order in which they were set

vars == <<due, set>>

Init ==
  /\ due = [i \in Timer |-> 0]
  /\ set = << >>

Set(i, n) ==
  /\ i \notin Range(set)
  /\ set' = Append(set, i)
  /\ due' = [due EXCEPT ![i] = n]

Tick ==
  /\ \A i \in Range(set) : due[i] > 0
  /\ due' = [i \in Timer |-> IF i \in Range(set) THEN due[i] - 1 ELSE due[i]]
  /\ UNCHANGED set

First(i) == \A k \in DOMAIN set : due[set[k]] = 0 => \E j \in 1 .. k : set[j] = i

Fire(i) ==
  /\ i \in Range(set) /\ due[i] = 0
  /\ First(i)
  /\ set' = SelectSeq(set, LAMBDA j : j # i)
  /\ due' = [due EXCEPT ![i] = 0]

Next ==
  \/ Tick
  \/ \E i \in Timer : Fire(i) \/ \E n \in Timeouts : Set(i, n)

Spec == Init /\ [][Next]_vars
=============================================================================
