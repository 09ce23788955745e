----------------------------- MODULE TimerWheel -----------------------------
(* skynet_timer.c: the hierarchical timer wheel behind skynet.timeout.  The  *)
(* next 2^NearShift ticks have a list each; four further levels of           *)
(* 2^LevelShift lists hold the later ones, to be spread over the lists below *)
(* when their time comes.  Time has NearShift + 4 * LevelShift bits (32 in   *)
(* the code) and wraps.                                                      *)
(*                                                                           *)
(* timer_update runs in the timer thread under the spinlock, which it gives  *)
(* back while it posts the messages of the timers due; the workers set       *)
(* timers whenever the lock is free.  A timeout of 0 or less is posted at    *)
(* once by skynet_timeout and never enters the wheel.                        *)
EXTENDS Integers, Sequences, SequencesExt

CONSTANTS
  Timer,         \* timers that may be set at one time
  Timeouts,      \* the numbers of ticks to set them for
  NearShift,     \* TIME_NEAR_SHIFT, 8 in the code
  LevelShift     \* TIME_LEVEL_SHIFT, 6 in the code

Near == 2 ^ NearShift
Level == 2 ^ LevelShift
Levels == 4
Wrap == Near * Level ^ Levels

(* A timeout is a positive int, half of what the unsigned time can tell. *)
ASSUME TimeoutAssumption ==
  /\ NearShift \in Nat \ {0} /\ LevelShift \in Nat \ {0}
  /\ Timeouts \subseteq 1 .. (Wrap \div 2) - 1

VARIABLES
  wheel,    \* struct timer: time, near and t, lists of nodes
  at,       \* "idle", or the timer_execute of timer_update that is dispatching
  firing,   \* the nodes taken from the wheel and not yet posted
  set       \* history: the timers set and not yet posted, in order of timer_add

vars == <<wheel, at, firing, set>>

Init ==
  /\ wheel = [time |-> 0,
              near |-> [i \in 0 .. Near - 1 |-> << >>],
              t |-> [l \in 0 .. Levels - 1 |-> [i \in 0 .. Level - 1 |-> << >>]]]
  /\ at = "idle"
  /\ firing = << >>
  /\ set = << >>

-----------------------------------------------------------------------------
(* The lists as the code links them. *)

(* 2^(bits below level l), and the digit of a time that selects its list. *)
Below(l) == Near * Level ^ l
Digit(time, l) == (time \div Below(l)) % Level

(* The first level whose window, of all bits below it, has both times. *)
Windows(e, now) == {l \in 0 .. Levels - 2 : e \div Below(l + 1) = now \div Below(l + 1)}
LevelOf(e, now) ==
  IF Windows(e, now) = {} THEN Levels - 1
  ELSE CHOOSE l \in Windows(e, now) : \A k \in Windows(e, now) : l <= k

IsNear(node, now) == node.expire \div Near = now \div Near

(* add_node for each of the nodes of a list in turn: those that expire in    *)
(* the current window of near go there, the others to their level.           *)
(* The bug of linking at the head of the lists. *)
add_nodes_front(w, list) ==
  [w EXCEPT
     !.near = [i \in DOMAIN @ |->
                 SelectSeq(list, LAMBDA n : IsNear(n, w.time) /\ n.expire % Near = i) \o @[i]],
     !.t = [l \in DOMAIN @ |-> [i \in DOMAIN @[l] |->
              SelectSeq(list, LAMBDA n : /\ ~IsNear(n, w.time)
                                         /\ l = LevelOf(n.expire, w.time)
                                         /\ i = Digit(n.expire, l)) \o @[l][i]]]]
(* The bug of putting every node that is not near into the first level. *)
add_nodes_flat(w, list) ==
  [w EXCEPT
     !.near = [i \in DOMAIN @ |->
                 @[i] \o SelectSeq(list, LAMBDA n : IsNear(n, w.time) /\ n.expire % Near = i)],
     !.t[0] = [i \in DOMAIN @ |->
                 @[i] \o SelectSeq(list, LAMBDA n : ~IsNear(n, w.time) /\ i = Digit(n.expire, 0))]]
add_nodes(w, list) ==
  [w EXCEPT
     !.near = [i \in DOMAIN @ |->
                 @[i] \o SelectSeq(list, LAMBDA n : IsNear(n, w.time) /\ n.expire % Near = i)],
     !.t = [l \in DOMAIN @ |-> [i \in DOMAIN @[l] |->
              @[l][i] \o SelectSeq(list, LAMBDA n : /\ ~IsNear(n, w.time)
                                                    /\ l = LevelOf(n.expire, w.time)
                                                    /\ i = Digit(n.expire, l))]]]

move_list(w, l, idx) ==
  add_nodes([w EXCEPT !.t[l][idx] = << >>], w.t[l][idx])

(* The lowest level whose digit is not zero is spread over the lists below;  *)
(* if time wraps to 0, it is the first list of the last level.               *)
(* The bug of not treating the wrap: the list of the first window after it   *)
(* stays where it is.                                                        *)
timer_shift_no_wrap(w) ==
  LET ct == (w.time + 1) % Wrap
      s  == [w EXCEPT !.time = ct]
      l  == CHOOSE i \in 0 .. Levels - 1 :
              Digit(ct, i) # 0 /\ \A k \in 0 .. i - 1 : Digit(ct, k) = 0
  IN  IF ct % Near # 0 \/ ct = 0 THEN s ELSE move_list(s, l, Digit(ct, l))
timer_shift(w) ==
  LET ct == (w.time + 1) % Wrap
      s  == [w EXCEPT !.time = ct]
      l  == CHOOSE i \in 0 .. Levels - 1 :
              Digit(ct, i) # 0 /\ \A k \in 0 .. i - 1 : Digit(ct, k) = 0
  IN  IF ct = 0 THEN move_list(s, Levels - 1, 0)
      ELSE IF ct % Near # 0 THEN s
      ELSE move_list(s, l, Digit(ct, l))

Now(w) == w.time % Near

-----------------------------------------------------------------------------
(* A worker: skynet_timeout, timer_add. *)
timer_add(i, n) ==
  LET node == [id |-> i, expire |-> (wheel.time + n) % Wrap] IN
  /\ \A k \in DOMAIN set : set[k].id # i
  /\ wheel' = add_nodes(wheel, <<node>>)
  /\ set' = Append(set, node)
  /\ UNCHANGED <<at, firing>>

(* The timer thread: timer_update up to the point where it next gives the    *)
(* lock back.  timer_execute empties the list of the current tick before and *)
(* after the shift, again and again until it stays empty.                    *)
Begin(phase) ==
  LET due == wheel.near[Now(wheel)] # << >>
      w   == IF ~due /\ phase = "before" THEN timer_shift(wheel) ELSE wheel
  IN  /\ firing' = w.near[Now(w)]
      /\ wheel' = [w EXCEPT !.near[Now(w)] = << >>]
      /\ at' = IF firing' = << >> THEN "idle" ELSE IF due THEN phase ELSE "after"
      /\ UNCHANGED set

timer_update == at = "idle" /\ Begin("before")

(* dispatch_list: without the lock, skynet_context_push for each node. *)
dispatch_list ==
  /\ firing # << >>
  /\ set' = SelectSeq(set, LAMBDA n : n.id # firing[1].id)
  /\ firing' = Tail(firing)
  /\ UNCHANGED <<wheel, at>>

timer_execute == at # "idle" /\ firing = << >> /\ Begin(at)

TimerThread == timer_update \/ dispatch_list \/ timer_execute

Next ==
  \/ TimerThread
  \/ \E i \in Timer, n \in Timeouts : timer_add(i, n)

Spec == Init /\ [][Next]_vars

(* The timer thread runs for ever. *)
FairSpec == Spec /\ WF_vars(TimerThread)

-----------------------------------------------------------------------------
Linked(w) ==
  UNION ({Range(w.near[i]) : i \in DOMAIN w.near}
         \cup {Range(w.t[l][i]) : l \in DOMAIN w.t, i \in 0 .. Level - 1})

(* Times and lists have their types, and no timer is lost: the nodes linked  *)
(* or being posted are those that were set, with the expire they were given. *)
TypeOK ==
  /\ wheel.time \in 0 .. Wrap - 1
  /\ at \in {"idle", "before", "after"}
  /\ Linked(wheel) \cup Range(firing) = Range(set)

(* Every node is, at every moment, in the list where add_node would put it   *)
(* now: spreading a list is never late, across the wrap of time too.  (The   *)
(* types are part of it: no node is lost or posted twice.)                   *)
InPlace ==
  /\ TypeOK
  /\ \A i \in DOMAIN wheel.near : \A node \in Range(wheel.near[i]) :
       IsNear(node, wheel.time) /\ node.expire % Near = i
  /\ \A l \in DOMAIN wheel.t, i \in 0 .. Level - 1 : \A node \in Range(wheel.t[l][i]) :
       /\ ~IsNear(node, wheel.time)
       /\ l = LevelOf(node.expire, wheel.time) /\ i = Digit(node.expire, l)

Ids == [k \in DOMAIN set |-> set[k].id]
TicksTo(i) ==
  LET N == {n \in Range(set) : n.id = i}
  IN  IF N = {} THEN 0 ELSE ((CHOOSE n \in N : TRUE).expire - wheel.time) % Wrap

A == INSTANCE Alarms WITH set <- Ids, due <- [i \in Timer |-> TicksTo(i)]

(* The wheel keeps the promise of Alarms: every timer fires at its tick, in  *)
(* the order of timer_add, whatever is set while the lock is given back.     *)
FiresOnTime == A!Spec

(* Every timer that is set fires. *)
EveryTimerFires == \A i \in Timer : (i \in Range(Ids)) ~> (i \notin Range(Ids))
=============================================================================
