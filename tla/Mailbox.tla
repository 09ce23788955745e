------------------------------- MODULE Mailbox -------------------------------
(* What the runtime promises the services, and what the models of the Lua    *)
(* services rely on: a service handles its messages one at a time, in the    *)
(* order in which they were posted; it ends only between two callbacks; and  *)
(* what it has not handled by then is dropped, oldest first.                 *)
EXTENDS Naturals, Sequences

CONSTANTS Service, Message

VARIABLES
  life,   \* life[s]: "none", "up" or "gone"
  busy,   \* busy[s]: a callback (or the init function) of s is running
  box     \* box[s]: the messages posted to s and not yet taken

vars == <<life, busy, box>>

TypeOK ==
  /\ life \in [Service -> {"none", "up", "gone"}]
  /\ busy \in [Service -> BOOLEAN]
  /\ box \in [Service -> Seq(Message)]

Init ==
  /\ life \in [Service -> {"none", "up"}]
  /\ busy = [s \in Service |-> FALSE]
  /\ box \in [Service -> Seq(Message)]

Start(s) ==
  /\ life[s] = "none"
  /\ life' = [life EXCEPT ![s] = "up"]
  /\ busy' = [busy EXCEPT ![s] = TRUE]
  /\ UNCHANGED box

Post(s, m) ==
  /\ life[s] = "up"
  /\ box' = [box EXCEPT ![s] = Append(@, m)]
  /\ UNCHANGED <<life, busy>>

Take(s) ==
  /\ life[s] = "up" /\ ~busy[s] /\ box[s] # << >>
  /\ box' = [box EXCEPT ![s] = Tail(@)]
  /\ busy' = [busy EXCEPT ![s] = TRUE]
  /\ UNCHANGED life

Finish(s) ==
  /\ busy[s]
  /\ busy' = [busy EXCEPT ![s] = FALSE]
  /\ UNCHANGED <<life, box>>

End(s) ==
  /\ life[s] = "up" /\ ~busy[s]
  /\ life' = [life EXCEPT ![s] = "gone"]
  /\ UNCHANGED <<busy, box>>

Drop(s) ==
  /\ life[s] = "gone" /\ box[s] # << >>
  /\ box' = [box EXCEPT ![s] = Tail(@)]
  /\ UNCHANGED <<life, busy>>

Next ==
  \E s \in Service :
    \/ Start(s) \/ Take(s) \/ Finish(s) \/ End(s) \/ Drop(s)
    \/ \E m \in Message : Post(s, m)

Spec == Init /\ [][Next]_vars
=============================================================================
