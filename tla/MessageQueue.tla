---------------------------- MODULE MessageQueue ----------------------------
(* skynet_mq.c: the message queue of one service, a ring that doubles when it *)
(* is full, and its two flags.  in_global: the queue is in the global list,  *)
(* in the hands of a worker or of the launching thread.  release: the        *)
(* context is gone and the queue is to be dropped.  Overload warnings are    *)
(* only logged and are left out.                                             *)
EXTENDS Naturals, Sequences

CONSTANTS
  DefaultQueueSize,  \* DEFAULT_QUEUE_SIZE, 64 in the code
  Nil

ASSUME QueueSizeAssumption == DefaultQueueSize \in Nat \ {0}

mq_create ==
  [cap |-> DefaultQueueSize, head |-> 0, tail |-> 0,
   queue |-> [i \in 0 .. DefaultQueueSize - 1 |-> Nil],
   in_global |-> TRUE, release |-> FALSE]

mq_length(q) == IF q.head <= q.tail THEN q.tail - q.head ELSE q.tail + q.cap - q.head

(* The queue as the sequence of its messages, the oldest first. *)
Content(q) == [i \in 1 .. mq_length(q) |-> q.queue[(q.head + i - 1) % q.cap]]

Empty(q) == q.head = q.tail

mq_first(q) == q.queue[q.head]

mq_pop(q) ==
  [q EXCEPT !.head = (@ + 1) % q.cap, !.queue[q.head] = Nil]

(* The bug of copying from the start of the array instead of from head. *)
expand_queue_unrotated(q) ==
  [q EXCEPT !.queue = [i \in 0 .. 2 * q.cap - 1 |-> IF i < q.cap THEN q.queue[i] ELSE Nil],
            !.head = 0, !.tail = q.cap, !.cap = 2 * q.cap]
expand_queue(q) ==
  [q EXCEPT !.queue = [i \in 0 .. 2 * q.cap - 1 |->
                         IF i < q.cap THEN q.queue[(q.head + i) % q.cap] ELSE Nil],
            !.head = 0, !.tail = q.cap, !.cap = 2 * q.cap]

mq_push(q, m) ==
  LET p == [q EXCEPT !.queue[q.tail] = m, !.tail = (@ + 1) % q.cap]
  IN  IF p.head = p.tail THEN expand_queue(p) ELSE p
=============================================================================
