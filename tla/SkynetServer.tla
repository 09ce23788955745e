---------------------------- MODULE SkynetServer ----------------------------
(* The skynet runtime under every service of the server: contexts counted by *)
(* references (skynet_server.c), their message queues and the global list of *)
(* queues with something to do (skynet_mq.c), the handle table               *)
(* (skynet_handle.c), and the worker, timer and socket threads               *)
(* (skynet_start.c).  One step is one critical section of a lock or one      *)
(* atomic instruction; between two of them the other threads run.            *)
(*                                                                           *)
(* A thread's C stack has at most three levels, each a variable: the worker  *)
(* loop, skynet_context_new called from a callback, and a call that holds a  *)
(* reference.  A level moves only while the ones above it are empty.         *)
EXTENDS MessageQueue, Integers, FiniteSets, SequencesExt

CONSTANTS
  Worker,           \* the worker threads
  Weight,           \* Weight[w]: how much of a queue w takes at a time, -1 is one message
  Outside,          \* the timer and socket threads: they post, and run no callback
  MaxCtx,           \* bound on the contexts ever launched
  Backlog,          \* messages that wait for the launcher at the start
  MaxMsg,           \* bound on the messages services and threads post
  DefaultSlotSize

ASSUME RuntimeAssumption ==
  /\ IsFiniteSet(Worker) /\ IsFiniteSet(Outside) /\ Worker \cap Outside = {}
  /\ MaxCtx \in Nat \ {0} /\ MaxMsg \in Nat
  /\ DefaultSlotSize \in Nat \ {0}
  /\ DefaultQueueSize > 1
  /\ Backlog \in 0 .. MaxMsg /\ Backlog < DefaultQueueSize
  /\ Nil \notin Nat /\ Nil \notin [handle : Nat, ref : Nat]

Thread == Worker \cup Outside
Ctx == 1 .. MaxCtx
Launcher == 1       \* the service in whose callbacks all others are launched

(* A message: its number, 0 for the error that answers a dropped one, and   *)
(* the handle it comes from, 0 for a thread outside the workers.             *)
Msg == [id : 0 .. MaxMsg, src : 0 .. MaxCtx]

VARIABLES
  hs,       \* the handle storage
  ctx,      \* ctx[h], for the handles given out: the context's own idea of its
            \* handle, and its references; Nil when freed
  mq,       \* mq[h]: its queue, from its creation until it is freed
  gq,       \* the global list
  worker,   \* worker[w]: where it is in thread_worker, the queue it holds
  launch,   \* launch[t]: skynet_context_new in progress
  call,     \* call[t]: skynet_context_push, _release or handle_retire in progress
  sent,     \* messages numbered so far
  quit      \* monitor.quit

vars == <<hs, ctx, mq, gq, worker, launch, call, sent, quit>>

H == INSTANCE HandleStorage

Free == [at |-> "ret", h |-> 0, msg |-> Nil]
NoLaunch == [at |-> "no", h |-> 0]
Holds(pc, h) == [at |-> pc, q |-> h, nq |-> Nil, left |-> 0]

(* The bootstrap is over: the launcher has handled its own first message,    *)
(* the requests that came meanwhile wait in its queue, which is in the       *)
(* global list, and the workers are about to take it.                        *)
Waiting ==
  [mq_create EXCEPT !.head = 1, !.tail = (1 + Backlog) % DefaultQueueSize,
                    !.queue = [i \in DOMAIN @ |-> IF i \in 1 .. Backlog
                                                 THEN [id |-> i, src |-> 0] ELSE Nil]]

Init ==
  /\ hs = H!handle_register(H!handle_init)
  /\ ctx = [h \in {Launcher} |-> [handle |-> h, ref |-> 1]]
  /\ mq = [h \in {Launcher} |-> Waiting]
  /\ gq = <<Launcher>>
  /\ worker = [w \in Worker |-> Holds("loop", Nil)]
  /\ launch = [t \in Thread |-> NoLaunch]
  /\ call = [t \in Thread |-> Free]
  /\ sent = Backlog
  /\ quit = FALSE

-----------------------------------------------------------------------------
(* Calls: push, release, retire. *)

Returned(t) == call[t].at = "ret"

Unref(t, h) == call' = [call EXCEPT ![t] = [at |-> "unref", h |-> h, msg |-> Nil]]

(* skynet_context_push, first half: skynet_handle_grab.  A handle that is    *)
(* not registered fails the send, which leaves no trace.                     *)
Found(h) == H!Registered(hs, h) /\ ctx[h].handle = h

grab(h) == ctx' = [ctx EXCEPT ![h].ref = @ + 1]

Posts(t, h, m) ==
  /\ Found(h)
  /\ grab(h)
  /\ call' = [call EXCEPT ![t] = [at |-> "push", h |-> h, msg |-> m]]

(* The bug of linking the queue whatever in_global says. *)
context_push_always(t) ==
  LET h == call[t].h IN
  /\ call[t].at = "push"
  /\ mq' = [mq EXCEPT ![h] = [mq_push(@, call[t].msg) EXCEPT !.in_global = TRUE]]
  /\ gq' = Append(gq, h)
  /\ Unref(t, h)
  /\ UNCHANGED <<hs, ctx, worker, launch, sent, quit>>
context_push(t) ==
  LET h == call[t].h IN
  /\ call[t].at = "push"
  /\ mq' = [mq EXCEPT ![h] = [mq_push(@, call[t].msg) EXCEPT !.in_global = TRUE]]
  /\ gq' = IF mq[h].in_global THEN gq ELSE Append(gq, h)
  /\ Unref(t, h)
  /\ UNCHANGED <<hs, ctx, worker, launch, sent, quit>>

context_release(t) ==
  LET h == call[t].h IN
  /\ call[t].at = "unref"
  /\ ctx' = [ctx EXCEPT ![h].ref = @ - 1]
  /\ call' = [call EXCEPT ![t] = IF ctx[h].ref = 1 THEN [@ EXCEPT !.at = "delete"] ELSE Free]
  /\ UNCHANGED <<hs, mq, gq, worker, launch, sent, quit>>

(* The last reference: release the instance, skynet_mq_mark_release. *)
delete_context(t) ==
  LET h == call[t].h IN
  /\ call[t].at = "delete"
  /\ mq' = [mq EXCEPT ![h].release = TRUE]
  /\ gq' = IF mq[h].in_global THEN gq ELSE Append(gq, h)
  /\ ctx' = [ctx EXCEPT ![h] = Nil]
  /\ call' = [call EXCEPT ![t] = Free]
  /\ UNCHANGED <<hs, worker, launch, sent, quit>>

(* skynet_handle_retire: the slot is emptied, then the reference it held     *)
(* is given back.                                                            *)
handle_retire(t, h) ==
  /\ Found(h)
  /\ hs' = H!handle_retire(hs, h)
  /\ Unref(t, h)

-----------------------------------------------------------------------------
(* Code that runs in a thread: a callback, an init function, or the timer    *)
(* and socket threads.                                                       *)

Running(t) ==
  /\ Returned(t)
  /\ \/ t \in Outside
     \/ t \in Worker /\ worker[t].at = "call" /\ launch[t].at \in {"no", "init"}

Source(t) ==
  CASE t \in Outside           -> 0
    [] launch[t].at = "init"   -> launch[t].h
    [] OTHER                   -> worker[t].q

Send(t, h) ==
  /\ Running(t) /\ sent < MaxMsg
  /\ sent' = sent + 1
  /\ Posts(t, h, [id |-> sent', src |-> Source(t)])
  /\ UNCHANGED <<hs, mq, gq, worker, launch, quit>>

(* EXIT and KILL: handle_exit. *)
Kill(t, h) ==
  /\ t \in Worker /\ Running(t)
  /\ handle_retire(t, h)
  /\ UNCHANGED <<ctx, mq, gq, worker, launch, sent, quit>>

(* LAUNCH: skynet_context_new.  The slot is taken before ctx->handle is      *)
(* stored; all launches come from the callbacks of the launcher service.     *)
context_new(t) ==
  /\ t \in Worker /\ Running(t) /\ launch[t].at = "no" /\ worker[t].q = Launcher
  /\ LET handle == [c \in Range(hs.slot) \ {Nil} |-> ctx[c].handle]
         s == IF H!Full(hs) THEN H!Grow(hs, handle) ELSE hs
         h == H!Given(s)
     IN /\ h \in Ctx
        /\ hs' = H!handle_register(s)
        /\ ctx' = [c \in DOMAIN ctx \cup {h} |->
                     IF c = h THEN [handle |-> 0, ref |-> 2] ELSE ctx[c]]
        /\ launch' = [launch EXCEPT ![t] = [at |-> "registered", h |-> h]]
  /\ UNCHANGED <<mq, gq, worker, call, sent, quit>>

(* ctx->handle is stored, the queue created: the init function starts. *)
init_begin(t) ==
  LET h == launch[t].h IN
  /\ launch[t].at = "registered"
  /\ ctx' = [ctx EXCEPT ![h].handle = h]
  /\ mq' = [c \in DOMAIN mq \cup {h} |-> IF c = h THEN mq_create ELSE mq[c]]
  /\ launch' = [launch EXCEPT ![t].at = "init"]
  /\ UNCHANGED <<hs, gq, worker, call, sent, quit>>

(* The init function returns; the launching thread's reference goes. *)
init_end(t, how) ==
  /\ launch[t].at = "init" /\ Returned(t)
  /\ launch' = [launch EXCEPT ![t].at = how]
  /\ Unref(t, launch[t].h)
  /\ UNCHANGED <<hs, ctx, mq, gq, worker, sent, quit>>

(* Success: the queue enters the global list, the context gone or not. *)
launch_started(t) ==
  /\ launch[t].at = "started" /\ Returned(t)
  /\ gq' = Append(gq, launch[t].h)
  /\ launch' = [launch EXCEPT ![t] = NoLaunch]
  /\ UNCHANGED <<hs, ctx, mq, worker, call, sent, quit>>

(* Failure: skynet_handle_retire, unless the service was killed meanwhile. *)
launch_failed(t) ==
  LET h == launch[t].h IN
  /\ launch[t].at = "failed" /\ Returned(t)
  /\ IF Found(h)
     THEN handle_retire(t, h)
     ELSE UNCHANGED <<hs, call>>
  /\ launch' = [launch EXCEPT ![t].at = "release"]
  /\ UNCHANGED <<ctx, mq, gq, worker, sent, quit>>

-----------------------------------------------------------------------------
(* skynet_mq_release: drop a queue that is marked, else link it again until  *)
(* the last reference to its context has marked it.                          *)
mq_release(h) ==
  gq' = IF mq[h].release THEN gq ELSE Append(gq, h)

AfterRelease(h, done) == IF mq[h].release THEN "drop" ELSE done

launch_release(t) ==
  LET h == launch[t].h IN
  /\ launch[t].at = "release" /\ Returned(t)
  /\ mq_release(h)
  /\ launch' = [launch EXCEPT ![t] =
                  IF mq[h].release THEN [@ EXCEPT !.at = "drop"] ELSE NoLaunch]
  /\ UNCHANGED <<hs, ctx, mq, worker, call, sent, quit>>

Dropping(t) ==
  CASE launch[t].at = "drop"                   -> launch[t].h
    [] t \in Worker /\ worker[t].at = "drop"   -> worker[t].q
    [] OTHER                                   -> 0

(* _drop_queue: each message is answered with an error, if its source lives. *)
drop_message(t) ==
  LET h == Dropping(t) m == mq_first(mq[h]) IN
  /\ Dropping(t) # 0 /\ Returned(t) /\ ~Empty(mq[h])
  /\ mq' = [mq EXCEPT ![h] = mq_pop(@)]
  /\ IF m.src # 0 /\ Found(m.src)
     THEN Posts(t, m.src, [id |-> 0, src |-> h])
     ELSE UNCHANGED <<ctx, call>>
  /\ UNCHANGED <<hs, gq, worker, launch, sent, quit>>

drop_end(t) ==
  LET h == Dropping(t) IN
  /\ h # 0 /\ Returned(t) /\ Empty(mq[h])
  /\ mq' = Restrict(mq, DOMAIN mq \ {h})
  /\ IF launch[t].at = "drop"
     THEN launch' = [launch EXCEPT ![t] = NoLaunch] /\ UNCHANGED worker
     ELSE worker' = [worker EXCEPT ![t].at = "next"] /\ UNCHANGED launch
  /\ UNCHANGED <<hs, ctx, gq, call, sent, quit>>

-----------------------------------------------------------------------------
(* thread_worker and skynet_context_message_dispatch. *)

At(w, pc) == worker[w].at = pc /\ Returned(w) /\ launch[w].at = "no"

(* while (!quit): with no queue in hand, take the first of the global list. *)
globalmq_pop(w, at, none) ==
  IF gq = << >>
  THEN worker' = [worker EXCEPT ![w] = Holds(none, Nil)] /\ UNCHANGED gq
  ELSE worker' = [worker EXCEPT ![w] = Holds(at, Head(gq))] /\ gq' = Tail(gq)

Loop(w) ==
  /\ At(w, "loop")
  /\ \/ quit /\ worker' = [worker EXCEPT ![w].at = "exit"] /\ UNCHANGED gq
     \/ ~quit /\ worker[w].q = Nil /\ globalmq_pop(w, "grab", "tosleep")
  /\ UNCHANGED <<hs, ctx, mq, launch, call, sent, quit>>

(* The bug of looking the context up without keeping a reference. *)
Grab_unreferenced(w) ==
  /\ At(w, "grab") \/ (At(w, "loop") /\ worker[w].q # Nil /\ ~quit)
  /\ worker' = [worker EXCEPT ![w].at = IF Found(worker[w].q) THEN "first" ELSE "release"]
  /\ UNCHANGED <<hs, ctx, mq, gq, launch, call, sent, quit>>
(* skynet_handle_grab keeps the context alive while its queue is worked on. *)
Grab(w) ==
  LET h == worker[w].q IN
  /\ At(w, "grab") \/ (At(w, "loop") /\ h # Nil /\ ~quit)
  /\ IF Found(h)
     THEN grab(h) /\ worker' = [worker EXCEPT ![w].at = "first"]
     ELSE worker' = [worker EXCEPT ![w].at = "release"] /\ UNCHANGED ctx
  /\ UNCHANGED <<hs, mq, gq, launch, call, sent, quit>>

Release(w) ==
  LET h == worker[w].q IN
  /\ At(w, "release")
  /\ mq_release(h)
  /\ worker' = [worker EXCEPT ![w].at = AfterRelease(h, "next")]
  /\ UNCHANGED <<hs, ctx, mq, launch, call, sent, quit>>

(* return skynet_globalmq_pop() *)
NextQueue(w) ==
  /\ At(w, "next")
  /\ globalmq_pop(w, "loop", "tosleep")
  /\ UNCHANGED <<hs, ctx, mq, launch, call, sent, quit>>

(* The number of messages to handle in a row, known after the first. *)
Batch(w, q) == IF Weight[w] < 0 THEN 1 ELSE mq_length(q) \div 2 ^ Weight[w]

Left(w, q) ==
  IF worker[w].at = "first"
  THEN IF Batch(w, q) > 1 THEN Batch(w, q) - 1 ELSE 0
  ELSE worker[w].left - 1

(* The bug of leaving in_global set on an empty queue. *)
Pop_stays_global(w) ==
  LET h == worker[w].q IN
  /\ At(w, "first") \/ At(w, "more")
  /\ IF Empty(mq[h])
     THEN /\ UNCHANGED mq
          /\ worker' = [worker EXCEPT ![w] = Holds("next", Nil)]
          /\ Unref(w, h)
     ELSE /\ mq' = [mq EXCEPT ![h] = mq_pop(@)]
          /\ worker' = [worker EXCEPT ![w].at = "call", ![w].left = Left(w, mq'[h])]
          /\ UNCHANGED call
  /\ UNCHANGED <<hs, ctx, gq, launch, sent, quit>>
(* skynet_mq_pop: an empty queue leaves the worker's hands, and its          *)
(* reference with it; a message goes to the service's callback.  The length  *)
(* is read in a critical section of its own in the code, right after it.     *)
Pop(w) ==
  LET h == worker[w].q IN
  /\ At(w, "first") \/ At(w, "more")
  /\ IF Empty(mq[h])
     THEN /\ mq' = [mq EXCEPT ![h].in_global = FALSE]
          /\ worker' = [worker EXCEPT ![w] = Holds("next", Nil)]
          /\ Unref(w, h)
     ELSE /\ mq' = [mq EXCEPT ![h] = mq_pop(@)]
          /\ worker' = [worker EXCEPT ![w].at = "call", ![w].left = Left(w, mq'[h])]
          /\ UNCHANGED call
  /\ UNCHANGED <<hs, ctx, gq, launch, sent, quit>>

(* The callback returns. *)
Return(w) ==
  /\ At(w, "call")
  /\ worker' = [worker EXCEPT ![w].at = IF worker[w].left > 0 THEN "more" ELSE "yield"]
  /\ UNCHANGED <<hs, ctx, mq, gq, launch, call, sent, quit>>

(* With another queue waiting take that one, and link this one behind it in  *)
(* the next step; else go on with this one.                                  *)
Yield(w) ==
  LET h == worker[w].q IN
  /\ At(w, "yield")
  /\ IF gq = << >>
     THEN /\ worker' = [worker EXCEPT ![w].at = "loop"]
          /\ Unref(w, h)
          /\ UNCHANGED gq
     ELSE /\ worker' = [worker EXCEPT ![w].at = "back", ![w].nq = Head(gq)]
          /\ gq' = Tail(gq)
          /\ UNCHANGED call
  /\ UNCHANGED <<hs, ctx, mq, launch, sent, quit>>

PushBack(w) ==
  /\ At(w, "back")
  /\ gq' = Append(gq, worker[w].q)
  /\ worker' = [worker EXCEPT ![w] = Holds("loop", worker[w].nq)]
  /\ Unref(w, worker[w].q)
  /\ UNCHANGED <<hs, ctx, mq, launch, sent, quit>>

(* pthread_cond_wait: the global list is not looked at again before. *)
Sleep(w) ==
  /\ At(w, "tosleep")
  /\ worker' = [worker EXCEPT ![w].at = IF quit THEN "loop" ELSE "asleep"]
  /\ UNCHANGED <<hs, ctx, mq, gq, launch, call, sent, quit>>

(* wakeup: the timer thread signals on every turn as soon as one worker      *)
(* sleeps, the socket thread when all do; a spurious wakeup looks the same.  *)
Wakeup(w) ==
  /\ worker[w].at = "asleep" /\ ~quit
  /\ worker' = [worker EXCEPT ![w].at = "loop"]
  /\ UNCHANGED <<hs, ctx, mq, gq, launch, call, sent, quit>>

(* CHECK_ABORT in the timer thread: no context is left, everyone is told. *)
Alive(h) == h \in DOMAIN ctx /\ ctx[h] # Nil

total == Cardinality({h \in Ctx : Alive(h)})

(* The bug of setting quit without waking the workers that sleep. *)
Abort_silent ==
  /\ total = 0 /\ ~quit
  /\ quit' = TRUE
  /\ UNCHANGED <<hs, ctx, mq, gq, worker, launch, call, sent>>
Abort ==
  /\ total = 0 /\ ~quit
  /\ quit' = TRUE
  /\ worker' = [w \in Worker |->
                  IF worker[w].at = "asleep" THEN [worker[w] EXCEPT !.at = "loop"] ELSE worker[w]]
  /\ UNCHANGED <<hs, ctx, mq, gq, launch, call, sent>>

-----------------------------------------------------------------------------
CallStep(t) == context_push(t) \/ context_release(t) \/ delete_context(t)

LaunchStep(t) ==
  \/ init_begin(t)
  \/ init_end(t, "started")
  \/ init_end(t, "failed")
  \/ launch_started(t)
  \/ launch_failed(t)
  \/ launch_release(t)

WorkerStep(w) ==
  \/ Loop(w) \/ Grab(w) \/ Release(w) \/ NextQueue(w) \/ Pop(w) \/ Return(w)
  \/ Yield(w) \/ PushBack(w) \/ Sleep(w)

Step(t) == CallStep(t) \/ LaunchStep(t) \/ drop_message(t) \/ drop_end(t)

Next ==
  \/ \E t \in Thread : Step(t) \/ context_new(t)
  \/ \E t \in Thread, h \in Ctx : Send(t, h) \/ Kill(t, h)
  \/ \E w \in Worker : WorkerStep(w) \/ Wakeup(w)
  \/ Abort

Spec == Init /\ [][Next]_vars

(* Threads run and callbacks return; the timer thread's turn comes every     *)
(* 2.5 ms.  Nothing obliges a service to send, launch or kill.               *)
Fairness ==
  /\ \A t \in Thread : WF_vars(Step(t) \/ (t \in Worker /\ WorkerStep(t)))
  /\ WF_vars(\E w \in Worker : Wakeup(w))
  /\ WF_vars(Abort)

FairSpec == Spec /\ Fairness

-----------------------------------------------------------------------------
Place == {"loop", "grab", "release", "drop", "first", "more", "call", "yield", "back",
          "next", "tosleep", "asleep", "exit"}

(* The types of all variables; a queue's indices are inside its ring.  A     *)
(* queue that is freed while someone still works on it breaks this too.      *)
TypeOK ==
  /\ DOMAIN ctx \subseteq Ctx /\ DOMAIN mq \subseteq Ctx
  /\ \A h \in DOMAIN ctx : ctx[h] \in [handle : 0 .. MaxCtx, ref : Nat] \cup {Nil}
  /\ \A h \in DOMAIN mq :
       /\ mq[h].head \in 0 .. mq[h].cap - 1 /\ mq[h].tail \in 0 .. mq[h].cap - 1
       /\ \A m \in Range(Content(mq[h])) : m \in Msg
  /\ gq \in Seq(Ctx)
  /\ \A w \in Worker : worker[w].at \in Place
  /\ sent \in 0 .. MaxMsg

(* Who holds the queue of h: a worker between taking it and finding it      *)
(* empty, the thread that launches h until it links the queue.               *)
HeldBy(t, h) ==
  \/ launch[t].h = h /\ launch[t].at \in {"init", "started", "failed", "release", "drop"}
  \/ t \in Worker /\ worker[t].q = h
       /\ worker[t].at \in Place \ {"next", "tosleep", "asleep"}
  \/ t \in Worker /\ worker[t].nq = h

Places(h) ==
  Cardinality({i \in DOMAIN gq : gq[i] = h}) + Cardinality({t \in Thread : HeldBy(t, h)})

(* A queue that is marked as global (or as to be released) is in exactly one *)
(* place, the global list or one thread's hands, and any other is in none:   *)
(* no two workers ever work on one service, the asserts on queue->next hold, *)
(* and no queue with messages is forgotten.                                  *)
QueueOnce ==
  \A h \in DOMAIN mq :
    /\ Places(h) = IF mq[h].in_global \/ mq[h].release THEN 1 ELSE 0
    /\ ~mq[h].in_global => Empty(mq[h])

(* Whatever a thread refers to is still allocated: contexts have exactly as  *)
(* many references as there are users, and no queue is freed before its      *)
(* last user is through with it.                                             *)
Users(h) ==
  (IF H!Registered(hs, h) THEN 1 ELSE 0)
  + Cardinality({t \in Thread : call[t].h = h /\ call[t].at \in {"push", "unref"}})
  + Cardinality({t \in Thread : launch[t].h = h /\ launch[t].at \in {"registered", "init"}})
  + Cardinality({w \in Worker : worker[w].q = h
                                /\ worker[w].at \in {"first", "more", "call", "yield", "back"}})

RefsExact ==
  /\ TypeOK
  /\ \A h \in Ctx :
      /\ Alive(h) => ctx[h].ref = Users(h)
      /\ ~Alive(h) => Users(h) = 0
      /\ Alive(h) /\ ctx[h].handle = h => h \in DOMAIN mq /\ ~mq[h].release
      /\ Places(h) > 0 => h \in DOMAIN mq

(* A context can be found under its handle from its registration until it is *)
(* retired, across the growth of the slot table.                             *)
Findable ==
  \A i \in DOMAIN hs.slot : hs.slot[i] # Nil => H!Hash(hs, hs.slot[i]) = i

-----------------------------------------------------------------------------
(* The runtime keeps the promises of Mailbox. *)

Busy(h) ==
  \/ \E t \in Thread : launch[t] = [at |-> "init", h |-> h]
  \/ \E w \in Worker : worker[w].at = "call" /\ worker[w].q = h

M == INSTANCE Mailbox WITH
       Service <- Ctx, Message <- Msg,
       life <- [h \in Ctx |->
                  IF h \notin DOMAIN ctx THEN "none"
                  ELSE IF ctx[h] = Nil THEN "gone"
                  ELSE IF ctx[h].handle = 0 THEN "none" ELSE "up"],
       busy <- [h \in Ctx |-> Busy(h)],
       box <- [h \in Ctx |-> IF h \in DOMAIN mq THEN Content(mq[h]) ELSE << >>]

(* Every step of the threads is a step of Mailbox or changes nothing in it:  *)
(* services run one callback at a time, see their messages in the order of   *)
(* posting, and end between callbacks.                                       *)
Serves == M!Spec

(* A message posted to a service is taken or dropped in the end, although a  *)
(* worker goes to sleep without looking at the list again; only the end of   *)
(* all services ends this.                                                   *)
Pending(i) == \E h \in DOMAIN mq : \E m \in Range(Content(mq[h])) : m.id = i

EveryMessageTaken ==
  \A i \in 1 .. MaxMsg : Pending(i) ~> (~Pending(i) \/ quit)

(* With the last service gone all the workers leave their loops. *)
AllLeave ==
  (total = 0) ~> (\A w \in Worker : worker[w].at = "exit")
=============================================================================
