---------------------------- MODULE SocketServer ----------------------------
(* socket_server.c, the TCP part: services write to a connection directly    *)
(* from their worker thread when nothing else waits to be written, and by a  *)
(* request through a pipe to the socket thread otherwise; the socket thread  *)
(* handles requests and epoll events.  A slot is used by one id after the    *)
(* other.                                                                    *)
(*                                                                           *)
(* A list of write buffers is the sequence of its bytes, a byte being known  *)
(* by its message and its place in it.  can_direct_write reads the lists     *)
(* first and dw_buffer, sending and type later: other threads step in        *)
(* between, and a slot may be closed and given to the next id meanwhile.     *)
(* The threads are sequentially consistent.  One step each are the end of    *)
(* can_direct_write with the trylock that follows it, and in reserve_id the  *)
(* compare-and-swap of the type with the store of the id behind it.  Not     *)
(* modelled: UDP, bind, the listening socket's own requests, setopt, the     *)
(* warnings and statistics, what clients send.                               *)
EXTENDS Integers, Sequences, FiniteSets, SequencesExt

CONSTANTS
  Service,     \* the services that use the sockets, each on a worker thread
  MaxSocket,   \* MAX_SOCKET, 65536 in the code
  MaxConn,     \* bound: connections made or accepted
  MaxSend,     \* bound: messages the services send
  Size,        \* bytes of a message
  MaxSending,  \* 0xffff, the limit of the count in sending
  Closer,      \* Closer[w]: the closes (FALSE) and shutdowns (TRUE) it may ask for
  Priority     \* Priority[w]: how it sends, "D" or "P" (lowpriority)

ASSUME SocketAssumption ==
  /\ IsFiniteSet(Service) /\ MaxConn \in Nat /\ MaxSend \in Nat
  /\ MaxSocket \in Nat \ {0} /\ Size \in Nat \ {0} /\ MaxSending \in Nat \ {0}
  /\ Closer \in [Service -> SUBSET BOOLEAN] /\ Priority \in [Service -> SUBSET {"D", "P"}]

Id == 1 .. MaxConn * MaxSocket
Slot == 0 .. MaxSocket - 1
HASH_ID(id) == id % MaxSocket
ID_TAG16(id) == id \div MaxSocket

Message == [w : Service, n : 1 .. MaxSend, id : Id, op : {"D", "P"}]
Byte == [m : Message, k : 1 .. Size]
(* The bytes of a message from place k on. *)
From(m, k) == [i \in 1 .. Size - k + 1 |-> [m |-> m, k |-> k + i - 1]]

VARIABLES
  slot,      \* slot[h]: struct socket, and what epoll knows of its fd
  alloc_id,  \* the last id given out
  pipe,      \* the requests on their way to the socket thread
  checkctrl, \* whether the socket thread looks for requests: before the next
             \* event ("yes"), after it ("later"), or no more in this poll
  ev,        \* the events of the last sp_wait still to be handled
  closing,   \* the ids the socket thread waits to force_close, at most one
  call,      \* call[w]: where a service is in socket_server_send
  conns,     \* connections made so far
  told,      \* told[id]: the last the services were told of an id
  asked,     \* history: the starts and closes asked for
  gone,      \* the ids whose peer has closed
  sent,      \* history: the messages handed to socket_server_send
  wire,      \* history, wire[id]: the bytes written to the connection
  due        \* history, due[id]: what its closer had sent when HALFCLOSE began

vars == <<slot, alloc_id, pipe, checkctrl, ev, closing, call, conns, told, asked, gone, sent, wire, due>>
thread == <<checkctrl, ev, closing>>
world == <<alloc_id, conns, asked, gone, sent>>

Idle == [at |-> "idle"]
At(w, place) == call[w].at = place

Init ==
  /\ slot = [h \in Slot |-> [type |-> "INVALID", id |-> 0, tcp |-> FALSE, tag |-> 0, sending |-> 0,
                             high |-> << >>, low |-> << >>, dw |-> << >>, lock |-> FALSE,
                             watched |-> FALSE, armed |-> FALSE]]
  /\ alloc_id = 0 /\ pipe = << >> /\ checkctrl = "yes" /\ ev = << >> /\ closing = {}
  /\ call = [w \in Service |-> Idle]
  /\ conns = 0 /\ asked = {} /\ gone = {} /\ sent = {}
  /\ told = [id \in Id |-> "nothing"]
  /\ wire = [id \in Id |-> << >>]
  /\ due = [id \in Id |-> {}]

-----------------------------------------------------------------------------
(* struct socket. *)

send_buffer_empty(s) == s.high = << >> /\ s.low = << >>
nomore_sending_data(s) == send_buffer_empty(s) /\ s.dw = << >> /\ s.sending = 0
Valid(id) == slot[HASH_ID(id)].type # "INVALID" /\ slot[HASH_ID(id)].id = id

new_fd(s, id) ==
  [s EXCEPT !.id = id, !.tcp = TRUE, !.tag = ID_TAG16(id), !.sending = 0, !.dw = << >>]

(* reserve_id: the first of the next MAX_SOCKET ids whose slot is free. *)
FreeIds == {id \in alloc_id + 1 .. alloc_id + MaxSocket : slot[HASH_ID(id)].type = "INVALID"}
reserve_id(id) ==
  /\ id \in FreeIds /\ \A i \in FreeIds : id <= i
  /\ alloc_id' = id
NoId == FreeIds = {} /\ alloc_id' = alloc_id + MaxSocket

Reserved(s, id) == [s EXCEPT !.type = "RESERVE", !.id = id, !.tcp = FALSE]

-----------------------------------------------------------------------------
(* The services. *)

Sends(w) == {m \in sent : m.w = w}
HasClosed(w, id) == \E r \in asked : r.op = "K" /\ r.w = w /\ r.id = id
Request(r) == pipe' = Append(pipe, r)

(* socket_server_send, socket_server_send_lowpriority: the first test, and   *)
(* what can_direct_write reads first.  A service no longer writes to what it *)
(* has closed.                                                               *)
Send(w, id, op) ==
  LET m == [w |-> w, n |-> Cardinality(Sends(w)) + 1, id |-> id, op |-> op]
      direct == op = "D" /\ send_buffer_empty(slot[HASH_ID(id)])
  IN  /\ At(w, "idle") /\ Cardinality(sent) < MaxSend /\ op \in Priority[w]
      /\ told[id] \in {"open", "close"} /\ Valid(id)
      /\ ~HasClosed(w, id)
      /\ sent' = sent \cup {m}
      /\ call' = [call EXCEPT ![w] = [at |-> IF direct THEN "look" ELSE "inc", m |-> m]]
      /\ UNCHANGED <<slot, alloc_id, pipe, thread, conns, told, asked, gone, wire, due>>

(* The rest of can_direct_write. *)
NoneElse(s) == s.dw = << >> /\ s.sending = 0 /\ s.type = "CONNECTED"
Goes(w, place) == call' = [call EXCEPT ![w].at = place]
SetSlot(h, s) == slot' = [slot EXCEPT ![h] = s]

(* The first look, and socket_trylock. *)
(* The bug of writing without the second look. *)
Look_once(w) ==
  LET h == HASH_ID(call[w].m.id) s == slot[h] free == NoneElse(s) /\ ~s.lock
  IN  /\ At(w, "look")
      /\ Goes(w, IF free THEN "sure" ELSE "inc")
      /\ SetSlot(h, [s EXCEPT !.lock = @ \/ free])
      /\ UNCHANGED <<pipe, thread, told, world, wire, due>>
Look(w) ==
  LET h == HASH_ID(call[w].m.id) s == slot[h] free == NoneElse(s) /\ ~s.lock
  IN  /\ At(w, "look")
      /\ Goes(w, IF free THEN "locked" ELSE "inc")
      /\ SetSlot(h, [s EXCEPT !.lock = @ \/ free])
      /\ UNCHANGED <<pipe, thread, told, world, wire, due>>

(* The second look, with the lock. *)
Recheck(w) ==
  LET h == HASH_ID(call[w].m.id) s == slot[h] ok == s.id = call[w].m.id /\ send_buffer_empty(s)
  IN  /\ At(w, "locked")
      /\ Goes(w, IF ok THEN "sure" ELSE "inc")
      /\ SetSlot(h, [s EXCEPT !.lock = ok])
      /\ UNCHANGED <<pipe, thread, told, world, wire, due>>

(* The write; what is left of the message goes to dw_buffer. *)
DirectWrite(w) ==
  LET m == call[w].m h == HASH_ID(m.id) s == slot[h]
  IN  /\ At(w, "sure") /\ NoneElse(s)
      /\ \E n \in IF m.id \in gone THEN {0} ELSE 0 .. Size :
           /\ wire' = [wire EXCEPT ![s.id] = @ \o SubSeq(From(m, 1), 1, n)]
           /\ SetSlot(h, [s EXCEPT !.dw = From(m, n + 1), !.armed = @ \/ n < Size, !.lock = FALSE])
      /\ call' = [call EXCEPT ![w] = Idle]
      /\ UNCHANGED <<pipe, thread, told, world, due>>

NotAlone(w) ==
  LET h == HASH_ID(call[w].m.id)
  IN  /\ At(w, "sure") /\ ~NoneElse(slot[h])
      /\ Goes(w, "inc")
      /\ SetSlot(h, [slot[h] EXCEPT !.lock = FALSE])
      /\ UNCHANGED <<pipe, thread, told, world, wire, due>>

(* inc_sending_ref: nothing when the slot has another id by now, and a busy  *)
(* wait at the limit.                                                        *)
(* The bug of counting without a look at the tag. *)
inc_sending_ref_untagged(w) ==
  LET h == HASH_ID(call[w].m.id) s == slot[h] counts == s.tcp
  IN  /\ At(w, "inc") /\ (counts => s.sending < MaxSending)
      /\ Goes(w, "push")
      /\ SetSlot(h, IF counts THEN [s EXCEPT !.sending = @ + 1] ELSE s)
      /\ UNCHANGED <<pipe, thread, told, world, wire, due>>
inc_sending_ref(w) ==
  LET h == HASH_ID(call[w].m.id) s == slot[h]
      counts == s.tcp /\ s.tag = ID_TAG16(call[w].m.id)
  IN  /\ At(w, "inc") /\ (counts => s.sending < MaxSending)
      /\ Goes(w, "push")
      /\ SetSlot(h, IF counts THEN [s EXCEPT !.sending = @ + 1] ELSE s)
      /\ UNCHANGED <<pipe, thread, told, world, wire, due>>

send_request(w) ==
  /\ At(w, "push")
  /\ Request([op |-> call[w].m.op, id |-> call[w].m.id, m |-> call[w].m])
  /\ call' = [call EXCEPT ![w] = Idle]
  /\ UNCHANGED <<slot, thread, told, world, wire, due>>

SendStep(w) ==
  \/ Look(w) \/ Recheck(w) \/ DirectWrite(w) \/ NotAlone(w)
  \/ inc_sending_ref(w) \/ send_request(w)

(* socket_server_start. *)
Start(w, id) ==
  /\ At(w, "idle") /\ told[id] = "accepted" /\ [op |-> "S", id |-> id] \notin asked
  /\ asked' = asked \cup {[op |-> "S", id |-> id]}
  /\ Request([op |-> "S", id |-> id])
  /\ UNCHANGED <<slot, alloc_id, thread, call, conns, told, gone, sent, wire, due>>

(* socket_server_close, socket_server_shutdown. *)
Close(w, id, shutdown) ==
  /\ At(w, "idle") /\ told[id] # "nothing" /\ shutdown \in Closer[w] /\ ~HasClosed(w, id)
  /\ asked' = asked \cup {[op |-> "K", id |-> id, w |-> w, shutdown |-> shutdown]}
  /\ Request([op |-> "K", id |-> id, shutdown |-> shutdown, due |-> {m \in Sends(w) : m.id = id}])
  /\ UNCHANGED <<slot, alloc_id, thread, call, conns, told, gone, sent, wire, due>>

(* socket_server_connect. *)
Connect(w, id) ==
  /\ At(w, "idle") /\ conns < MaxConn
  /\ reserve_id(id)
  /\ conns' = conns + 1
  /\ SetSlot(HASH_ID(id), Reserved(slot[HASH_ID(id)], id))
  /\ Request([op |-> "O", id |-> id])
  /\ told' = [told EXCEPT ![id] = "opening"]
  /\ UNCHANGED <<thread, call, asked, gone, sent, wire, due>>

(* The other side of a connection closes. *)
PeerClose(id) ==
  /\ told[id] \in {"accepted", "open"} /\ id \notin gone
  /\ gone' = gone \cup {id}
  /\ UNCHANGED <<slot, alloc_id, pipe, thread, call, conns, told, asked, sent, wire, due>>

-----------------------------------------------------------------------------
(* The socket thread: writing. *)

Report(id, what) == told' = [told EXCEPT ![id] = what]

(* force_close frees the lists, then waits for the lock to close the fd. *)
Freed(s) == [s EXCEPT !.high = << >>, !.low = << >>, !.watched = FALSE, !.armed = FALSE]
Closed(s) == [Freed(s) EXCEPT !.type = "INVALID", !.dw = << >>]
force_close(h, s) == SetSlot(h, Freed(s)) /\ closing' = {s.id} /\ UNCHANGED told

(* clear_closed_event: no event of the closed socket is handled any more. *)
(* The bug of leaving it there. *)
Cleared == [h |-> MaxSocket, id |-> 0, kind |-> "none"]
clear_closed_event_not(h) == ev
clear_closed_event(h) == [i \in DOMAIN ev |-> IF ev[i].h = h THEN Cleared ELSE ev[i]]

ForceClosed ==
  \E id \in closing :
    LET h == HASH_ID(id) IN
    /\ ~slot[h].lock
    /\ SetSlot(h, Closed(slot[h]))
    /\ Report(id, "close")
    /\ closing' = {} /\ ev' = clear_closed_event(h)
    /\ UNCHANGED <<pipe, checkctrl, call, world, wire, due>>

(* send_buffer, k bytes go out: dw_buffer comes before the high list, low    *)
(* after it; a low message sent in part moves to the high list; with both    *)
(* lists empty the event is turned off.                                      *)
Waiting(s) == s.dw \o s.high \o s.low
send_buffer(s, k) ==
  LET first == s.dw \o s.high
      low   == SubSeq(s.low, IF k > Len(first) THEN k - Len(first) + 1 ELSE 1, Len(s.low))
      part  == IF low # << >> /\ low[1].k > 1 THEN Size - low[1].k + 1 ELSE 0
  IN  [s EXCEPT !.dw = << >>,
                !.high = SubSeq(first, k + 1, Len(first)) \o SubSeq(low, 1, part),
                !.low = SubSeq(low, part + 1, Len(low)),
                !.armed = @ /\ k < Len(Waiting(s))]
Out(s, k) == wire' = [wire EXCEPT ![s.id] = @ \o SubSeq(Waiting(s), 1, k)]

(* The write fails, or was the last of a half closed socket. *)
Ends(s, k) ==
  /\ ~s.lock
  /\ \/ s.id \in gone /\ Waiting(s) # << >>
     \/ s.type = "HALFCLOSE" /\ k = Len(Waiting(s))

(* The write event of a connected socket; without the lock it comes again. *)
Writable(h, s) ==
  /\ \E k \in IF s.lock \/ s.id \in gone THEN {0}
              ELSE {n \in 0 .. Len(Waiting(s)) : n = 0 <=> Waiting(s) = << >>} :
       /\ Out(s, k)
       /\ SetSlot(h, IF s.lock THEN s ELSE IF Ends(s, k) THEN Closed(s) ELSE send_buffer(s, k))
       /\ IF Ends(s, k) THEN Report(s.id, "close") ELSE UNCHANGED told
  /\ UNCHANGED <<closing, due>>

-----------------------------------------------------------------------------
(* The socket thread: requests. *)

(* start_socket: epoll takes the accepted fd, or sp_add fails. *)
start_socket(r) ==
  LET h == HASH_ID(r.id) s == slot[h] IN
  /\ IF Valid(r.id) /\ s.type = "PACCEPT"
     THEN \/ /\ SetSlot(h, [s EXCEPT !.type = "CONNECTED", !.watched = TRUE])
             /\ Report(r.id, "open") /\ UNCHANGED closing
          \/ force_close(h, s)
     ELSE /\ IF ~Valid(r.id) THEN Report(r.id, "close")
             ELSE IF s.type = "CONNECTED" THEN Report(r.id, "open")
             ELSE UNCHANGED told
          /\ UNCHANGED <<slot, closing>>
  /\ UNCHANGED <<ev, wire, due>>

(* open_socket: fails, connects at once, or later. *)
open_socket(r) ==
  LET h == HASH_ID(r.id) s == [new_fd(slot[h], r.id) EXCEPT !.watched = TRUE] IN
  /\ \/ SetSlot(h, [slot[h] EXCEPT !.type = "INVALID"]) /\ Report(r.id, "close")
     \/ SetSlot(h, [s EXCEPT !.type = "CONNECTED"]) /\ Report(r.id, "open")
     \/ SetSlot(h, [s EXCEPT !.type = "CONNECTING", !.armed = TRUE]) /\ UNCHANGED told
  /\ UNCHANGED <<ev, closing, wire, due>>

(* dec_sending_ref, whether the message was taken or not. *)
dec_sending_ref(s, id) == IF s.id = id /\ s.tcp THEN [s EXCEPT !.sending = @ - 1] ELSE s

(* The bug of not turning the write event on. *)
send_socket_unarmed(r) ==
  LET h == HASH_ID(r.id) s == slot[h]
      taken == Valid(r.id) /\ s.type \notin {"HALFCLOSE", "PACCEPT"}
      t == IF taken THEN [s EXCEPT !.high = @ \o From(r.m, 1)] ELSE s
  IN  /\ SetSlot(h, dec_sending_ref(t, r.id))
      /\ UNCHANGED <<told, ev, closing, wire, due>>
(* send_socket: to an empty socket even a low message goes to the high list. *)
send_socket(r) ==
  LET h == HASH_ID(r.id) s == slot[h]
      taken == Valid(r.id) /\ s.type \notin {"HALFCLOSE", "PACCEPT"}
      only == send_buffer_empty(s) /\ s.type = "CONNECTED"
      t == IF ~taken THEN s
           ELSE IF r.op = "P" /\ ~only THEN [s EXCEPT !.low = @ \o From(r.m, 1)]
           ELSE [s EXCEPT !.high = @ \o From(r.m, 1), !.armed = @ \/ only]
  IN  /\ SetSlot(h, dec_sending_ref(t, r.id))
      /\ UNCHANGED <<told, ev, closing, wire, due>>

(* close_socket: writes what it can; with nothing left, or for a shutdown,   *)
(* the socket is closed, else it is half closed until the rest is written.   *)
(* The bug of not looking at dw_buffer. *)
close_socket_lists(r) ==
  LET h == HASH_ID(r.id) s == slot[h] IN
  IF ~Valid(r.id) THEN Report(r.id, "close") /\ UNCHANGED <<slot, ev, closing, wire, due>>
  ELSE
    /\ due' = IF r.shutdown \/ s.type = "HALFCLOSE" THEN due ELSE [due EXCEPT ![r.id] = r.due]
    /\ UNCHANGED <<ev, wire>>
    /\ IF r.shutdown \/ send_buffer_empty(s) THEN force_close(h, s)
       ELSE SetSlot(h, [s EXCEPT !.type = "HALFCLOSE"]) /\ UNCHANGED <<told, closing>>
close_socket(r) ==
  LET h == HASH_ID(r.id) s == slot[h] try == ~nomore_sending_data(s) /\ ~s.lock IN
  IF ~Valid(r.id) THEN Report(r.id, "close") /\ UNCHANGED <<slot, ev, closing, wire, due>>
  ELSE
    /\ due' = IF r.shutdown \/ s.type = "HALFCLOSE" THEN due ELSE [due EXCEPT ![r.id] = r.due]
    /\ \E k \in IF try /\ r.id \notin gone THEN 0 .. Len(Waiting(s)) ELSE {0} :
         LET t == IF try THEN send_buffer(s, k) ELSE s IN
         /\ Out(s, k)
         /\ IF try /\ Ends(s, k)
            THEN SetSlot(h, Closed(s)) /\ Report(r.id, "close") /\ ev' = clear_closed_event(h) /\ UNCHANGED closing
            ELSE /\ UNCHANGED ev
                 /\ IF r.shutdown \/ nomore_sending_data(t) THEN force_close(h, t)
                    ELSE SetSlot(h, [t EXCEPT !.type = "HALFCLOSE"]) /\ UNCHANGED <<told, closing>>

(* ctrl_cmd. *)
ctrl_cmd ==
  /\ closing = {} /\ checkctrl = "yes" /\ pipe # << >>
  /\ LET r == Head(pipe) IN
     \/ r.op = "S" /\ start_socket(r)
     \/ r.op = "K" /\ close_socket(r)
     \/ r.op = "O" /\ open_socket(r)
     \/ r.op \in {"D", "P"} /\ send_socket(r)
  /\ pipe' = Tail(pipe)
  /\ UNCHANGED <<checkctrl, call, world>>

(* has_cmd finds nothing. *)
NoCmd ==
  /\ closing = {} /\ checkctrl = "yes" /\ pipe = << >>
  /\ checkctrl' = "no"
  /\ UNCHANGED <<slot, pipe, ev, closing, call, told, world, wire, due>>

-----------------------------------------------------------------------------
(* The socket thread: events. *)

Ready ==
  {[h |-> h, id |-> slot[h].id, kind |-> "eof"] :
     h \in {g \in Slot : slot[g].watched /\ slot[g].id \in gone}}
  \cup {[h |-> h, id |-> slot[h].id, kind |-> "write"] :
          h \in {g \in Slot : slot[g].watched /\ slot[g].armed /\ slot[g].id \notin gone}}

(* A client knocks at the listening socket. *)
Knock == [h |-> MaxSocket, id |-> 0, kind |-> "accept"]

(* sp_wait.  The pipe is an event too, one that is skipped: as the first it  *)
(* lets the requests come before the sockets, elsewhere it changes nothing.  *)
sp_wait ==
  /\ closing = {} /\ checkctrl = "no" /\ ev = << >>
  /\ \E S \in {Ready} \cup (IF conns < MaxConn THEN {Ready \cup {Knock}} ELSE {}) :
       /\ \/ S # {} /\ checkctrl' = "later"
          \/ pipe # << >> /\ checkctrl' = "yes"
       /\ ev' \in SetToSeqs(S)
  /\ UNCHANGED <<slot, pipe, closing, call, told, world, wire, due>>

(* report_connect. *)
report_connect(h, s) ==
  /\ \/ /\ SetSlot(h, [s EXCEPT !.type = "CONNECTED", !.armed = ~nomore_sending_data(s)])
        /\ Report(s.id, "open") /\ UNCHANGED closing
     \/ force_close(h, s)
  /\ UNCHANGED <<wire, due>>

(* The bug of leaving a socket alone while a direct write is unfinished. *)
SocketEvent_not_dw(e) ==
  LET s == slot[e.h] IN
  /\ e.kind \in {"eof", "write"}
  /\ CASE s.type = "CONNECTING" -> report_connect(e.h, s)
       [] s.type = "INVALID" \/ s.dw # << >> -> UNCHANGED <<slot, told, closing, wire, due>>
       [] e.kind = "eof"        -> force_close(e.h, s) /\ UNCHANGED <<wire, due>>
       [] OTHER                 -> Writable(e.h, s)
  /\ UNCHANGED world
SocketEvent(e) ==
  LET s == slot[e.h] IN
  /\ e.kind \in {"eof", "write"}
  /\ CASE s.type = "CONNECTING" -> report_connect(e.h, s)
       [] s.type = "INVALID"    -> UNCHANGED <<slot, told, closing, wire, due>>
       [] e.kind = "eof"        -> force_close(e.h, s) /\ UNCHANGED <<wire, due>>
       [] OTHER                 -> Writable(e.h, s)
  /\ UNCHANGED world

(* report_accept. *)
report_accept(e) ==
  /\ e.kind = "accept"
  /\ conns' = conns + 1
  /\ \/ \E id \in Id :
          /\ reserve_id(id)
          /\ SetSlot(HASH_ID(id), [new_fd(slot[HASH_ID(id)], id) EXCEPT !.type = "PACCEPT"])
          /\ Report(id, "accepted")
     \/ NoId /\ UNCHANGED <<slot, told>>
  /\ UNCHANGED <<closing, asked, gone, sent, wire, due>>

(* The rest of socket_server_poll: the first event of a poll comes before    *)
(* the requests, the others after them.                                      *)
Event ==
  /\ closing = {} /\ checkctrl # "yes" /\ ev # << >>
  /\ ev' = Tail(ev)
  /\ \/ Head(ev) = Cleared /\ UNCHANGED <<slot, closing, told, world, wire, due>>
     \/ SocketEvent(Head(ev))
     \/ report_accept(Head(ev))
  /\ checkctrl' = IF checkctrl = "later" THEN "yes" ELSE "no"
  /\ UNCHANGED <<pipe, call>>

SocketThread == ForceClosed \/ ctrl_cmd \/ NoCmd \/ sp_wait \/ Event

Next ==
  \/ SocketThread
  \/ \E w \in Service :
       \/ SendStep(w)
       \/ \E id \in Id :
            \/ Start(w, id) \/ Connect(w, id)
            \/ \E op \in {"D", "P"} : Send(w, id, op)
            \/ \E shutdown \in BOOLEAN : Close(w, id, shutdown)
  \/ \E id \in Id : PeerClose(id)

Spec == Init /\ [][Next]_vars

(* The socket thread and the worker threads run. *)
FairSpec == Spec /\ WF_vars(SocketThread) /\ \A w \in Service : WF_vars(SendStep(w))

-----------------------------------------------------------------------------
(* Types, and the assertions of the code: the lock has one holder, the count *)
(* in sending does not go below zero, the low list starts with a whole       *)
(* message, lists are empty in a slot that is free or new.                   *)
TypeOK ==
  /\ \A h \in Slot :
       LET s == slot[h] IN
       /\ s.type \in {"INVALID", "RESERVE", "PACCEPT", "CONNECTING", "CONNECTED", "HALFCLOSE"}
       /\ s.sending \in 0 .. MaxSending
       /\ Range(s.high) \cup Range(s.low) \cup Range(s.dw) \subseteq Byte
       /\ s.low # << >> => s.low[1].k = 1
       /\ s.type \in {"INVALID", "RESERVE", "PACCEPT"} => Waiting(s) = << >>
       /\ Cardinality({w \in Service : call[w].at \in {"locked", "sure"} /\ HASH_ID(call[w].m.id) = h})
            = IF s.lock THEN 1 ELSE 0
  /\ Cardinality(closing) <= 1

Shut(id) == \E r \in asked : r.op = "K" /\ r.id = id /\ r.shutdown

(* Whatever threads write, directly or through the lists, a peer reads whole *)
(* messages, none mixed into another or twice, none meant for another        *)
(* connection, and those of a service and a priority in the order it sent    *)
(* them.  (When a shutdown throws away the lists a direct write may still    *)
(* slip in before the fd is closed.)                                         *)
WireExact ==
  \A id \in Id : Shut(id) \/ id \in gone \/
    LET b == wire[id] IN
    \A i \in DOMAIN b :
      /\ b[i].m.id = id
      /\ IF i > 1 /\ b[i].k > 1 THEN b[i - 1] = [b[i] EXCEPT !.k = @ - 1]
         ELSE b[i].k = 1 /\ (i > 1 => b[i - 1].k = Size)
      /\ \A j \in 1 .. i - 1 : b[j].m.w = b[i].m.w /\ b[j].m.op = b[i].m.op =>
           b[j].m.n < b[i].m.n \/ (b[j].m = b[i].m /\ b[j].k < b[i].k)

(* sending counts the requests under way for the id that has the slot, not   *)
(* those for an id that had it before.                                       *)
SendingExact ==
  /\ TypeOK
  /\ \A h \in Slot : LET s == slot[h] IN s.tcp =>
       s.sending = Cardinality({i \in DOMAIN pipe : pipe[i].op \in {"D", "P"} /\ pipe[i].id = s.id})
                   + Cardinality({w \in Service : At(w, "push") /\ call[w].m.id = s.id})

(* An event that was fetched for a socket is not handled for the one that    *)
(* has taken its slot since.                                                 *)
EventsFresh ==
  \A i \in DOMAIN ev : ev[i].kind \in {"eof", "write"} => slot[ev[i].h].id = ev[i].id

(* A service that writes and then closes has all its messages written before *)
(* the socket is closed, unless the peer goes or somebody shuts it down.     *)
CloserFlushed ==
  \A id \in Id : told[id] = "close" /\ id \notin gone /\ ~Shut(id) =>
    \A m \in due[id] : [m |-> m, k |-> Size] \in Range(wire[id])

(* The bounds end all requests; then the following stay true. *)

(* A message that was sent is written in the end, unless the connection is   *)
(* closed by either side: no write event is turned off while bytes wait.     *)
MessageOut ==
  <>[](\A m \in sent :
         \/ [m |-> m, k |-> Size] \in Range(wire[m.id])
         \/ m.id \in gone \/ \E r \in asked : r.op = "K" /\ r.id = m.id)

(* The services hear of it when the peer of an open connection goes. *)
PeerGoneTold == <>[](\A id \in gone : told[id] # "open")

(* A close that was asked for is reported: what the comment in start_socket  *)
(* says of half closed sockets.                                              *)
CloseEnds == <>[](\A r \in asked : r.op = "K" => told[r.id] = "close")
=============================================================================
