------------------------------ MODULE WsNetpack ------------------------------
(* lua-websocketnetpack.c with dispatch_msg of gateserver_ws.lua: the gateway *)
(* cuts the bytes of each connection, which the socket thread delivers in     *)
(* chunks of any size, into the HTTP header of the handshake and then into    *)
(* websocket frames, and unmasks them.  A frame that is not complete waits in *)
(* a hash table; the packets of a chunk that has several wait in a ring,      *)
(* which the gateway empties at once since its handler never blocks.          *)
(*                                                                            *)
(* A byte is known by its frame and its place in it.  What the bytes inside a *)
(* frame would mean to a parser that took them for a header is part of the    *)
(* frame: the parser does so behind a packet it has cut and behind a close    *)
(* frame it has skipped.  Clients keep the protocol: a client sends frames    *)
(* when its handshake is answered, its whole header is a good one, frames are *)
(* not fragmented and nothing follows a close frame.  Lengths beyond 65535    *)
(* are left out.                                                              *)
EXTENDS Integers, Sequences, FiniteSets, SequencesExt

CONSTANTS
  Fd,          \* the connections
  Clients,     \* what the clients may send: the values of stream
  LongFrom,    \* payloads from here on have a 2-byte length, 126 in the code
  EndLen,      \* the end of an HTTP header, the 4 bytes CR LF CR LF in the code
  HeaderSize,  \* HEADERSIZE and max_headersize, 1024 in the code
  MaxPackSize, \* MAX_PACKSIZE and max_packsize, 10 * 1024 in the code
  QueueSize,   \* QUEUESIZE, 1024 in the code
  HashSize,    \* HASHSIZE, 4096 in the code
  Hash(_)      \* hash_fd

Header == [kind : {"http", "data", "skip", "close"}, mask : BOOLEAN, len : Nat]

ASSUME StreamAssumption ==
  /\ QueueSize \in Nat \ {0} /\ HashSize \in Nat \ {0}
  /\ HeaderSize \in Nat \ {0} /\ MaxPackSize \in Nat \ {0} /\ EndLen \in Nat \ {0}
  /\ \A fd \in Fd : Hash(fd) \in 0 .. HashSize - 1
  /\ \A cs \in Clients : \A fd \in Fd : \A n \in DOMAIN cs[fd] :
       /\ cs[fd][n].is \in Header /\ cs[fd][n].inside \in Header
       /\ cs[fd][n].is.kind = "http" <=> n = 1
       /\ cs[fd][n].is.kind = "close" => n = Len(cs[fd])

HeaderLen == 2
MaskLen == 4

VARIABLES
  stream,   \* stream[fd]: the frames its client sends, each with the header it
            \* is and the one the bytes inside it would be taken for
  pos,      \* pos[fd]: bytes received of its stream
  conn,     \* conn[fd]: "shake" and "open" while connection[fd] is there, "gone"
            \* after closeclient, "closing" once a close frame was reported
  hash,     \* hash[h]: the list of incomplete packets, the latest first
  ring,     \* the queue of complete packets
  out       \* history, out[fd]: the packets the gateway has taken

vars == <<stream, pos, conn, hash, ring, out>>

Init ==
  /\ stream \in Clients
  /\ pos = [fd \in Fd |-> 0]
  /\ conn = [fd \in Fd |-> "shake"]
  /\ hash = [h \in 0 .. HashSize - 1 |-> << >>]
  /\ ring = [cap |-> QueueSize, head |-> 0, tail |-> 0, queue |-> [i \in 0 .. QueueSize - 1 |-> << >>]]
  /\ out = [fd \in Fd |-> << >>]

-----------------------------------------------------------------------------
(* The stream of a client as bytes. *)

HeadLen(f) ==
  CASE f.kind = "http" -> 0
    [] f.kind = "skip" -> HeaderLen
    [] OTHER -> HeaderLen + (IF f.len >= LongFrom THEN 2 ELSE 0) + (IF f.mask THEN MaskLen ELSE 0)
FrameLen(f) == HeadLen(f) + f.len

Bytes ==
  [cs \in Clients |-> [fd \in Fd |->
     FlattenSeq([n \in DOMAIN cs[fd] |->
                   [k \in 1 .. FrameLen(cs[fd][n].is) |-> [f |-> n, k |-> k - 1]]])]]

(* What a parser that takes byte x for the first of a header finds there. *)
Reads(fd, x) ==
  LET f == stream[fd][x.f] IN IF x.k = 0 /\ f.is.kind # "http" THEN f.is ELSE f.inside

-----------------------------------------------------------------------------
(* Reading. *)

(* The bug of asking for the whole header before the opcode is looked at. *)
read_size_header_first(fd, b) ==
  IF Len(b) < HeaderLen THEN -1
  ELSE LET f == Reads(fd, b[1]) IN
       CASE f.kind = "skip"     -> -2
         [] Len(b) < HeadLen(f) -> -1
         [] f.kind = "close"    -> -3
         [] OTHER               -> f.len
(* read_size: -1 for too few bytes, -2 for two bytes to throw away, -3 for a *)
(* close frame, else the size of the payload.                                *)
read_size(fd, b) ==
  IF Len(b) < HeaderLen THEN -1
  ELSE LET f == Reads(fd, b[1]) IN
       CASE f.kind = "skip"     -> -2
         [] f.kind = "close"    -> -3
         [] Len(b) < HeadLen(f) -> -1
         [] OTHER               -> f.len

Cut(b, n) == SubSeq(b, n + 1, Len(b))
Upto(b, n) == SubSeq(b, 1, IF n < Len(b) THEN n ELSE Len(b))

(* The bytes behind those that are thrown away: those read_size finds        *)
(* useless, and in push_more (<= -2) the first two of a close frame too.     *)
RECURSIVE Strip(_, _, _)
Strip(fd, b, useless) ==
  IF read_size(fd, b) \in useless THEN Strip(fd, Cut(b, HeaderLen), useless) ELSE b

(* get_http_header: the size of the header up to its end mark, or -1. *)
get_http_header(fd, b) ==
  LET last == stream[fd][1].is.len - 1
      ends == {i \in EndLen .. Len(b) :
                 \A j \in 0 .. EndLen - 1 : b[i - j] = [f |-> 1, k |-> last - j]}
  IN  IF ends = {} THEN -1 ELSE CHOOSE i \in ends : TRUE

(* A larger packet is cut. *)
pack_size(fd, b, http) ==
  IF http THEN get_http_header(fd, b)
  ELSE LET size == read_size(fd, b) IN IF size > MaxPackSize THEN MaxPackSize ELSE size

(* decode_wsmask_data: each byte with the byte of the mask it is xored with, *)
(* counting on from the bytes that have been unmasked before.                *)
(* The bug of starting each chunk with the first byte of the mask. *)
decode_restarted(b, mask, done) ==
  [i \in DOMAIN b |-> [b |-> b[i], m |-> IF mask THEN (i - 1) % MaskLen ELSE -1]]
decode(b, mask, done) ==
  [i \in DOMAIN b |-> [b |-> b[i], m |-> IF mask THEN (i - 1 + done) % MaskLen ELSE -1]]

Mask(fd, b, http) == ~http /\ Reads(fd, b[1]).mask
HeadOf(fd, b, http) == IF http THEN 0 ELSE HeadLen(Reads(fd, b[1]))

-----------------------------------------------------------------------------
(* The ring and the hash table. *)

expand_queue(r) ==
  [cap |-> r.cap + QueueSize, head |-> 0, tail |-> r.cap,
   queue |-> [i \in 0 .. r.cap + QueueSize - 1 |->
                IF i < r.cap THEN r.queue[(r.head + i) % r.cap] ELSE << >>]]

push_data(r, packet) ==
  LET p == [r EXCEPT !.queue[r.tail] = packet, !.tail = (@ + 1) % r.cap]
  IN  IF p.head = p.tail THEN expand_queue(p) ELSE p

Held(r) == IF r.head <= r.tail THEN r.tail - r.head ELSE r.tail + r.cap - r.head
Popped(r) == [i \in 1 .. Held(r) |-> r.queue[(r.head + i - 1) % r.cap]]
Drained(r) == [r EXCEPT !.head = r.tail, !.queue = [i \in DOMAIN @ |-> << >>]]

(* find_uncomplete takes the packet out of its list. *)
Finds(t, fd) == \E i \in DOMAIN t[Hash(fd)] : t[Hash(fd)][i].fd = fd
uncomplete(t, fd) == t[Hash(fd)][CHOOSE i \in DOMAIN t[Hash(fd)] : t[Hash(fd)][i].fd = fd]
Without(t, fd) == [t EXCEPT ![Hash(fd)] = SelectSeq(@, LAMBDA u : u.fd # fd)]
Saved(t, u) == [t EXCEPT ![Hash(u.fd)] = <<u>> \o @]

(* An incomplete packet: read = -1 while its header is collected.  Of an     *)
(* HTTP header that is too long only the start is kept.                      *)
Headless(fd, b, http) ==
  [fd |-> fd, read |-> -1, header |-> IF http THEN Upto(b, HeaderSize) ELSE b,
   size |-> 0, mask |-> FALSE, buf |-> << >>]
Partial(fd, size, mask, b) ==
  [fd |-> fd, read |-> Len(b), header |-> << >>, size |-> size, mask |-> mask,
   buf |-> decode(b, mask, 0)]

-----------------------------------------------------------------------------
(* The parser, as a function from a state and bytes to a state.  S has the   *)
(* table t, the ring r, the packet handed out directly and the close event.  *)

(* push_more: packets behind the first of a chunk go to the ring. *)
RECURSIVE push_more(_, _, _, _)
push_more(S, fd, bytes, http) ==
  LET b    == IF http THEN bytes ELSE Strip(fd, bytes, {-2, -3})
      size == pack_size(fd, b, http)
      body == Cut(b, HeadOf(fd, b, http))
  IN  IF size = -1 THEN [S EXCEPT !.t = Saved(@, Headless(fd, b, http))]
      ELSE IF Len(body) < size /\ ~http
      THEN [S EXCEPT !.t = Saved(@, Partial(fd, size, Mask(fd, b, http), body))]
      ELSE LET N == [S EXCEPT !.r = push_data(@, <<fd, decode(Upto(body, size), Mask(fd, b, http), 0)>>)]
           IN  IF Len(body) > size THEN push_more(N, fd, Cut(body, size), http) ELSE N

(* What filter_data_ makes of the header h collected so far.  The byte that  *)
(* makes an HTTP header too long is written behind the array, into           *)
(* header_size, which is set anew in both cases; it is lost.                 *)
SizeOf(fd, h, http) ==
  IF http /\ Len(h) > HeaderSize THEN HeaderSize ELSE pack_size(fd, h, http)

Collected(fd, h, http) == IF http THEN h ELSE Strip(fd, h, {-2})

(* The bytes a packet without its size takes, one at a time, until its size  *)
(* is known or the chunk is used up.                                         *)
Taken(fd, u, b, http) ==
  LET known == {n \in 1 .. Len(b) : SizeOf(fd, Collected(fd, u.header \o Upto(b, n), http), http) >= 0}
  IN  IF known = {} THEN Len(b) ELSE CHOOSE n \in known : \A k \in known : n <= k

(* filter_data_, a packet is waiting: the rest of its header. *)
FillHeader(fd, u, b, http) ==
  LET n    == Taken(fd, u, b, http)
      h    == Collected(fd, u.header \o Upto(b, n), http)
      size == SizeOf(fd, h, http)
  IN  [size |-> size,
       u |-> IF size < 0 THEN Headless(fd, h, http)
             ELSE IF http THEN Partial(fd, size, FALSE, Upto(h, size))
             ELSE Partial(fd, size, Mask(fd, h, http), << >>),
       rest |-> Cut(b, n)]

(* filter_data_, a packet is waiting whose size is known: fill it. *)
Fill(S, fd, u, b, http) ==
  LET need == u.size - u.read
      full == u.buf \o decode(Upto(b, need), u.mask, u.read)
  IN  IF Len(b) < need
      THEN [S EXCEPT !.t = Saved(@, [u EXCEPT !.read = @ + Len(b), !.buf = full])]
      ELSE IF Len(b) = need THEN [S EXCEPT !.data = <<fd, full>>]
      ELSE push_more([S EXCEPT !.r = push_data(@, <<fd, full>>)], fd, Cut(b, need), http)

FilterWaiting(S, fd, u, b, http) ==
  IF u.read >= 0 THEN Fill(S, fd, u, b, http)
  ELSE LET F == FillHeader(fd, u, b, http) IN
       CASE F.size = -1 -> [S EXCEPT !.t = Saved(@, F.u)]
         [] F.size = -3 -> [S EXCEPT !.close = TRUE]
         [] OTHER       -> Fill(S, fd, F.u, F.rest, http)

(* filter_data_, nothing is waiting. *)
FilterFresh(S, fd, bytes, http) ==
  LET b    == IF http THEN bytes ELSE Strip(fd, bytes, {-2})
      size == pack_size(fd, b, http)
      body == Cut(b, HeadOf(fd, b, http))
      mask == Mask(fd, b, http)
  IN  IF size = -1 THEN [S EXCEPT !.t = Saved(@, Headless(fd, b, http))]
      ELSE IF size = -3 THEN [S EXCEPT !.close = TRUE]
      ELSE IF Len(body) < size /\ ~http
      THEN [S EXCEPT !.t = Saved(@, Partial(fd, size, mask, body))]
      ELSE IF Len(body) = size THEN [S EXCEPT !.data = <<fd, decode(body, mask, 0)>>]
      ELSE push_more([S EXCEPT !.r = push_data(@, <<fd, decode(Upto(body, size), mask, 0)>>)],
                     fd, Cut(body, size), http)

filter_data(fd, b, http) ==
  LET S == [t |-> Without(hash, fd), r |-> ring, data |-> << >>, close |-> FALSE]
  IN  IF Finds(hash, fd) THEN FilterWaiting(S, fd, uncomplete(hash, fd), b, http)
      ELSE FilterFresh(S, fd, b, http)

-----------------------------------------------------------------------------
(* dispatch_msg of the gateway: the first packet of a connection ends the    *)
(* handshake, one that reaches the limit ends the connection (closeclient),  *)
(* and what comes later is dropped.                                          *)
(* The bug of refusing only what is above the limit. *)
dispatch_msg_above(G, fd, msg) ==
  CASE G.conn[fd] = "gone" -> G
    [] Len(msg) > (IF G.conn[fd] = "shake" THEN HeaderSize ELSE MaxPackSize) ->
         [G EXCEPT !.conn[fd] = "gone"]
    [] OTHER -> [G EXCEPT !.conn[fd] = "open", !.out[fd] = Append(@, msg)]
dispatch_msg(G, fd, msg) ==
  CASE G.conn[fd] = "gone" -> G
    [] Len(msg) >= (IF G.conn[fd] = "shake" THEN HeaderSize ELSE MaxPackSize) ->
         [G EXCEPT !.conn[fd] = "gone"]
    [] OTHER -> [G EXCEPT !.conn[fd] = "open", !.out[fd] = Append(@, msg)]

(* A client sends frames only when its handshake is answered; a chunk never  *)
(* has bytes behind the HTTP header.                                         *)
Protocol(fd, b) ==
  \A i \in DOMAIN b : b[i].f > 1 => conn[fd] # "shake" /\ b[1].f > 1

(* A chunk arrives, any piece of what is still to come: the packets found    *)
(* are dispatched at once.  Without connection[fd] it is read as a header.   *)
(* What comes behind a reported close frame is not followed.                 *)
Receive(fd, n) ==
  \E b \in {SubSeq(Bytes[stream][fd], pos[fd] + 1, pos[fd] + n)} :
    /\ conn[fd] # "closing" /\ Protocol(fd, b)
    /\ \E S \in {filter_data(fd, b, conn[fd] # "open")} :
         LET all == (IF S.data = << >> THEN << >> ELSE <<S.data>>) \o Popped(S.r)
             G == FoldLeft(LAMBDA g, p : dispatch_msg(g, p[1], p[2]), [conn |-> conn, out |-> out], all)
         IN  /\ hash' = S.t
             /\ ring' = Drained(S.r)
             /\ out' = G.out
             /\ conn' = IF S.close THEN [G.conn EXCEPT ![fd] = "closing"] ELSE G.conn
    /\ pos' = [pos EXCEPT ![fd] = @ + n]
    /\ UNCHANGED stream

(* The socket's close or error event: close_uncomplete.  A later connection  *)
(* may have the same id.                                                     *)
(* The bug of keeping what has come of the packet. *)
Close_keeps(fd) ==
  /\ hash' = hash
  /\ pos' = [pos EXCEPT ![fd] = 0]
  /\ conn' = [conn EXCEPT ![fd] = "shake"]
  /\ out' = [out EXCEPT ![fd] = << >>]
  /\ UNCHANGED <<ring, stream>>
Close(fd) ==
  /\ hash' = Without(hash, fd)
  /\ pos' = [pos EXCEPT ![fd] = 0]
  /\ conn' = [conn EXCEPT ![fd] = "shake"]
  /\ out' = [out EXCEPT ![fd] = << >>]
  /\ UNCHANGED <<ring, stream>>

Next ==
  \E fd \in Fd :
    Close(fd) \/ \E n \in 1 .. Len(Bytes[stream][fd]) - pos[fd] : Receive(fd, n)

Spec == Init /\ [][Next]_vars

-----------------------------------------------------------------------------
(* The ring is empty between two chunks with its indices inside it; each     *)
(* connection has at most one incomplete packet, in its own list, and that   *)
(* only when bytes of it have come and no close was reported.                *)
TypeOK ==
  /\ \A fd \in Fd : conn[fd] \in {"shake", "open", "closing", "gone"}
  /\ ring.head = ring.tail /\ ring.head \in 0 .. ring.cap - 1
  /\ \A h \in 0 .. HashSize - 1 : \A i \in DOMAIN hash[h] :
       /\ Hash(hash[h][i].fd) = h
       /\ \A j \in DOMAIN hash[h] : hash[h][i].fd = hash[h][j].fd => i = j
  /\ \A fd \in Fd : Finds(hash, fd) => pos[fd] > 0 /\ conn[fd] # "closing"

(* Where frame n of a stream ends. *)
EndOf ==
  [cs \in Clients |-> [fd \in Fd |-> [n \in 0 .. Len(cs[fd]) |->
     Cardinality({i \in DOMAIN Bytes[cs][fd] : Bytes[cs][fd][i].f <= n})]]]
End(fd, n) == EndOf[stream][fd][n]

(* What the client put into its frames: the whole payload in order, each     *)
(* byte unmasked with the byte of the mask that belongs to it.               *)
Payload(fd, n) ==
  LET f == stream[fd][n].is IN
  [i \in 1 .. f.len |->
     [b |-> [f |-> n, k |-> HeadLen(f) + i - 1], m |-> IF f.mask THEN (i - 1) % MaskLen ELSE -1]]

(* A header or a payload the gateway does not take. *)
TooLarge(f) ==
  \/ f.kind = "http" /\ f.len >= HeaderSize
  \/ f.kind = "data" /\ f.len >= MaxPackSize

(* The frames received so far, in front of the first that is too large. *)
Complete(fd) ==
  SelectSeq([n \in DOMAIN stream[fd] |-> n],
            LAMBDA n : /\ stream[fd][n].is.kind \in {"http", "data"} /\ End(fd, n) <= pos[fd]
                       /\ \A k \in 1 .. n : ~TooLarge(stream[fd][k].is))

(* The first two bytes of the client's close frame are there. *)
CloseCame(fd, p) ==
  \E n \in DOMAIN stream[fd] : stream[fd][n].is.kind = "close" /\ End(fd, n - 1) + HeaderLen <= p

(* However the bytes are cut into chunks, and whatever other connections     *)
(* share the list and the ring, the packets the gateway takes are those of   *)
(* the frames received so far, whole, unmasked and in order: a packet that   *)
(* the parser has cut at MAX_PACKSIZE, or a header cut at HEADERSIZE, is     *)
(* never taken for a whole one, nor are the bytes behind it, and only a      *)
(* client that sends one loses its connection.  (Behind a close frame that   *)
(* was skipped more may be taken.)                                           *)
PacketsExact ==
  \A fd \in Fd :
    LET all   == Complete(fd)
        whole == [i \in DOMAIN all |-> Payload(fd, all[i])]
    IN  /\ IsPrefix(whole, out[fd])
        /\ out[fd] # whole => CloseCame(fd, pos[fd])
        /\ conn[fd] = "gone" =>
             \E n \in DOMAIN stream[fd] : TooLarge(stream[fd][n].is) /\ End(fd, n - 1) < pos[fd]

(* A close frame is reported with the chunk that brings the second of its    *)
(* first two bytes, however it is cut and whatever useless bytes stand       *)
(* before it, but not when the chunk completes a packet before it: then      *)
(* push_more skips it.  Nothing else is reported as one.                     *)
CloseReported ==
  [][\A fd \in Fd :
       LET reported == conn[fd] # "closing" /\ conn'[fd] = "closing"
           behind == \E n \in DOMAIN stream[fd] :
                       /\ stream[fd][n].is.kind = "data"
                       /\ pos[fd] < End(fd, n) /\ End(fd, n) <= pos'[fd]
       IN  /\ reported => CloseCame(fd, pos'[fd])
           /\ ~CloseCame(fd, pos[fd]) /\ CloseCame(fd, pos'[fd]) /\ conn'[fd] # "gone" =>
                (reported <=> ~behind)]_vars
=============================================================================
