-------------------------- MODULE SocketWireProofs --------------------------
(* WireExact and CloserFlushed of SocketServer, for any number of services,  *)
(* slots, connections and messages, any message size and any split of the    *)
(* writes: the bytes written to a connection and those that wait in its slot *)
(* are followed as one stream, into which whole messages are put and of      *)
(* which only a closing socket loses the end.                                *)
EXTENDS SocketServerProofs

-----------------------------------------------------------------------------
(* The invariant. *)

(* What a connection has been given: the bytes written to it, and the ones   *)
(* that wait in the lists of its slot.                                       *)
StreamIn(sl, wi, id) ==
  IF sl[HASH_ID(id)].id = id THEN wi[id] \o Waiting(sl[HASH_ID(id)]) ELSE wi[id]
Stream(id) == StreamIn(slot, wire, id)

(* Messages follow each other whole, those of a service and a priority in    *)
(* the order of their numbers; the last may be cut short, unless Full.       *)
Exact(b) ==
  \A i \in 1 .. Len(b) :
    /\ i > 1 /\ b[i].k > 1 => b[i - 1].m = b[i].m /\ b[i - 1].k = b[i].k - 1
    /\ ~(i > 1 /\ b[i].k > 1) => b[i].k = 1 /\ (i > 1 => b[i - 1].k = Size)
    /\ \A j \in 1 .. i - 1 : b[j].m.w = b[i].m.w /\ b[j].m.op = b[i].m.op =>
         b[j].m.n < b[i].m.n \/ (b[j].m = b[i].m /\ b[j].k < b[i].k)
Full(b) == Len(b) > 0 => b[Len(b)].k = Size

Spared(id) == Shut(id) \/ id \in gone
IsSend(r) == r.op \in {"D", "P"}
Has(b, m) == \E i \in 1 .. Len(b) : b[i].m = m /\ b[i].k = Size

Histories == wire \in [Id -> Seq(Byte)] /\ due \in [Id -> SUBSET Message]

(* The phases of a connection, as its slot and the services see it. *)
Phases ==
  /\ \A h \in Slot : slot[h].type \notin Blank => slot[h].tcp
  /\ \A h \in Slot : slot[h].type = "CONNECTING" => told[slot[h].id] = "opening"
  /\ \A h \in Slot : slot[h].type = "PACCEPT" => told[slot[h].id] = "accepted"
  /\ \A id \in Id : told[id] \in {"opening", "accepted", "open"} <=> Valid(id)

(* A shutdown on its way was asked for; an end of file was seen. *)
Causes ==
  /\ \A i \in DOMAIN pipe : pipe[i].op = "K" => (pipe[i].shutdown => Shut(pipe[i].id))
  /\ \A i \in DOMAIN ev : ev[i].kind = "eof" => ev[i].id \in gone

(* Every byte, request and call is of a message that was sent, and is where  *)
(* it belongs.                                                               *)
Placed ==
  /\ \A m \in sent : told[m.id] \in {"open", "close"} /\ m.n <= Cardinality(Sends(m.w))
  /\ \A id \in Id : \A i \in 1 .. Len(Stream(id)) : Stream(id)[i].m \in sent /\ Stream(id)[i].m.id = id
  /\ \A i \in DOMAIN pipe : IsSend(pipe[i]) =>
       pipe[i].m \in sent /\ pipe[i].m.id = pipe[i].id /\ pipe[i].m.op = pipe[i].op
  /\ \A w \in Service : call[w] # Idle => call[w].m \in sent /\ call[w].m.w = w
  /\ \A h \in Slot : \A i \in 1 .. Len(slot[h].low) : slot[h].low[i].m.op = "P"

(* The messages of a service are in the order it sent them: those in a       *)
(* stream before those in the pipe, and these before the one it sends now.   *)
Before(b, m) == \A j \in 1 .. Len(b) : b[j].m.w = m.w => b[j].m.n < m.n
InOrder ==
  /\ \A i \in DOMAIN pipe : IsSend(pipe[i]) => Before(Stream(pipe[i].id), pipe[i].m)
  /\ \A w \in Service : call[w] # Idle => Before(Stream(call[w].m.id), call[w].m)
  /\ \A i, j \in DOMAIN pipe : i < j /\ IsSend(pipe[i]) /\ IsSend(pipe[j])
                               /\ pipe[i].m.w = pipe[j].m.w => pipe[i].m.n < pipe[j].m.n
  /\ \A w \in Service : call[w] # Idle =>
       \A i \in DOMAIN pipe : IsSend(pipe[i]) /\ pipe[i].m.w = w => pipe[i].m.n < call[w].m.n

Streams ==
  \A id \in Id : ~Spared(id) => Exact(Stream(id)) /\ (Valid(id) => Full(Stream(id)))

(* A service about to write directly has nothing of its own in the pipe or   *)
(* the lists of that socket, and the lists hold no rest of a message.        *)
AloneFor(w) ==
  call[w].at \in {"locked", "sure"} =>
    LET m == call[w].m s == slot[HASH_ID(m.id)] IN
    /\ s.id = m.id => \A i \in DOMAIN pipe : IsSend(pipe[i]) /\ pipe[i].id = m.id => pipe[i].m.w # w
    /\ call[w].at = "sure" =>
         /\ s.id = m.id
         /\ \A i \in 1 .. Len(s.high) : s.high[i].m.w # w
         /\ \A i \in 1 .. Len(s.low) : s.low[i].m.w # w
         /\ Len(s.high) > 0 => s.high[1].k = 1
Alone == \A w \in Service : AloneFor(w)

(* A socket that is locked is in use: its slot is not given to another id. *)
Held == \A h \in Slot : slot[h].lock => slot[h].type \notin Blank

(* No message for an open connection is lost. *)
Kept ==
  \A m \in sent : Valid(m.id) /\ slot[HASH_ID(m.id)].type # "HALFCLOSE" /\ ~Spared(m.id) =>
    \/ Has(Stream(m.id), m)
    \/ \E i \in DOMAIN pipe : IsSend(pipe[i]) /\ pipe[i].m = m
    \/ call[m.w] # Idle /\ call[m.w].m = m

(* What the closer had sent is in the stream, and written when the socket is *)
(* being closed; its request comes after its messages.                       *)
DuesKept ==
  /\ \A id \in Id : ~Spared(id) => \A m \in due[id] : Has(Stream(id), m)
  /\ \A id \in Id : ~Spared(id) /\ (id \in closing \/ told[id] = "close") =>
       \A m \in due[id] : Has(wire[id], m)
DuesAsked ==
  \A i \in DOMAIN pipe : pipe[i].op = "K" => \A m \in pipe[i].due :
    /\ m \in sent /\ m.id = pipe[i].id
    /\ call[m.w] # Idle => call[m.w].m # m
    /\ \A j \in DOMAIN pipe : j > i /\ IsSend(pipe[j]) => pipe[j].m # m

WInv ==
  /\ Histories /\ Phases /\ Causes /\ Placed /\ InOrder /\ Streams /\ Alone
  /\ Kept /\ DuesKept /\ DuesAsked

-----------------------------------------------------------------------------
(* What a step makes of a stream: nothing behind some place is left of it,   *)
(* or a whole message is put into it behind place p.                         *)
Cut(b, c) == Len(c) <= Len(b) /\ \A i \in 1 .. Len(c) : c[i] = b[i]
Put(b, m, p, c) ==
  /\ p \in 0 .. Len(b) /\ Len(c) = Len(b) + Size
  /\ \A i \in 1 .. p : c[i] = b[i]
  /\ \A i \in p + 1 .. p + Size : c[i].m = m /\ c[i].k = i - p
  /\ \A i \in p + Size + 1 .. Len(b) + Size : c[i] = b[i - Size]

(* A service that sends nothing has nothing to be alone for. *)
LEMMA IdleAlone ==
  ASSUME NEW v
  PROVE  (call[v] = Idle => AloneFor(v)) /\ (call'[v] = Idle => AloneFor(v)')
<1>1. Idle.at \notin {"locked", "sure"}
  BY DEF Idle
<1> QED
  BY ZenonT(60), <1>1 DEF AloneFor

LEMMA BytesOf ==
  ASSUME NEW b \in Seq(Byte)
  PROVE  /\ Len(b) \in Nat /\ DOMAIN b = 1 .. Len(b)
         /\ \A i \in 1 .. Len(b) : b[i] \in Byte /\ b[i].m \in Message /\ b[i].k \in 1 .. Size
                                   /\ b[i].m.n \in Nat /\ b[i].k \in Nat
<1>1. Len(b) \in Nat /\ DOMAIN b = 1 .. Len(b) /\ \A i \in 1 .. Len(b) : b[i] \in Byte
  BY LenProperties, ElementOfSeq
<1>2. ASSUME NEW x \in Byte PROVE x.m \in Message /\ x.k \in 1 .. Size /\ x.m.n \in Nat /\ x.k \in Nat
  BY SizeNat, Constants DEF Byte, Message
<1> QED
  BY ZenonT(60), <1>1, <1>2

LEMMA CutSelf ==
  ASSUME NEW b \in Seq(Byte)
  PROVE  Cut(b, b)
  BY BytesOf DEF Cut

LEMMA CutExact ==
  ASSUME NEW b \in Seq(Byte), NEW c \in Seq(Byte), Cut(b, c), Exact(b)
  PROVE  Exact(c)
<1>1. Len(b) \in Nat /\ Len(c) \in Nat /\ Len(c) <= Len(b) /\ \A i \in 1 .. Len(c) : c[i] = b[i]
  BY BytesOf DEF Cut
<1>2. ASSUME NEW i \in 1 .. Len(c)
      PROVE  /\ i \in 1 .. Len(b) /\ c[i] = b[i] /\ (i > 1 => c[i - 1] = b[i - 1])
             /\ \A j \in 1 .. i - 1 : c[j] = b[j]
  <2>1. i \in 1 .. Len(b) /\ (i > 1 => i - 1 \in 1 .. Len(c)) /\ \A j \in 1 .. i - 1 : j \in 1 .. Len(c)
    BY <1>1
  <2> QED
    BY <1>1, <2>1
<1>3. ASSUME NEW i \in 1 .. Len(c)
      PROVE  /\ i > 1 /\ c[i].k > 1 => c[i - 1].m = c[i].m /\ c[i - 1].k = c[i].k - 1
             /\ ~(i > 1 /\ c[i].k > 1) => c[i].k = 1 /\ (i > 1 => c[i - 1].k = Size)
             /\ \A j \in 1 .. i - 1 : c[j].m.w = c[i].m.w /\ c[j].m.op = c[i].m.op =>
                  c[j].m.n < c[i].m.n \/ (c[j].m = c[i].m /\ c[j].k < c[i].k)
  <2>1. /\ i > 1 /\ b[i].k > 1 => b[i - 1].m = b[i].m /\ b[i - 1].k = b[i].k - 1
        /\ ~(i > 1 /\ b[i].k > 1) => b[i].k = 1 /\ (i > 1 => b[i - 1].k = Size)
        /\ \A j \in 1 .. i - 1 : b[j].m.w = b[i].m.w /\ b[j].m.op = b[i].m.op =>
             b[j].m.n < b[i].m.n \/ (b[j].m = b[i].m /\ b[j].k < b[i].k)
    BY <1>2, Zenon DEF Exact
  <2> QED
    BY ZenonT(60), <1>2, <2>1
<1> QED
  BY <1>3, Zenon DEF Exact

LEMMA CutHas ==
  ASSUME NEW b \in Seq(Byte), NEW c \in Seq(Byte), Cut(b, c), NEW m, Has(c, m)
  PROVE  Has(b, m)
<1>1. Len(b) \in Nat /\ Len(c) \in Nat
  BY BytesOf
<1> QED
  BY <1>1 DEF Cut, Has

LEMMA CutBefore ==
  ASSUME NEW b \in Seq(Byte), NEW c \in Seq(Byte), Cut(b, c), NEW m, Before(b, m)
  PROVE  Before(c, m)
<1>1. Len(b) \in Nat /\ Len(c) \in Nat
  BY BytesOf
<1> QED
  BY <1>1 DEF Cut, Before

(* A place of a stream with a message put into it. *)
LEMMA PutAt ==
  ASSUME NEW b \in Seq(Byte), NEW c \in Seq(Byte), NEW m \in Message, NEW p, Put(b, m, p, c),
         NEW i \in 1 .. Len(c)
  PROVE  \/ i <= p /\ i \in 1 .. Len(b) /\ c[i] = b[i]
         \/ i \in p + 1 .. p + Size /\ c[i].m = m /\ c[i].k = i - p
         \/ i > p + Size /\ i - Size \in p + 1 .. Len(b) /\ c[i] = b[i - Size]
<1>1. Len(b) \in Nat /\ p \in 0 .. Len(b) /\ Len(c) = Len(b) + Size /\ i \in Nat
  BY BytesOf DEF Put
<1>2. CASE i <= p
  <2>1. i \in 1 .. p /\ i \in 1 .. Len(b)
    BY <1>1, <1>2
  <2> QED
    BY <1>2, <2>1 DEF Put
<1>3. CASE i \in p + 1 .. p + Size
  BY <1>3 DEF Put
<1>4. CASE i > p + Size
  <2>1. i \in p + Size + 1 .. Len(b) + Size /\ i - Size \in p + 1 .. Len(b)
    BY <1>1, <1>4, SizeNat
  <2> QED
    BY <1>4, <2>1 DEF Put
<1> QED
  BY <1>1, <1>2, <1>3, <1>4, SizeNat

LEMMA PutHas ==
  ASSUME NEW b \in Seq(Byte), NEW c \in Seq(Byte), NEW m \in Message, NEW p, Put(b, m, p, c)
  PROVE  /\ Has(c, m)
         /\ \A x : Has(b, x) => Has(c, x)
         /\ \A x : Before(b, x) /\ (m.w # x.w \/ m.n < x.n) => Before(c, x)
<1>1. Len(b) \in Nat /\ p \in 0 .. Len(b) /\ Len(c) = Len(b) + Size
  BY BytesOf DEF Put
<1>2. Has(c, m)
  <2>1. p + Size \in 1 .. Len(c) /\ p + Size \in p + 1 .. p + Size /\ (p + Size) - p = Size
    BY <1>1, SizeNat
  <2>2. c[p + Size].m = m /\ c[p + Size].k = Size
    BY <2>1 DEF Put
  <2> QED
    BY <2>1, <2>2 DEF Has
<1>3. ASSUME NEW x, Has(b, x) PROVE Has(c, x)
  <2>1. PICK i \in 1 .. Len(b) : b[i].m = x /\ b[i].k = Size
    BY <1>3 DEF Has
  <2>2. CASE i <= p
    <3>1. i \in 1 .. p /\ i \in 1 .. Len(c)
      BY <1>1, <2>2, SizeNat
    <3>2. c[i] = b[i]
      BY <3>1 DEF Put
    <3> QED
      BY <2>1, <3>1, <3>2 DEF Has
  <2>3. CASE ~(i <= p)
    <3>1. i + Size \in p + Size + 1 .. Len(b) + Size /\ i + Size \in 1 .. Len(c) /\ (i + Size) - Size = i
      BY <1>1, <2>3, SizeNat
    <3>2. c[i + Size] = b[i]
      BY <3>1 DEF Put
    <3> QED
      BY <2>1, <3>1, <3>2 DEF Has
  <2> QED
    BY <2>2, <2>3
<1>4. ASSUME NEW x, Before(b, x), m.w # x.w \/ m.n < x.n PROVE Before(c, x)
  <2>1. SUFFICES ASSUME NEW j \in 1 .. Len(c), c[j].m.w = x.w PROVE c[j].m.n < x.n
    BY DEF Before
  <2>2. j - Size \in p + 1 .. Len(b) => j - Size \in 1 .. Len(b)
    BY <1>1
  <2> QED
    BY <1>4, <2>1, <2>2, PutAt DEF Before
<1> QED
  BY <1>2, <1>3, <1>4

(* A whole message between whole messages. *)
LEMMA PutExact ==
  ASSUME NEW b \in Seq(Byte), NEW c \in Seq(Byte), NEW m \in Message, NEW p, Put(b, m, p, c),
         Exact(b), Full(b), Before(b, m), p < Len(b) => b[p + 1].k = 1,
         \A i \in p + 1 .. Len(b) : b[i].m.w # m.w \/ b[i].m.op # m.op
  PROVE  Exact(c) /\ Full(c)
<1>1. Len(b) \in Nat /\ p \in 0 .. Len(b) /\ Len(c) = Len(b) + Size /\ Size \in Nat \ {0} /\ p \in Nat
  BY BytesOf, SizeNat DEF Put
<1>2. \A i \in 1 .. p : c[i] = b[i]
  BY DEF Put
<1>3. \A i \in p + 1 .. p + Size : c[i].m = m /\ c[i].k = i - p
  BY DEF Put
<1>4. \A i \in p + Size + 1 .. Len(b) + Size : c[i] = b[i - Size]
  BY DEF Put
<1>5. \A i \in 1 .. Len(b) : b[i].m.n \in Nat /\ b[i].k \in Nat /\ b[i].k \in 1 .. Size
  BY BytesOf
<1>6. p > 0 => b[p].k = Size
  <2>1. SUFFICES ASSUME p > 0 PROVE b[p].k = Size
    OBVIOUS
  <2>2. CASE p = Len(b)
    BY <2>1, <2>2 DEF Full
  <2>3. CASE p # Len(b)
    <3>1. p < Len(b) /\ p + 1 \in 1 .. Len(b) /\ p + 1 > 1 /\ (p + 1) - 1 = p
      BY <1>1, <2>1, <2>3
    <3>2. b[p + 1].k = 1
      BY <3>1
    <3>3. ~(p + 1 > 1 /\ b[p + 1].k > 1)
      BY <3>2
    <3> QED
      BY <3>1, <3>3 DEF Exact
  <2> QED
    BY <2>2, <2>3
<1>7. m.n \in Nat /\ m.w = m.w
  BY Constants DEF Message
<1>8. ASSUME NEW i \in 1 .. Len(c)
      PROVE  /\ i > 1 /\ c[i].k > 1 => c[i - 1].m = c[i].m /\ c[i - 1].k = c[i].k - 1
             /\ ~(i > 1 /\ c[i].k > 1) => c[i].k = 1 /\ (i > 1 => c[i - 1].k = Size)
             /\ \A j \in 1 .. i - 1 : c[j].m.w = c[i].m.w /\ c[j].m.op = c[i].m.op =>
                  c[j].m.n < c[i].m.n \/ (c[j].m = c[i].m /\ c[j].k < c[i].k)
  <2>1. i \in Nat /\ i >= 1 /\ i <= Len(b) + Size
    BY <1>1
  <2>2. CASE i <= p
    <3>1. i \in 1 .. Len(b) /\ c[i] = b[i] /\ (i > 1 => c[i - 1] = b[i - 1])
          /\ \A j \in 1 .. i - 1 : c[j] = b[j]
      <4>1. i \in 1 .. Len(b) /\ i \in 1 .. p /\ (i > 1 => i - 1 \in 1 .. p) /\ \A j \in 1 .. i - 1 : j \in 1 .. p
        BY <1>1, <2>1, <2>2
      <4> QED
        BY <1>2, <4>1
    <3> QED
      BY <3>1, ZenonT(60) DEF Exact
  <2>3. CASE i \in p + 1 .. p + Size
    <3>1. c[i].m = m /\ c[i].k = i - p
      BY <1>3, <2>3
    <3>2. ASSUME i > 1, c[i].k > 1 PROVE c[i - 1].m = c[i].m /\ c[i - 1].k = c[i].k - 1
      <4>1. i - 1 \in p + 1 .. p + Size /\ (i - 1) - p = (i - p) - 1
        BY <1>1, <2>3, <3>1, <3>2
      <4> QED
        BY <1>3, <3>1, <4>1
    <3>3. ASSUME ~(i > 1 /\ c[i].k > 1) PROVE c[i].k = 1 /\ (i > 1 => c[i - 1].k = Size)
      <4>1. i = p + 1
        BY <1>1, <2>3, <3>1, <3>3
      <4>2. c[i].k = 1
        BY <1>1, <3>1, <4>1
      <4>3. ASSUME i > 1 PROVE c[i - 1].k = Size
        <5>1. i - 1 = p /\ p > 0 /\ p \in 1 .. p
          BY <1>1, <4>1, <4>3
        <5> QED
          BY <1>2, <1>6, <5>1
      <4> QED
        BY <4>2, <4>3
    <3>4. ASSUME NEW j \in 1 .. i - 1, c[j].m.w = c[i].m.w
          PROVE  c[j].m.n < c[i].m.n \/ (c[j].m = c[i].m /\ c[j].k < c[i].k)
      <4>1. CASE j <= p
        <5>1. j \in 1 .. p /\ j \in 1 .. Len(b)
          BY <1>1, <4>1
        <5>2. c[j] = b[j]
          BY <1>2, <5>1
        <5> QED
          BY <3>1, <3>4, <5>1, <5>2 DEF Before
      <4>2. CASE ~(j <= p)
        <5>1. j \in p + 1 .. p + Size /\ j - p < i - p
          BY <1>1, <2>3, <4>2
        <5> QED
          BY <1>3, <3>1, <5>1
      <4> QED
        BY <4>1, <4>2
    <3> QED
      BY <3>2, <3>3, <3>4
  <2>4. CASE i > p + Size
    <3> DEFINE q == i - Size
    <3>1. q \in 1 .. Len(b) /\ q \in p + 1 .. Len(b) /\ c[i] = b[q] /\ q > p /\ q \in Nat
      <4>1. i \in p + Size + 1 .. Len(b) + Size
        BY <1>1, <2>1, <2>4
      <4> QED
        BY SMTT(60), <1>1, <1>4, <4>1
    <3>2. i > 1
      BY <1>1, <2>4
    <3>3. CASE q = p + 1
      <4>1. c[i].k = 1
        BY <1>1, <3>1, <3>3
      <4>2. i - 1 \in p + 1 .. p + Size /\ (i - 1) - p = Size
        BY <1>1, <2>1, <3>3
      <4>3. c[i - 1].k = Size
        BY <1>3, <4>2
      <4> QED
        <5>1. ASSUME NEW j \in 1 .. i - 1, c[j].m.w = c[i].m.w, c[j].m.op = c[i].m.op
              PROVE  c[j].m.n < c[i].m.n \/ (c[j].m = c[i].m /\ c[j].k < c[i].k)
          <6>1. CASE j <= p
            <7>1. j \in 1 .. p /\ j \in 1 .. q - 1
              BY SMTT(60), <1>1, <3>1, <6>1
            <7>2. c[j] = b[j]
              BY <1>2, <7>1
            <7> HIDE DEF q
            <7> QED
              BY <3>1, <5>1, <7>1, <7>2 DEF Exact
          <6>2. CASE ~(j <= p)
            <7>1. j \in p + 1 .. p + Size
              BY <1>1, <2>1, <3>3, <6>2
            <7> QED
              BY <1>3, <3>1, <5>1, <7>1
          <6> QED
            BY <6>1, <6>2
        <5> QED
          BY <4>1, <4>3, <5>1
    <3>4. CASE q # p + 1
      <4>1. q - 1 > p /\ q > 1 /\ i - 1 \in p + Size + 1 .. Len(b) + Size /\ (i - 1) - Size = q - 1
        BY <1>1, <2>1, <3>1, <3>4
      <4>2. c[i - 1] = b[q - 1]
        BY <1>4, <4>1
      <4>3. ASSUME NEW j \in 1 .. i - 1, c[j].m.w = c[i].m.w, c[j].m.op = c[i].m.op
            PROVE  c[j].m.n < c[i].m.n \/ (c[j].m = c[i].m /\ c[j].k < c[i].k)
        <5>1. CASE j <= p
          <6>1. j \in 1 .. p /\ j \in 1 .. q - 1
            BY <1>1, <3>1, <5>1
          <6>2. c[j] = b[j]
            BY <1>2, <6>1
          <6> HIDE DEF q
          <6> QED
            BY <3>1, <4>3, <6>1, <6>2 DEF Exact
        <5>2. CASE j \in p + 1 .. p + Size
          BY <1>3, <3>1, <4>3, <5>2
        <5>3. CASE j > p + Size
          <6>1. j \in p + Size + 1 .. Len(b) + Size /\ j - Size \in 1 .. q - 1
            BY <1>1, <2>1, <5>3
          <6>2. c[j] = b[j - Size]
            BY <1>4, <6>1
          <6> HIDE DEF q
          <6> QED
            BY ZenonT(60), <3>1, <4>3, <6>1, <6>2 DEF Exact
        <5> QED
          BY <1>1, <5>1, <5>2, <5>3
      <4> HIDE DEF q
      <4> QED
        BY <3>1, <3>2, <4>1, <4>2, <4>3 DEF Exact
    <3> QED
      BY <3>3, <3>4
  <2> QED
    BY <1>1, <2>1, <2>2, <2>3, <2>4
<1>9. Full(c)
  <2>1. CASE p = Len(b)
    <3>1. Len(c) \in p + 1 .. p + Size /\ Len(c) - p = Size
      BY <1>1, <2>1
    <3> QED
      BY <1>3, <3>1 DEF Full
  <2>2. CASE p # Len(b)
    <3>1. Len(c) \in p + Size + 1 .. Len(b) + Size /\ Len(c) - Size = Len(b) /\ Len(b) > 0
      BY <1>1, <2>2
    <3> QED
      BY <1>4, <3>1 DEF Full
  <2> QED
    BY <2>1, <2>2
<1> QED
  BY <1>8, <1>9, Zenon DEF Exact

-----------------------------------------------------------------------------
(* Lists one behind the other. *)

LEMMA ConcatAt ==
  ASSUME NEW a \in Seq(Byte), NEW b \in Seq(Byte)
  PROVE  /\ a \o b \in Seq(Byte) /\ Len(a) \in Nat /\ Len(b) \in Nat
         /\ Len(a \o b) = Len(a) + Len(b)
         /\ \A i \in 1 .. Len(a) : (a \o b)[i] = a[i]
         /\ \A i \in 1 .. Len(b) : (a \o b)[Len(a) + i] = b[i]
<1>1. /\ a \o b \in Seq(Byte) /\ Len(a \o b) = Len(a) + Len(b) /\ Len(a) \in Nat /\ Len(b) \in Nat
      /\ \A i \in 1 .. Len(a) + Len(b) : (a \o b)[i] = IF i <= Len(a) THEN a[i] ELSE b[i - Len(a)]
  BY ConcatProperties, LenProperties
<1>2. ASSUME NEW i \in 1 .. Len(a) PROVE (a \o b)[i] = a[i]
  <2>1. i \in 1 .. Len(a) + Len(b) /\ i <= Len(a)
    BY <1>1
  <2> QED
    BY <1>1, <2>1
<1>3. ASSUME NEW i \in 1 .. Len(b) PROVE (a \o b)[Len(a) + i] = b[i]
  <2>1. Len(a) + i \in 1 .. Len(a) + Len(b) /\ ~(Len(a) + i <= Len(a)) /\ (Len(a) + i) - Len(a) = i
    BY <1>1
  <2> QED
    BY <1>1, <2>1
<1> QED
  BY <1>1, <1>2, <1>3

LEMMA Assoc ==
  ASSUME NEW a \in Seq(Byte), NEW b \in Seq(Byte), NEW c \in Seq(Byte)
  PROVE  (a \o b) \o c = a \o (b \o c)
  BY SMTT(60), ConcatAssociative

LEMMA CatSeq ==
  ASSUME NEW a \in Seq(Byte), NEW b \in Seq(Byte)
  PROVE  a \o b \in Seq(Byte)
  BY ConcatProperties

Assoc3(a, b, c) == (a \o b) \o c = a \o (b \o c)

LEMMA AllAssoc == \A a, b, c \in Seq(Byte) : Assoc3(a, b, c)
  BY Assoc DEF Assoc3

Regroup(x, d, h, g, l) ==
  /\ x \o ((d \o h) \o l) = (x \o (d \o h)) \o l
  /\ x \o ((d \o (h \o g)) \o l) = ((x \o (d \o h)) \o g) \o l
  /\ x \o ((d \o h) \o (l \o g)) = (x \o ((d \o h) \o l)) \o g
  /\ (x \o g) \o ((d \o h) \o l) = ((x \o g) \o d) \o (h \o l)

LEMMA AssocLists ==
  ASSUME NEW x \in Seq(Byte), NEW d \in Seq(Byte), NEW h \in Seq(Byte), NEW g \in Seq(Byte), NEW l \in Seq(Byte)
  PROVE  Regroup(x, d, h, g, l)
<1>1. PICK q \in Seq(Byte) : q = d \o h
  BY CatSeq
<1>2. PICK z \in Seq(Byte) : z = h \o l
  BY CatSeq
<1>3. PICK y \in Seq(Byte) : y = x \o g
  BY CatSeq
<1>4. q \o g \in Seq(Byte) /\ q \o l \in Seq(Byte)
  BY CatSeq
<1>5. Assoc3(d, h, g) /\ Assoc3(d, h, l) /\ Assoc3(x, q, l) /\ Assoc3(x, q \o g, l)
  BY <1>4, AllAssoc, Zenon
<1>6. Assoc3(x, q, g) /\ Assoc3(q, l, g) /\ Assoc3(x, q \o l, g) /\ Assoc3(y, d, z)
  BY <1>4, AllAssoc, Zenon
<1>13. x \o ((d \o h) \o l) = (x \o (d \o h)) \o l
  BY <1>1, <1>5 DEF Assoc3
<1>14. x \o ((d \o (h \o g)) \o l) = ((x \o (d \o h)) \o g) \o l
  BY <1>1, <1>5, <1>6 DEF Assoc3
<1>15. x \o ((d \o h) \o (l \o g)) = (x \o ((d \o h) \o l)) \o g
  BY <1>1, <1>6 DEF Assoc3
<1>16. (x \o g) \o ((d \o h) \o l) = ((x \o g) \o d) \o (h \o l)
  BY <1>2, <1>3, <1>5, <1>6 DEF Assoc3
<1> QED
  BY <1>13, <1>14, <1>15, <1>16 DEF Regroup

LEMMA SubAt ==
  ASSUME NEW b \in Seq(Byte), NEW m \in Nat \ {0}, NEW n \in Nat, n <= Len(b), m <= n + 1
  PROVE  /\ SubSeq(b, m, n) \in Seq(Byte) /\ Len(SubSeq(b, m, n)) = n - m + 1
         /\ \A i \in 1 .. n - m + 1 : SubSeq(b, m, n)[i] = b[m + i - 1]
<1>1. Len(b) \in Nat /\ \A i \in 1 .. Len(b) : b[i] \in Byte
  BY BytesOf
<1>2. m \in Int /\ n \in Int /\ \A i \in m .. n : b[i] \in Byte
  BY <1>1
<1>3. /\ SubSeq(b, m, n) \in Seq(Byte) /\ Len(SubSeq(b, m, n)) = IF m <= n THEN n - m + 1 ELSE 0
      /\ \A i \in 1 .. n - m + 1 : SubSeq(b, m, n)[i] = b[m + i - 1]
  BY <1>2, SubSeqProperties
<1>4. (IF m <= n THEN n - m + 1 ELSE 0) = n - m + 1
  OBVIOUS
<1> QED
  BY <1>3, <1>4

LEMMA WaitingAt ==
  ASSUME NEW s \in Socket
  PROVE  /\ Waiting(s) \in Seq(Byte) /\ Len(s.dw) \in Nat /\ Len(s.high) \in Nat /\ Len(s.low) \in Nat
         /\ Len(Waiting(s)) = Len(s.dw) + Len(s.high) + Len(s.low)
         /\ \A i \in 1 .. Len(s.dw) : Waiting(s)[i] = s.dw[i]
         /\ \A i \in 1 .. Len(s.high) : Waiting(s)[Len(s.dw) + i] = s.high[i]
         /\ \A i \in 1 .. Len(s.low) : Waiting(s)[Len(s.dw) + Len(s.high) + i] = s.low[i]
<1>1. s.dw \in Seq(Byte) /\ s.high \in Seq(Byte) /\ s.low \in Seq(Byte)
  BY WaitingSeq
<1> DEFINE f == s.dw \o s.high
           D == Len(s.dw)
           H == Len(s.high)
           L == Len(s.low)
<1>2. /\ f \in Seq(Byte) /\ D \in Nat /\ H \in Nat /\ Len(f) = D + H
      /\ \A i \in 1 .. D : f[i] = s.dw[i]
      /\ \A i \in 1 .. H : f[D + i] = s.high[i]
  BY <1>1, ConcatAt
<1>3. /\ Waiting(s) \in Seq(Byte) /\ L \in Nat /\ Len(Waiting(s)) = Len(f) + L
      /\ \A i \in 1 .. Len(f) : Waiting(s)[i] = f[i]
      /\ \A i \in 1 .. L : Waiting(s)[Len(f) + i] = s.low[i]
  BY ZenonT(60), <1>1, <1>2, ConcatAt DEF Waiting
<1> HIDE DEF f, D, H, L
<1>4. (\A i \in 1 .. D : i \in 1 .. Len(f)) /\ \A i \in 1 .. H : D + i \in 1 .. Len(f)
  BY <1>2
<1> QED
  BY <1>2, <1>3, <1>4 DEF D, H, L

LEMMA EmptyWaiting ==
  ASSUME NEW s \in Socket, s.high = << >>, s.low = << >>
  PROVE  Waiting(s) = s.dw /\ (s.dw = << >> => Waiting(s) = << >>)
<1>1. s.dw \in Seq(Byte)
  BY WaitingSeq
<1> QED
  BY <1>1, ConcatEmptySeq DEF Waiting

(* The lists without the first k bytes, in whatever list they are. *)
LEMMA CutLists ==
  ASSUME NEW f \in Seq(Byte), NEW l \in Seq(Byte), NEW k \in 0 .. Len(f) + Len(l), NEW part \in Nat
  PROVE  LET low == SubSeq(l, IF k > Len(f) THEN k - Len(f) + 1 ELSE 1, Len(l))
             hi == SubSeq(f, k + 1, Len(f)) \o SubSeq(low, 1, part)
             lo == SubSeq(low, part + 1, Len(low))
         IN  part <= Len(low) =>
               /\ hi \o lo \in Seq(Byte) /\ Len(hi \o lo) = Len(f \o l) - k
               /\ \A i \in 1 .. Len(hi \o lo) : (hi \o lo)[i] = (f \o l)[k + i]
               /\ \A i \in 1 .. Len(lo) : \E j \in 1 .. Len(l) : lo[i] = l[j]
<1> DEFINE F == Len(f)
           L == Len(l)
           n == IF k > F THEN k - F + 1 ELSE 1
           low == SubSeq(l, n, L)
           M == Len(low)
           a == SubSeq(f, k + 1, F)
           A == IF k > F THEN 0 ELSE F - k
           p == SubSeq(low, 1, part)
           hi == a \o p
           lo == SubSeq(low, part + 1, M)
<1> SUFFICES ASSUME part <= M
             PROVE  /\ hi \o lo \in Seq(Byte) /\ Len(hi \o lo) = Len(f \o l) - k
                    /\ \A i \in 1 .. Len(hi \o lo) : (hi \o lo)[i] = (f \o l)[k + i]
                    /\ \A i \in 1 .. Len(lo) : \E j \in 1 .. Len(l) : lo[i] = l[j]
  BY Zenon
<1> HIDE DEF lo, hi, p, a, M, low
<1>1. F \in Nat /\ L \in Nat /\ k \in Nat /\ k <= F + L
  BY BytesOf
<1>2. /\ f \o l \in Seq(Byte) /\ Len(f \o l) = F + L
      /\ \A i \in 1 .. F : (f \o l)[i] = f[i]
      /\ \A i \in 1 .. L : (f \o l)[F + i] = l[i]
  BY ConcatAt
<1> HIDE DEF F, L
<1>3. n \in Nat \ {0} /\ n <= L + 1
  BY <1>1
<1>4. /\ low \in Seq(Byte) /\ M = L - n + 1
      /\ \A i \in 1 .. M : low[i] = l[n + i - 1]
  <2>1. L <= Len(l)
    BY <1>1 DEF L
  <2> HIDE DEF n
  <2>2. /\ SubSeq(l, n, L) \in Seq(Byte) /\ Len(SubSeq(l, n, L)) = L - n + 1
        /\ \A i \in 1 .. L - n + 1 : SubSeq(l, n, L)[i] = l[n + i - 1]
    BY <1>1, <1>3, <2>1, SubAt
  <2> QED
    BY <2>2 DEF low, M
<1>5. a \in Seq(Byte) /\ Len(a) = A /\ \A i \in 1 .. A : a[i] = f[k + i]
  <2>1. CASE k <= F
    <3>1. k + 1 \in Nat \ {0} /\ k + 1 <= F + 1 /\ F <= Len(f)
      BY <1>1, <2>1 DEF F
    <3>2. /\ a \in Seq(Byte) /\ Len(a) = F - (k + 1) + 1
          /\ \A i \in 1 .. F - (k + 1) + 1 : a[i] = f[(k + 1) + i - 1]
      BY <1>1, <3>1, SubAt DEF a
    <3>3. F - (k + 1) + 1 = A /\ \A i \in 1 .. A : (k + 1) + i - 1 = k + i
      BY <1>1, <2>1
    <3> QED
      BY <3>2, <3>3
  <2>2. CASE k > F
    <3>1. k + 1 \in Int /\ F \in Int /\ F < k + 1
      BY <1>1, <2>2
    <3>2. a = << >>
      BY <3>1, SubSeqEmpty DEF a
    <3>3. A = 0 /\ 1 .. A = {}
      BY <2>2
    <3> QED
      BY <3>2, <3>3, EmptySeq
  <2> QED
    BY <1>1, <2>1, <2>2
<1>6. M \in Nat /\ part \in Nat /\ part <= M
  BY <1>4, BytesOf DEF M
<1> HIDE DEF n, A
<1>7. p \in Seq(Byte) /\ Len(p) = part /\ \A i \in 1 .. part : p[i] = low[i]
  <2>1. 1 \in Nat \ {0} /\ 1 <= part + 1 /\ part - 1 + 1 = part /\ \A i \in 1 .. part : 1 + i - 1 = i
    BY <1>6
  <2>2. /\ p \in Seq(Byte) /\ Len(p) = part - 1 + 1
        /\ \A i \in 1 .. part - 1 + 1 : p[i] = low[1 + i - 1]
    <3>1. part <= Len(low)
      BY <1>6 DEF M
    <3> QED
      BY <1>4, <1>6, <2>1, <3>1, SubAt DEF p
  <2> QED
    BY <2>1, <2>2
<1>8. lo \in Seq(Byte) /\ Len(lo) = M - part /\ \A i \in 1 .. M - part : lo[i] = low[part + i]
  <2>1. part + 1 \in Nat \ {0} /\ part + 1 <= M + 1 /\ M - (part + 1) + 1 = M - part
        /\ \A i \in 1 .. M - part : (part + 1) + i - 1 = part + i
    BY <1>6
  <2>2. /\ lo \in Seq(Byte) /\ Len(lo) = M - (part + 1) + 1
        /\ \A i \in 1 .. M - (part + 1) + 1 : lo[i] = low[(part + 1) + i - 1]
    <3>1. M <= Len(low)
      BY <1>6 DEF M
    <3> QED
      BY ZenonT(60), <1>4, <1>6, <2>1, <3>1, SubAt DEF lo
  <2> QED
    BY <2>1, <2>2
<1>9. /\ hi \in Seq(Byte) /\ Len(hi) = A + part
      /\ \A i \in 1 .. A : hi[i] = a[i]
      /\ \A i \in 1 .. part : hi[A + i] = p[i]
  BY ZenonT(60), <1>5, <1>7, ConcatAt DEF hi
<1>10. /\ hi \o lo \in Seq(Byte) /\ Len(hi \o lo) = (A + part) + (M - part)
       /\ \A i \in 1 .. A + part : (hi \o lo)[i] = hi[i]
       /\ \A i \in 1 .. M - part : (hi \o lo)[(A + part) + i] = lo[i]
  <2>1. /\ hi \o lo \in Seq(Byte) /\ Len(hi \o lo) = Len(hi) + Len(lo)
        /\ \A i \in 1 .. Len(hi) : (hi \o lo)[i] = hi[i]
        /\ \A i \in 1 .. Len(lo) : (hi \o lo)[Len(hi) + i] = lo[i]
    BY <1>8, <1>9, ConcatAt
  <2>2. Len(hi) = A + part /\ Len(lo) = M - part
    BY <1>8, <1>9
  <2> QED
    BY <2>1, <2>2, Zenon
<1>11. A \in Nat /\ (A + part) + (M - part) = (F + L) - k /\ A + M = (F + L) - k
  <2>1. CASE k > F
    <3>1. A = 0 /\ n = k - F + 1
      BY <2>1 DEF n, A
    <3> QED
      BY <1>1, <1>4, <1>6, <3>1
  <2>2. CASE ~(k > F)
    <3>1. A = F - k /\ n = 1
      BY <2>2 DEF n, A
    <3> QED
      BY <1>1, <1>4, <1>6, <2>2, <3>1
  <2> QED
    BY <2>1, <2>2
<1>12. ASSUME NEW i \in 1 .. A + M PROVE (hi \o lo)[i] = (f \o l)[k + i]
  <2>1. CASE i <= A
    <3>1. i \in 1 .. A /\ i \in 1 .. A + part /\ k + i \in 1 .. F
      BY <1>1, <1>6, <1>11, <2>1 DEF A
    <3> QED
      BY ZenonT(60), <1>2, <1>5, <1>9, <1>10, <3>1
  <2>2. CASE i > A
    <3> DEFINE j == i - A
    <3>1. j \in 1 .. M /\ n + j - 1 \in 1 .. L /\ F + (n + j - 1) = k + i
      BY <1>1, <1>4, <1>6, <1>11, <2>2 DEF n, A
    <3> HIDE DEF j
    <3>2. low[j] = (f \o l)[k + i]
      <4>1. low[j] = l[n + j - 1]
        BY <1>4, <3>1
      <4>2. (f \o l)[F + (n + j - 1)] = l[n + j - 1]
        BY <1>2, <3>1
      <4> QED
        BY <3>1, <4>1, <4>2
    <3>3. CASE j <= part
      <4>1. j \in 1 .. part /\ A + j = i /\ i \in 1 .. A + part
        BY <1>6, <1>11, <3>1, <3>3 DEF j
      <4>2. hi[A + j] = p[j] /\ p[j] = low[j] /\ (hi \o lo)[i] = hi[i]
        BY <1>7, <1>9, <1>10, <4>1
      <4> QED
        BY <3>2, <4>1, <4>2
    <3>4. CASE j > part
      <4>1. j - part \in 1 .. M - part /\ (A + part) + (j - part) = i /\ part + (j - part) = j
        BY <1>6, <1>11, <3>1, <3>4 DEF j
      <4>2. (hi \o lo)[(A + part) + (j - part)] = lo[j - part] /\ lo[j - part] = low[part + (j - part)]
        BY <1>8, <1>10, <4>1
      <4> QED
        BY <3>2, <4>1, <4>2
    <3>5. j <= part \/ j > part
      BY <1>6, <3>1
    <3> QED
      BY <3>3, <3>4, <3>5
  <2>3. i <= A \/ i > A
    BY <1>6, <1>11
  <2> QED
    BY <2>1, <2>2, <2>3
<1>13. ASSUME NEW i \in 1 .. Len(lo) PROVE \E j \in 1 .. L : lo[i] = l[j]
  <2>1. i \in 1 .. M - part /\ part + i \in 1 .. M /\ n + (part + i) - 1 \in 1 .. L
    BY <1>1, <1>3, <1>4, <1>6, <1>8
  <2>2. lo[i] = low[part + i] /\ low[part + i] = l[n + (part + i) - 1]
    BY <1>4, <1>8, <2>1
  <2> QED
    BY <2>1, <2>2
<1> QED
  BY <1>2, <1>10, <1>11, <1>12, <1>13 DEF F, L

(* send_buffer takes bytes from the front, whatever it moves between lists. *)
LEMMA SendBufferWaiting ==
  ASSUME NEW h, NEW s \in Socket, Sound(h, s), NEW k \in 0 .. Len(Waiting(s))
  PROVE  LET t == send_buffer(s, k) IN
         /\ Waiting(t) \in Seq(Byte) /\ Len(Waiting(t)) = Len(Waiting(s)) - k
         /\ \A i \in 1 .. Len(Waiting(t)) : Waiting(t)[i] = Waiting(s)[k + i]
         /\ t.dw = << >>
         /\ \A i \in 1 .. Len(t.low) : \E j \in 1 .. Len(s.low) : t.low[i] = s.low[j]
<1> DEFINE f == s.dw \o s.high
           l == s.low
           F == Len(f)
           n == IF k > F THEN k - F + 1 ELSE 1
           low == SubSeq(l, n, Len(l))
           part == RestPart(low)
           hi == SubSeq(f, k + 1, F) \o SubSeq(low, 1, part)
           lo == SubSeq(low, part + 1, Len(low))
           t == send_buffer(s, k)
<1>1. l \in Seq(Byte) /\ f \in Seq(Byte) /\ F \in Nat /\ Len(l) \in Nat /\ Len(Waiting(s)) = F + Len(l)
  BY WaitingSeq
<1>2. t = [s EXCEPT !.dw = << >>, !.high = hi, !.low = lo, !.armed = s.armed /\ k < Len(Waiting(s))]
  BY DEF send_buffer, RestPart
<1>3. t.dw = << >> /\ t.high = hi /\ t.low = lo
  <2> HIDE DEF hi, lo
  <2> QED
    BY <1>2 DEF Socket
<1>4. Waiting(s) = f \o l
  BY DEF Waiting
<1>5. Whole(l)
  BY DEF Sound
<1>6. n \in 1 .. Len(l) + 1
  <2> HIDE DEF F
  <2> QED
    BY <1>1
<1>7. part \in 0 .. Len(low) /\ SubSeq(low, 1, part) \in Seq(Byte)
  <2> HIDE DEF n
  <2> QED
    BY <1>1, <1>5, <1>6, WholeRest
<1>8. low \in Seq(Byte)
  <2> HIDE DEF n
  <2>1. n \in Nat \ {0} /\ n <= Len(l) + 1
    BY <1>1, <1>6
  <2> QED
    BY <1>1, <2>1, SubAt
<1>9. part \in Nat /\ part <= Len(low)
  <2> HIDE DEF part, low
  <2> QED
    BY <1>7, <1>8, BytesOf
<1>10. k \in 0 .. F + Len(l)
  BY <1>1
<1> HIDE DEF f, l, t
<1>11. /\ hi \o lo \in Seq(Byte) /\ Len(hi \o lo) = Len(f \o l) - k
       /\ \A i \in 1 .. Len(hi \o lo) : (hi \o lo)[i] = (f \o l)[k + i]
       /\ \A i \in 1 .. Len(lo) : \E j \in 1 .. Len(l) : lo[i] = l[j]
  <2> HIDE DEF part
  <2> QED
    BY <1>1, <1>9, <1>10, CutLists, ZenonT(60)
<1>12. Waiting(t) = hi \o lo
  <2>1. hi \in Seq(Byte)
    <3>1. SubSeq(f, k + 1, F) \in Seq(Byte)
      <4>1. CASE k <= F
        <5>1. k + 1 \in Nat \ {0} /\ k + 1 <= F + 1 /\ F <= Len(f)
          <6> HIDE DEF F
          <6> QED
            BY <1>1, <1>10, <4>1 DEF F
        <5> HIDE DEF F
        <5> QED
          BY <1>1, <5>1, SubAt
      <4>2. CASE ~(k <= F)
        <5>1. k + 1 \in Int /\ F \in Int /\ F < k + 1
          <6> HIDE DEF F
          <6> QED
            BY <1>1, <1>10, <4>2
        <5> HIDE DEF F
        <5>2. SubSeq(f, k + 1, F) = << >>
          BY <5>1, SubSeqEmpty
        <5> QED
          BY <5>2, EmptySeq
      <4> QED
        BY <4>1, <4>2
    <3> HIDE DEF part, low, F
    <3> QED
      BY <1>7, <3>1, ConcatProperties
  <2> HIDE DEF hi, lo
  <2>2. << >> \o hi = hi
    BY <2>1, ConcatEmptySeq
  <2> QED
    BY <1>3, <2>2 DEF Waiting
<1> HIDE DEF hi, lo
<1> QED
  BY <1>3, <1>4, <1>11, <1>12 DEF t, l

(* The first of two lists is where the second was cut off. *)
LEMMA CutFirst ==
  ASSUME NEW a \in Seq(Byte), NEW b \in Seq(Byte)
  PROVE  Cut(a \o b, a)
  BY ConcatAt DEF Cut

(* Bytes go from the front of the second list to the end of the first. *)
LEMMA Shifts ==
  ASSUME NEW x \in Seq(Byte), NEW v \in Seq(Byte), NEW u \in Seq(Byte), NEW k \in 0 .. Len(v),
         Len(u) = Len(v) - k, \A i \in 1 .. Len(u) : u[i] = v[k + i]
  PROVE  /\ SubSeq(v, 1, k) \in Seq(Byte)
         /\ x \o SubSeq(v, 1, k) \in Seq(Byte)
         /\ (x \o SubSeq(v, 1, k)) \o u = x \o v
<1> DEFINE g == SubSeq(v, 1, k)
           V == Len(v)
<1>1. V \in Nat /\ k \in Nat /\ k <= V
  BY BytesOf
<1>2. g \in Seq(Byte) /\ Len(g) = k /\ \A i \in 1 .. k : g[i] = v[i]
  <2>1. 1 \in Nat \ {0} /\ 1 <= k + 1 /\ k - 1 + 1 = k /\ \A i \in 1 .. k : 1 + i - 1 = i
    BY <1>1
  <2>2. g \in Seq(Byte) /\ Len(g) = k - 1 + 1 /\ \A i \in 1 .. k - 1 + 1 : g[i] = v[1 + i - 1]
    BY <1>1, <2>1, SubAt
  <2> HIDE DEF g
  <2> QED
    BY <2>1, <2>2
<1> HIDE DEF g
<1>3. /\ g \o u \in Seq(Byte) /\ Len(g \o u) = k + Len(u)
      /\ \A i \in 1 .. k : (g \o u)[i] = g[i]
      /\ \A i \in 1 .. Len(u) : (g \o u)[k + i] = u[i]
  <2>1. /\ g \o u \in Seq(Byte) /\ Len(g \o u) = Len(g) + Len(u)
        /\ \A i \in 1 .. Len(g) : (g \o u)[i] = g[i]
        /\ \A i \in 1 .. Len(u) : (g \o u)[Len(g) + i] = u[i]
    BY <1>2, ConcatAt
  <2> QED
    BY <1>2, <2>1, Zenon
<1>4. k + Len(u) = V
  BY <1>1
<1>5. ASSUME NEW i \in 1 .. V PROVE (g \o u)[i] = v[i]
  <2>1. CASE i <= k
    <3>1. i \in 1 .. k
      BY <1>1, <2>1
    <3> QED
      BY <1>2, <1>3, <3>1
  <2>2. CASE ~(i <= k)
    <3>1. i - k \in 1 .. Len(u) /\ k + (i - k) = i
      BY <1>1, <2>2
    <3>2. (g \o u)[k + (i - k)] = u[i - k] /\ u[i - k] = v[k + (i - k)]
      BY <1>3, <3>1
    <3> QED
      BY <3>1, <3>2
  <2> QED
    BY <2>1, <2>2
<1>6. g \o u = v
  BY <1>3, <1>4, <1>5, SeqEqual DEF V
<1>7. Assoc3(x, g, u) /\ x \o g \in Seq(Byte)
  BY <1>2, AllAssoc, CatSeq, Zenon
<1> QED
  BY <1>2, <1>6, <1>7 DEF g, Assoc3

(* A whole message between two lists. *)
LEMMA PutBetween ==
  ASSUME NEW a \in Seq(Byte), NEW c \in Seq(Byte), NEW m \in Message
  PROVE  Put(a \o c, m, Len(a), (a \o From(m, 1)) \o c)
<1> DEFINE g == From(m, 1)
           A == Len(a)
           C == Len(c)
           b == a \o c
           d == (a \o g) \o c
<1>1. g \in Seq(Byte) /\ Len(g) = Size /\ \A i \in 1 .. Size : g[i].m = m /\ g[i].k = i
  <2>1. 1 \in 1 .. Size + 1 /\ Size - 1 + 1 = Size /\ \A i \in 1 .. Size : 1 + i - 1 = i
    BY SizeNat
  <2>2. /\ g \in Seq(Byte) /\ Len(g) = Size - 1 + 1
        /\ \A i \in 1 .. Size - 1 + 1 : g[i] = [m |-> m, k |-> 1 + i - 1]
    BY <2>1, FromFacts
  <2> HIDE DEF g
  <2> QED
    BY <2>1, <2>2
<1> HIDE DEF g
<1>2. A \in Nat /\ C \in Nat /\ Size \in Nat
  BY BytesOf, SizeNat
<1>3. /\ b \in Seq(Byte) /\ Len(b) = A + C
      /\ \A i \in 1 .. A : b[i] = a[i]
      /\ \A i \in 1 .. C : b[A + i] = c[i]
  BY ConcatAt
<1>4. /\ a \o g \in Seq(Byte) /\ Len(a \o g) = A + Size
      /\ \A i \in 1 .. A : (a \o g)[i] = a[i]
      /\ \A i \in 1 .. Size : (a \o g)[A + i] = g[i]
  BY <1>1, ConcatAt
<1> DEFINE e == a \o g
<1> HIDE DEF e
<1>5. /\ e \o c \in Seq(Byte) /\ Len(e \o c) = Len(e) + C
      /\ \A i \in 1 .. Len(e) : (e \o c)[i] = e[i]
      /\ \A i \in 1 .. C : (e \o c)[Len(e) + i] = c[i]
  BY <1>4, ConcatAt DEF e
<1>6. d = e \o c /\ Len(e) = A + Size
  BY <1>4 DEF e
<1>7. /\ Len(d) = (A + Size) + C
      /\ \A i \in 1 .. A + Size : d[i] = e[i]
      /\ \A i \in 1 .. C : d[(A + Size) + i] = c[i]
  BY <1>5, <1>6, Zenon
<1> HIDE DEF A, C, b, d
<1>8. A \in 0 .. Len(b) /\ Len(d) = Len(b) + Size
  BY <1>2, <1>3, <1>7
<1>9. ASSUME NEW i \in 1 .. A PROVE d[i] = b[i]
  <2>1. i \in 1 .. A + Size
    BY <1>2
  <2> QED
    BY <1>3, <1>4, <1>7, <2>1 DEF e
<1>10. ASSUME NEW i \in A + 1 .. A + Size PROVE d[i].m = m /\ d[i].k = i - A
  <2>1. i \in 1 .. A + Size /\ i - A \in 1 .. Size /\ A + (i - A) = i
    BY <1>2
  <2>2. e[A + (i - A)] = g[i - A]
    BY <1>4, <2>1 DEF e
  <2>3. d[i] = g[i - A]
    BY <1>7, <2>1, <2>2
  <2> QED
    BY <1>1, <2>1, <2>3
<1>11. ASSUME NEW i \in A + Size + 1 .. Len(b) + Size PROVE d[i] = b[i - Size]
  <2> DEFINE j == i - Size - A
  <2>1. j \in 1 .. C /\ (A + Size) + j = i /\ A + j = i - Size
    BY <1>2, <1>3
  <2>2. d[(A + Size) + j] = c[j] /\ b[A + j] = c[j]
    <3> HIDE DEF j
    <3> QED
      BY <1>3, <1>7, <2>1
  <2> HIDE DEF j
  <2> QED
    BY <2>1, <2>2
<1>12. Put(b, m, A, d)
  BY <1>8, <1>9, <1>10, <1>11 DEF Put
<1> QED
  BY <1>12 DEF A, b, d, g

(* The message of a direct write, part of it written. *)
LEMMA PutDirect ==
  ASSUME NEW x \in Seq(Byte), NEW s \in Socket, NEW t \in Socket, NEW m \in Message, NEW n \in 0 .. Size,
         s.dw = << >>, t.dw = From(m, n + 1), t.high = s.high, t.low = s.low
  PROVE  /\ x \o SubSeq(From(m, 1), 1, n) \in Seq(Byte)
         /\ Put(x \o Waiting(s), m, Len(x), (x \o SubSeq(From(m, 1), 1, n)) \o Waiting(t))
<1> DEFINE g == From(m, 1)
           g1 == SubSeq(g, 1, n)
           g2 == From(m, n + 1)
           hs == s.high
           ls == s.low
<1>1. hs \in Seq(Byte) /\ ls \in Seq(Byte)
  BY WaitingSeq
<1>2. n \in Nat /\ n <= Size /\ Size \in Nat /\ 1 \in 1 .. Size + 1 /\ n + 1 \in 1 .. Size + 1
  BY SizeNat
<1>3. g \in Seq(Byte) /\ Len(g) = Size - 1 + 1 /\ \A i \in 1 .. Size - 1 + 1 : g[i] = [m |-> m, k |-> 1 + i - 1]
  BY <1>2, FromFacts
<1>4. /\ g2 \in Seq(Byte) /\ Len(g2) = Size - (n + 1) + 1
      /\ \A i \in 1 .. Size - (n + 1) + 1 : g2[i] = [m |-> m, k |-> (n + 1) + i - 1]
  BY <1>2, FromFacts
<1> HIDE DEF g, g2
<1>5. n \in 0 .. Len(g) /\ Len(g2) = Len(g) - n
  BY <1>2, <1>3, <1>4
<1>6. ASSUME NEW i \in 1 .. Len(g2) PROVE g2[i] = g[n + i]
  <2>1. /\ i \in 1 .. Size - (n + 1) + 1 /\ n + i \in 1 .. Size - 1 + 1
        /\ (n + 1) + i - 1 = n + i /\ 1 + (n + i) - 1 = n + i
    BY <1>2, <1>4
  <2>2. g2[i] = [m |-> m, k |-> n + i] /\ g[n + i] = [m |-> m, k |-> n + i]
    BY <1>3, <1>4, <2>1
  <2> QED
    BY <2>2
<1>7. /\ g1 \in Seq(Byte) /\ x \o g1 \in Seq(Byte) /\ (x \o g1) \o g2 = x \o g
  BY ZenonT(60), <1>3, <1>4, <1>5, <1>6, Shifts
<1> HIDE DEF g1
<1> DEFINE c == hs \o ls
<1>8. c \in Seq(Byte)
  BY <1>1, ConcatProperties
<1>9. Waiting(s) = c
  <2>1. << >> \o hs = hs
    BY <1>1, ConcatEmptySeq
  <2> QED
    BY <2>1 DEF Waiting
<1>10. Waiting(t) = (g2 \o hs) \o ls
  BY DEF Waiting, g2
<1>11. (x \o g1) \o ((g2 \o hs) \o ls) = (x \o g) \o c
  <2> HIDE DEF hs, ls
  <2>1. (x \o g1) \o ((g2 \o hs) \o ls) = ((x \o g1) \o g2) \o (hs \o ls)
    <3>1. Regroup(x, g2, hs, g1, ls)
      BY <1>1, <1>4, <1>7, AssocLists, Zenon
    <3> QED
      BY <3>1 DEF Regroup
  <2> QED
    BY <1>7, <2>1
<1> HIDE DEF c
<1>12. Put(x \o c, m, Len(x), (x \o g) \o c)
  BY <1>8, PutBetween DEF g
<1> QED
  BY <1>7, <1>9, <1>10, <1>11, <1>12 DEF g1, g

(* A message goes to the end of the high list. *)
LEMMA PutHigh ==
  ASSUME NEW x \in Seq(Byte), NEW s \in Socket, NEW t \in Socket, NEW m \in Message,
         t.dw = s.dw, t.high = s.high \o From(m, 1), t.low = s.low
  PROVE  /\ Put(x \o Waiting(s), m, Len(x) + Len(s.dw) + Len(s.high), x \o Waiting(t))
         /\ \A i \in 1 .. Len(s.low) : (x \o Waiting(s))[Len(x) + Len(s.dw) + Len(s.high) + i] = s.low[i]
<1> DEFINE g == From(m, 1)
           d == s.dw
           hs == s.high
           ls == s.low
           a == x \o (d \o hs)
<1>1. d \in Seq(Byte) /\ hs \in Seq(Byte) /\ ls \in Seq(Byte)
  BY WaitingSeq
<1>2. g \in Seq(Byte)
  <2>1. 1 \in 1 .. Size + 1
    BY SizeNat
  <2> QED
    BY <2>1, FromFacts
<1>3. d \o hs \in Seq(Byte) /\ Len(d \o hs) = Len(d) + Len(hs)
  BY <1>1, ConcatProperties
<1>4. a \in Seq(Byte) /\ Len(a) = Len(x) + (Len(d) + Len(hs))
  BY <1>3, ConcatProperties
<1>5. Len(a) = Len(x) + Len(d) + Len(hs)
  <2>1. Len(x) \in Nat /\ Len(d) \in Nat /\ Len(hs) \in Nat
    BY <1>1, BytesOf
  <2> HIDE DEF a, d, hs
  <2> QED
    BY <1>4, <2>1
<1>6. Waiting(s) = (d \o hs) \o ls /\ Waiting(t) = (d \o (hs \o g)) \o ls
  BY DEF Waiting
<1>7. x \o Waiting(s) = a \o ls /\ x \o Waiting(t) = (a \o g) \o ls
  <2> HIDE DEF d, hs, ls, g
  <2>1. /\ x \o ((d \o hs) \o ls) = (x \o (d \o hs)) \o ls
        /\ x \o ((d \o (hs \o g)) \o ls) = ((x \o (d \o hs)) \o g) \o ls
    <3>1. Regroup(x, d, hs, g, ls)
      BY <1>1, <1>2, AssocLists, Zenon
    <3> QED
      BY <3>1 DEF Regroup
  <2> QED
    BY <1>6, <2>1
<1> HIDE DEF a
<1>8. Put(a \o ls, m, Len(a), (a \o g) \o ls)
  BY <1>1, <1>4, PutBetween
<1>9. \A i \in 1 .. Len(ls) : (a \o ls)[Len(a) + i] = ls[i]
  BY <1>1, <1>4, ConcatAt
<1> QED
  BY <1>5, <1>6, <1>7, <1>8, <1>9

(* A message goes to the end of the low list. *)
LEMMA PutLow ==
  ASSUME NEW x \in Seq(Byte), NEW s \in Socket, NEW t \in Socket, NEW m \in Message,
         t.dw = s.dw, t.high = s.high, t.low = s.low \o From(m, 1)
  PROVE  Put(x \o Waiting(s), m, Len(x \o Waiting(s)), x \o Waiting(t))
<1> DEFINE g == From(m, 1)
           d == s.dw
           hs == s.high
           ls == s.low
           a == x \o Waiting(s)
<1>1. d \in Seq(Byte) /\ hs \in Seq(Byte) /\ ls \in Seq(Byte) /\ Waiting(s) \in Seq(Byte)
  BY WaitingSeq
<1>2. g \in Seq(Byte)
  <2>1. 1 \in 1 .. Size + 1
    BY SizeNat
  <2> QED
    BY <2>1, FromFacts
<1>3. a \in Seq(Byte) /\ a \o g \in Seq(Byte)
  BY <1>1, <1>2, ConcatProperties
<1>4. Waiting(s) = (d \o hs) \o ls /\ Waiting(t) = (d \o hs) \o (ls \o g)
  BY DEF Waiting
<1>5. x \o Waiting(t) = a \o g
  <2> HIDE DEF d, hs, ls, g
  <2>1. x \o ((d \o hs) \o (ls \o g)) = (x \o ((d \o hs) \o ls)) \o g
    <3>1. Regroup(x, d, hs, g, ls)
      BY <1>1, <1>2, AssocLists, Zenon
    <3> QED
      BY <3>1 DEF Regroup
  <2> QED
    BY <1>4, <2>1
<1>6. a \o << >> = a /\ (a \o g) \o << >> = a \o g /\ << >> \in Seq(Byte)
  BY <1>3, ConcatEmptySeq, EmptySeq
<1> HIDE DEF a, g
<1>7. Put(a \o << >>, m, Len(a), (a \o g) \o << >>)
  BY <1>3, <1>6, PutBetween DEF g
<1>8. Put(a, m, Len(a), x \o Waiting(t))
  BY <1>5, <1>6, <1>7, Zenon
<1> QED
  BY <1>8 DEF a

-----------------------------------------------------------------------------
(* The streams over a step. *)

LEMMA StreamIs ==
  ASSUME NEW sl \in [Slot -> Socket], NEW wi \in [Id -> Seq(Byte)], NEW id \in Id
  PROVE  /\ StreamIn(sl, wi, id) \in Seq(Byte) /\ wi[id] \in Seq(Byte)
         /\ Cut(StreamIn(sl, wi, id), wi[id])
<1>1. HASH_ID(id) \in Slot
  BY Constants
<1>2. Waiting(sl[HASH_ID(id)]) \in Seq(Byte) /\ wi[id] \in Seq(Byte)
  BY <1>1, WaitingSeq
<1>3. /\ wi[id] \o Waiting(sl[HASH_ID(id)]) \in Seq(Byte)
      /\ Cut(wi[id] \o Waiting(sl[HASH_ID(id)]), wi[id]) /\ Cut(wi[id], wi[id])
  BY <1>2, ConcatProperties, CutFirst, CutSelf
<1> QED
  BY <1>2, <1>3 DEF StreamIn

(* A slot changes but for its id and its lists. *)
LEMMA StreamQuiet ==
  ASSUME wire' = wire, \A g \in Slot : slot'[g].id = slot[g].id /\ Waiting(slot'[g]) = Waiting(slot[g])
  PROVE  \A id \in Id : Stream(id)' = Stream(id)
<1> SUFFICES ASSUME NEW id \in Id PROVE Stream(id)' = Stream(id)
  OBVIOUS
<1>1. HASH_ID(id) \in Slot
  BY Constants
<1>2. slot'[HASH_ID(id)].id = slot[HASH_ID(id)].id /\ Waiting(slot'[HASH_ID(id)]) = Waiting(slot[HASH_ID(id)])
  BY <1>1
<1>3. Stream(id)' = StreamIn(slot', wire', id)
  BY DEF Stream, StreamIn, Waiting, HASH_ID
<1> QED
  BY <1>2, <1>3 DEF Stream, StreamIn

(* A socket without waiting bytes changes, even its id. *)
LEMMA StreamEmpty ==
  ASSUME Typed, Typed', Histories, wire' = wire, NEW h \in Slot,
         Waiting(slot[h]) = << >>, Waiting(slot'[h]) = << >>,
         \A g \in Slot : g # h => slot'[g] = slot[g]
  PROVE  \A id \in Id : Stream(id)' = Stream(id)
<1> SUFFICES ASSUME NEW id \in Id PROVE Stream(id)' = Stream(id)
  OBVIOUS
<1>1. HASH_ID(id) \in Slot
  BY Constants
<1>2. Stream(id)' = StreamIn(slot', wire', id) /\ Stream(id) = StreamIn(slot, wire, id)
  BY DEF Stream, StreamIn, Waiting, HASH_ID
<1>3. wire[id] \in Seq(Byte) /\ wire[id] \o << >> = wire[id]
  BY ConcatEmptySeq DEF Histories
<1>4. CASE HASH_ID(id) = h
  <2>1. StreamIn(slot, wire, id) = wire[id] /\ StreamIn(slot', wire', id) = wire[id]
    BY <1>3, <1>4 DEF StreamIn
  <2> QED
    BY <1>2, <2>1
<1>5. CASE HASH_ID(id) # h
  BY <1>1, <1>2, <1>5 DEF StreamIn
<1> QED
  BY <1>4, <1>5

(* A socket keeps its id; its lists and what was written to it change. *)
LEMMA StreamStep ==
  ASSUME NEW d \in Id, NEW h \in Slot, HASH_ID(d) = h, slot[h].id = d, slot'[h].id = d,
         \A g \in Slot : g # h => slot'[g] = slot[g],
         \A id \in Id : id # d => wire'[id] = wire[id]
  PROVE  /\ Stream(d) = wire[d] \o Waiting(slot[h])
         /\ Stream(d)' = wire'[d] \o Waiting(slot'[h])
         /\ \A id \in Id : id # d => Stream(id)' = Stream(id)
<1>1. \A id : Stream(id)' = StreamIn(slot', wire', id) /\ Stream(id) = StreamIn(slot, wire, id)
  BY DEF Stream, StreamIn, Waiting, HASH_ID
<1>2. ASSUME NEW id \in Id, id # d PROVE Stream(id)' = Stream(id)
  <2>1. HASH_ID(id) \in Slot
    BY Constants
  <2> QED
    BY <1>1, <1>2, <2>1 DEF StreamIn
<1> QED
  BY <1>1, <1>2 DEF StreamIn

-----------------------------------------------------------------------------
(* What keeps each part of the invariant. *)

LEMMA Requests ==
  ASSUME NEW p \in Seq(Req)
  PROVE  /\ Len(p) \in Nat /\ DOMAIN p = 1 .. Len(p)
         /\ \A i \in DOMAIN p : p[i] \in Req /\ p[i].id \in Id
         /\ \A i \in DOMAIN p : IsSend(p[i]) => p[i].m \in Message /\ p[i].m.n \in Nat
<1>1. Len(p) \in Nat /\ DOMAIN p = 1 .. Len(p) /\ \A i \in DOMAIN p : p[i] \in Req
  BY LenProperties, ElementOfSeq
<1>2. ASSUME NEW r \in Req PROVE r.id \in Id /\ (IsSend(r) => r.m \in Message)
  BY ReqFacts DEF IsSend
<1>3. \A m \in Message : m.n \in Nat
  BY Constants DEF Message
<1> QED
  BY <1>1, <1>2, <1>3

LEMMA Calls ==
  ASSUME NEW c \in [Service -> Busy \cup {Idle}], NEW w \in Service, c[w] # Idle
  PROVE  c[w] \in Busy /\ c[w].m \in Message /\ c[w].m.id \in Id /\ c[w].m.n \in Nat
<1>1. c[w] \in Busy
  OBVIOUS
<1>2. c[w].m \in Message
  BY <1>1 DEF Busy
<1> QED
  BY <1>1, <1>2, Constants DEF Message

(* Idle calls are at no place. *)
LEMMA IdleAt ==
  ASSUME NEW c \in Busy \cup {Idle}
  PROVE  c = Idle <=> c.at = "idle"
  BY DEF Busy, Idle

LEMMA StreamsAre ==
  ASSUME IInv, IInv', Histories, Histories'
  PROVE  \A id \in Id : /\ Stream(id) \in Seq(Byte) /\ Stream(id)' \in Seq(Byte)
                        /\ wire[id] \in Seq(Byte) /\ wire'[id] \in Seq(Byte)
                        /\ Cut(Stream(id), wire[id]) /\ Cut(Stream(id)', wire'[id])
<1> SUFFICES ASSUME NEW id \in Id
             PROVE  /\ Stream(id) \in Seq(Byte) /\ Stream(id)' \in Seq(Byte)
                    /\ wire[id] \in Seq(Byte) /\ wire'[id] \in Seq(Byte)
                    /\ Cut(Stream(id), wire[id]) /\ Cut(Stream(id)', wire'[id])
  OBVIOUS
<1>1. Stream(id)' = StreamIn(slot', wire', id) /\ Stream(id) = StreamIn(slot, wire, id)
  BY DEF Stream, StreamIn, Waiting, HASH_ID
<1>2. slot \in [Slot -> Socket] /\ wire \in [Id -> Seq(Byte)]
  BY DEF IInv, Typed, Histories
<1>3. slot' \in [Slot -> Socket] /\ wire' \in [Id -> Seq(Byte)]
  BY DEF IInv, Typed, Histories, Slot, Socket, SockType, Id, Byte, Message
<1> QED
  BY <1>1, <1>2, <1>3, StreamIs

TellsOn == \A id \in Id : told[id] \in {"open", "close"} => told'[id] \in {"open", "close"}
CallsFewer == \A w \in Service : call'[w] # Idle => call[w] # Idle /\ call'[w].m = call[w].m
CallsStay == \A w \in Service : call[w] # Idle => call'[w] # Idle /\ call'[w].m = call[w].m
SendsFewer(c) ==
  \A i \in DOMAIN pipe' : pipe'[i].op \in {"D", "P"} => i + c \in DOMAIN pipe /\ pipe'[i] = pipe[i + c]
SendsStay == \A i \in DOMAIN pipe : IsSend(pipe[i]) => \E j \in DOMAIN pipe' : pipe'[j] = pipe[i]
StreamsCut == \A id \in Id : Cut(Stream(id), Stream(id)')
SparedStay == asked \subseteq asked' /\ gone \subseteq gone'

LEMMA SparedOn ==
  ASSUME SparedStay
  PROVE  \A id : Spared(id) => Spared(id)'
  BY DEF SparedStay, Spared, Shut

LEMMA PlacedCalm ==
  ASSUME IInv, IInv', Histories, Histories', Placed, sent' = sent, TellsOn, CallsFewer,
         NEW c \in Nat, SendsFewer(c), StreamsCut,
         \A h \in Slot : \A i \in 1 .. Len(slot'[h].low) : slot'[h].low[i].m.op = "P"
  PROVE  Placed'
<1>1. \A m \in sent : told'[m.id] \in {"open", "close"} /\ m.n <= Cardinality(Sends(m.w))'
  <2>1. \A m \in sent : m.id \in Id
    BY DEF IInv, Typed, Message
  <2>2. \A w : Sends(w)' = Sends(w)
    BY DEF Sends
  <2> QED
    BY <2>1, <2>2 DEF Placed, TellsOn
<1>2. ASSUME NEW id \in Id, NEW i \in 1 .. Len(Stream(id)')
      PROVE  Stream(id)'[i].m \in sent /\ Stream(id)'[i].m.id = id
  <2>1. Len(Stream(id)) \in Nat /\ Len(Stream(id)') \in Nat
    BY StreamsAre, BytesOf
  <2>2. i \in 1 .. Len(Stream(id)) /\ Stream(id)'[i] = Stream(id)[i]
    BY <2>1 DEF StreamsCut, Cut
  <2> QED
    BY <2>2 DEF Placed
<1>3. ASSUME NEW i \in DOMAIN pipe', IsSend(pipe'[i])
      PROVE  pipe'[i].m \in sent /\ pipe'[i].m.id = pipe'[i].id /\ pipe'[i].m.op = pipe'[i].op
  BY <1>3 DEF SendsFewer, IsSend, Placed
<1>4. ASSUME NEW w \in Service, call'[w] # Idle PROVE call'[w].m \in sent /\ call'[w].m.w = w
  BY <1>4 DEF CallsFewer, Placed
<1> QED
  BY <1>1, <1>2, <1>3, <1>4 DEF Placed, IsSend, Idle, Slot

LEMMA InOrderCalm ==
  ASSUME IInv, IInv', Histories, Histories', InOrder, CallsFewer, NEW c \in Nat, SendsFewer(c), StreamsCut
  PROVE  InOrder'
<1>1. /\ DOMAIN pipe = 1 .. Len(pipe) /\ Len(pipe) \in Nat
      /\ \A i \in DOMAIN pipe : pipe[i].id \in Id
      /\ DOMAIN pipe' = 1 .. Len(pipe') /\ Len(pipe') \in Nat
  <2>1. pipe \in Seq(Req) /\ pipe' \in Seq(Req)
    BY DEF IInv, Typed, Req, Id, Message
  <2> QED
    BY <2>1, Requests
<1>2. ASSUME NEW id \in Id, NEW m, Before(Stream(id), m) PROVE Before(StreamIn(slot', wire', id), m)
  <2>1. Before(Stream(id)', m)
    BY <1>2, StreamsAre, CutBefore DEF StreamsCut
  <2> QED
    BY <2>1 DEF Stream
<1>3. ASSUME NEW i \in DOMAIN pipe', IsSend(pipe'[i]) PROVE Before(StreamIn(slot', wire', pipe'[i].id), pipe'[i].m)
  <2>1. i + c \in DOMAIN pipe /\ pipe'[i] = pipe[i + c]
    BY <1>3 DEF SendsFewer, IsSend
  <2>2. Before(Stream(pipe[i + c].id), pipe[i + c].m) /\ pipe[i + c].id \in Id
    BY <1>1, <1>3, <2>1 DEF InOrder
  <2>3. PICK id \in Id : id = pipe[i + c].id /\ id = pipe'[i].id
    BY <2>1, <2>2
  <2>4. Before(StreamIn(slot', wire', id), pipe[i + c].m)
    BY <1>2, <2>2, <2>3
  <2> QED
    BY <2>1, <2>3, <2>4
<1>4. ASSUME NEW w \in Service, call'[w] # Idle PROVE Before(StreamIn(slot', wire', call'[w].m.id), call'[w].m)
  <2>1. call[w] # Idle /\ call'[w].m = call[w].m
    BY <1>4 DEF CallsFewer
  <2>2. Before(Stream(call[w].m.id), call[w].m) /\ call[w].m.id \in Id
    BY <2>1, Calls DEF InOrder, IInv, Typed
  <2>3. PICK id \in Id : id = call[w].m.id /\ id = call'[w].m.id
    BY <2>1, <2>2
  <2>4. Before(StreamIn(slot', wire', id), call[w].m)
    BY <1>2, <2>2, <2>3
  <2> QED
    BY <2>1, <2>3, <2>4
<1>5. ASSUME NEW i \in DOMAIN pipe', NEW j \in DOMAIN pipe', i < j, IsSend(pipe'[i]), IsSend(pipe'[j]),
             pipe'[i].m.w = pipe'[j].m.w
      PROVE  pipe'[i].m.n < pipe'[j].m.n
  <2>1. i + c \in DOMAIN pipe /\ pipe'[i] = pipe[i + c] /\ j + c \in DOMAIN pipe /\ pipe'[j] = pipe[j + c]
    BY <1>5 DEF SendsFewer, IsSend
  <2>2. i + c < j + c
    BY <1>1, <1>5
  <2> QED
    BY <1>5, <2>1, <2>2 DEF InOrder
<1>6. ASSUME NEW w \in Service, call'[w] # Idle, NEW i \in DOMAIN pipe', IsSend(pipe'[i]), pipe'[i].m.w = w
      PROVE  pipe'[i].m.n < call'[w].m.n
  <2>1. i + c \in DOMAIN pipe /\ pipe'[i] = pipe[i + c] /\ call[w] # Idle /\ call'[w].m = call[w].m
    BY <1>6 DEF SendsFewer, IsSend, CallsFewer
  <2> QED
    BY <1>6, <2>1 DEF InOrder
<1> QED
  BY <1>3, <1>4, <1>5, <1>6 DEF InOrder, Stream

LEMMA StreamsCalm ==
  ASSUME IInv, IInv', Histories, Histories', Streams, SparedStay, StreamsCut,
         \A id \in Id : ~Spared(id)' /\ Valid(id)' =>
           \/ Valid(id) /\ Stream(id)' = Stream(id)
           \/ Len(Stream(id)') = 0
  PROVE  Streams'
<1> SUFFICES ASSUME NEW id \in Id, ~Spared(id)'
             PROVE  Exact(Stream(id)') /\ (Valid(id)' => Full(Stream(id)'))
  BY DEF Streams, Exact, Full
<1>1. ~Spared(id)
  BY SparedOn
<1>2. Exact(Stream(id)) /\ (Valid(id) => Full(Stream(id)))
  BY <1>1 DEF Streams
<1>3. Exact(Stream(id)')
  BY <1>2, StreamsAre, CutExact DEF StreamsCut
<1>4. ASSUME Valid(id)' PROVE Full(Stream(id)')
  <2>1. CASE Valid(id) /\ Stream(id)' = Stream(id)
    BY <1>2, <2>1
  <2>2. CASE Len(Stream(id)') = 0
    BY <2>2 DEF Full
  <2> QED
    BY <1>4, <2>1, <2>2
<1> QED
  BY <1>3, <1>4

LEMMA AloneForCalm ==
  ASSUME IInv, IInv', Alone, NEW c \in Nat, SendsFewer(c), NEW w \in Service,
         call'[w].at \in {"locked", "sure"} =>
           /\ call'[w] = call[w]
           /\ LET s == slot[HASH_ID(call[w].m.id)]
                  t == slot'[HASH_ID(call[w].m.id)]
              IN  /\ t.id = s.id
                  /\ call[w].at = "sure" => (t.high = s.high /\ t.low = s.low) \/ (t.high = << >> /\ t.low = << >>)
  PROVE  AloneFor(w)'
<1> SUFFICES ASSUME call'[w].at \in {"locked", "sure"}
             PROVE  LET m == call'[w].m s == slot'[HASH_ID(m.id)] IN
                    /\ s.id = m.id =>
                         \A i \in DOMAIN pipe' : IsSend(pipe'[i]) /\ pipe'[i].id = m.id => pipe'[i].m.w # w
                    /\ call'[w].at = "sure" =>
                         /\ s.id = m.id
                         /\ \A i \in 1 .. Len(s.high) : s.high[i].m.w # w
                         /\ \A i \in 1 .. Len(s.low) : s.low[i].m.w # w
                         /\ Len(s.high) > 0 => s.high[1].k = 1
  BY ZenonT(60) DEF AloneFor
<1> DEFINE m == call[w].m
           s == slot[HASH_ID(m.id)]
           t == slot'[HASH_ID(m.id)]
<1>1. call'[w] = call[w] /\ t.id = s.id
  OBVIOUS
<1>2. call[w].at = "sure" => (t.high = s.high /\ t.low = s.low) \/ (t.high = << >> /\ t.low = << >>)
  OBVIOUS
<1>3. /\ s.id = m.id => \A i \in DOMAIN pipe : IsSend(pipe[i]) /\ pipe[i].id = m.id => pipe[i].m.w # w
      /\ call[w].at = "sure" =>
           /\ s.id = m.id
           /\ \A i \in 1 .. Len(s.high) : s.high[i].m.w # w
           /\ \A i \in 1 .. Len(s.low) : s.low[i].m.w # w
           /\ Len(s.high) > 0 => s.high[1].k = 1
  BY ZenonT(60), <1>1 DEF Alone, AloneFor
<1> HIDE DEF s, t
<1>4. s.id = m.id => \A i \in DOMAIN pipe' : IsSend(pipe'[i]) /\ pipe'[i].id = m.id => pipe'[i].m.w # w
  BY <1>3 DEF SendsFewer, IsSend
<1>5. Len(<< >>) = 0 /\ 1 .. 0 = {}
  OBVIOUS
<1>6. call[w].at = "sure" =>
           /\ \A i \in 1 .. Len(t.high) : t.high[i].m.w # w
           /\ \A i \in 1 .. Len(t.low) : t.low[i].m.w # w
           /\ Len(t.high) > 0 => t.high[1].k = 1
  BY <1>2, <1>3, <1>5
<1> QED
  BY ZenonT(60), <1>1, <1>3, <1>4, <1>6 DEF t

LEMMA KeptCalm ==
  ASSUME IInv, IInv', Kept, sent' = sent, SparedStay, SendsStay, CallsStay,
         \A m \in sent : Valid(m.id)' /\ slot'[HASH_ID(m.id)].type # "HALFCLOSE" /\ ~Spared(m.id)' =>
           Valid(m.id) /\ slot[HASH_ID(m.id)].type # "HALFCLOSE" /\ Stream(m.id)' = Stream(m.id)
  PROVE  Kept'
<1> SUFFICES ASSUME NEW m \in sent, Valid(m.id)', slot'[HASH_ID(m.id)].type # "HALFCLOSE", ~Spared(m.id)'
             PROVE  \/ Has(Stream(m.id)', m)
                    \/ \E i \in DOMAIN pipe' : IsSend(pipe'[i]) /\ pipe'[i].m = m
                    \/ call'[m.w] # Idle /\ call'[m.w].m = m
  BY DEF Kept
<1>1. ~Spared(m.id) /\ m.w \in Service
  BY SparedOn DEF IInv, Typed, Message
<1>2. Valid(m.id) /\ slot[HASH_ID(m.id)].type # "HALFCLOSE" /\ Stream(m.id)' = Stream(m.id)
  OBVIOUS
<1>3. \/ Has(Stream(m.id), m)
      \/ \E i \in DOMAIN pipe : IsSend(pipe[i]) /\ pipe[i].m = m
      \/ call[m.w] # Idle /\ call[m.w].m = m
  BY <1>1, <1>2 DEF Kept
<1> QED
  BY <1>1, <1>2, <1>3 DEF SendsStay, CallsStay

LEMMA DuesKeptCalm ==
  ASSUME IInv, IInv', Histories, Histories', DuesKept, SparedStay, due' = due,
         \A id \in Id : Cut(wire'[id], wire[id]),
         \A id \in Id : ~Spared(id)' =>
           \/ \A m : Has(Stream(id), m) => Has(Stream(id)', m)
           \/ \A m \in due[id] : Has(wire'[id], m),
         \A id \in Id : ~Spared(id)' /\ (id \in closing' \/ told'[id] = "close") =>
           \/ id \in closing \/ told[id] = "close"
           \/ \A m \in due[id] : Has(wire'[id], m)
  PROVE  DuesKept'
<1>1. ASSUME NEW id \in Id, ~Spared(id)', id \in closing' \/ told'[id] = "close", NEW m \in due[id]
      PROVE  Has(wire'[id], m)
  <2>1. CASE id \in closing \/ told[id] = "close"
    <3>1. ~Spared(id)
      BY <1>1, SparedOn
    <3>2. Has(wire[id], m)
      BY <1>1, <2>1, <3>1 DEF DuesKept
    <3> QED
      BY <3>2, StreamsAre, CutHas
  <2>2. CASE ~(id \in closing \/ told[id] = "close")
    BY <1>1, <2>2
  <2> QED
    BY <2>1, <2>2
<1>2. ASSUME NEW id \in Id, ~Spared(id)', NEW m \in due[id] PROVE Has(Stream(id)', m)
  <2>1. CASE \A x : Has(Stream(id), x) => Has(Stream(id)', x)
    <3>1. ~Spared(id)
      BY <1>2, SparedOn
    <3>2. Has(Stream(id), m)
      BY <1>2, <3>1 DEF DuesKept
    <3> QED
      BY <2>1, <3>2
  <2>2. CASE \A x \in due[id] : Has(wire'[id], x)
    BY <1>2, <2>2, StreamsAre, CutHas
  <2> QED
    BY <1>2, <2>1, <2>2
<1> QED
  BY <1>1, <1>2 DEF DuesKept, Has

LEMMA DuesAskedCalm ==
  ASSUME IInv, IInv', DuesAsked, sent \subseteq sent', CallsFewer, NEW c \in Nat,
         \A i \in DOMAIN pipe' : pipe'[i].op \in {"D", "P", "K"} => i + c \in DOMAIN pipe /\ pipe'[i] = pipe[i + c]
  PROVE  DuesAsked'
<1> SUFFICES ASSUME NEW i \in DOMAIN pipe', pipe'[i].op = "K", NEW m \in pipe'[i].due
             PROVE  /\ m \in sent' /\ m.id = pipe'[i].id
                    /\ call'[m.w] # Idle => call'[m.w].m # m
                    /\ \A j \in DOMAIN pipe' : j > i /\ IsSend(pipe'[j]) => pipe'[j].m # m
  BY DEF DuesAsked, IsSend, Idle
<1>1. i + c \in DOMAIN pipe /\ pipe'[i] = pipe[i + c]
  OBVIOUS
<1>2. /\ m \in sent /\ m.id = pipe[i + c].id
      /\ call[m.w] # Idle => call[m.w].m # m
      /\ \A j \in DOMAIN pipe : j > i + c /\ IsSend(pipe[j]) => pipe[j].m # m
  BY <1>1 DEF DuesAsked
<1>3. m.w \in Service
  BY <1>2 DEF IInv, Typed, Message
<1>4. DOMAIN pipe' \subseteq Nat
  <2>1. pipe' \in Seq(Req)
    BY DEF IInv, Typed, Req, Id, Message
  <2> QED
    BY <2>1, Requests
<1>5. ASSUME NEW j \in DOMAIN pipe', j > i, IsSend(pipe'[j]) PROVE pipe'[j].m # m
  <2>1. j + c \in DOMAIN pipe /\ pipe'[j] = pipe[j + c]
    BY <1>5 DEF IsSend
  <2>2. j + c > i + c
    BY <1>4, <1>5
  <2> QED
    BY <1>2, <1>5, <2>1, <2>2
<1> QED
  BY <1>1, <1>2, <1>3, <1>5 DEF CallsFewer

-----------------------------------------------------------------------------
(* Steps that leave the streams as they are. *)

LEMMA CalmWInv ==
  ASSUME IInv, IInv', WInv, Histories', Phases', Causes', Alone', DuesAsked', sent' = sent, due' = due,
         TellsOn, CallsFewer, CallsStay, NEW c \in Nat, SendsFewer(c), SendsStay, SparedStay, StreamsCut,
         \A h \in Slot : \A i \in 1 .. Len(slot'[h].low) : slot'[h].low[i].m.op = "P",
         \A id \in Id : ~Spared(id)' /\ Valid(id)' =>
           \/ Valid(id) /\ Stream(id)' = Stream(id)
           \/ Len(Stream(id)') = 0,
         \A m \in sent : Valid(m.id)' /\ slot'[HASH_ID(m.id)].type # "HALFCLOSE" /\ ~Spared(m.id)' =>
           Valid(m.id) /\ slot[HASH_ID(m.id)].type # "HALFCLOSE" /\ Stream(m.id)' = Stream(m.id),
         \A id \in Id : Cut(wire'[id], wire[id]),
         \A id \in Id : ~Spared(id)' =>
           \/ \A m : Has(Stream(id), m) => Has(Stream(id)', m)
           \/ \A m \in due[id] : Has(wire'[id], m),
         \A id \in Id : ~Spared(id)' /\ (id \in closing' \/ told'[id] = "close") =>
           \/ id \in closing \/ told[id] = "close"
           \/ \A m \in due[id] : Has(wire'[id], m)
  PROVE  WInv'
<1>1. Histories /\ Placed /\ InOrder /\ Streams /\ Kept /\ DuesKept
  BY DEF WInv
<1>2. Placed'
  BY <1>1, PlacedCalm
<1>3. InOrder'
  BY <1>1, InOrderCalm
<1>4. Streams'
  BY <1>1, StreamsCalm
<1>5. Kept'
  BY <1>1, KeptCalm
<1>6. DuesKept'
  BY <1>1, DuesKeptCalm
<1> QED
  BY <1>2, <1>3, <1>4, <1>5, <1>6 DEF WInv

(* No socket changes in its type, id and lists. *)
SlotsStill ==
  \A g \in Slot : /\ slot'[g].type = slot[g].type /\ slot'[g].id = slot[g].id /\ slot'[g].tcp = slot[g].tcp
                  /\ slot'[g].dw = slot[g].dw /\ slot'[g].high = slot[g].high /\ slot'[g].low = slot[g].low

LEMMA StillFacts ==
  ASSUME SlotsStill, wire' = wire
  PROVE  /\ \A id \in Id : Stream(id)' = Stream(id)
         /\ \A id \in Id : Valid(id)' = Valid(id)
<1>1. \A g \in Slot : slot'[g].id = slot[g].id /\ Waiting(slot'[g]) = Waiting(slot[g])
  BY DEF SlotsStill, Waiting
<1>2. ASSUME NEW id \in Id PROVE Valid(id)' = Valid(id)
  <2>1. HASH_ID(id) \in Slot
    BY Constants
  <2> QED
    BY <2>1 DEF SlotsStill, Valid, HASH_ID
<1> QED
  BY <1>1, <1>2, StreamQuiet

LEMMA StillWInv ==
  ASSUME IInv, IInv', WInv, Causes', Alone', DuesAsked', SlotsStill,
         UNCHANGED <<told, closing, wire, due, sent>>,
         CallsFewer, CallsStay, NEW c \in Nat, SendsFewer(c), SendsStay, SparedStay
  PROVE  WInv'
<1>1. /\ \A id \in Id : Stream(id)' = Stream(id)
      /\ \A id \in Id : Valid(id)' = Valid(id)
  BY StillFacts
<1>2. Histories /\ Histories' /\ Phases /\ Placed
  BY DEF WInv, Histories
<1>3. Phases'
  BY <1>1, <1>2 DEF Phases, SlotsStill
<1>4. TellsOn
  BY DEF TellsOn
<1>5. \A id \in Id : Stream(id) \in Seq(Byte) /\ wire[id] \in Seq(Byte)
  BY <1>2, StreamsAre
<1>6. StreamsCut /\ \A id \in Id : Cut(wire'[id], wire[id])
  BY <1>1, <1>5, CutSelf DEF StreamsCut
<1>7. \A h \in Slot : \A i \in 1 .. Len(slot'[h].low) : slot'[h].low[i].m.op = "P"
  BY <1>2 DEF Placed, SlotsStill
<1>8. \A m \in sent : m.id \in Id /\ HASH_ID(m.id) \in Slot
  BY Constants DEF IInv, Typed, Message
<1>9. \A m \in sent : Valid(m.id)' /\ slot'[HASH_ID(m.id)].type # "HALFCLOSE" /\ ~Spared(m.id)' =>
           Valid(m.id) /\ slot[HASH_ID(m.id)].type # "HALFCLOSE" /\ Stream(m.id)' = Stream(m.id)
  BY <1>1, <1>8 DEF SlotsStill
<1> QED
  BY <1>1, <1>2, <1>3, <1>4, <1>6, <1>7, <1>9, CalmWInv

(* The sends in the pipe, when it does not change, and when another request  *)
(* comes or is taken.                                                        *)
LEMMA PipeStill ==
  ASSUME IInv, pipe' = pipe
  PROVE  SendsFewer(0) /\ SendsStay
<1>1. DOMAIN pipe \subseteq Nat
  BY Requests DEF IInv, Typed
<1> QED
  BY <1>1 DEF SendsFewer, SendsStay

LEMMA PipeMore ==
  ASSUME IInv, NEW r \in Req, ~IsSend(r), pipe' = Append(pipe, r)
  PROVE  SendsFewer(0) /\ SendsStay
<1>1. /\ Len(pipe) \in Nat
      /\ DOMAIN pipe = 1 .. Len(pipe) /\ DOMAIN pipe' = 1 .. Len(pipe) + 1
      /\ \A i \in 1 .. Len(pipe) : pipe'[i] = pipe[i]
      /\ pipe'[Len(pipe) + 1] = r
  BY PipeAppend DEF IInv
<1>2. ASSUME NEW i \in DOMAIN pipe', pipe'[i].op \in {"D", "P"}
      PROVE  i + 0 \in DOMAIN pipe /\ pipe'[i] = pipe[i + 0]
  <2>1. i # Len(pipe) + 1
    BY <1>1, <1>2 DEF IsSend
  <2> QED
    BY <1>1, <2>1
<1>3. \A i \in DOMAIN pipe : i \in DOMAIN pipe' /\ pipe'[i] = pipe[i]
  BY <1>1
<1> QED
  BY <1>2, <1>3 DEF SendsFewer, SendsStay

LEMMA PipeLess ==
  ASSUME IInv, pipe # << >>, pipe' = Tail(pipe)
  PROVE  /\ \A i \in DOMAIN pipe' : i + 1 \in DOMAIN pipe /\ pipe'[i] = pipe[i + 1]
         /\ \A i \in DOMAIN pipe : i = 1 \/ \E j \in DOMAIN pipe' : i = j + 1 /\ pipe'[j] = pipe[i]
         /\ SendsFewer(1) /\ (~IsSend(Head(pipe)) => SendsStay)
<1>1. /\ Len(pipe) \in Nat \ {0} /\ Head(pipe) = pipe[1]
      /\ DOMAIN pipe = 1 .. Len(pipe) /\ DOMAIN pipe' = 1 .. Len(pipe) - 1
      /\ \A i \in 1 .. Len(pipe) - 1 : pipe'[i] = pipe[i + 1]
  BY PipeTail DEF IInv
<1>2. \A i \in DOMAIN pipe' : i + 1 \in DOMAIN pipe /\ pipe'[i] = pipe[i + 1]
  BY <1>1
<1>3. ASSUME NEW i \in DOMAIN pipe, i # 1 PROVE \E j \in DOMAIN pipe' : i = j + 1 /\ pipe'[j] = pipe[i]
  <2>1. i - 1 \in DOMAIN pipe' /\ i = (i - 1) + 1
    BY <1>1, <1>3
  <2> QED
    BY <1>2, <2>1
<1> QED
  BY <1>1, <1>2, <1>3 DEF SendsFewer, SendsStay

(* Nothing under way for the id of a socket that counts none. *)
LEMMA NoneUnderway ==
  ASSUME IInv, NEW h \in Slot, slot[h].tcp, slot[h].sending = 0
  PROVE  \A i \in DOMAIN pipe : ~(IsSend(pipe[i]) /\ pipe[i].id = slot[h].id)
<1> DEFINE T == Sending(slot[h].id)
           a == Cardinality(Hits(pipe, T))
           b == Cardinality(Pushing(slot[h].id))
<1>1. a \in Nat /\ b \in Nat
  BY UnderwayNat DEF IInv
<1>2. 0 = a + b
  BY DEF IInv, Counted, Underway
<1>3. a = 0
  <2> HIDE DEF a, b
  <2> QED
    BY <1>1, <1>2
<1>4. \A i \in Hits(pipe, T) : a > 0
  BY HitsFinite DEF IInv, Typed
<1>5. Hits(pipe, T) = {}
  <2> HIDE DEF a
  <2> QED
    BY <1>3, <1>4
<1>6. \A i \in DOMAIN pipe : pipe[i] \in Req
  BY Requests DEF IInv, Typed
<1> QED
  BY <1>5, <1>6 DEF Hits, Sending, IsSend

-----------------------------------------------------------------------------
(* The services' steps. *)

LEMMA CallsGo ==
  ASSUME NEW w \in Service, call[w] # Idle, call'[w] # Idle, call'[w].m = call[w].m,
         \A v \in Service : v # w => call'[v] = call[v]
  PROVE  CallsFewer /\ CallsStay
  BY DEF CallsFewer, CallsStay

LEMMA CausesSame ==
  ASSUME Causes, UNCHANGED <<pipe, ev, asked>>, gone \subseteq gone'
  PROVE  Causes'
  BY DEF Causes, Shut

LEMMA DuesAskedSame ==
  ASSUME IInv, IInv', DuesAsked, sent' = sent, CallsFewer, pipe' = pipe
  PROVE  DuesAsked'
<1>1. DOMAIN pipe \subseteq Nat
  BY Requests DEF IInv, Typed
<1>2. \A i \in DOMAIN pipe' : pipe'[i].op \in {"D", "P", "K"} => i + 0 \in DOMAIN pipe /\ pipe'[i] = pipe[i + 0]
  BY <1>1
<1> QED
  BY <1>2, DuesAskedCalm

LEMMA GoesWInv ==
  ASSUME IInv, IInv', WInv, NEW w \in Service, call[w].at # "idle",
         NEW place \in {"locked", "sure", "inc", "push"}, Goes(w, place), SlotsStill,
         UNCHANGED <<pipe, ev, closing, told, asked, gone, sent, wire, due>>,
         place = "locked" => slot[HASH_ID(call[w].m.id)].tcp /\ slot[HASH_ID(call[w].m.id)].sending = 0,
         place = "sure" => /\ call[w].at = "locked" /\ slot[HASH_ID(call[w].m.id)].id = call[w].m.id
                           /\ send_buffer_empty(slot[HASH_ID(call[w].m.id)])
  PROVE  WInv'
<1>1. /\ call'[w].at = place /\ call'[w].m = call[w].m /\ call'[w] # Idle
      /\ \A v \in Service : v # w => call'[v] = call[v]
  BY GoesStep DEF IInv
<1>2. call[w] # Idle /\ call[w].m.id \in Id /\ HASH_ID(call[w].m.id) \in Slot
  BY CallFacts DEF IInv
<1>3. CallsFewer /\ CallsStay
  BY <1>1, <1>2, CallsGo
<1>4. SendsFewer(0) /\ SendsStay
  BY PipeStill
<1>5. Causes' /\ DuesAsked'
  BY <1>3, CausesSame, DuesAskedSame DEF WInv
<1>6. ASSUME NEW v \in Service, v # w PROVE AloneFor(v)'
  <2>1. call'[v] = call[v]
    BY <1>1, <1>6
  <2>2. call[v].at \in {"locked", "sure"} => HASH_ID(call[v].m.id) \in Slot
    BY CallFacts DEF IInv
  <2>3. Alone
    BY DEF WInv
  <2> QED
    BY <1>4, <2>1, <2>2, <2>3, AloneForCalm DEF SlotsStill
<1> DEFINE m == call[w].m
           h == HASH_ID(m.id)
           s == slot[h]
           t == slot'[h]
<1>7. t.id = s.id /\ t.high = s.high /\ t.low = s.low
  BY <1>2 DEF SlotsStill
<1>8. AloneFor(w)'
  <2>1. call'[w].m = m /\ call'[w].at = place
    BY <1>1
  <2>2. CASE place = "locked"
    <3>1. s.id = m.id => \A i \in DOMAIN pipe : ~(IsSend(pipe[i]) /\ pipe[i].id = m.id)
      BY <1>2, <2>2, NoneUnderway
    <3> QED
      BY ZenonT(60), <1>7, <2>1, <2>2, <3>1 DEF AloneFor, IsSend, HASH_ID
  <2>3. CASE place = "sure"
    <3>1. /\ s.id = m.id
          /\ \A i \in DOMAIN pipe : IsSend(pipe[i]) /\ pipe[i].id = m.id => pipe[i].m.w # w
      BY ZenonT(60), <2>3 DEF WInv, Alone, AloneFor
    <3>2. t.high = << >> /\ t.low = << >>
      BY <1>7, <2>3 DEF send_buffer_empty
    <3>3. Len(<< >>) = 0 /\ 1 .. 0 = {}
      OBVIOUS
    <3>4. /\ \A i \in 1 .. Len(t.high) : t.high[i].m.w # w
          /\ \A i \in 1 .. Len(t.low) : t.low[i].m.w # w
          /\ ~(Len(t.high) > 0)
      BY <3>2, <3>3
    <3> QED
      BY ZenonT(60), <1>7, <2>1, <2>3, <3>1, <3>4 DEF AloneFor, IsSend, HASH_ID
  <2>4. CASE place \in {"inc", "push"}
    BY ZenonT(60), <2>1, <2>4 DEF AloneFor
  <2> QED
    BY <2>2, <2>3, <2>4
<1>9. Alone'
  BY <1>6, <1>8 DEF Alone
<1>10. SparedStay
  BY DEF SparedStay
<1> QED
  BY <1>3, <1>4, <1>5, <1>9, <1>10, StillWInv

(* A socket changes in what is not its type, id and lists. *)
LEMMA SetStill ==
  ASSUME IInv, NEW h \in Slot, NEW t, SetSlot(h, t),
         t.type = slot[h].type, t.id = slot[h].id, t.tcp = slot[h].tcp,
         t.dw = slot[h].dw, t.high = slot[h].high, t.low = slot[h].low
  PROVE  SlotsStill
<1>1. slot' = [slot EXCEPT ![h] = t] /\ slot \in [Slot -> Socket]
  BY DEF SetSlot, IInv, Typed
<1>2. slot'[h] = t /\ \A g \in Slot : g # h => slot'[g] = slot[g]
  BY <1>1
<1> QED
  BY <1>2 DEF SlotsStill

LEMMA LookWInv ==
  ASSUME IInv, WInv, NEW w \in Service, Look(w) \/ Recheck(w) \/ NotAlone(w) \/ inc_sending_ref(w)
  PROVE  WInv'
<1> DEFINE h == HASH_ID(call[w].m.id)
           s == slot[h]
<1>1. call[w].at \in {"look", "locked", "sure", "inc"}
  BY ZenonT(60) DEF Look, Recheck, NotAlone, inc_sending_ref, At
<1>2. s \in Socket /\ h \in Slot
  BY <1>1, CallFacts DEF IInv, Typed
<1>3. UNCHANGED <<pipe, ev, closing, told, asked, gone, sent, wire, due>>
  BY ZenonT(60) DEF Look, Recheck, NotAlone, inc_sending_ref, thread, world
<1>4. IInv'
  BY LookIInv, IncIInv
<1>5. ASSUME NEW b PROVE /\ [s EXCEPT !.lock = b].type = s.type /\ [s EXCEPT !.lock = b].id = s.id
                         /\ [s EXCEPT !.lock = b].tcp = s.tcp /\ [s EXCEPT !.lock = b].dw = s.dw
                         /\ [s EXCEPT !.lock = b].high = s.high /\ [s EXCEPT !.lock = b].low = s.low
  BY <1>2 DEF Socket
<1>6. ASSUME NEW b, SetSlot(h, [s EXCEPT !.lock = b]) PROVE SlotsStill
  <2> DEFINE t == [s EXCEPT !.lock = b]
  <2>1. /\ t.type = s.type /\ t.id = s.id /\ t.tcp = s.tcp /\ t.dw = s.dw /\ t.high = s.high /\ t.low = s.low
    BY <1>5
  <2>2. SetSlot(h, t)
    BY <1>6
  <2> HIDE DEF t
  <2> QED
    BY <1>2, <2>1, <2>2, SetStill
<1>7. CASE Look(w)
  <2> DEFINE free == NoneElse(s) /\ ~s.lock
  <2>1. call[w].at = "look" /\ Goes(w, IF free THEN "locked" ELSE "inc") /\ SetSlot(h, [s EXCEPT !.lock = s.lock \/ free])
    BY ZenonT(60), <1>7 DEF Look, At
  <2>2. SlotsStill
    BY <1>6, <2>1
  <2>3. CASE free
    <3>1. s.tcp /\ s.sending = 0
      BY <1>2, <2>3 DEF NoneElse, WInv, Phases, Blank
    <3>2. Goes(w, "locked")
      BY <2>1, <2>3
    <3> QED
      BY <1>1, <1>3, <1>4, <2>2, <3>1, <3>2, GoesWInv
  <2>4. CASE ~free
    <3>1. Goes(w, "inc")
      BY <2>1, <2>4
    <3> QED
      BY <1>1, <1>3, <1>4, <2>2, <3>1, GoesWInv
  <2> QED
    BY <2>3, <2>4
<1>8. CASE Recheck(w)
  <2> DEFINE ok == s.id = call[w].m.id /\ send_buffer_empty(s)
  <2>1. call[w].at = "locked" /\ Goes(w, IF ok THEN "sure" ELSE "inc") /\ SetSlot(h, [s EXCEPT !.lock = ok])
    BY ZenonT(60), <1>8 DEF Recheck, At
  <2>2. SlotsStill
    BY <1>6, <2>1
  <2>3. CASE ok
    <3>1. Goes(w, "sure")
      BY <2>1, <2>3
    <3> QED
      BY ZenonT(60), <1>1, <1>3, <1>4, <2>1, <2>2, <2>3, <3>1, GoesWInv
  <2>4. CASE ~ok
    <3>1. Goes(w, "inc")
      BY <2>1, <2>4
    <3> QED
      BY <1>1, <1>3, <1>4, <2>2, <3>1, GoesWInv
  <2> QED
    BY <2>3, <2>4
<1>9. CASE NotAlone(w)
  <2>1. Goes(w, "inc") /\ SetSlot(h, [s EXCEPT !.lock = FALSE])
    BY <1>9 DEF NotAlone
  <2>2. SlotsStill
    BY <1>6, <2>1
  <2> QED
    BY <1>1, <1>3, <1>4, <2>1, <2>2, GoesWInv
<1>10. CASE inc_sending_ref(w)
  <2> DEFINE t == [s EXCEPT !.sending = @ + 1]
  <2>1. Goes(w, "push") /\ (SetSlot(h, t) \/ SetSlot(h, s))
    BY ZenonT(60), <1>10 DEF inc_sending_ref
  <2>2. /\ t.type = s.type /\ t.id = s.id /\ t.tcp = s.tcp /\ t.dw = s.dw /\ t.high = s.high /\ t.low = s.low
    BY <1>2 DEF Socket
  <2> HIDE DEF t
  <2>3. SlotsStill
    BY <1>2, <2>1, <2>2, SetStill
  <2> QED
    BY <1>1, <1>3, <1>4, <2>1, <2>3, GoesWInv
<1> QED
  BY <1>7, <1>8, <1>9, <1>10

(* A request that is no send is asked for. *)
LEMMA AskWInv ==
  ASSUME IInv, IInv', WInv, NEW r \in Req, r.op \in {"S", "K"}, pipe' = Append(pipe, r),
         asked \subseteq asked', UNCHANGED <<slot, ev, closing, call, told, gone, sent, wire, due>>,
         r.op = "K" => /\ r.shutdown => Shut(r.id)'
                       /\ \A m \in r.due : m \in sent /\ m.id = r.id /\ call[m.w] = Idle
  PROVE  WInv'
<1>1. /\ Len(pipe) \in Nat
      /\ DOMAIN pipe = 1 .. Len(pipe) /\ DOMAIN pipe' = 1 .. Len(pipe) + 1
      /\ \A i \in 1 .. Len(pipe) : pipe'[i] = pipe[i]
      /\ pipe'[Len(pipe) + 1] = r
  BY PipeAppend DEF IInv
<1>2. ~IsSend(r)
  BY DEF IsSend
<1>3. SendsFewer(0) /\ SendsStay
  BY <1>2, PipeMore
<1>4. SparedStay /\ CallsFewer /\ CallsStay /\ SlotsStill
  BY DEF SparedStay, CallsFewer, CallsStay, SlotsStill
<1>5. Causes'
  <2>1. ASSUME NEW i \in DOMAIN pipe', pipe'[i].op = "K", pipe'[i].shutdown
        PROVE  \E a \in asked' : a.op = "K" /\ a.id = pipe'[i].id /\ a.shutdown
    <3>1. CASE i \in DOMAIN pipe
      <4>1. Shut(pipe[i].id)
        BY <1>1, <2>1, <3>1 DEF WInv, Causes
      <4> QED
        BY <1>1, <3>1, <4>1 DEF Shut
    <3>2. CASE i = Len(pipe) + 1
      <4>1. pipe'[i] = r
        BY <1>1, <3>2
      <4> QED
        BY <2>1, <4>1 DEF Shut
    <3> QED
      BY <1>1, <3>1, <3>2
  <2>2. \A i \in DOMAIN ev' : ev'[i].kind = "eof" => ev'[i].id \in gone'
    BY DEF WInv, Causes
  <2> QED
    BY <2>1, <2>2 DEF Causes, Shut
<1>6. ASSUME NEW w \in Service PROVE AloneFor(w)'
  <2>1. Alone
    BY DEF WInv
  <2> QED
    BY <1>3, <2>1, AloneForCalm
<1>7. Alone'
  BY <1>6 DEF Alone
<1>8. DuesAsked'
  <2> SUFFICES ASSUME NEW i \in DOMAIN pipe', pipe'[i].op = "K", NEW m \in pipe'[i].due
               PROVE  /\ m \in sent /\ m.id = pipe'[i].id
                      /\ call[m.w] # Idle => call[m.w].m # m
                      /\ \A j \in DOMAIN pipe' : j > i /\ IsSend(pipe'[j]) => pipe'[j].m # m
    BY DEF DuesAsked, IsSend, Idle
  <2>1. CASE i \in DOMAIN pipe
    <3>1. /\ m \in sent /\ m.id = pipe[i].id
          /\ call[m.w] # Idle => call[m.w].m # m
          /\ \A j \in DOMAIN pipe : j > i /\ IsSend(pipe[j]) => pipe[j].m # m
      BY <1>1, <2>1 DEF WInv, DuesAsked
    <3>2. \A j \in DOMAIN pipe' : IsSend(pipe'[j]) => j \in DOMAIN pipe
      BY <1>1, <1>2
    <3> QED
      BY <1>1, <2>1, <3>1, <3>2
  <2>2. CASE i = Len(pipe) + 1
    <3>1. pipe'[i] = r
      BY <1>1, <2>2
    <3>2. \A j \in DOMAIN pipe' : ~(j > i)
      BY <1>1, <2>2
    <3> QED
      BY <3>1, <3>2
  <2> QED
    BY <1>1, <2>1, <2>2
<1> QED
  BY <1>3, <1>4, <1>5, <1>7, <1>8, StillWInv

LEMMA StartWInv ==
  ASSUME IInv, WInv, NEW w \in Service, NEW id \in Id, Start(w, id)
  PROVE  WInv'
<1> DEFINE r == [op |-> "S", id |-> id]
<1>1. r \in Req /\ r.op = "S"
  BY DEF Req
<1>2. pipe' = Append(pipe, r) /\ UNCHANGED <<slot, ev, closing, call, told, gone, sent, wire, due>> /\ asked \subseteq asked'
  BY DEF Start, Request, thread
<1>3. IInv'
  BY StartIInv
<1> HIDE DEF r
<1> QED
  BY <1>1, <1>2, <1>3, AskWInv

LEMMA CloseWInv ==
  ASSUME IInv, WInv, NEW w \in Service, NEW id \in Id, NEW shutdown \in BOOLEAN, Close(w, id, shutdown)
  PROVE  WInv'
<1> DEFINE d == {m \in Sends(w) : m.id = id}
           a == [op |-> "K", id |-> id, w |-> w, shutdown |-> shutdown]
<1>1. d \in SUBSET Message /\ \A m \in d : m \in sent /\ m.id = id /\ m.w = w
  BY DEF IInv, Typed, Sends
<1>2. /\ pipe' = Append(pipe, [op |-> "K", id |-> id, shutdown |-> shutdown, due |-> d])
      /\ UNCHANGED <<slot, ev, closing, call, told, gone, sent, wire, due>>
      /\ asked' = asked \cup {a} /\ call[w].at = "idle"
  BY DEF Close, Request, thread, At
<1> HIDE DEF d
<1>3. [op |-> "K", id |-> id, shutdown |-> shutdown, due |-> d] \in Req
  BY <1>1 DEF Req
<1>4. PICK r \in Req : /\ r.op = "K" /\ r.id = id /\ r.shutdown = shutdown /\ r.due = d
                       /\ pipe' = Append(pipe, r)
  BY <1>2, <1>3
<1>5. a.op = "K" /\ a.id = id /\ a.shutdown = shutdown
  OBVIOUS
<1>6. IInv'
  BY CloseIInv
<1>7. call[w] = Idle
  BY <1>2, IdleAt DEF IInv, Typed
<1> HIDE DEF a
<1>8. r.shutdown => Shut(r.id)'
  BY <1>2, <1>4, <1>5 DEF Shut
<1>9. \A m \in r.due : m \in sent /\ m.id = r.id /\ call[m.w] = Idle
  BY <1>1, <1>4, <1>7
<1> QED
  BY <1>2, <1>4, <1>6, <1>8, <1>9, AskWInv

(* Nothing but the events, and who has gone, changes. *)
LEMMA QuietWInv ==
  ASSUME IInv, IInv', WInv, UNCHANGED <<slot, pipe, closing, call, told, asked, sent, wire, due>>,
         gone \subseteq gone', Causes'
  PROVE  WInv'
<1>1. SendsFewer(0) /\ SendsStay
  BY PipeStill
<1>2. SparedStay /\ CallsFewer /\ CallsStay /\ SlotsStill
  BY DEF SparedStay, CallsFewer, CallsStay, SlotsStill
<1>3. ASSUME NEW w \in Service PROVE AloneFor(w)'
  <2>1. Alone
    BY DEF WInv
  <2> QED
    BY <1>1, <2>1, AloneForCalm
<1>4. Alone'
  BY <1>3 DEF Alone
<1>5. DuesAsked'
  BY <1>2, DuesAskedSame DEF WInv
<1> QED
  BY <1>1, <1>2, <1>4, <1>5, StillWInv

LEMMA PeerCloseWInv ==
  ASSUME IInv, IInv', WInv, NEW id \in Id, PeerClose(id)
  PROVE  WInv'
<1>1. /\ UNCHANGED <<slot, pipe, ev, closing, call, told, asked, sent, wire, due>>
      /\ gone \subseteq gone'
  BY DEF PeerClose, thread
<1>2. Causes'
  BY <1>1, CausesSame DEF WInv
<1> QED
  BY <1>1, <1>2, QuietWInv

(* The slots and what was written are as they were. *)
LEMMA PartsStill ==
  ASSUME WInv, UNCHANGED <<slot, told, closing, wire, due, asked, gone>>
  PROVE  /\ Histories' /\ Phases' /\ Streams' /\ DuesKept'
         /\ \A id : StreamIn(slot', wire', id) = Stream(id)
<1>1. Histories' /\ Phases'
  BY DEF WInv, Histories, Phases, Valid
<1>2. \A id : Stream(id)' = Stream(id) /\ Spared(id)' = Spared(id) /\ Valid(id)' = Valid(id)
  BY DEF Stream, Spared, Shut, Valid
<1>3. Streams' /\ DuesKept'
  BY <1>2 DEF WInv, Streams, DuesKept
<1> QED
  BY <1>1, <1>3 DEF Stream

LEMMA SendRequestWInv ==
  ASSUME IInv, WInv, NEW w \in Service, send_request(w)
  PROVE  WInv'
<1>1. call[w].at = "push" /\ UNCHANGED <<slot, ev, closing, told, asked, gone, sent, wire, due>>
  BY DEF send_request, thread, world, At
<1>2. /\ call[w] # Idle /\ call[w].m \in Message /\ call[w].m.id \in Id
      /\ call[w].m \in sent /\ call[w].m.w = w
  BY <1>1, CallFacts DEF IInv, WInv, Placed
<1>3. call[w].m.op \in {"D", "P"}
  BY <1>2 DEF Message
<1>4. PICK r \in Req : r.op = call[w].m.op /\ r.id = call[w].m.id /\ r.m = call[w].m /\ pipe' = Append(pipe, r)
  <2>1. [op |-> call[w].m.op, id |-> call[w].m.id, m |-> call[w].m] \in Req
    BY <1>2, <1>3 DEF Req
  <2> QED
    BY <2>1 DEF send_request, Request
<1>5. /\ Len(pipe) \in Nat
      /\ DOMAIN pipe = 1 .. Len(pipe) /\ DOMAIN pipe' = 1 .. Len(pipe) + 1
      /\ \A i \in 1 .. Len(pipe) : pipe'[i] = pipe[i]
      /\ pipe'[Len(pipe) + 1] = r
  BY <1>4, PipeAppend DEF IInv
<1>6. call'[w] = Idle /\ \A v \in Service : v # w => call'[v] = call[v]
  BY CallStep DEF send_request, IInv
<1>7. /\ Histories' /\ Phases' /\ Streams' /\ DuesKept'
      /\ \A id : StreamIn(slot', wire', id) = Stream(id)
  BY <1>1, PartsStill
<1>8. \A i \in DOMAIN pipe' : (i \in DOMAIN pipe /\ pipe'[i] = pipe[i]) \/ (i = Len(pipe) + 1 /\ pipe'[i] = r)
  BY <1>5
<1>9. r.op \in {"D", "P"} /\ IsSend(r)
  BY <1>3, <1>4 DEF IsSend
<1>10. Causes'
  BY <1>1, <1>8, <1>9 DEF WInv, Causes, Shut
<1>11. Placed'
  <2>1. \A m \in sent' : told'[m.id] \in {"open", "close"} /\ m.n <= Cardinality(Sends(m.w))'
    BY <1>1 DEF WInv, Placed, Sends
  <2>2. \A id \in Id : \A i \in 1 .. Len(StreamIn(slot', wire', id)) :
          StreamIn(slot', wire', id)[i].m \in sent' /\ StreamIn(slot', wire', id)[i].m.id = id
    BY <1>1, <1>7 DEF WInv, Placed
  <2>3. \A i \in DOMAIN pipe' : IsSend(pipe'[i]) =>
          pipe'[i].m \in sent' /\ pipe'[i].m.id = pipe'[i].id /\ pipe'[i].m.op = pipe'[i].op
    BY <1>1, <1>2, <1>4, <1>8 DEF WInv, Placed
  <2>4. \A v \in Service : call'[v] # Idle => call'[v].m \in sent' /\ call'[v].m.w = v
    BY <1>1, <1>6 DEF WInv, Placed
  <2>5. \A h \in Slot : \A i \in 1 .. Len(slot'[h].low) : slot'[h].low[i].m.op = "P"
    BY <1>1 DEF WInv, Placed
  <2> QED
    BY <2>1, <2>2, <2>3, <2>4, <2>5 DEF Placed, Stream, IsSend, Idle
<1>12. InOrder'
  <2>1. ASSUME NEW i \in DOMAIN pipe', IsSend(pipe'[i]) PROVE Before(StreamIn(slot', wire', pipe'[i].id), pipe'[i].m)
    <3>1. Before(Stream(pipe'[i].id), pipe'[i].m)
      BY <1>2, <1>4, <1>8, <2>1 DEF WInv, InOrder
    <3> QED
      BY <1>7, <3>1
  <2>2. ASSUME NEW v \in Service, call'[v] # Idle PROVE Before(StreamIn(slot', wire', call'[v].m.id), call'[v].m)
    <3>1. Before(Stream(call[v].m.id), call[v].m) /\ call'[v] = call[v]
      BY <1>6, <2>2 DEF WInv, InOrder
    <3> QED
      BY <1>7, <3>1
  <2>3. ASSUME NEW i \in DOMAIN pipe', NEW j \in DOMAIN pipe', i < j, IsSend(pipe'[i]), IsSend(pipe'[j]),
               pipe'[i].m.w = pipe'[j].m.w
        PROVE  pipe'[i].m.n < pipe'[j].m.n
    <3>1. i \in DOMAIN pipe /\ pipe'[i] = pipe[i]
      BY <1>5, <2>3
    <3>2. CASE j \in DOMAIN pipe /\ pipe'[j] = pipe[j]
      BY <2>3, <3>1, <3>2 DEF WInv, InOrder
    <3>3. CASE pipe'[j] = r
      BY <1>2, <1>4, <2>3, <3>1, <3>3 DEF WInv, InOrder
    <3> QED
      BY <1>8, <3>2, <3>3
  <2>4. ASSUME NEW v \in Service, call'[v] # Idle, NEW i \in DOMAIN pipe', IsSend(pipe'[i]), pipe'[i].m.w = v
        PROVE  pipe'[i].m.n < call'[v].m.n
    <3>1. v # w /\ call'[v] = call[v]
      BY <1>6, <2>4
    <3>2. i \in DOMAIN pipe /\ pipe'[i] = pipe[i]
      BY <1>2, <1>4, <1>8, <2>4, <3>1
    <3> QED
      BY <2>4, <3>1, <3>2 DEF WInv, InOrder
  <2> QED
    BY <2>1, <2>2, <2>3, <2>4 DEF InOrder, Stream
<1>13. ASSUME NEW v \in Service PROVE AloneFor(v)'
  <2>1. CASE v = w
    BY <1>6, <2>1, IdleAlone
  <2>2. CASE v # w
    <3>1. call'[v] = call[v] /\ AloneFor(v)
      BY <1>6, <2>2 DEF WInv, Alone
    <3>2. r.m.w = w
      BY <1>2, <1>4
    <3> QED
      BY ZenonT(60), <1>1, <1>8, <2>2, <3>1, <3>2 DEF AloneFor
  <2> QED
    BY <2>1, <2>2
<1>14. Kept'
  <2> SUFFICES ASSUME NEW m \in sent, Valid(m.id), slot[HASH_ID(m.id)].type # "HALFCLOSE", ~Spared(m.id)
               PROVE  \/ Has(Stream(m.id), m)
                      \/ \E i \in DOMAIN pipe' : IsSend(pipe'[i]) /\ pipe'[i].m = m
                      \/ call'[m.w] # Idle /\ call'[m.w].m = m
    BY <1>1 DEF Kept, Valid, Spared, Shut, Stream
  <2>1. m.w \in Service
    BY DEF IInv, Typed, Message
  <2>2. \/ Has(Stream(m.id), m)
        \/ \E i \in DOMAIN pipe : IsSend(pipe[i]) /\ pipe[i].m = m
        \/ call[m.w] # Idle /\ call[m.w].m = m
    BY DEF WInv, Kept
  <2>3. ASSUME NEW i \in DOMAIN pipe, IsSend(pipe[i]), pipe[i].m = m
        PROVE  \E j \in DOMAIN pipe' : IsSend(pipe'[j]) /\ pipe'[j].m = m
    <3>1. i \in DOMAIN pipe' /\ pipe'[i] = pipe[i]
      BY <1>5
    <3> QED
      BY <2>3, <3>1
  <2>4. CASE call[m.w] # Idle /\ call[m.w].m = m /\ m.w = w
    <3>1. Len(pipe) + 1 \in DOMAIN pipe' /\ pipe'[Len(pipe) + 1] = r /\ r.m = m
      BY <1>4, <1>5, <2>4
    <3> QED
      BY <1>9, <3>1
  <2> QED
    BY <1>6, <2>1, <2>2, <2>3, <2>4
<1>15. DuesAsked'
  <2> SUFFICES ASSUME NEW i \in DOMAIN pipe', pipe'[i].op = "K", NEW m \in pipe'[i].due
               PROVE  /\ m \in sent /\ m.id = pipe'[i].id
                      /\ call'[m.w] # Idle => call'[m.w].m # m
                      /\ \A j \in DOMAIN pipe' : j > i /\ IsSend(pipe'[j]) => pipe'[j].m # m
    BY <1>1 DEF DuesAsked, IsSend, Idle
  <2>1. i \in DOMAIN pipe /\ pipe'[i] = pipe[i]
    BY <1>8, <1>9
  <2>2. /\ m \in sent /\ m.id = pipe[i].id
        /\ call[m.w] # Idle => call[m.w].m # m
        /\ \A j \in DOMAIN pipe : j > i /\ IsSend(pipe[j]) => pipe[j].m # m
    BY <2>1 DEF WInv, DuesAsked
  <2>3. m.w \in Service
    BY <2>2 DEF IInv, Typed, Message
  <2>4. r.m # m
    BY <1>2, <1>4, <2>2
  <2> QED
    BY <1>6, <1>8, <2>1, <2>2, <2>3, <2>4
<1> QED
  BY <1>7, <1>10, <1>11, <1>12, <1>13, <1>14, <1>15 DEF WInv, Alone

LEMMA SendWInv ==
  ASSUME IInv, WInv, NEW w \in Service, NEW id \in Id, NEW op \in {"D", "P"}, Send(w, id, op)
  PROVE  WInv'
<1> DEFINE n == Cardinality(Sends(w)) + 1
           m0 == [w |-> w, n |-> n, id |-> id, op |-> op]
           direct == op = "D" /\ send_buffer_empty(slot[HASH_ID(id)])
<1>1. /\ UNCHANGED <<slot, pipe, ev, closing, told, asked, gone, wire, due>>
      /\ sent' = sent \cup {m0} /\ call[w].at = "idle" /\ told[id] \in {"open", "close"} /\ Valid(id)
      /\ call' = [call EXCEPT ![w] = [at |-> IF direct THEN "look" ELSE "inc", m |-> m0]]
  BY DEF Send, thread, At
<1>2. IInv'
  BY SendIInv
<1>3. IsFiniteSet(Sends(w)) /\ Cardinality(Sends(w)) \in Nat /\ n \in Nat
  BY FS_Subset, FS_CardinalityType DEF Sends, IInv, Typed
<1>4. PICK m : m = m0
  OBVIOUS
<1>5. m.w = w /\ m.n = n /\ m.id = id /\ m.op = op
  BY <1>4
<1>6. \A x \in sent : x.w = w => x.n < n
  <2>1. \A x \in sent : x \in Message /\ x.n \in Nat
    BY Constants DEF IInv, Typed, Message
  <2>2. \A x \in sent : x.n <= Cardinality(Sends(x.w))
    BY DEF WInv, Placed
  <2> DEFINE c == Cardinality(Sends(w))
  <2>3. \A x \in sent : x.w = w => x.n <= c
    BY <2>2
  <2>4. c \in Nat /\ n = c + 1
    BY <1>3
  <2> HIDE DEF c, n
  <2> QED
    BY <2>1, <2>3, <2>4
<1> HIDE DEF n
<1>7. m \notin sent
  <2>1. ~(n < n)
    BY <1>3
  <2> QED
    BY <1>5, <1>6, <2>1
<1>8. sent' = sent \cup {m}
  BY <1>1, <1>4
<1>9. call'[w] # Idle /\ call'[w].m = m /\ call'[w].at \in {"look", "inc"} /\ \A v \in Service : v # w => call'[v] = call[v]
  BY <1>1, <1>4 DEF IInv, Typed, Idle
<1> HIDE DEF m0
<1>10. call[w] = Idle
  BY <1>1, IdleAt DEF IInv, Typed
<1>11. /\ Histories' /\ Phases' /\ Streams' /\ DuesKept'
       /\ \A d : StreamIn(slot', wire', d) = Stream(d)
  BY <1>1, PartsStill
<1>12. Causes'
  BY <1>1, CausesSame DEF WInv
<1>13. ASSUME NEW v PROVE Cardinality(Sends(v)) \in Nat /\ Cardinality(Sends(v)) <= Cardinality(Sends(v)')
                          /\ (v = w => Cardinality(Sends(v)') = n)
  <2>1. IsFiniteSet(Sends(v)) /\ Cardinality(Sends(v)) \in Nat
    BY FS_Subset, FS_CardinalityType DEF Sends, IInv, Typed
  <2>2. CASE v = w
    <3>1. Sends(v)' = Sends(w) \cup {m} /\ m \notin Sends(w)
      BY <1>5, <1>7, <1>8, <2>2 DEF Sends
    <3>2. Cardinality(Sends(v)') = Cardinality(Sends(w)) + 1
      BY <1>3, <3>1, FS_AddElement
    <3> QED
      BY <1>3, <2>1, <2>2, <3>2 DEF n
  <2>3. CASE v # w
    <3>1. Sends(v)' = Sends(v)
      BY <1>5, <1>8, <2>3 DEF Sends
    <3> QED
      BY <2>1, <2>3, <3>1
  <2> QED
    BY <2>2, <2>3
<1>14. Placed'
  <2>1. \A x \in sent' : told'[x.id] \in {"open", "close"} /\ x.n <= Cardinality(Sends(x.w)')
    <3> SUFFICES ASSUME NEW x \in sent' PROVE told[x.id] \in {"open", "close"} /\ x.n <= Cardinality(Sends(x.w)')
      BY <1>1
    <3>1. CASE x = m
      <4>1. x.w = w /\ x.n = n /\ x.id = id
        BY <1>5, <3>1
      <4>2. Cardinality(Sends(w)') = n
        BY <1>13
      <4> QED
        BY <1>1, <1>3, <4>1, <4>2
    <3>2. CASE x \in sent
      <4>1. x.n \in Nat /\ x.n <= Cardinality(Sends(x.w)) /\ told[x.id] \in {"open", "close"}
        BY <3>2, Constants DEF WInv, Placed, IInv, Typed, Message
      <4>2. PICK v : v = x.w
        OBVIOUS
      <4>3. Cardinality(Sends(v)) \in Nat /\ Cardinality(Sends(v)) <= Cardinality(Sends(v)')
        BY <1>13
      <4>4. Cardinality(Sends(v)') \in Nat
        <5>1. IsFiniteSet(Sends(v)')
          BY <1>2, FS_Subset DEF Sends, IInv, Typed
        <5> QED
          BY <5>1, FS_CardinalityType
      <4> QED
        BY <4>1, <4>2, <4>3, <4>4
    <3> QED
      BY <1>8, <3>1, <3>2
  <2>2. \A d \in Id : \A i \in 1 .. Len(StreamIn(slot', wire', d)) :
          StreamIn(slot', wire', d)[i].m \in sent' /\ StreamIn(slot', wire', d)[i].m.id = d
    BY <1>8, <1>11 DEF WInv, Placed
  <2>3. \A i \in DOMAIN pipe' : IsSend(pipe'[i]) =>
          pipe'[i].m \in sent' /\ pipe'[i].m.id = pipe'[i].id /\ pipe'[i].m.op = pipe'[i].op
    BY <1>1, <1>8 DEF WInv, Placed
  <2>4. \A v \in Service : call'[v] # Idle => call'[v].m \in sent' /\ call'[v].m.w = v
    BY <1>5, <1>8, <1>9 DEF WInv, Placed
  <2>5. \A h \in Slot : \A i \in 1 .. Len(slot'[h].low) : slot'[h].low[i].m.op = "P"
    BY <1>1 DEF WInv, Placed
  <2> QED
    BY <2>1, <2>2, <2>3, <2>4, <2>5 DEF Placed, Stream, IsSend, Idle, Sends
<1>15. InOrder'
  <2>1. ASSUME NEW i \in DOMAIN pipe', IsSend(pipe'[i]) PROVE Before(StreamIn(slot', wire', pipe'[i].id), pipe'[i].m)
    BY <1>1, <1>11, <2>1 DEF WInv, InOrder
  <2>2. ASSUME NEW v \in Service, call'[v] # Idle PROVE Before(StreamIn(slot', wire', call'[v].m.id), call'[v].m)
    <3>1. CASE v = w
      <4>1. \A j \in 1 .. Len(Stream(id)) : Stream(id)[j].m \in sent
        BY DEF WInv, Placed
      <4>2. Before(Stream(id), m)
        BY <1>5, <1>6, <4>1 DEF Before
      <4> QED
        BY <1>5, <1>9, <1>11, <3>1, <4>2
    <3>2. CASE v # w
      BY <1>9, <1>11, <2>2, <3>2 DEF WInv, InOrder
    <3> QED
      BY <3>1, <3>2
  <2>3. \A i, j \in DOMAIN pipe' : i < j /\ IsSend(pipe'[i]) /\ IsSend(pipe'[j])
                               /\ pipe'[i].m.w = pipe'[j].m.w => pipe'[i].m.n < pipe'[j].m.n
    BY <1>1 DEF WInv, InOrder
  <2>4. ASSUME NEW v \in Service, call'[v] # Idle, NEW i \in DOMAIN pipe', IsSend(pipe'[i]), pipe'[i].m.w = v
        PROVE  pipe'[i].m.n < call'[v].m.n
    <3>1. CASE v = w
      <4>1. pipe[i].m \in sent
        BY <1>1, <2>4 DEF WInv, Placed
      <4> QED
        BY <1>1, <1>5, <1>6, <1>9, <2>4, <3>1, <4>1
    <3>2. CASE v # w
      BY <1>1, <1>9, <2>4, <3>2 DEF WInv, InOrder
    <3> QED
      BY <3>1, <3>2
  <2> QED
    BY <2>1, <2>2, <2>3, <2>4 DEF InOrder, Stream
<1>16. ASSUME NEW v \in Service PROVE AloneFor(v)'
  <2>1. CASE v = w
    BY ZenonT(60), <1>1, <1>5, <1>9, <2>1 DEF AloneFor, Valid
  <2>2. CASE v # w
    <3>1. call'[v] = call[v] /\ AloneFor(v)
      BY <1>9, <2>2 DEF WInv, Alone
    <3>2. slot' = slot /\ pipe' = pipe
      BY <1>1
    <3> QED
      BY ZenonT(60), <3>1, <3>2 DEF AloneFor
  <2> QED
    BY <2>1, <2>2
<1>17. Kept'
  <2> SUFFICES ASSUME NEW x \in sent', Valid(x.id), slot[HASH_ID(x.id)].type # "HALFCLOSE", ~Spared(x.id)
               PROVE  \/ Has(Stream(x.id), x)
                      \/ \E i \in DOMAIN pipe : IsSend(pipe[i]) /\ pipe[i].m = x
                      \/ call'[x.w] # Idle /\ call'[x.w].m = x
    BY <1>1 DEF Kept, Valid, Spared, Shut, Stream
  <2>1. CASE x = m
    BY <1>5, <1>9, <2>1
  <2>2. CASE x \in sent
    <3>1. x.w \in Service
      BY <2>2 DEF IInv, Typed, Message
    <3>2. \/ Has(Stream(x.id), x)
          \/ \E i \in DOMAIN pipe : IsSend(pipe[i]) /\ pipe[i].m = x
          \/ call[x.w] # Idle /\ call[x.w].m = x
      BY <2>2 DEF WInv, Kept
    <3> QED
      BY <1>9, <1>10, <3>1, <3>2
  <2> QED
    BY <1>8, <2>1, <2>2
<1>18. DuesAsked'
  <2> SUFFICES ASSUME NEW i \in DOMAIN pipe, pipe[i].op = "K", NEW x \in pipe[i].due
               PROVE  /\ x \in sent' /\ x.id = pipe[i].id
                      /\ call'[x.w] # Idle => call'[x.w].m # x
                      /\ \A j \in DOMAIN pipe : j > i /\ IsSend(pipe[j]) => pipe[j].m # x
    BY <1>1 DEF DuesAsked, IsSend, Idle
  <2>1. /\ x \in sent /\ x.id = pipe[i].id
        /\ call[x.w] # Idle => call[x.w].m # x
        /\ \A j \in DOMAIN pipe : j > i /\ IsSend(pipe[j]) => pipe[j].m # x
    BY DEF WInv, DuesAsked
  <2>2. x.w \in Service /\ x # m
    BY <1>7, <2>1 DEF IInv, Typed, Message
  <2> QED
    BY <1>8, <1>9, <2>1, <2>2
<1> QED
  BY <1>11, <1>12, <1>14, <1>15, <1>16, <1>17, <1>18 DEF WInv, Alone

-----------------------------------------------------------------------------
(* Steps that take a request or an event, and leave the calls alone. *)

PipeCalm(c) ==
  \A i \in DOMAIN pipe' : pipe'[i].op \in {"D", "P", "K"} => i + c \in DOMAIN pipe /\ pipe'[i] = pipe[i + c]
EventsFewer == \A i \in DOMAIN ev' : ev'[i].kind = "eof" => \E j \in DOMAIN ev : ev[j] = ev'[i]

LEMMA TakesCalm ==
  ASSUME IInv, IInv', WInv, NEW c \in Nat, PipeCalm(c), EventsFewer, UNCHANGED <<call, asked, gone, sent>>
  PROVE  /\ SendsFewer(c) /\ SparedStay /\ CallsFewer /\ CallsStay
         /\ Causes' /\ DuesAsked'
<1>1. SendsFewer(c) /\ SparedStay /\ CallsFewer /\ CallsStay
  BY DEF SendsFewer, PipeCalm, SparedStay, CallsFewer, CallsStay
<1>2. DuesAsked'
  BY <1>1, DuesAskedCalm DEF WInv, PipeCalm
<1>3. Causes'
  BY DEF WInv, Causes, PipeCalm, EventsFewer, Shut
<1> QED
  BY <1>1, <1>2, <1>3

LEMMA TakesPipe ==
  ASSUME IInv
  PROVE  /\ pipe' = pipe => PipeCalm(0) /\ SendsStay
         /\ pipe # << >> /\ pipe' = Tail(pipe) => PipeCalm(1) /\ (~IsSend(Head(pipe)) => SendsStay)
         /\ \A r \in Req : r.op = "O" /\ pipe' = Append(pipe, r) => PipeCalm(0) /\ SendsStay
<1>1. ASSUME pipe' = pipe PROVE PipeCalm(0) /\ SendsStay
  <2>1. DOMAIN pipe \subseteq Nat
    BY Requests DEF IInv, Typed
  <2> QED
    BY <1>1, <2>1, PipeStill DEF PipeCalm
<1>2. ASSUME pipe # << >>, pipe' = Tail(pipe) PROVE PipeCalm(1) /\ (~IsSend(Head(pipe)) => SendsStay)
  BY <1>2, PipeLess DEF PipeCalm
<1>3. ASSUME NEW r \in Req, r.op = "O", pipe' = Append(pipe, r) PROVE PipeCalm(0) /\ SendsStay
  <2>1. ~IsSend(r)
    BY <1>3 DEF IsSend
  <2>2. /\ Len(pipe) \in Nat
        /\ DOMAIN pipe = 1 .. Len(pipe) /\ DOMAIN pipe' = 1 .. Len(pipe) + 1
        /\ \A i \in 1 .. Len(pipe) : pipe'[i] = pipe[i]
        /\ pipe'[Len(pipe) + 1] = r
    BY <1>3, PipeAppend DEF IInv
  <2>3. ASSUME NEW i \in DOMAIN pipe', pipe'[i].op \in {"D", "P", "K"}
        PROVE  i + 0 \in DOMAIN pipe /\ pipe'[i] = pipe[i + 0]
    <3>1. i # Len(pipe) + 1
      BY <1>3, <2>2, <2>3
    <3> QED
      BY <2>2, <3>1
  <2> QED
    BY <1>3, <2>1, <2>3, PipeMore DEF PipeCalm
<1> QED
  BY <1>1, <1>2, <1>3

LEMMA TakesEvent ==
  ASSUME IInv
  PROVE  /\ ev' = ev => EventsFewer
         /\ ev # << >> /\ ev' = Tail(ev) => EventsFewer
         /\ \A h : ev' = clear_closed_event(h) => EventsFewer
<1>1. ev \in Seq(Happening) /\ DOMAIN ev = 1 .. Len(ev)
  BY LenProperties DEF IInv, Typed
<1>2. ASSUME ev # << >>, ev' = Tail(ev) PROVE EventsFewer
  <2>1. /\ Len(ev) \in Nat \ {0} /\ DOMAIN Tail(ev) = 1 .. Len(ev) - 1
        /\ \A i \in 1 .. Len(ev) - 1 : Tail(ev)[i] = ev[i + 1]
    BY <1>1, <1>2, SeqTail
  <2>2. \A i \in 1 .. Len(ev) - 1 : i + 1 \in 1 .. Len(ev)
    BY <2>1
  <2> QED
    BY <1>1, <1>2, <2>1, <2>2 DEF EventsFewer
<1>3. ASSUME NEW h, ev' = clear_closed_event(h) PROVE EventsFewer
  BY <1>3 DEF EventsFewer, clear_closed_event, Cleared
<1> QED
  BY <1>2, <1>3 DEF EventsFewer

(* Nothing was written to an id that the services do not know as open. *)
LEMMA StreamUnknown ==
  ASSUME IInv, WInv, NEW id \in Id, told[id] \notin {"open", "close"}
  PROVE  Len(Stream(id)) = 0 /\ (slot[HASH_ID(id)].id = id => Waiting(slot[HASH_ID(id)]) = << >>)
<1>1. slot \in [Slot -> Socket] /\ wire \in [Id -> Seq(Byte)]
  BY DEF IInv, Typed, WInv, Histories
<1>2. Stream(id) \in Seq(Byte) /\ wire[id] \in Seq(Byte)
  BY <1>1, StreamIs DEF Stream
<1>3. Len(Stream(id)) \in Nat
  BY <1>2, BytesOf
<1>4. \A i \in 1 .. Len(Stream(id)) : FALSE
  BY DEF WInv, Placed
<1>5. Len(Stream(id)) = 0
  <2>1. ~(1 \in 1 .. Len(Stream(id)))
    BY <1>4
  <2> QED
    BY <1>3, <2>1
<1>6. ASSUME slot[HASH_ID(id)].id = id PROVE Waiting(slot[HASH_ID(id)]) = << >>
  <2> DEFINE v == Waiting(slot[HASH_ID(id)])
  <2>1. v \in Seq(Byte)
    BY <1>1, Constants, WaitingSeq
  <2>2. Stream(id) = wire[id] \o v
    BY <1>6 DEF Stream, StreamIn
  <2> HIDE DEF v
  <2>3. Len(wire[id]) \in Nat /\ Len(v) \in Nat /\ Len(wire[id] \o v) = Len(wire[id]) + Len(v)
    BY <1>2, <2>1, ConcatAt
  <2>4. Len(v) = 0
    BY <1>5, <2>2, <2>3
  <2>5. v = << >>
    BY <2>1, <2>4, EmptySeq
  <2> QED
    BY <2>5 DEF v
<1> QED
  BY <1>5, <1>6

(* What the services are told of one id. *)
Tells(id, what) == told' = [told EXCEPT ![id] = what]
LEMMA TellsIs ==
  ASSUME IInv, NEW id \in Id, NEW what, Tells(id, what)
  PROVE  /\ told'[id] = what /\ \A d \in Id : d # id => told'[d] = told[d]
         /\ told[id] \notin {"open", "close"} \/ what \in {"open", "close"} => TellsOn
<1>1. told'[id] = what /\ \A d \in Id : d # id => told'[d] = told[d]
  BY DEF IInv, Typed, Tells
<1> QED
  BY <1>1 DEF TellsOn

(* A socket without waiting bytes is given to an id, opened, or given up. *)
LEMMA BlankWInv ==
  ASSUME IInv, IInv', WInv, NEW id \in Id, NEW h \in Slot, HASH_ID(id) = h,
         \/ Valid(id) /\ slot[h].type # "HALFCLOSE"
         \/ slot[h].type = "INVALID" /\ told[id] = "nothing" /\ ~slot[h].lock,
         Waiting(slot[h]) = << >>, slot'[h].high = << >>, slot'[h].low = << >>, slot'[h].dw = << >>,
         slot[h].high = << >>, slot[h].low = << >>,
         \A g \in Slot : g # h => slot'[g] = slot[g], slot'[h].id = id, slot'[h].type # "HALFCLOSE",
         NEW what, Tells(id, what), told[id] \notin {"open", "close"} \/ what \in {"open", "close"},
         slot'[h].type \notin Blank => slot'[h].tcp,
         slot'[h].type = "CONNECTING" => what = "opening",
         slot'[h].type = "PACCEPT" => what = "accepted",
         what \in {"opening", "accepted", "open"} <=> slot'[h].type # "INVALID",
         NEW c \in Nat, PipeCalm(c), SendsStay, EventsFewer,
         UNCHANGED <<call, closing, asked, gone, sent, wire, due>>
  PROVE  WInv'
<1>1. /\ told'[id] = what /\ \A d \in Id : d # id => told'[d] = told[d]
      /\ TellsOn
  BY TellsIs
<1>2. /\ SendsFewer(c) /\ SparedStay /\ CallsFewer /\ CallsStay
      /\ Causes' /\ DuesAsked'
  BY TakesCalm
<1>3. Histories /\ Histories'
  BY DEF WInv, Histories
<1>4. slot[h] \in Socket /\ slot'[h] \in Socket /\ Sound(h, slot[h])
  <2>1. slot' \in [Slot -> Socket]
    BY DEF IInv, Typed, Slot, Socket, SockType, Byte, Message, Id
  <2> QED
    BY <2>1 DEF IInv, Typed, Sockets
<1>5. Waiting(slot'[h]) = << >>
  BY <1>4, EmptyWaiting
<1>6. \A d \in Id : Stream(d)' = Stream(d)
  BY <1>3, <1>5, StreamEmpty DEF IInv
<1>7. \A d \in Id : HASH_ID(d) \in Slot
  BY Constants
<1>8. \A g \in Slot : slot[g].type # "INVALID" => slot[g].id \in Id /\ HASH_ID(slot[g].id) = g
  BY DEF IInv, Sockets, Sound
<1>9. \A d \in Id : Valid(d)' <=> IF d = id THEN slot'[h].type # "INVALID" ELSE Valid(d)
  <2> SUFFICES ASSUME NEW d \in Id
               PROVE  (slot'[HASH_ID(d)].type # "INVALID" /\ slot'[HASH_ID(d)].id = d)
                      <=> IF d = id THEN slot'[h].type # "INVALID" ELSE Valid(d)
    BY DEF Valid, HASH_ID
  <2>1. CASE HASH_ID(d) = h
    BY <2>1 DEF Valid
  <2>2. CASE HASH_ID(d) # h
    BY <1>7, <2>2 DEF Valid
  <2> QED
    BY <2>1, <2>2
<1>10. Phases'
  <2>1. \A g \in Slot : slot'[g].type \notin Blank => slot'[g].tcp
    BY DEF WInv, Phases
  <2>2. \A g \in Slot : g # h /\ slot[g].type # "INVALID" => slot[g].id # id
    BY <1>8
  <2>3. \A g \in Slot : slot'[g].type = "CONNECTING" => told'[slot'[g].id] = "opening"
    BY <1>1, <1>8, <2>2 DEF WInv, Phases
  <2>4. \A g \in Slot : slot'[g].type = "PACCEPT" => told'[slot'[g].id] = "accepted"
    BY <1>1, <1>8, <2>2 DEF WInv, Phases
  <2>5. \A d \in Id : told'[d] \in {"opening", "accepted", "open"} <=> Valid(d)'
    BY <1>1, <1>9 DEF WInv, Phases
  <2> QED
    BY <2>1, <2>3, <2>4, <2>5 DEF Phases, Blank
<1>11. ASSUME NEW w \in Service PROVE AloneFor(w)'
  <2>1. call[w].at \in {"locked", "sure"} => HASH_ID(call[w].m.id) \in Slot
    BY CallFacts DEF IInv
  <2>2. ASSUME call[w].at \in {"locked", "sure"}
        PROVE  LET s == slot[HASH_ID(call[w].m.id)]
                   t == slot'[HASH_ID(call[w].m.id)]
               IN  t.id = s.id /\ t.high = s.high /\ t.low = s.low
    <3>1. CASE HASH_ID(call[w].m.id) = h
      <4>1. slot[h].lock
        BY <2>2, <3>1 DEF IInv, Locks, HoldsLock
      <4>2. slot[h].id = id
        BY <4>1 DEF Valid
      <4> QED
        BY <3>1, <4>2
    <3>2. CASE HASH_ID(call[w].m.id) # h
      BY <2>1, <2>2, <3>2
    <3> QED
      BY <3>1, <3>2
  <2>3. Alone
    BY DEF WInv
  <2> QED
    BY <1>2, <2>2, <2>3, AloneForCalm
<1>12. Alone'
  BY <1>11 DEF Alone
<1>13. \A d \in Id : Stream(d) \in Seq(Byte) /\ wire[d] \in Seq(Byte)
  BY <1>3, StreamsAre
<1>14. StreamsCut /\ \A d \in Id : Cut(wire'[d], wire[d])
  BY <1>6, <1>13, CutSelf DEF StreamsCut
<1>15. \A g \in Slot : \A i \in 1 .. Len(slot'[g].low) : slot'[g].low[i].m.op = "P"
  <2>1. Len(<< >>) = 0 /\ 1 .. 0 = {}
    OBVIOUS
  <2>2. \A i \in 1 .. Len(slot'[h].low) : slot'[h].low[i].m.op = "P"
    BY <2>1
  <2>3. \A g \in Slot : \A i \in 1 .. Len(slot[g].low) : slot[g].low[i].m.op = "P"
    BY DEF WInv, Placed
  <2> QED
    BY <2>2, <2>3
<1>16. \A d \in Id : Valid(d)' => Valid(d) \/ Len(Stream(d)') = 0
  BY <1>6, <1>9, StreamUnknown
<1>17. ASSUME NEW m \in sent, Valid(m.id)', slot'[HASH_ID(m.id)].type # "HALFCLOSE"
       PROVE  Valid(m.id) /\ slot[HASH_ID(m.id)].type # "HALFCLOSE" /\ Stream(m.id)' = Stream(m.id)
  <2>1. m.id \in Id /\ told[m.id] \in {"open", "close"}
    BY DEF IInv, Typed, Message, WInv, Placed
  <2>2. Stream(m.id)' = Stream(m.id)
    BY <1>6, <2>1
  <2>3. CASE m.id = id
    BY <2>1, <2>2, <2>3
  <2>4. CASE m.id # id
    <3>1. Valid(m.id)
      BY <1>9, <1>17, <2>1, <2>4
    <3>2. HASH_ID(m.id) # h
      BY <2>4, <3>1 DEF Valid
    <3> QED
      BY <1>7, <1>17, <2>1, <2>2, <3>1, <3>2
  <2> QED
    BY <2>3, <2>4
<1>18. ASSUME NEW d \in Id, ~Spared(d)', d \in closing' \/ told'[d] = "close"
       PROVE  \/ d \in closing \/ told[d] = "close"
              \/ \A m \in due[d] : Has(wire'[d], m)
  <2>1. CASE d # id
    BY <1>1, <1>18, <2>1
  <2>2. CASE d = id /\ Valid(id)
    <3>1. ~Spared(id)
      BY <1>2, <1>18, <2>2, SparedOn
    <3>2. Stream(id) = wire[id] \o << >> /\ wire[id] \o << >> = wire[id]
      BY <1>13, <2>2, ConcatEmptySeq DEF Stream, StreamIn, Valid
    <3> QED
      BY <2>2, <3>1, <3>2 DEF WInv, DuesKept
  <2>3. CASE d = id /\ told[id] = "nothing"
    <3>1. ~Spared(id)
      BY <1>2, <1>18, <2>3, SparedOn
    <3>2. Len(Stream(id)) = 0
      BY <2>3, StreamUnknown
    <3>3. \A m : ~Has(Stream(id), m)
      BY <3>2 DEF Has
    <3> QED
      BY <2>3, <3>1, <3>3 DEF WInv, DuesKept
  <2> QED
    BY <2>1, <2>2, <2>3
<1> QED
  BY <1>1, <1>2, <1>3, <1>6, <1>10, <1>12, <1>14, <1>15, <1>16, <1>17, <1>18, CalmWInv

LEMMA SetIs ==
  ASSUME IInv, NEW h \in Slot, NEW t, SetSlot(h, t)
  PROVE  slot'[h] = t /\ \A g \in Slot : g # h => slot'[g] = slot[g]
<1>1. slot' = [slot EXCEPT ![h] = t] /\ slot \in [Slot -> Socket]
  BY DEF SetSlot, IInv, Typed
<1> QED
  BY <1>1

LEMMA ConnectWInv ==
  ASSUME IInv, WInv, Held, NEW w \in Service, NEW id \in Id, Connect(w, id)
  PROVE  WInv'
<1> DEFINE h == HASH_ID(id)
           s == slot[h]
           t == Reserved(s, id)
           r == [op |-> "O", id |-> id]
<1>1. reserve_id(id) /\ SetSlot(h, t) /\ pipe' = Append(pipe, r) /\ Tells(id, "opening")
  BY DEF Connect, Request, Tells
<1>2. UNCHANGED <<ev, call, closing, asked, gone, sent, wire, due>>
  BY DEF Connect, thread
<1>3. /\ h \in Slot /\ told[id] = "nothing" /\ s \in Socket /\ s.type = "INVALID"
      /\ s.high = << >> /\ s.low = << >> /\ s.dw = << >>
  BY <1>1, ReserveFacts
<1>4. r \in Req /\ r.op = "O"
  BY DEF Req
<1> HIDE DEF r
<1>5. t.id = id /\ t.type = "RESERVE" /\ t.high = << >> /\ t.low = << >> /\ t.dw = << >>
  <2> HIDE DEF s
  <2> QED
    BY <1>3 DEF Reserved, Socket
<1>6. ~s.lock
  BY <1>3 DEF Held, Blank
<1>7. PipeCalm(0) /\ SendsStay /\ EventsFewer
  BY <1>1, <1>2, <1>4, TakesPipe, TakesEvent
<1>8. Waiting(s) = << >>
  BY <1>3, EmptyWaiting
<1>9. IInv'
  BY ConnectIInv
<1> HIDE DEF t
<1>10. slot'[h] = t /\ \A g \in Slot : g # h => slot'[g] = slot[g]
  BY <1>1, <1>3, SetIs
<1> HIDE DEF h
<1>11. HASH_ID(id) = h
  BY DEF h
<1>12. /\ slot'[h].id = id /\ slot'[h].type = "RESERVE"
       /\ slot'[h].high = << >> /\ slot'[h].low = << >> /\ slot'[h].dw = << >>
  BY <1>5, <1>10
<1> QED
  BY <1>1, <1>2, <1>3, <1>6, <1>7, <1>8, <1>9, <1>10, <1>11, <1>12, BlankWInv DEF Blank

LEMMA AcceptWInv ==
  ASSUME IInv, IInv', WInv, Held, ev # << >>, ev' = Tail(ev), UNCHANGED <<pipe, call>>, report_accept(Head(ev))
  PROVE  WInv'
<1>1. UNCHANGED <<call, closing, asked, gone, sent, wire, due>>
  BY DEF report_accept
<1>2. PipeCalm(0) /\ SendsStay /\ EventsFewer
  BY TakesPipe, TakesEvent
<1>3. ASSUME NEW id \in Id, reserve_id(id),
             SetSlot(HASH_ID(id), [new_fd(slot[HASH_ID(id)], id) EXCEPT !.type = "PACCEPT"]),
             Report(id, "accepted")
      PROVE  WInv'
  <2> DEFINE h == HASH_ID(id)
             s == slot[h]
             f == new_fd(s, id)
             t == [f EXCEPT !.type = "PACCEPT"]
  <2>1. /\ h \in Slot /\ told[id] = "nothing" /\ s \in Socket /\ Sound(h, s) /\ s.type = "INVALID"
        /\ s.high = << >> /\ s.low = << >> /\ s.dw = << >>
    BY <1>3, ReserveFacts
  <2>2. /\ f \in Socket /\ f.id = id /\ f.tcp = TRUE
        /\ f.high = << >> /\ f.low = << >> /\ f.dw = << >>
    <3>1. s.type \in Blank
      BY <2>1 DEF Blank
    <3> QED
      BY <2>1, <3>1, NewFdFacts
  <2>3. SetSlot(h, t) /\ Tells(id, "accepted")
    BY <1>3 DEF Report, Tells
  <2>4. Waiting(s) = << >>
    BY <2>1, EmptyWaiting
  <2> HIDE DEF f
  <2>5. t.type = "PACCEPT" /\ t.id = id /\ t.tcp = TRUE /\ t.high = << >> /\ t.low = << >> /\ t.dw = << >>
    BY <2>2 DEF Socket
  <2> HIDE DEF t
  <2>6. slot'[h] = t /\ \A g \in Slot : g # h => slot'[g] = slot[g]
    BY <2>1, <2>3, SetIs
  <2>7. ~s.lock
    BY <2>1 DEF Held, Blank
  <2>8. /\ slot'[h].id = id /\ slot'[h].type = "PACCEPT" /\ slot'[h].tcp
        /\ slot'[h].high = << >> /\ slot'[h].low = << >> /\ slot'[h].dw = << >>
    BY <2>5, <2>6
  <2> HIDE DEF h
  <2>9. HASH_ID(id) = h
    BY DEF h
  <2> QED
    BY <1>1, <1>2, <2>1, <2>3, <2>4, <2>6, <2>7, <2>8, <2>9, BlankWInv
<1>4. CASE UNCHANGED <<slot, told>>
  <2>1. Causes'
    BY <1>1, <1>2, TakesCalm
  <2> QED
    BY <1>1, <1>4, <2>1, QuietWInv
<1> QED
  BY <1>3, <1>4 DEF report_accept

(* What the socket thread finds in the pipe. *)
LEMMA TakesCmd ==
  ASSUME IInv, ctrl_cmd
  PROVE  /\ PipeCalm(1) /\ (~IsSend(Head(pipe)) => SendsStay) /\ closing = {}
         /\ UNCHANGED <<call, asked, gone, sent, alloc_id>>
         /\ IInv'
<1>1. pipe # << >> /\ pipe' = Tail(pipe) /\ closing = {} /\ UNCHANGED <<call, asked, gone, sent, alloc_id>>
  BY DEF ctrl_cmd, world
<1> QED
  BY <1>1, TakesPipe, CtrlCmdIInv

LEMMA OpenSocketWInv ==
  ASSUME IInv, WInv, ctrl_cmd, Head(pipe).op = "O", open_socket(Head(pipe))
  PROVE  WInv'
<1> DEFINE r == Head(pipe)
           h == HASH_ID(r.id)
           s == slot[h]
           f == new_fd(s, r.id)
<1>1. /\ pipe[1] = r /\ 1 \in DOMAIN pipe
      /\ r.id \in Id /\ h \in Slot /\ s \in Socket /\ Sound(h, s)
  BY HeadFacts
<1>2. s.type = "RESERVE" /\ s.id = r.id /\ told[r.id] = "opening" /\ s.type \in Blank
  BY <1>1 DEF IInv, Opening, Fresh, Blank
<1>3. PipeCalm(1) /\ SendsStay /\ IInv' /\ UNCHANGED <<call, asked, gone, sent>>
  BY TakesCmd DEF IsSend
<1>4. /\ \/ SetSlot(h, [s EXCEPT !.type = "INVALID"]) /\ Report(r.id, "close")
         \/ SetSlot(h, [f EXCEPT !.watched = TRUE, !.type = "CONNECTED"]) /\ Report(r.id, "open")
         \/ SetSlot(h, [f EXCEPT !.watched = TRUE, !.type = "CONNECTING", !.armed = TRUE]) /\ UNCHANGED told
      /\ UNCHANGED <<ev, closing, wire, due>>
  BY DEF open_socket
<1>5. /\ f \in Socket /\ f.id = r.id /\ f.tcp = TRUE
      /\ f.high = << >> /\ f.low = << >> /\ f.dw = << >>
  BY <1>1, <1>2, NewFdFacts
<1>6. s.high = << >> /\ s.low = << >> /\ s.dw = << >> /\ Waiting(s) = << >>
  <2>1. s.high = << >> /\ s.low = << >> /\ s.dw = << >>
    BY <1>1, <1>2 DEF Sound
  <2> QED
    BY <1>1, <2>1, EmptyWaiting
<1>7. EventsFewer
  BY <1>4, TakesEvent
<1>8. PICK id \in Id : id = r.id /\ HASH_ID(id) = h
  BY <1>1
<1>9. Valid(id) /\ s.type # "HALFCLOSE"
  BY <1>2, <1>8 DEF Valid
<1> HIDE DEF r, h, f
<1>10. ASSUME NEW t, NEW what, SetSlot(h, t), Tells(id, what), t.id = id,
              t.high = << >>, t.low = << >>, t.dw = << >>,
              \/ t.type = "INVALID" /\ what = "close"
              \/ t.type = "CONNECTED" /\ what = "open" /\ t.tcp
              \/ t.type = "CONNECTING" /\ what = "opening" /\ t.tcp
       PROVE  WInv'
  <2>1. slot'[h] = t /\ \A g \in Slot : g # h => slot'[g] = slot[g]
    BY <1>1, <1>10, SetIs
  <2>2. /\ slot'[h].id = id /\ slot'[h].type = t.type /\ slot'[h].tcp = t.tcp
        /\ slot'[h].high = << >> /\ slot'[h].low = << >> /\ slot'[h].dw = << >>
    BY <1>10, <2>1
  <2>3. told[id] \notin {"open", "close"}
    BY <1>2, <1>8
  <2>4. /\ slot'[h].type # "HALFCLOSE" /\ (slot'[h].type \notin Blank => slot'[h].tcp)
        /\ slot'[h].type = "CONNECTING" => what = "opening"
        /\ slot'[h].type = "PACCEPT" => what = "accepted"
        /\ what \in {"opening", "accepted", "open"} <=> slot'[h].type # "INVALID"
    BY <1>10, <2>2 DEF Blank
  <2> QED
    BY <1>1, <1>3, <1>4, <1>6, <1>7, <1>8, <1>9, <1>10, <2>1, <2>2, <2>3, <2>4, BlankWInv
<1>11. CASE SetSlot(h, [s EXCEPT !.type = "INVALID"]) /\ Report(r.id, "close")
  <2> DEFINE t == [s EXCEPT !.type = "INVALID"]
  <2>1. t.id = id /\ t.type = "INVALID" /\ t.high = << >> /\ t.low = << >> /\ t.dw = << >>
    BY <1>1, <1>2, <1>6, <1>8 DEF Socket
  <2>2. SetSlot(h, t) /\ Tells(id, "close")
    BY <1>8, <1>11 DEF Report, Tells
  <2> HIDE DEF t
  <2> QED
    BY <1>10, <2>1, <2>2
<1>12. CASE SetSlot(h, [f EXCEPT !.watched = TRUE, !.type = "CONNECTED"]) /\ Report(r.id, "open")
  <2> DEFINE t == [f EXCEPT !.watched = TRUE, !.type = "CONNECTED"]
  <2>1. t.id = id /\ t.type = "CONNECTED" /\ t.tcp /\ t.high = << >> /\ t.low = << >> /\ t.dw = << >>
    BY <1>5, <1>8 DEF Socket
  <2>2. SetSlot(h, t) /\ Tells(id, "open")
    BY <1>8, <1>12 DEF Report, Tells
  <2> HIDE DEF t
  <2> QED
    BY <1>10, <2>1, <2>2
<1>13. CASE SetSlot(h, [f EXCEPT !.watched = TRUE, !.type = "CONNECTING", !.armed = TRUE]) /\ UNCHANGED told
  <2> DEFINE t == [f EXCEPT !.watched = TRUE, !.type = "CONNECTING", !.armed = TRUE]
  <2>1. t.id = id /\ t.type = "CONNECTING" /\ t.tcp /\ t.high = << >> /\ t.low = << >> /\ t.dw = << >>
    BY <1>5, <1>8 DEF Socket
  <2>2. SetSlot(h, t) /\ Tells(id, "opening")
    BY <1>2, <1>8, <1>13 DEF Tells, IInv, Typed
  <2> HIDE DEF t
  <2> QED
    BY <1>10, <2>1, <2>2
<1> QED
  BY <1>4, <1>11, <1>12, <1>13

(* The socket thread writes what waits for a socket, or gives it up. *)
LEMMA KeepWInv ==
  ASSUME IInv, IInv', WInv, Histories', DuesKept', NEW d \in Id, NEW h \in Slot, HASH_ID(d) = h,
         slot[h].id = d, slot[h].type \notin Blank, \A g \in Slot : g # h => slot'[g] = slot[g],
         slot'[h].id = d, slot'[h].tcp = slot[h].tcp,
         \/ slot'[h].type = "INVALID" /\ Tells(d, "close")
         \/ slot'[h].type \in {slot[h].type, "HALFCLOSE"} /\ told' = told,
         \/ ~slot[h].lock
         \/ slot'[h].high = slot[h].high /\ slot'[h].low = slot[h].low
         \/ slot'[h].high = << >> /\ slot'[h].low = << >>,
         \A i \in 1 .. Len(slot'[h].low) : \E j \in 1 .. Len(slot[h].low) : slot'[h].low[i] = slot[h].low[j],
         \A id \in Id : id # d => wire'[id] = wire[id],
         Cut(Stream(d), Stream(d)'),
         ~Spared(d)' /\ slot'[h].type # "INVALID" => Stream(d)' = Stream(d),
         NEW c \in Nat, PipeCalm(c), SendsStay, EventsFewer, UNCHANGED <<call, asked, gone, sent>>
  PROVE  WInv'
<1>1. /\ SendsFewer(c) /\ SparedStay /\ CallsFewer /\ CallsStay
      /\ Causes' /\ DuesAsked'
  BY TakesCalm
<1>2. Histories /\ Placed /\ InOrder /\ Streams /\ Kept /\ Alone
  BY DEF WInv
<1>3. \A id \in Id : id # d => Stream(id)' = Stream(id)
  BY StreamStep
<1>4. \A id \in Id : Stream(id) \in Seq(Byte)
  BY <1>2, StreamsAre
<1>5. StreamsCut
  BY <1>3, <1>4, CutSelf DEF StreamsCut
<1>6. \A id \in Id : HASH_ID(id) \in Slot
  BY Constants
<1>7. \A g \in Slot : slot[g].type # "INVALID" => slot[g].id \in Id /\ HASH_ID(slot[g].id) = g
  BY DEF IInv, Sockets, Sound
<1>8. Valid(d) /\ told[d] # "nothing"
  <2>1. Valid(d)
    BY DEF Valid, Blank
  <2> QED
    BY <2>1 DEF WInv, Phases
<1>9. \A id \in Id : Valid(id)' <=> IF id = d THEN slot'[h].type # "INVALID" ELSE Valid(id)
  <2> SUFFICES ASSUME NEW id \in Id
               PROVE  (slot'[HASH_ID(id)].type # "INVALID" /\ slot'[HASH_ID(id)].id = id)
                      <=> IF id = d THEN slot'[h].type # "INVALID" ELSE Valid(id)
    BY DEF Valid, HASH_ID
  <2>1. CASE HASH_ID(id) = h
    BY <2>1 DEF Valid
  <2>2. CASE HASH_ID(id) # h
    BY <1>6, <2>2 DEF Valid
  <2> QED
    BY <2>1, <2>2
<1>10. /\ \A id \in Id : id # d => told'[id] = told[id]
       /\ slot'[h].type = "INVALID" => told'[d] = "close"
       /\ slot'[h].type # "INVALID" => told'[d] = told[d]
       /\ TellsOn
  <2>1. CASE slot'[h].type = "INVALID" /\ Tells(d, "close")
    BY <2>1, TellsIs
  <2>2. CASE slot'[h].type \in {slot[h].type, "HALFCLOSE"} /\ told' = told
    BY <2>2 DEF TellsOn, Blank
  <2> QED
    BY <2>1, <2>2
<1>11. Phases'
  <2>1. \A g \in Slot : slot'[g].type \notin Blank => slot'[g].tcp
    BY DEF WInv, Phases
  <2>2. \A g \in Slot : g # h /\ slot[g].type # "INVALID" => slot[g].id # d
    BY <1>7
  <2>3. \A g \in Slot : slot'[g].type = "CONNECTING" => told'[slot'[g].id] = "opening"
    BY <1>7, <1>10, <2>2 DEF WInv, Phases
  <2>4. \A g \in Slot : slot'[g].type = "PACCEPT" => told'[slot'[g].id] = "accepted"
    BY <1>7, <1>10, <2>2 DEF WInv, Phases
  <2>5. \A id \in Id : told'[id] \in {"opening", "accepted", "open"} <=> Valid(id)'
    BY <1>8, <1>9, <1>10 DEF WInv, Phases
  <2> QED
    BY <2>1, <2>3, <2>4, <2>5 DEF Phases, Blank
<1>12. ASSUME NEW w \in Service PROVE AloneFor(w)'
  <2>1. ASSUME call[w].at \in {"locked", "sure"}
        PROVE  LET s == slot[HASH_ID(call[w].m.id)]
                   t == slot'[HASH_ID(call[w].m.id)]
               IN  /\ t.id = s.id
                   /\ call[w].at = "sure" => (t.high = s.high /\ t.low = s.low) \/ (t.high = << >> /\ t.low = << >>)
    <3>1. CASE HASH_ID(call[w].m.id) = h
      <4>1. call[w].at = "sure" => slot[h].lock
        BY <3>1 DEF IInv, Locks, HoldsLock
      <4> QED
        BY <3>1, <4>1
    <3>2. CASE HASH_ID(call[w].m.id) # h
      <4>1. HASH_ID(call[w].m.id) \in Slot
        BY <2>1, CallFacts DEF IInv
      <4> QED
        BY <3>2, <4>1
    <3> QED
      BY <3>1, <3>2
  <2> QED
    BY ZenonT(60), <1>1, <1>2, <2>1, AloneForCalm
<1>13. Alone'
  BY <1>12 DEF Alone
<1>14. \A g \in Slot : \A i \in 1 .. Len(slot'[g].low) : slot'[g].low[i].m.op = "P"
  BY SMTT(60), <1>2 DEF Placed
<1>15. Placed'
  BY <1>1, <1>2, <1>5, <1>10, <1>14, PlacedCalm
<1>16. InOrder'
  BY <1>1, <1>2, <1>5, InOrderCalm
<1>17. Streams'
  BY <1>1, <1>2, <1>3, <1>5, <1>8, <1>9, StreamsCalm
<1>18. Kept'
  <2>1. ASSUME NEW m \in sent, Valid(m.id)', slot'[HASH_ID(m.id)].type # "HALFCLOSE", ~Spared(m.id)'
        PROVE  Valid(m.id) /\ slot[HASH_ID(m.id)].type # "HALFCLOSE" /\ Stream(m.id)' = Stream(m.id)
    <3>1. m.id \in Id
      BY DEF IInv, Typed, Message
    <3>2. CASE m.id = d
      <4>1. slot'[h].type # "INVALID" /\ slot'[h].type # "HALFCLOSE"
        BY <1>9, <2>1, <3>2
      <4>2. slot'[h].type = slot[h].type
        BY <4>1
      <4> QED
        BY <1>8, <2>1, <3>2, <4>1, <4>2
    <3>3. CASE m.id # d
      <4>1. Valid(m.id)
        BY <1>9, <2>1, <3>1, <3>3
      <4>2. HASH_ID(m.id) # h
        BY <3>3, <4>1 DEF Valid
      <4> QED
        BY <1>3, <1>6, <2>1, <3>1, <3>3, <4>1, <4>2
    <3> QED
      BY <3>2, <3>3
  <2> QED
    BY <1>1, <1>2, <2>1, KeptCalm
<1> QED
  BY <1>1, <1>11, <1>13, <1>15, <1>16, <1>17, <1>18 DEF WInv

(* What is due, when one socket is written or given up. *)
LEMMA DuesKeptStep ==
  ASSUME IInv, IInv', WInv, Histories', SparedStay, NEW d \in Id,
         \A id \in Id : id # d => /\ wire'[id] = wire[id] /\ Stream(id)' = Stream(id) /\ due'[id] = due[id]
                                  /\ (id \in closing' => id \in closing) /\ told'[id] = told[id],
         ~Spared(d)' => \A m \in due'[d] : Has(Stream(d), m),
         ~Spared(d)' => \/ Stream(d)' = Stream(d) \/ wire'[d] = Stream(d)
                        \/ \A m \in due'[d] : Has(wire'[d], m),
         ~Spared(d)' /\ (d \in closing' \/ told'[d] = "close") =>
           wire'[d] = Stream(d) \/ \A m \in due'[d] : Has(wire'[d], m)
  PROVE  DuesKept'
<1>1. Histories
  BY DEF WInv
<1>2. ASSUME NEW id \in Id, ~Spared(id)', NEW m \in due'[id] PROVE Has(Stream(id)', m)
  <2>1. ~Spared(id)
    BY <1>2, SparedOn
  <2>2. CASE id # d
    BY <1>2, <2>1, <2>2 DEF WInv, DuesKept
  <2>3. CASE id = d
    <3>1. Has(Stream(d), m)
      BY <1>2, <2>3
    <3>2. Has(Stream(d)', m) \/ Has(wire'[d], m)
      BY <1>2, <2>3, <3>1
    <3> QED
      BY <1>1, <2>3, <3>2, StreamsAre, CutHas
  <2> QED
    BY <2>2, <2>3
<1>3. ASSUME NEW id \in Id, ~Spared(id)', id \in closing' \/ told'[id] = "close", NEW m \in due'[id]
      PROVE  Has(wire'[id], m)
  <2>1. ~Spared(id)
    BY <1>3, SparedOn
  <2>2. CASE id # d
    BY <1>3, <2>1, <2>2 DEF WInv, DuesKept
  <2>3. CASE id = d
    BY <1>3, <2>3
  <2> QED
    BY <2>2, <2>3
<1> QED
  BY <1>2, <1>3 DEF DuesKept, Has

(* A write takes the first bytes that wait. *)
LEMMA Written ==
  ASSUME IInv, WInv, NEW d \in Id, NEW h \in Slot, HASH_ID(d) = h, slot[h].id = d,
         NEW k \in 0 .. Len(Waiting(slot[h])), Out(slot[h], k)
  PROVE  /\ wire' \in [Id -> Seq(Byte)] /\ \A id \in Id : id # d => wire'[id] = wire[id]
         /\ wire'[d] = wire[d] \o SubSeq(Waiting(slot[h]), 1, k)
         /\ Stream(d) = wire[d] \o Waiting(slot[h]) /\ Stream(d) \in Seq(Byte)
         /\ Cut(Stream(d), wire'[d])
         /\ k = Len(Waiting(slot[h])) => wire'[d] = Stream(d)
         /\ k = 0 => wire'[d] = wire[d]
<1> DEFINE x == wire[d]
           v == Waiting(slot[h])
           a == SubSeq(v, 1, k)
           u == SubSeq(v, k + 1, Len(v))
<1>1. v \in Seq(Byte) /\ x \in Seq(Byte) /\ wire \in [Id -> Seq(Byte)]
  BY WaitingSeq DEF IInv, Typed, WInv, Histories
<1>2. Stream(d) = x \o v
  BY DEF Stream, StreamIn
<1>3. wire' = [wire EXCEPT ![d] = x \o a]
  BY DEF Out
<1> HIDE DEF x, v
<1>4. Len(v) \in Nat /\ k \in 0 .. Len(v) /\ k \in Nat
  <2>1. Len(v) \in Nat
    BY <1>1, BytesOf
  <2> QED
    BY <2>1 DEF v
<1>5. /\ u \in Seq(Byte) /\ Len(u) = Len(v) - (k + 1) + 1
      /\ \A i \in 1 .. Len(v) - (k + 1) + 1 : u[i] = v[(k + 1) + i - 1]
  <2>1. k + 1 \in Nat \ {0} /\ k + 1 <= Len(v) + 1 /\ Len(v) <= Len(v)
    BY <1>4
  <2> QED
    BY <1>1, <1>4, <2>1, SubAt
<1> HIDE DEF u
<1>6. Len(u) = Len(v) - k /\ \A i \in 1 .. Len(u) : u[i] = v[k + i]
  <2>1. Len(u) = Len(v) - k
    BY <1>4, <1>5
  <2>2. ASSUME NEW i \in 1 .. Len(u) PROVE u[i] = v[k + i]
    <3>1. i \in 1 .. Len(v) - (k + 1) + 1 /\ (k + 1) + i - 1 = k + i
      BY <1>4, <2>1
    <3> QED
      BY <1>5, <3>1
  <2> QED
    BY <2>1, <2>2
<1>7. a \in Seq(Byte) /\ x \o a \in Seq(Byte) /\ (x \o a) \o u = x \o v
  BY ZenonT(60), <1>1, <1>4, <1>5, <1>6, Shifts
<1>8. Cut(x \o v, x \o a)
  BY <1>5, <1>7, CutFirst
<1>9. x \o v \in Seq(Byte)
  BY <1>1, CatSeq
<1>10. ASSUME k = Len(v) PROVE x \o a = x \o v
  <2>1. Len(u) = 0
    BY <1>4, <1>6, <1>10
  <2>2. u = << >>
    BY <1>5, <2>1, EmptySeq
  <2>3. (x \o a) \o << >> = x \o a
    BY <1>7, ConcatEmptySeq
  <2> QED
    BY <1>7, <2>2, <2>3
<1>11. ASSUME k = 0 PROVE x \o a = x
  <2>1. Len(a) = k - 1 + 1
    BY <1>1, <1>4, SubAt
  <2>2. Len(a) = 0
    BY <1>11, <2>1
  <2>3. a = << >> /\ x \o << >> = x
    BY <1>1, <1>7, <2>2, EmptySeq, ConcatEmptySeq
  <2> QED
    BY <2>3
<1> HIDE DEF a
<1>12. wire' \in [Id -> Seq(Byte)] /\ wire'[d] = x \o a /\ \A id \in Id : id # d => wire'[id] = wire[id]
  BY <1>1, <1>3, <1>7
<1> QED
  BY <1>2, <1>8, <1>9, <1>10, <1>11, <1>12 DEF x, v, a

(* The rest stays in the lists. *)
LEMMA WrittenRest ==
  ASSUME IInv, IInv', WInv, NEW d \in Id, NEW h \in Slot, HASH_ID(d) = h, slot[h].id = d, slot'[h].id = d,
         \A g \in Slot : g # h => slot'[g] = slot[g],
         NEW k \in 0 .. Len(Waiting(slot[h])), Out(slot[h], k),
         Len(Waiting(slot'[h])) = Len(Waiting(slot[h])) - k,
         \A i \in 1 .. Len(Waiting(slot'[h])) : Waiting(slot'[h])[i] = Waiting(slot[h])[k + i]
  PROVE  Stream(d)' = Stream(d)
<1> DEFINE x == wire[d]
           v == Waiting(slot[h])
           u == Waiting(slot'[h])
<1>1. /\ \A id \in Id : id # d => wire'[id] = wire[id]
      /\ wire'[d] = x \o SubSeq(v, 1, k)
      /\ Stream(d) = x \o v
  BY Written
<1>2. slot' \in [Slot -> Socket]
  BY DEF IInv, Typed, Slot, Socket, SockType, Byte, Message, Id
<1>3. v \in Seq(Byte) /\ u \in Seq(Byte) /\ x \in Seq(Byte)
  BY <1>2, WaitingSeq DEF IInv, Typed, WInv, Histories
<1>4. Stream(d)' = wire'[d] \o u
  BY <1>1, StreamStep
<1>5. k \in 0 .. Len(v) /\ Len(u) = Len(v) - k /\ \A i \in 1 .. Len(u) : u[i] = v[k + i]
  OBVIOUS
<1> HIDE DEF x, u, v
<1>6. (x \o SubSeq(v, 1, k)) \o u = x \o v
  BY ZenonT(60), <1>3, <1>5, Shifts
<1> QED
  BY <1>1, <1>4, <1>6

(* Nothing stays in the lists. *)
LEMMA WrittenNone ==
  ASSUME IInv, IInv', WInv, NEW d \in Id, NEW h \in Slot, HASH_ID(d) = h, slot[h].id = d, slot'[h].id = d,
         \A g \in Slot : g # h => slot'[g] = slot[g],
         NEW k \in 0 .. Len(Waiting(slot[h])), Out(slot[h], k), Waiting(slot'[h]) = << >>
  PROVE  Stream(d)' = wire'[d] /\ Cut(Stream(d), Stream(d)')
<1>1. /\ \A id \in Id : id # d => wire'[id] = wire[id]
      /\ wire'[d] \in Seq(Byte) /\ Cut(Stream(d), wire'[d])
  BY Written
<1>2. Stream(d)' = wire'[d] \o << >>
  BY <1>1, StreamStep
<1>3. wire'[d] \o << >> = wire'[d]
  BY <1>1, ConcatEmptySeq
<1> QED
  BY <1>1, <1>2, <1>3

(* Without a write. *)
LEMMA WrittenNot ==
  ASSUME IInv, WInv, NEW h \in Slot, slot[h].id \in Id, wire' = wire
  PROVE  Out(slot[h], 0) /\ 0 \in 0 .. Len(Waiting(slot[h]))
<1> DEFINE x == wire[slot[h].id]
           v == Waiting(slot[h])
<1>1. v \in Seq(Byte) /\ x \in Seq(Byte) /\ wire \in [Id -> Seq(Byte)]
  BY WaitingSeq DEF IInv, Typed, WInv, Histories
<1>2. Len(v) \in Nat
  BY <1>1, BytesOf
<1>3. SubSeq(v, 1, 0) \in Seq(Byte) /\ Len(SubSeq(v, 1, 0)) = 0 - 1 + 1
  BY <1>1, <1>2, SubAt
<1>4. SubSeq(v, 1, 0) = << >>
  <2>1. Len(SubSeq(v, 1, 0)) = 0
    BY <1>3
  <2> QED
    BY <1>3, <2>1, EmptySeq
<1>5. x \o << >> = x
  BY <1>1, ConcatEmptySeq
<1> HIDE DEF x
<1>6. wire' = [wire EXCEPT ![slot[h].id] = x \o SubSeq(v, 1, 0)]
  BY <1>1, <1>4, <1>5 DEF x
<1>7. Out(slot[h], 0)
  BY <1>6, Zenon DEF Out, x
<1>8. 0 \in 0 .. Len(v)
  BY <1>2
<1> QED
  BY <1>7, <1>8

(* What is due of one socket may change, to what has been given to it. *)
DueStep(d) ==
  /\ due' \in [Id -> SUBSET Message] /\ \A id \in Id : id # d => due'[id] = due[id]
  /\ ~Spared(d)' => \A m \in due'[d] : Has(Stream(d), m)

LEMMA DueSame ==
  ASSUME WInv, due' = due, SparedStay, NEW d \in Id
  PROVE  DueStep(d)
<1>1. due \in [Id -> SUBSET Message]
  BY DEF WInv, Histories
<1>2. ~Spared(d)' => ~Spared(d)
  BY SparedOn
<1> QED
  BY <1>1, <1>2 DEF DueStep, WInv, DuesKept

LEMMA HistoriesStep ==
  ASSUME wire' \in [Id -> Seq(Byte)], due' \in [Id -> SUBSET Message]
  PROVE  Histories'
  BY DEF Histories, Id, Byte, Message

(* A socket is closed. *)
LEMMA ClosedWInv ==
  ASSUME IInv, IInv', WInv, NEW d \in Id, NEW h \in Slot, HASH_ID(d) = h, slot[h].id = d, slot[h].type \notin Blank,
         NEW k \in 0 .. Len(Waiting(slot[h])), Out(slot[h], k), SetSlot(h, Closed(slot[h])), Tells(d, "close"),
         closing' \subseteq closing, DueStep(d),
         ~Spared(d)' => k = Len(Waiting(slot[h])) \/ \A m \in due'[d] : Has(wire'[d], m),
         NEW c \in Nat, PipeCalm(c), SendsStay, EventsFewer, UNCHANGED <<call, asked, gone, sent>>
  PROVE  WInv'
<1>1. slot[h] \in Socket /\ Sound(h, slot[h])
  BY DEF IInv, Typed, Sockets
<1>2. /\ slot'[h] = Closed(slot[h]) /\ \A g \in Slot : g # h => slot'[g] = slot[g]
  BY SetIs
<1>3. Closed(slot[h]) \in Socket /\ Keeps(slot[h], Closed(slot[h])) /\ Closed(slot[h]).type = "INVALID"
  BY <1>1, FreedFacts
<1>4. Closed(slot[h]).high = << >> /\ Closed(slot[h]).low = << >> /\ Closed(slot[h]).dw = << >>
  BY <1>1 DEF Closed, Freed, Socket
<1>5. /\ slot'[h] \in Socket /\ slot'[h].id = d /\ slot'[h].tcp = slot[h].tcp /\ slot'[h].type = "INVALID"
      /\ slot'[h].high = << >> /\ slot'[h].low = << >> /\ slot'[h].dw = << >>
  BY <1>2, <1>3, <1>4 DEF Keeps
<1>6. Waiting(slot'[h]) = << >>
  BY <1>5, EmptyWaiting
<1>7. /\ wire' \in [Id -> Seq(Byte)] /\ \A id \in Id : id # d => wire'[id] = wire[id]
      /\ Cut(Stream(d), wire'[d])
      /\ k = Len(Waiting(slot[h])) => wire'[d] = Stream(d)
  BY ZenonT(60), Written
<1>8. Stream(d)' = wire'[d] /\ Cut(Stream(d), Stream(d)')
  BY <1>2, <1>5, <1>6, WrittenNone
<1>9. Histories'
  BY <1>7, HistoriesStep DEF DueStep
<1>10. \A id \in Id : id # d => Stream(id)' = Stream(id)
  BY <1>2, <1>5, <1>7, StreamStep
<1>11. /\ told'[d] = "close" /\ \A id \in Id : id # d => told'[id] = told[id]
  BY TellsIs
<1>12. SparedStay
  BY DEF SparedStay
<1>13. DuesKept'
  <2>1. \A id \in Id : id # d => /\ wire'[id] = wire[id] /\ Stream(id)' = Stream(id) /\ due'[id] = due[id]
                                 /\ (id \in closing' => id \in closing) /\ told'[id] = told[id]
    BY <1>7, <1>10, <1>11 DEF DueStep
  <2>2. ~Spared(d)' => \A m \in due'[d] : Has(Stream(d), m)
    BY DEF DueStep
  <2>3. ~Spared(d)' => wire'[d] = Stream(d) \/ \A m \in due'[d] : Has(wire'[d], m)
    BY <1>7
  <2> QED
    BY <1>9, <1>12, <2>1, <2>2, <2>3, DuesKeptStep
<1>14. \A i \in 1 .. Len(slot'[h].low) : \E j \in 1 .. Len(slot[h].low) : slot'[h].low[i] = slot[h].low[j]
  <2>1. Len(<< >>) = 0 /\ 1 .. 0 = {}
    OBVIOUS
  <2> QED
    BY <1>5, <2>1
<1> QED
  BY <1>2, <1>5, <1>7, <1>8, <1>9, <1>13, <1>14, KeepWInv

(* What can be is written; the rest stays in the lists. *)
LEMMA WriteWInv ==
  ASSUME IInv, IInv', WInv, NEW d \in Id, NEW h \in Slot, HASH_ID(d) = h, slot[h].id = d, slot[h].type \notin Blank,
         NEW k \in 0 .. Len(Waiting(slot[h])), Out(slot[h], k),
         \A g \in Slot : g # h => slot'[g] = slot[g],
         slot'[h].id = d, slot'[h].tcp = slot[h].tcp, slot'[h].type \in {slot[h].type, "HALFCLOSE"},
         ~slot[h].lock \/ (slot'[h].high = slot[h].high /\ slot'[h].low = slot[h].low),
         \A i \in 1 .. Len(slot'[h].low) : \E j \in 1 .. Len(slot[h].low) : slot'[h].low[i] = slot[h].low[j],
         Len(Waiting(slot'[h])) = Len(Waiting(slot[h])) - k,
         \A i \in 1 .. Len(Waiting(slot'[h])) : Waiting(slot'[h])[i] = Waiting(slot[h])[k + i],
         told' = told, closing' = {}, closing = {}, DueStep(d),
         NEW c \in Nat, PipeCalm(c), SendsStay, EventsFewer, UNCHANGED <<call, asked, gone, sent>>
  PROVE  WInv'
<1>1. /\ wire' \in [Id -> Seq(Byte)] /\ \A id \in Id : id # d => wire'[id] = wire[id]
      /\ Stream(d) \in Seq(Byte)
  BY Written
<1>2. Stream(d)' = Stream(d) /\ Cut(Stream(d), Stream(d)')
  <2>1. Stream(d)' = Stream(d)
    BY WrittenRest
  <2> QED
    BY <1>1, <2>1, CutSelf
<1>3. Histories'
  BY <1>1, HistoriesStep DEF DueStep
<1>4. \A id \in Id : id # d => Stream(id)' = Stream(id)
  BY <1>1, StreamStep
<1>5. SparedStay
  BY DEF SparedStay
<1>6. told[d] # "close"
  <2>1. Valid(d)
    BY DEF Valid, Blank
  <2> QED
    BY <2>1 DEF WInv, Phases
<1>7. DuesKept'
  <2>1. \A id \in Id : id # d => /\ wire'[id] = wire[id] /\ Stream(id)' = Stream(id) /\ due'[id] = due[id]
                                 /\ (id \in closing' => id \in closing) /\ told'[id] = told[id]
    BY <1>1, <1>4 DEF DueStep
  <2>2. ~Spared(d)' => \A m \in due'[d] : Has(Stream(d), m)
    BY DEF DueStep
  <2> QED
    BY <1>2, <1>3, <1>5, <1>6, <2>1, <2>2, DuesKeptStep
<1> QED
  BY <1>1, <1>2, <1>3, <1>7, KeepWInv

(* The lists of a socket are thrown away, and it waits to be closed. *)
LEMMA FreedWInv ==
  ASSUME IInv, IInv', WInv, NEW d \in Id, NEW h \in Slot, HASH_ID(d) = h, slot[h].id = d, slot[h].type \notin Blank,
         NEW k \in 0 .. Len(Waiting(slot[h])), Out(slot[h], k),
         \A g \in Slot : g # h => slot'[g] = slot[g],
         slot'[h].id = d, slot'[h].tcp = slot[h].tcp, slot'[h].type = slot[h].type,
         slot'[h].high = << >>, slot'[h].low = << >>,
         slot'[h].dw = << >> \/ (k = 0 /\ slot'[h].dw = slot[h].dw),
         ~Spared(d)' => slot'[h].dw = << >> /\ k = Len(Waiting(slot[h])),
         told' = told, closing' = {d}, closing = {}, DueStep(d),
         NEW c \in Nat, PipeCalm(c), SendsStay, EventsFewer, UNCHANGED <<call, asked, gone, sent>>
  PROVE  WInv'
<1>1. /\ wire' \in [Id -> Seq(Byte)] /\ \A id \in Id : id # d => wire'[id] = wire[id]
      /\ Stream(d) = wire[d] \o Waiting(slot[h])
      /\ Cut(Stream(d), wire'[d])
      /\ k = Len(Waiting(slot[h])) => wire'[d] = Stream(d)
      /\ k = 0 => wire'[d] = wire[d]
  BY ZenonT(60), Written
<1>2. slot[h] \in Socket /\ slot'[h] \in Socket
  <2>1. slot' \in [Slot -> Socket]
    BY DEF IInv, Typed, Slot, Socket, SockType, Byte, Message, Id
  <2> QED
    BY <2>1 DEF IInv, Typed
<1>3. Waiting(slot'[h]) = slot'[h].dw
  BY <1>2, EmptyWaiting
<1>4. Stream(d)' = wire'[d] \o Waiting(slot'[h]) /\ \A id \in Id : id # d => Stream(id)' = Stream(id)
  BY <1>1, StreamStep
<1>5. slot'[h].dw = << >> => Stream(d)' = wire'[d] /\ Cut(Stream(d), Stream(d)')
  BY <1>3, WrittenNone
<1>6. Cut(Stream(d), Stream(d)')
  <2>1. CASE slot'[h].dw = << >>
    BY <1>5, <2>1
  <2>2. CASE k = 0 /\ slot'[h].dw = slot[h].dw
    <3> DEFINE x == wire[d]
               e == slot[h].dw
               hs == slot[h].high
               ls == slot[h].low
    <3>1. x \in Seq(Byte) /\ e \in Seq(Byte) /\ hs \in Seq(Byte) /\ ls \in Seq(Byte)
      BY <1>2, WaitingSeq DEF WInv, Histories
    <3>2. Stream(d) = x \o ((e \o hs) \o ls) /\ Stream(d)' = x \o e
      BY <1>1, <1>3, <1>4, <2>2 DEF Waiting
    <3> HIDE DEF x, e, hs, ls
    <3>3. << >> \in Seq(Byte) /\ << >> \o ls = ls /\ hs \o ls \in Seq(Byte) /\ x \o e \in Seq(Byte)
      BY <3>1, ConcatEmptySeq, EmptySeq, CatSeq
    <3>4. Assoc3(e, hs, ls) /\ Assoc3(x, e, hs \o ls)
      BY <3>1, <3>3, AllAssoc, Zenon
    <3>5. x \o ((e \o hs) \o ls) = (x \o e) \o (hs \o ls)
      BY <3>4 DEF Assoc3
    <3>6. Cut((x \o e) \o (hs \o ls), x \o e)
      BY <3>3, CutFirst
    <3> QED
      BY <3>2, <3>5, <3>6
  <2> QED
    BY <2>1, <2>2
<1>7. Histories'
  BY <1>1, HistoriesStep DEF DueStep
<1>8. SparedStay
  BY DEF SparedStay
<1>9. ~Spared(d)' => wire'[d] = Stream(d) /\ Stream(d)' = Stream(d)
  BY <1>1, <1>5
<1>10. DuesKept'
  <2>1. \A id \in Id : id # d => /\ wire'[id] = wire[id] /\ Stream(id)' = Stream(id) /\ due'[id] = due[id]
                                 /\ (id \in closing' => id \in closing) /\ told'[id] = told[id]
    BY <1>1, <1>4 DEF DueStep
  <2>2. ~Spared(d)' => \A m \in due'[d] : Has(Stream(d), m)
    BY DEF DueStep
  <2> QED
    BY <1>7, <1>8, <1>9, <2>1, <2>2, DuesKeptStep
<1>11. \A i \in 1 .. Len(slot'[h].low) : \E j \in 1 .. Len(slot[h].low) : slot'[h].low[i] = slot[h].low[j]
  <2>1. Len(<< >>) = 0 /\ 1 .. 0 = {}
    OBVIOUS
  <2> QED
    BY <2>1
<1> QED
  BY ZenonT(60), <1>1, <1>6, <1>7, <1>9, <1>10, <1>11, KeepWInv

LEMMA ForceClosedWInv ==
  ASSUME IInv, WInv, ForceClosed
  PROVE  WInv'
<1>1. PICK d \in closing : /\ SetSlot(HASH_ID(d), Closed(slot[HASH_ID(d)])) /\ Report(d, "close")
                           /\ closing' = {} /\ ev' = clear_closed_event(HASH_ID(d))
                           /\ UNCHANGED <<pipe, call, asked, gone, sent, wire, due>>
  BY DEF ForceClosed, world
<1>2. PICK h \in Slot : h = HASH_ID(d) /\ d \in Id /\ slot[h].id = d /\ slot[h].type \notin Blank
  <2>1. d \in Id
    BY DEF IInv, Typed
  <2> QED
    BY <2>1, Constants DEF IInv, Closing
<1>3. SetSlot(h, Closed(slot[h])) /\ Tells(d, "close") /\ closing' \subseteq closing
  BY <1>1, <1>2 DEF Report, Tells
<1>4. PipeCalm(0) /\ SendsStay /\ EventsFewer
  BY <1>1, TakesPipe, TakesEvent
<1>5. Out(slot[h], 0) /\ 0 \in 0 .. Len(Waiting(slot[h]))
  BY <1>1, <1>2, WrittenNot
<1>6. SparedStay
  BY <1>1 DEF SparedStay
<1>7. DueStep(d)
  BY <1>1, <1>2, <1>6, DueSame
<1>8. ~Spared(d)' => \A m \in due'[d] : Has(wire'[d], m)
  <2>1. ~Spared(d)' => ~Spared(d)
    BY <1>6, SparedOn
  <2> QED
    BY <1>1, <1>2, <2>1 DEF WInv, DuesKept
<1>9. IInv'
  BY ForceClosedIInv
<1> QED
  BY <1>1, <1>2, <1>3, <1>4, <1>5, <1>7, <1>8, <1>9, ClosedWInv

(* The services hear again that a socket is open or closed. *)
LEMMA TellWInv ==
  ASSUME IInv, IInv', WInv, slot' = slot, NEW id \in Id,
         \/ told' = told
         \/ Valid(id) /\ slot[HASH_ID(id)].type = "CONNECTED" /\ Tells(id, "open"),
         UNCHANGED <<closing, wire, due, call, asked, gone, sent>>,
         NEW c \in Nat, PipeCalm(c), SendsStay, EventsFewer
  PROVE  WInv'
<1>1. /\ SendsFewer(c) /\ SparedStay /\ CallsFewer /\ CallsStay
      /\ Causes' /\ DuesAsked'
  BY TakesCalm
<1>2. Histories /\ Histories' /\ Placed /\ Alone
  BY DEF WInv, Histories
<1>3. \A d \in Id : Stream(d)' = Stream(d) /\ (Valid(d)' <=> Valid(d))
  BY DEF Stream, Valid
<1>4. /\ TellsOn
      /\ \A d \in Id : told'[d] = told[d] \/ (d = id /\ told'[d] = "open" /\ Valid(id) /\ slot[HASH_ID(id)].type = "CONNECTED")
  <2>1. CASE told' = told
    BY <2>1 DEF TellsOn
  <2>2. CASE Valid(id) /\ slot[HASH_ID(id)].type = "CONNECTED" /\ Tells(id, "open")
    <3>1. /\ told'[id] = "open" /\ \A d \in Id : d # id => told'[d] = told[d]
          /\ TellsOn
      BY <2>2, TellsIs
    <3> QED
      BY <2>2, <3>1
  <2> QED
    BY <2>1, <2>2
<1>5. Phases'
  <2>1. \A g \in Slot : slot[g].type # "INVALID" => slot[g].id \in Id /\ HASH_ID(slot[g].id) = g
    BY DEF IInv, Sockets, Sound
  <2>2. \A g \in Slot : slot'[g].type \notin Blank => slot'[g].tcp
    BY DEF WInv, Phases
  <2>3. \A g \in Slot : slot'[g].type = "CONNECTING" => told'[slot'[g].id] = "opening"
    BY <1>4, <2>1 DEF WInv, Phases
  <2>4. \A g \in Slot : slot'[g].type = "PACCEPT" => told'[slot'[g].id] = "accepted"
    BY <1>4, <2>1 DEF WInv, Phases
  <2>5. \A d \in Id : told'[d] \in {"opening", "accepted", "open"} <=> Valid(d)'
    BY <1>3, <1>4 DEF WInv, Phases
  <2> QED
    BY <2>2, <2>3, <2>4, <2>5 DEF Phases, Blank
<1>6. ASSUME NEW w \in Service PROVE AloneFor(w)'
  BY <1>1, <1>2, AloneForCalm
<1>7. Alone'
  BY <1>6 DEF Alone
<1>8. \A d \in Id : Stream(d) \in Seq(Byte) /\ wire[d] \in Seq(Byte)
  BY <1>2, StreamsAre
<1>9. StreamsCut /\ \A d \in Id : Cut(wire'[d], wire[d])
  BY <1>3, <1>8, CutSelf DEF StreamsCut
<1>10. \A g \in Slot : \A i \in 1 .. Len(slot'[g].low) : slot'[g].low[i].m.op = "P"
  BY <1>2 DEF Placed
<1>11. \A m \in sent : m.id \in Id
  BY DEF IInv, Typed, Message
<1>12. \A m \in sent : Valid(m.id)' /\ slot'[HASH_ID(m.id)].type # "HALFCLOSE" /\ ~Spared(m.id)' =>
           Valid(m.id) /\ slot[HASH_ID(m.id)].type # "HALFCLOSE" /\ Stream(m.id)' = Stream(m.id)
  BY <1>3, <1>11
<1>13. \A d \in Id : told'[d] = "close" => told[d] = "close"
  BY <1>4
<1> QED
  BY <1>1, <1>2, <1>3, <1>4, <1>5, <1>7, <1>9, <1>10, <1>12, <1>13, CalmWInv

LEMMA NoWaiting ==
  ASSUME NEW s \in Socket, Waiting(s) = << >>
  PROVE  s.dw = << >> /\ s.high = << >> /\ s.low = << >> /\ Len(Waiting(s)) = 0
<1>1. /\ Len(s.dw) \in Nat /\ Len(s.high) \in Nat /\ Len(s.low) \in Nat
      /\ Len(Waiting(s)) = Len(s.dw) + Len(s.high) + Len(s.low)
  BY WaitingAt
<1>2. Len(Waiting(s)) = 0
  OBVIOUS
<1>3. Len(s.dw) = 0 /\ Len(s.high) = 0 /\ Len(s.low) = 0
  <2> DEFINE a == Len(s.dw)
             b == Len(s.high)
             c == Len(s.low)
             v == Len(Waiting(s))
  <2>1. a \in Nat /\ b \in Nat /\ c \in Nat /\ v = a + b + c /\ v = 0
    BY <1>1, <1>2
  <2> HIDE DEF a, b, c, v
  <2>2. a = 0 /\ b = 0 /\ c = 0
    BY <2>1
  <2> QED
    BY <2>2 DEF a, b, c
<1>4. s.dw \in Seq(Byte) /\ s.high \in Seq(Byte) /\ s.low \in Seq(Byte)
  BY WaitingSeq
<1> QED
  BY <1>2, <1>3, <1>4, EmptySeq

LEMMA FreedIs ==
  ASSUME NEW h, NEW s \in Socket, Sound(h, s)
  PROVE  LET t == Freed(s) IN /\ t.high = << >> /\ t.low = << >> /\ t.dw = s.dw
                              /\ t.id = s.id /\ t.tcp = s.tcp /\ t.type = s.type
  BY DEF Freed, Socket

(* force_close of a socket in use. *)
LEMMA ForceCloseWInv ==
  ASSUME IInv, IInv', WInv, NEW d \in Id, NEW h \in Slot, HASH_ID(d) = h, slot[h].id = d, slot[h].type \notin Blank,
         force_close(h, slot[h]), closing = {}, ~Spared(d)' => Waiting(slot[h]) = << >>,
         NEW c \in Nat, PipeCalm(c), SendsStay, EventsFewer, UNCHANGED <<wire, due, call, asked, gone, sent>>
  PROVE  WInv'
<1> DEFINE s == slot[h]
<1>1. s \in Socket /\ Sound(h, s)
  BY DEF IInv, Typed, Sockets
<1>2. SparedStay
  BY DEF SparedStay
<1>3. DueStep(d)
  BY <1>2, DueSame
<1>4. SetSlot(h, Freed(s)) /\ closing' = {d} /\ told' = told
  BY DEF force_close
<1>5. slot'[h] = Freed(s) /\ \A g \in Slot : g # h => slot'[g] = slot[g]
  BY <1>4, SetIs
<1>6. /\ slot'[h].high = << >> /\ slot'[h].low = << >> /\ slot'[h].dw = s.dw
      /\ slot'[h].id = d /\ slot'[h].tcp = s.tcp /\ slot'[h].type = s.type
  BY <1>1, <1>5, FreedIs
<1>7. Out(s, 0) /\ 0 \in 0 .. Len(Waiting(s))
  BY WrittenNot
<1>8. ~Spared(d)' => slot'[h].dw = << >> /\ 0 = Len(Waiting(s))
  BY <1>1, <1>6, NoWaiting
<1> QED
  BY <1>3, <1>4, <1>5, <1>6, <1>7, <1>8, FreedWInv

LEMMA StartSocketWInv ==
  ASSUME IInv, WInv, ctrl_cmd, Head(pipe).op = "S", start_socket(Head(pipe))
  PROVE  WInv'
<1> DEFINE r == Head(pipe)
<1>1. r.id \in Id /\ HASH_ID(r.id) \in Slot /\ told[r.id] # "nothing" /\ slot[HASH_ID(r.id)] \in Socket
      /\ Sound(HASH_ID(r.id), slot[HASH_ID(r.id)])
  BY HeadFacts
<1>2. PICK id \in Id, h \in Slot : id = r.id /\ h = HASH_ID(id)
  BY <1>1
<1> DEFINE s == slot[h]
<1>3. PipeCalm(1) /\ SendsStay /\ IInv' /\ UNCHANGED <<call, asked, gone, sent>>
  BY TakesCmd DEF IsSend
<1>4. /\ IF Valid(id) /\ s.type = "PACCEPT"
         THEN \/ /\ SetSlot(h, [s EXCEPT !.type = "CONNECTED", !.watched = TRUE])
                 /\ Tells(id, "open") /\ closing' = closing
              \/ force_close(h, s)
         ELSE /\ IF ~Valid(id) THEN Tells(id, "close")
                 ELSE IF s.type = "CONNECTED" THEN Tells(id, "open")
                 ELSE UNCHANGED told
              /\ slot' = slot /\ closing' = closing
      /\ ev' = ev /\ wire' = wire /\ due' = due
  BY <1>2 DEF start_socket, Report, Tells
<1>5. EventsFewer
  BY <1>4, TakesEvent
<1>6. CASE ~Valid(id)
  <2>1. told[id] = "close"
    BY <1>1, <1>2, <1>6 DEF WInv, Phases, IInv, Typed
  <2>2. told' = told
    BY <1>4, <1>6, <2>1 DEF Tells, IInv, Typed
  <2> QED
    BY <1>3, <1>4, <1>5, <1>6, <2>2, TellWInv
<1>7. CASE Valid(id) /\ s.type = "PACCEPT"
  <2> DEFINE t == [s EXCEPT !.type = "CONNECTED", !.watched = TRUE]
  <2>1. s \in Socket /\ Sound(h, s)
    BY <1>1, <1>2
  <2>2. s.high = << >> /\ s.low = << >> /\ s.dw = << >>
    BY <1>7, <2>1 DEF Sound
  <2>3. Waiting(s) = << >>
    BY <2>1, <2>2, EmptyWaiting
  <2>4. s.id = id /\ s.tcp
    BY <1>2, <1>7 DEF Valid, WInv, Phases, Blank
  <2>5. /\ t.type = "CONNECTED" /\ t.id = id /\ t.tcp /\ t.high = << >> /\ t.low = << >> /\ t.dw = << >>
    BY <2>1, <2>2, <2>4 DEF Socket
  <2>6. s.type # "HALFCLOSE" /\ s.type \notin Blank /\ HASH_ID(id) = h
    BY <1>2, <1>7 DEF Blank
  <2>7. CASE SetSlot(h, t) /\ Tells(id, "open") /\ closing' = closing
    <3> HIDE DEF t
    <3>1. slot'[h] = t /\ \A g \in Slot : g # h => slot'[g] = slot[g]
      BY <2>7, SetIs
    <3>2. /\ slot'[h].type = "CONNECTED" /\ slot'[h].id = id /\ slot'[h].tcp
          /\ slot'[h].high = << >> /\ slot'[h].low = << >> /\ slot'[h].dw = << >>
      BY <2>5, <3>1
    <3> QED
      BY <1>3, <1>4, <1>5, <1>7, <2>2, <2>3, <2>6, <2>7, <3>1, <3>2, BlankWInv
  <2>8. CASE force_close(h, s)
    BY <1>3, <1>4, <1>5, <2>3, <2>4, <2>6, <2>8, ForceCloseWInv DEF ctrl_cmd
  <2> QED
    BY <1>4, <1>7, <2>7, <2>8
<1>8. CASE Valid(id) /\ s.type # "PACCEPT"
  <2>1. slot' = slot
    BY <1>4, <1>8
  <2>2. told' = told \/ (s.type = "CONNECTED" /\ Tells(id, "open"))
    BY <1>4, <1>8
  <2> QED
    BY <1>2, <1>3, <1>4, <1>5, <1>8, <2>1, <2>2, TellWInv
<1> QED
  BY <1>6, <1>7, <1>8

LEMMA SocketEventWInv ==
  ASSUME IInv, IInv', WInv, ev # << >>, ev' = Tail(ev), closing = {}, UNCHANGED <<pipe, call>>, SocketEvent(Head(ev))
  PROVE  WInv'
<1> DEFINE e == Head(ev)
<1>1. Real(e) /\ UNCHANGED <<call, asked, gone, sent>>
  BY DEF SocketEvent, Real, world
<1>2. /\ e.h \in Slot /\ slot[e.h].id = e.id /\ slot[e.h].type \notin Blank
      /\ e.kind = "eof" => e.id \in gone
  <2>1. Len(ev) \in Nat \ {0} /\ DOMAIN ev = 1 .. Len(ev) /\ e = ev[1]
    BY SeqTail DEF IInv, Typed
  <2>2. 1 \in DOMAIN ev
    BY <2>1
  <2> QED
    BY <1>1, <2>1, <2>2 DEF IInv, Events, WInv, Causes
<1>3. PICK h \in Slot : h = e.h
  BY <1>2
<1> DEFINE s == slot[h]
<1>4. s \in Socket /\ Sound(h, s) /\ s.type \notin Blank /\ s.type # "INVALID" /\ s.type # "RESERVE"
  BY <1>2, <1>3 DEF IInv, Typed, Sockets, Blank
<1>5. PICK d \in Id : d = s.id /\ HASH_ID(d) = h /\ Valid(d)
  BY <1>4 DEF Sound, Valid
<1>6. PipeCalm(0) /\ SendsStay /\ EventsFewer
  BY TakesPipe, TakesEvent
<1>7. SparedStay
  BY <1>1 DEF SparedStay
<1>8. due' = due => DueStep(d)
  BY <1>7, DueSame
<1>9. ASSUME force_close(h, s), UNCHANGED <<wire, due>>, ~Spared(d)' => Waiting(s) = << >>
      PROVE  WInv'
  BY <1>1, <1>4, <1>5, <1>6, <1>9, ForceCloseWInv
<1>10. CASE s.type = "CONNECTING"
  <2>1. told[d] = "opening"
    BY <1>5, <1>10 DEF WInv, Phases
  <2>2. Waiting(s) = << >>
    BY <1>5, <2>1, StreamUnknown
  <2>3. s.high = << >> /\ s.low = << >> /\ s.dw = << >>
    BY <1>4, <2>2, NoWaiting
  <2> DEFINE t == [s EXCEPT !.type = "CONNECTED", !.armed = ~nomore_sending_data(s)]
  <2>4. /\ \/ SetSlot(h, t) /\ Report(s.id, "open") /\ UNCHANGED closing
           \/ force_close(h, s)
        /\ UNCHANGED <<wire, due>>
    BY <1>3, <1>10 DEF SocketEvent, report_connect
  <2>5. CASE SetSlot(h, t) /\ Report(s.id, "open") /\ UNCHANGED closing
    <3>1. s.tcp
      BY <1>4 DEF WInv, Phases
    <3>2. t.type = "CONNECTED" /\ t.id = d /\ t.tcp /\ t.high = << >> /\ t.low = << >> /\ t.dw = << >>
      BY <1>4, <1>5, <2>3, <3>1 DEF Socket
    <3> HIDE DEF t
    <3>3. slot'[h] = t /\ \A g \in Slot : g # h => slot'[g] = slot[g]
      BY <2>5, SetIs
    <3>4. /\ slot'[h].type = "CONNECTED" /\ slot'[h].id = d /\ slot'[h].tcp
          /\ slot'[h].high = << >> /\ slot'[h].low = << >> /\ slot'[h].dw = << >>
      BY <3>2, <3>3
    <3>5. Tells(d, "open") /\ s.type # "HALFCLOSE"
      BY <1>5, <1>10, <2>5 DEF Report, Tells
    <3> QED
      BY <1>1, <1>5, <1>6, <2>2, <2>3, <2>4, <2>5, <3>3, <3>4, <3>5, BlankWInv
  <2>6. CASE force_close(h, s)
    BY <1>9, <2>2, <2>4, <2>6
  <2> QED
    BY <2>4, <2>5, <2>6
<1>11. CASE s.type # "CONNECTING" /\ e.kind = "eof"
  <2>1. force_close(h, s) /\ UNCHANGED <<wire, due>>
    BY <1>3, <1>4, <1>11 DEF SocketEvent
  <2>2. Spared(d)'
    BY <1>1, <1>2, <1>3, <1>5, <1>11 DEF Spared
  <2> QED
    BY <1>9, <2>1, <2>2
<1>12. CASE s.type # "CONNECTING" /\ e.kind # "eof"
  <2>1. Writable(h, s)
    BY <1>3, <1>4, <1>12 DEF SocketEvent
  <2>2. PICK k \in 0 .. Len(Waiting(s)) :
          /\ Out(s, k) /\ (s.lock => k = 0)
          /\ SetSlot(h, IF s.lock THEN s ELSE IF Ends(s, k) THEN Closed(s) ELSE send_buffer(s, k))
          /\ IF Ends(s, k) THEN Report(s.id, "close") ELSE UNCHANGED told
    <3>1. Len(Waiting(s)) \in Nat
      BY <1>4, WaitingSeq, BytesOf
    <3>2. PICK k \in (IF s.lock \/ s.id \in gone THEN {0}
                      ELSE {n \in 0 .. Len(Waiting(s)) : n = 0 <=> Waiting(s) = << >>}) :
            /\ Out(s, k)
            /\ SetSlot(h, IF s.lock THEN s ELSE IF Ends(s, k) THEN Closed(s) ELSE send_buffer(s, k))
            /\ IF Ends(s, k) THEN Report(s.id, "close") ELSE UNCHANGED told
      BY <2>1, Zenon DEF Writable
    <3>3. k \in 0 .. Len(Waiting(s)) /\ (s.lock => k = 0)
      BY <3>1, <3>2
    <3> QED
      BY <3>2, <3>3
  <2>3. closing' = {} /\ due' = due
    BY <2>1 DEF Writable
  <2>4. CASE s.lock
    <3>1. k = 0 /\ told' = told /\ SetSlot(h, s)
      BY <2>2, <2>4 DEF Ends
    <3>2. slot'[h] = s /\ \A g \in Slot : g # h => slot'[g] = slot[g]
      BY <3>1, SetIs
    <3>3. Len(Waiting(s)) \in Nat
      BY <1>4, WaitingSeq, BytesOf
    <3>4. Len(Waiting(slot'[h])) = Len(Waiting(s)) - k
      BY <3>1, <3>2, <3>3
    <3>5. \A i \in 1 .. Len(Waiting(slot'[h])) : Waiting(slot'[h])[i] = Waiting(s)[k + i]
      BY <3>1, <3>2, <3>3
    <3> QED
      BY SMTT(60), <1>1, <1>4, <1>5, <1>6, <1>8, <2>2, <2>3, <3>1, <3>2, <3>4, <3>5, WriteWInv
  <2>5. CASE Ends(s, k)
    <3>1. SetSlot(h, Closed(s)) /\ Tells(d, "close")
      BY <1>5, <2>2, <2>5 DEF Ends, Report, Tells
    <3>2. ~Spared(d)' => k = Len(Waiting(s))
      BY <1>1, <1>5, <2>5 DEF Ends, Spared
    <3> QED
      BY <1>1, <1>4, <1>5, <1>6, <1>8, <2>2, <2>3, <3>1, <3>2, ClosedWInv
  <2>6. CASE ~s.lock /\ ~Ends(s, k)
    <3>1. SetSlot(h, send_buffer(s, k)) /\ told' = told
      BY <2>2, <2>6
    <3>2. slot'[h] = send_buffer(s, k) /\ \A g \in Slot : g # h => slot'[g] = slot[g]
      BY <3>1, SetIs
    <3>3. slot'[h].id = d /\ slot'[h].tcp = s.tcp /\ slot'[h].type = s.type
      BY <1>4, <1>5, <3>2, SendBuffer DEF Keeps
    <3>4. /\ Len(Waiting(slot'[h])) = Len(Waiting(s)) - k
          /\ \A i \in 1 .. Len(Waiting(slot'[h])) : Waiting(slot'[h])[i] = Waiting(s)[k + i]
          /\ \A i \in 1 .. Len(slot'[h].low) : \E j \in 1 .. Len(s.low) : slot'[h].low[i] = s.low[j]
      <4> DEFINE t == send_buffer(s, k)
      <4>1. /\ Len(Waiting(t)) = Len(Waiting(s)) - k
            /\ \A i \in 1 .. Len(Waiting(t)) : Waiting(t)[i] = Waiting(s)[k + i]
            /\ \A i \in 1 .. Len(t.low) : \E j \in 1 .. Len(s.low) : t.low[i] = s.low[j]
        <5> HIDE DEF s
        <5> QED
          BY <1>4, SendBufferWaiting
      <4>2. slot'[h] = t
        BY <3>2
      <4> HIDE DEF t, s
      <4> QED
        BY <4>1, <4>2
    <3> QED
      BY <1>1, <1>4, <1>5, <1>6, <1>8, <2>2, <2>3, <2>6, <3>1, <3>2, <3>3, <3>4, WriteWInv
  <2> QED
    BY <2>4, <2>5, <2>6
<1> QED
  BY <1>10, <1>11, <1>12

(* What its closer had sent has been given to the socket. *)
LEMMA CloseDue ==
  ASSUME IInv, WInv, ctrl_cmd, Head(pipe).op = "K", NEW d \in Id, d = Head(pipe).id, Valid(d), SparedStay,
         due' = IF Head(pipe).shutdown \/ slot[HASH_ID(d)].type = "HALFCLOSE" THEN due
                ELSE [due EXCEPT ![d] = Head(pipe).due]
  PROVE  DueStep(d) /\ (Head(pipe).shutdown => Spared(d)')
<1> DEFINE r == Head(pipe)
<1>1. pipe[1] = r /\ 1 \in DOMAIN pipe /\ r \in Req
  BY HeadFacts
<1>2. r.shutdown => Spared(d)'
  <2>1. r.shutdown => Spared(d)
    BY <1>1 DEF WInv, Causes, Spared
  <2> QED
    BY <2>1, SparedOn
<1>3. CASE r.shutdown \/ slot[HASH_ID(d)].type = "HALFCLOSE"
  <2>1. due' = due
    BY <1>3
  <2> QED
    BY <1>2, <2>1, DueSame
<1>4. CASE ~(r.shutdown \/ slot[HASH_ID(d)].type = "HALFCLOSE")
  <2>1. r.due \in SUBSET Message
    BY <1>1 DEF Req
  <2>2. due \in [Id -> SUBSET Message] /\ due' = [due EXCEPT ![d] = r.due]
    BY <1>4 DEF WInv, Histories
  <2>3. /\ due' \in [Id -> SUBSET Message] /\ due'[d] = r.due
        /\ \A id \in Id : id # d => due'[id] = due[id]
    BY <2>1, <2>2
  <2>4. ASSUME NEW m \in r.due, ~Spared(d)' PROVE Has(Stream(d), m)
    <3>1. /\ m \in sent /\ m.id = d
          /\ call[m.w] # Idle => call[m.w].m # m
          /\ \A j \in DOMAIN pipe : j > 1 /\ IsSend(pipe[j]) => pipe[j].m # m
      BY <1>1, <2>4 DEF WInv, DuesAsked
    <3>2. \A j \in DOMAIN pipe : IsSend(pipe[j]) => pipe[j].m # m
      <4>1. \A j \in DOMAIN pipe : j = 1 \/ j > 1
        <5>1. Len(pipe) \in Nat /\ DOMAIN pipe = 1 .. Len(pipe)
          BY Requests DEF IInv, Typed
        <5> QED
          BY <5>1
      <4>2. ~IsSend(pipe[1])
        BY <1>1 DEF IsSend
      <4> QED
        BY <3>1, <4>1, <4>2
    <3>3. ~Spared(d)
      BY <2>4, SparedOn
    <3> QED
      BY <1>4, <3>1, <3>2, <3>3 DEF WInv, Kept
  <2> QED
    BY <1>2, <2>3, <2>4 DEF DueStep
<1> QED
  BY <1>3, <1>4

LEMMA CloseSocketWInv ==
  ASSUME IInv, WInv, ctrl_cmd, Head(pipe).op = "K", close_socket(Head(pipe))
  PROVE  WInv'
<1> DEFINE r == Head(pipe)
<1>1. /\ r \in Req /\ r.id \in Id /\ HASH_ID(r.id) \in Slot /\ told[r.id] # "nothing" /\ closing = {}
      /\ slot[HASH_ID(r.id)] \in Socket /\ Sound(HASH_ID(r.id), slot[HASH_ID(r.id)])
  BY HeadFacts
<1>2. PICK d \in Id, h \in Slot : d = r.id /\ h = HASH_ID(d)
  BY <1>1
<1> DEFINE s == slot[h]
           try == ~nomore_sending_data(s) /\ ~s.lock
<1>3. PipeCalm(1) /\ SendsStay /\ IInv' /\ UNCHANGED <<call, asked, gone, sent>>
  BY TakesCmd DEF IsSend
<1>4. SparedStay
  BY <1>3 DEF SparedStay
<1>5. CASE ~Valid(d)
  <2>1. Report(d, "close") /\ UNCHANGED <<slot, ev, closing, wire, due>>
    BY <1>2, <1>5 DEF close_socket
  <2>2. told[d] = "close"
    BY <1>1, <1>2, <1>5 DEF WInv, Phases, IInv, Typed
  <2>3. told' = told
    BY <2>1, <2>2 DEF Report, IInv, Typed
  <2>4. EventsFewer
    BY <2>1, TakesEvent
  <2> QED
    BY <1>3, <2>1, <2>3, <2>4, TellWInv
<1>6. CASE Valid(d)
  <2>1. s \in Socket /\ Sound(h, s) /\ s.type \notin Blank /\ s.id = d /\ HASH_ID(d) = h
    BY <1>1, <1>2, <1>6, CloseNotReserved
  <2>2. DueStep(d) /\ (r.shutdown => Spared(d)')
    <3>1. due' = IF r.shutdown \/ slot[HASH_ID(d)].type = "HALFCLOSE" THEN due ELSE [due EXCEPT ![d] = r.due]
      BY <1>2, <1>6 DEF close_socket
    <3> QED
      BY <1>2, <1>4, <1>6, <3>1, CloseDue
  <2>3. PICK k \in (IF try /\ d \notin gone THEN 0 .. Len(Waiting(s)) ELSE {0}) :
          LET t == IF try THEN send_buffer(s, k) ELSE s IN
          /\ Out(s, k)
          /\ IF try /\ Ends(s, k)
             THEN SetSlot(h, Closed(s)) /\ Report(d, "close") /\ ev' = clear_closed_event(h) /\ UNCHANGED closing
             ELSE /\ UNCHANGED ev
                  /\ IF r.shutdown \/ nomore_sending_data(t) THEN force_close(h, t)
                     ELSE SetSlot(h, [t EXCEPT !.type = "HALFCLOSE"]) /\ UNCHANGED <<told, closing>>
    BY <1>2, <1>6, Zenon DEF close_socket
  <2> DEFINE t == IF try THEN send_buffer(s, k) ELSE s
  <2>4. Len(Waiting(s)) \in Nat
    BY <2>1, WaitingSeq, BytesOf
  <2>5. k \in 0 .. Len(Waiting(s)) /\ (~try => k = 0)
    BY <2>3, <2>4
  <2>6. /\ t \in Socket /\ Sound(h, t) /\ t.id = d /\ t.tcp = s.tcp /\ t.type = s.type
        /\ Len(Waiting(t)) = Len(Waiting(s)) - k
        /\ \A i \in 1 .. Len(Waiting(t)) : Waiting(t)[i] = Waiting(s)[k + i]
        /\ \A i \in 1 .. Len(t.low) : \E j \in 1 .. Len(s.low) : t.low[i] = s.low[j]
        /\ ~s.lock \/ (t.high = s.high /\ t.low = s.low)
        /\ t.dw = << >> \/ (k = 0 /\ t.dw = s.dw)
    <3>1. CASE try
      <4>1. t = send_buffer(s, k)
        BY <3>1
      <4> DEFINE u == send_buffer(s, k)
      <4>2. u \in Socket /\ Sound(h, u) /\ Keeps(s, u) /\ u.type = s.type
        <5> HIDE DEF s
        <5> QED
          BY <2>1, <2>5, SendBuffer
      <4>3. /\ Len(Waiting(u)) = Len(Waiting(s)) - k /\ u.dw = << >>
            /\ \A i \in 1 .. Len(Waiting(u)) : Waiting(u)[i] = Waiting(s)[k + i]
            /\ \A i \in 1 .. Len(u.low) : \E j \in 1 .. Len(s.low) : u.low[i] = s.low[j]
        <5> HIDE DEF s
        <5> QED
          BY <2>1, <2>5, SendBufferWaiting
      <4>4. ~s.lock /\ t = u
        BY <3>1, <4>1
      <4> HIDE DEF u, s, t, try
      <4> QED
        BY <2>1, <4>2, <4>3, <4>4 DEF Keeps
    <3>2. CASE ~try
      <4>1. t = s /\ k = 0
        BY <2>5, <3>2
      <4> HIDE DEF t, s, try
      <4> QED
        BY <2>1, <2>4, <4>1
    <3> QED
      BY <3>1, <3>2
  <2>7. Out(s, k)
    BY <2>3
  <2>8. CASE try /\ Ends(s, k)
    <3>1. SetSlot(h, Closed(s)) /\ Tells(d, "close") /\ ev' = clear_closed_event(h) /\ closing' \subseteq closing
      BY <2>3, <2>8 DEF Report, Tells
    <3>2. ~Spared(d)' => k = Len(Waiting(s))
      BY <1>3, <2>1, <2>8 DEF Ends, Spared
    <3>3. EventsFewer
      BY <3>1, TakesEvent
    <3> QED
      BY <1>3, <2>1, <2>2, <2>5, <2>7, <3>1, <3>2, <3>3, ClosedWInv
  <2>9. CASE ~(try /\ Ends(s, k)) /\ (r.shutdown \/ nomore_sending_data(t))
    <3>1. force_close(h, t) /\ ev' = ev
      BY <2>3, <2>9
    <3> HIDE DEF t
    <3>2. SetSlot(h, Freed(t)) /\ closing' = {d} /\ told' = told
      BY <2>6, <3>1 DEF force_close
    <3>3. slot'[h] = Freed(t) /\ \A g \in Slot : g # h => slot'[g] = slot[g]
      BY <3>2, SetIs
    <3>4. /\ slot'[h].high = << >> /\ slot'[h].low = << >> /\ slot'[h].dw = t.dw
          /\ slot'[h].id = d /\ slot'[h].tcp = s.tcp /\ slot'[h].type = s.type
      BY <2>6, <3>3, FreedIs
    <3>5. ~Spared(d)' => slot'[h].dw = << >> /\ k = Len(Waiting(s))
      <4> SUFFICES ASSUME ~Spared(d)' PROVE slot'[h].dw = << >> /\ k = Len(Waiting(s))
        OBVIOUS
      <4>1. t.high = << >> /\ t.low = << >> /\ t.dw = << >>
        BY <2>2, <2>9 DEF nomore_sending_data, send_buffer_empty
      <4>2. Waiting(t) = << >>
        BY <2>6, <4>1, EmptyWaiting
      <4>3. Len(Waiting(t)) = 0
        BY <4>2
      <4>4. k = Len(Waiting(s))
        BY <2>4, <2>5, <2>6, <4>3
      <4> QED
        BY <3>4, <4>1, <4>4
    <3>6. EventsFewer
      BY <3>1, TakesEvent
    <3>7. slot'[h].dw = << >> \/ (k = 0 /\ slot'[h].dw = s.dw)
      BY <2>6, <3>4
    <3> QED
      BY <1>1, <1>3, <2>1, <2>2, <2>5, <2>7, <3>2, <3>3, <3>4, <3>5, <3>6, <3>7, FreedWInv
  <2>10. CASE ~(try /\ Ends(s, k)) /\ ~(r.shutdown \/ nomore_sending_data(t))
    <3> DEFINE u == [t EXCEPT !.type = "HALFCLOSE"]
    <3>1. SetSlot(h, u) /\ UNCHANGED <<told, closing, ev>>
      BY <2>3, <2>10
    <3>2. /\ u.type = "HALFCLOSE" /\ u.id = d /\ u.tcp = s.tcp
          /\ u.dw = t.dw /\ u.high = t.high /\ u.low = t.low
      <4> HIDE DEF t
      <4> QED
        BY <2>6 DEF Socket
    <3> HIDE DEF t, u
    <3>3. slot'[h] = u /\ \A g \in Slot : g # h => slot'[g] = slot[g]
      BY <3>1, SetIs
    <3>4. Waiting(u) = Waiting(t)
      BY <3>2 DEF Waiting
    <3>5. /\ slot'[h].id = d /\ slot'[h].tcp = s.tcp /\ slot'[h].type = "HALFCLOSE"
          /\ slot'[h].high = t.high /\ slot'[h].low = t.low
          /\ Waiting(slot'[h]) = Waiting(t)
      BY <3>2, <3>3, <3>4
    <3>6. EventsFewer
      BY <3>1, TakesEvent
    <3>7. /\ Len(Waiting(slot'[h])) = Len(Waiting(s)) - k
          /\ \A i \in 1 .. Len(Waiting(slot'[h])) : Waiting(slot'[h])[i] = Waiting(s)[k + i]
          /\ \A i \in 1 .. Len(slot'[h].low) : \E j \in 1 .. Len(s.low) : slot'[h].low[i] = s.low[j]
          /\ ~s.lock \/ (slot'[h].high = s.high /\ slot'[h].low = s.low)
      BY <2>6, <3>5
    <3>8. closing' = {}
      BY <1>1, <3>1
    <3> QED
      BY <1>1, <1>3, <2>1, <2>2, <2>5, <2>7, <3>1, <3>3, <3>5, <3>6, <3>7, <3>8, WriteWInv
  <2> QED
    BY <2>8, <2>9, <2>10
<1> QED
  BY <1>5, <1>6

-----------------------------------------------------------------------------
(* A message is put into the stream of a socket. *)

LEMMA PutPlaced ==
  ASSUME IInv, IInv', WInv, Histories', NEW d \in Id,
         \A id \in Id : id # d => Stream(id)' = Stream(id),
         NEW m \in sent, m.id = d, NEW p, Put(Stream(d), m, p, Stream(d)'),
         CallsFewer, NEW c \in Nat, SendsFewer(c),
         \A g \in Slot : \A i \in 1 .. Len(slot'[g].low) : slot'[g].low[i].m.op = "P",
         UNCHANGED <<told, sent>>
  PROVE  Placed'
<1>1. Histories /\ Placed
  BY DEF WInv
<1>2. \A x \in sent : told'[x.id] \in {"open", "close"} /\ x.n <= Cardinality(Sends(x.w))'
  <2>1. \A w : Sends(w)' = Sends(w)
    BY DEF Sends
  <2> QED
    BY <1>1, <2>1 DEF Placed
<1>3. ASSUME NEW id \in Id, NEW i \in 1 .. Len(Stream(id)')
      PROVE  Stream(id)'[i].m \in sent /\ Stream(id)'[i].m.id = id
  <2>1. CASE id # d
    BY <1>1, <1>3, <2>1 DEF Placed
  <2>2. CASE id = d
    <3>1. m \in Message
      BY DEF IInv, Typed
    <3>2. Stream(d) \in Seq(Byte) /\ Stream(d)' \in Seq(Byte)
      BY <1>1, StreamsAre
    <3>3. \/ i <= p /\ i \in 1 .. Len(Stream(d)) /\ Stream(d)'[i] = Stream(d)[i]
          \/ i \in p + 1 .. p + Size /\ Stream(d)'[i].m = m /\ Stream(d)'[i].k = i - p
          \/ i > p + Size /\ i - Size \in p + 1 .. Len(Stream(d)) /\ Stream(d)'[i] = Stream(d)[i - Size]
      BY <1>3, <2>2, <3>1, <3>2, PutAt
    <3>4. i - Size \in p + 1 .. Len(Stream(d)) => i - Size \in 1 .. Len(Stream(d))
      <4>1. Len(Stream(d)) \in Nat /\ p \in 0 .. Len(Stream(d))
        BY <3>2, BytesOf DEF Put
      <4> QED
        BY <4>1
    <3> QED
      BY <1>1, <2>2, <3>3, <3>4 DEF Placed
  <2> QED
    BY <2>1, <2>2
<1>4. ASSUME NEW i \in DOMAIN pipe', IsSend(pipe'[i])
      PROVE  pipe'[i].m \in sent /\ pipe'[i].m.id = pipe'[i].id /\ pipe'[i].m.op = pipe'[i].op
  BY <1>1, <1>4 DEF SendsFewer, IsSend, Placed
<1>5. ASSUME NEW w \in Service, call'[w] # Idle PROVE call'[w].m \in sent /\ call'[w].m.w = w
  BY <1>1, <1>5 DEF CallsFewer, Placed
<1> QED
  BY <1>2, <1>3, <1>4, <1>5 DEF Placed, IsSend, Idle, Slot

LEMMA PutInOrder ==
  ASSUME IInv, IInv', WInv, Histories', NEW d \in Id,
         \A id \in Id : id # d => Stream(id)' = Stream(id),
         NEW m \in sent, NEW p, Put(Stream(d), m, p, Stream(d)'),
         CallsFewer, NEW c \in Nat, SendsFewer(c),
         \A v \in Service : call'[v] # Idle => m.w # v \/ m.n < call'[v].m.n,
         \A i \in DOMAIN pipe' : IsSend(pipe'[i]) /\ pipe'[i].id = d => m.w # pipe'[i].m.w \/ m.n < pipe'[i].m.n
  PROVE  InOrder'
<1>1. /\ DOMAIN pipe = 1 .. Len(pipe) /\ Len(pipe) \in Nat
      /\ \A i \in DOMAIN pipe : pipe[i].id \in Id
      /\ DOMAIN pipe' = 1 .. Len(pipe') /\ Len(pipe') \in Nat
  <2>1. pipe \in Seq(Req) /\ pipe' \in Seq(Req)
    BY DEF IInv, Typed, Req, Id, Message
  <2> QED
    BY <2>1, Requests
<1>2. ASSUME NEW id \in Id, NEW x, Before(Stream(id), x), id = d => m.w # x.w \/ m.n < x.n
      PROVE  Before(StreamIn(slot', wire', id), x)
  <2>1. Before(Stream(id)', x)
    <3>1. CASE id # d
      BY <1>2, <3>1
    <3>2. CASE id = d
      <4>1. m \in Message
        BY DEF IInv, Typed
      <4>2. Stream(d) \in Seq(Byte) /\ Stream(d)' \in Seq(Byte)
        BY StreamsAre DEF WInv
      <4> QED
        BY <1>2, <3>2, <4>1, <4>2, PutHas
    <3> QED
      BY <3>1, <3>2
  <2> QED
    BY <2>1 DEF Stream
<1>3. ASSUME NEW i \in DOMAIN pipe', IsSend(pipe'[i]) PROVE Before(StreamIn(slot', wire', pipe'[i].id), pipe'[i].m)
  <2>1. i + c \in DOMAIN pipe /\ pipe'[i] = pipe[i + c]
    BY <1>3 DEF SendsFewer, IsSend
  <2>2. Before(Stream(pipe[i + c].id), pipe[i + c].m) /\ pipe[i + c].id \in Id
    BY <1>1, <1>3, <2>1 DEF WInv, InOrder
  <2>3. PICK id \in Id : id = pipe[i + c].id /\ id = pipe'[i].id
    BY <2>1, <2>2
  <2>4. PICK x : x = pipe[i + c].m /\ x = pipe'[i].m
    BY <2>1
  <2>5. id = d => m.w # x.w \/ m.n < x.n
    BY <1>3, <2>3, <2>4
  <2>6. Before(StreamIn(slot', wire', id), x)
    BY <1>2, <2>2, <2>3, <2>4, <2>5
  <2> QED
    BY <2>3, <2>4, <2>6
<1>4. ASSUME NEW w \in Service, call'[w] # Idle PROVE Before(StreamIn(slot', wire', call'[w].m.id), call'[w].m)
  <2>1. call[w] # Idle /\ call'[w].m = call[w].m
    BY <1>4 DEF CallsFewer
  <2>2. Before(Stream(call[w].m.id), call[w].m) /\ call[w].m.id \in Id /\ call[w].m.w = w
    BY <2>1, Calls DEF WInv, InOrder, Placed, IInv, Typed
  <2>3. PICK id \in Id : id = call[w].m.id /\ id = call'[w].m.id
    BY <2>1, <2>2
  <2>4. PICK x : x = call[w].m /\ x = call'[w].m
    BY <2>1
  <2>5. m.w # x.w \/ m.n < x.n
    BY <1>4, <2>2, <2>4
  <2>6. Before(StreamIn(slot', wire', id), x)
    BY <1>2, <2>2, <2>3, <2>4, <2>5
  <2> QED
    BY <2>3, <2>4, <2>6
<1>5. ASSUME NEW i \in DOMAIN pipe', NEW j \in DOMAIN pipe', i < j, IsSend(pipe'[i]), IsSend(pipe'[j]),
             pipe'[i].m.w = pipe'[j].m.w
      PROVE  pipe'[i].m.n < pipe'[j].m.n
  <2>1. i + c \in DOMAIN pipe /\ pipe'[i] = pipe[i + c] /\ j + c \in DOMAIN pipe /\ pipe'[j] = pipe[j + c]
    BY <1>5 DEF SendsFewer, IsSend
  <2>2. i + c < j + c
    BY <1>1, <1>5
  <2> QED
    BY <1>5, <2>1, <2>2 DEF WInv, InOrder
<1>6. ASSUME NEW w \in Service, call'[w] # Idle, NEW i \in DOMAIN pipe', IsSend(pipe'[i]), pipe'[i].m.w = w
      PROVE  pipe'[i].m.n < call'[w].m.n
  <2>1. i + c \in DOMAIN pipe /\ pipe'[i] = pipe[i + c] /\ call[w] # Idle /\ call'[w].m = call[w].m
    BY <1>6 DEF SendsFewer, IsSend, CallsFewer
  <2> QED
    BY <1>6, <2>1 DEF WInv, InOrder
<1> QED
  BY <1>3, <1>4, <1>5, <1>6 DEF InOrder, Stream

LEMMA PutWInv ==
  ASSUME IInv, IInv', WInv, Histories', Causes', Alone', DuesAsked',
         NEW d \in Id, NEW h \in Slot, HASH_ID(d) = h, Valid(d), slot'[h].id = d,
         slot'[h].type = slot[h].type, slot'[h].tcp = slot[h].tcp,
         \A g \in Slot : g # h => slot'[g] = slot[g],
         \A id \in Id : id # d => wire'[id] = wire[id], Cut(wire'[d], wire[d]),
         \A i \in 1 .. Len(slot'[h].low) : slot'[h].low[i].m.op = "P",
         NEW m \in sent, m.id = d, Before(Stream(d), m), NEW p, Put(Stream(d), m, p, Stream(d)'),
         p < Len(Stream(d)) => Stream(d)[p + 1].k = 1,
         \A i \in p + 1 .. Len(Stream(d)) : Stream(d)[i].m.w # m.w \/ Stream(d)[i].m.op # m.op,
         CallsFewer, NEW c \in Nat, SendsFewer(c),
         \A v \in Service : call'[v] # Idle => m.w # v \/ m.n < call'[v].m.n,
         \A i \in DOMAIN pipe' : IsSend(pipe'[i]) /\ pipe'[i].id = d => m.w # pipe'[i].m.w \/ m.n < pipe'[i].m.n,
         \A i \in DOMAIN pipe : IsSend(pipe[i]) /\ pipe[i].m # m => \E j \in DOMAIN pipe' : pipe'[j] = pipe[i],
         \A v \in Service : call[v] # Idle /\ call[v].m # m => call'[v] = call[v],
         UNCHANGED <<closing, told, asked, gone, sent, due>>
  PROVE  WInv'
<1>1. Histories /\ Phases /\ Placed /\ Streams /\ Kept /\ DuesKept
  BY DEF WInv
<1>2. m \in Message /\ \A x \in sent : x.id \in Id /\ HASH_ID(x.id) \in Slot /\ x.w \in Service
  BY SMTT(60), Constants DEF IInv, Typed, Message
<1>3. \A id \in Id : /\ Stream(id) \in Seq(Byte) /\ Stream(id)' \in Seq(Byte)
                     /\ wire[id] \in Seq(Byte) /\ wire'[id] \in Seq(Byte)
  BY <1>1, StreamsAre
<1>4. slot[h].id = d
  BY DEF Valid
<1>5. \A id \in Id : id # d => Stream(id)' = Stream(id)
  BY <1>4, StreamStep
<1>6. /\ Has(Stream(d)', m)
      /\ \A x : Has(Stream(d), x) => Has(Stream(d)', x)
  BY <1>2, <1>3, PutHas
<1>7. \A id : Spared(id)' <=> Spared(id)
  BY DEF Spared, Shut
<1>8. \A id \in Id : Valid(id)' <=> Valid(id)
  <2>1. ASSUME NEW id \in Id PROVE slot'[HASH_ID(id)].type = slot[HASH_ID(id)].type /\ slot'[HASH_ID(id)].id = slot[HASH_ID(id)].id
    <3>1. HASH_ID(id) \in Slot
      BY Constants
    <3> QED
      BY <1>4, <3>1
  <2> QED
    BY <2>1 DEF Valid, HASH_ID
<1>9. Phases'
  <2>1. \A g \in Slot : slot'[g].type = slot[g].type /\ slot'[g].id = slot[g].id /\ slot'[g].tcp = slot[g].tcp
    BY <1>4
  <2> QED
    BY <1>1, <1>8, <2>1 DEF Phases
<1>10. Placed'
  <2>1. \A g \in Slot : \A i \in 1 .. Len(slot'[g].low) : slot'[g].low[i].m.op = "P"
    BY SMTT(60), <1>1 DEF Placed
  <2> QED
    BY <1>5, <2>1, PutPlaced
<1>11. InOrder'
  BY <1>5, PutInOrder
<1>12. Streams'
  <2>1. ASSUME NEW id \in Id, ~Spared(id) PROVE Exact(Stream(id)') /\ (Valid(id) => Full(Stream(id)'))
    <3>1. Exact(Stream(id)) /\ (Valid(id) => Full(Stream(id)))
      BY <1>1, <2>1 DEF Streams
    <3>2. CASE id # d
      BY <1>5, <3>1, <3>2
    <3>3. CASE id = d
      <4>1. Exact(Stream(d)) /\ Full(Stream(d))
        BY <3>1, <3>3
      <4>2. Exact(Stream(d)') /\ Full(Stream(d)')
        BY <1>2, <1>3, <4>1, PutExact
      <4> QED
        BY <3>3, <4>2
    <3> QED
      BY <3>2, <3>3
  <2> QED
    BY <1>7, <1>8, <2>1 DEF Streams, Exact, Full
<1>13. \A id \in Id : \A x : Has(Stream(id), x) => Has(Stream(id)', x)
  BY <1>5, <1>6
<1>14. Kept'
  <2> SUFFICES ASSUME NEW x \in sent, Valid(x.id)', slot'[HASH_ID(x.id)].type # "HALFCLOSE", ~Spared(x.id)'
               PROVE  \/ Has(Stream(x.id)', x)
                      \/ \E i \in DOMAIN pipe' : IsSend(pipe'[i]) /\ pipe'[i].m = x
                      \/ call'[x.w] # Idle /\ call'[x.w].m = x
    BY DEF Kept, IsSend, Has, Idle
  <2>1. CASE x = m
    BY <1>6, <2>1
  <2>2. CASE x # m
    <3>1. x.id \in Id /\ HASH_ID(x.id) \in Slot /\ x.w \in Service
      BY <1>2
    <3>2. Valid(x.id) /\ ~Spared(x.id) /\ slot[HASH_ID(x.id)].type # "HALFCLOSE"
      BY <1>7, <1>8, <3>1
    <3>3. \/ Has(Stream(x.id), x)
          \/ \E i \in DOMAIN pipe : IsSend(pipe[i]) /\ pipe[i].m = x
          \/ call[x.w] # Idle /\ call[x.w].m = x
      BY <1>1, <3>2 DEF Kept
    <3>4. CASE Has(Stream(x.id), x)
      BY <1>13, <3>1, <3>4
    <3>5. CASE \E i \in DOMAIN pipe : IsSend(pipe[i]) /\ pipe[i].m = x
      BY <2>2, <3>5
    <3>6. CASE call[x.w] # Idle /\ call[x.w].m = x
      BY <2>2, <3>1, <3>6
    <3> QED
      BY <3>3, <3>4, <3>5, <3>6
  <2> QED
    BY <2>1, <2>2
<1>15. DuesKept'
  <2>1. SparedStay
    BY DEF SparedStay
  <2>2. \A id \in Id : Cut(wire'[id], wire[id])
    BY <1>3, CutSelf
  <2> QED
    BY <1>1, <1>13, <2>1, <2>2, DuesKeptCalm
<1> QED
  BY <1>9, <1>10, <1>11, <1>12, <1>14, <1>15 DEF WInv

(* What a direct write goes before. *)
LEMMA AloneBehind ==
  ASSUME NEW x \in Seq(Byte), NEW h, NEW s \in Socket, Sound(h, s), s.dw = << >>, NEW w,
         \A i \in 1 .. Len(s.high) : s.high[i].m.w # w,
         \A i \in 1 .. Len(s.low) : s.low[i].m.w # w,
         Len(s.high) > 0 => s.high[1].k = 1
  PROVE  /\ Len(x) < Len(x \o Waiting(s)) => (x \o Waiting(s))[Len(x) + 1].k = 1
         /\ \A i \in Len(x) + 1 .. Len(x \o Waiting(s)) : (x \o Waiting(s))[i].m.w # w
<1> DEFINE b == Waiting(s)
           H == Len(s.high)
           L == Len(s.low)
<1>1. /\ b \in Seq(Byte) /\ H \in Nat /\ L \in Nat /\ Len(b) = H + L
      /\ \A i \in 1 .. H : b[i] = s.high[i]
      /\ \A i \in 1 .. L : b[H + i] = s.low[i]
  <2>1. Len(<< >>) = 0
    OBVIOUS
  <2>2. /\ b \in Seq(Byte) /\ H \in Nat /\ L \in Nat /\ Len(b) = 0 + H + L
        /\ \A i \in 1 .. H : b[0 + i] = s.high[i]
        /\ \A i \in 1 .. L : b[0 + H + i] = s.low[i]
    BY <2>1, WaitingAt
  <2> HIDE DEF b, H, L
  <2>3. 0 + H = H /\ \A i \in 1 .. H : 0 + i = i
    BY <2>2
  <2> QED
    BY <2>2, <2>3
<1>2. /\ Len(x) \in Nat /\ Len(x \o b) = Len(x) + Len(b)
      /\ \A i \in 1 .. Len(b) : (x \o b)[Len(x) + i] = b[i]
  BY <1>1, ConcatAt
<1>3. H = 0 /\ L > 0 => s.low[1].k = 1
  <2>1. s.low \in Seq(Byte) /\ Whole(s.low)
    BY WaitingSeq DEF Sound
  <2>2. L > 0 => s.low # << >>
    OBVIOUS
  <2> QED
    BY <2>1, <2>2, WholeFirst
<1>4. ASSUME NEW i \in 1 .. Len(b) PROVE b[i].m.w # w /\ (i = 1 => b[i].k = 1)
  <2>1. CASE i <= H
    <3>1. i \in 1 .. H /\ H > 0
      BY <1>1, <2>1
    <3> QED
      BY <1>1, <3>1
  <2>2. CASE ~(i <= H)
    <3> DEFINE j == i - H
    <3>1. j \in 1 .. L /\ i = H + j /\ (i = 1 => H = 0 /\ L > 0 /\ j = 1)
      <4> HIDE DEF b, H, L
      <4> QED
        BY <1>1, <2>2
    <3> HIDE DEF j
    <3>2. b[i] = s.low[j]
      BY <1>1, <3>1
    <3> QED
      BY <1>3, <3>1, <3>2
  <2> QED
    BY <2>1, <2>2
<1> HIDE DEF b
<1>5. ASSUME Len(x) < Len(x \o b) PROVE (x \o b)[Len(x) + 1].k = 1
  <2>1. Len(b) \in Nat
    BY <1>1, BytesOf
  <2>2. 1 \in 1 .. Len(b)
    BY <1>2, <1>5, <2>1
  <2> QED
    BY <1>2, <1>4, <2>2
<1>6. ASSUME NEW i \in Len(x) + 1 .. Len(x \o b) PROVE (x \o b)[i].m.w # w
  <2> DEFINE j == i - Len(x)
  <2>1. Len(b) \in Nat
    BY <1>1, BytesOf
  <2>2. j \in 1 .. Len(b) /\ i = Len(x) + j
    BY <1>2, <2>1
  <2> HIDE DEF j
  <2> QED
    BY <1>2, <1>4, <2>2
<1> QED
  BY <1>5, <1>6 DEF b

LEMMA DirectWriteWInv ==
  ASSUME IInv, WInv, NEW w \in Service, DirectWrite(w)
  PROVE  WInv'
<1>1. call[w].at = "sure" /\ call' = [call EXCEPT ![w] = Idle]
      /\ UNCHANGED <<pipe, ev, closing, told, asked, gone, sent, due>>
  BY ZenonT(60) DEF DirectWrite, At, thread, world
<1>2. /\ call[w] # Idle /\ call[w].m \in Message /\ call[w].m.id \in Id /\ HASH_ID(call[w].m.id) \in Slot
      /\ call[w].m \in sent /\ call[w].m.w = w
  BY <1>1, CallFacts DEF IInv, WInv, Placed
<1>3. PICK m \in sent, d \in Id, h \in Slot : m = call[w].m /\ d = m.id /\ h = HASH_ID(d)
  BY <1>2
<1> DEFINE s == slot[h]
<1>4. /\ s.id = d
      /\ \A i \in DOMAIN pipe : IsSend(pipe[i]) /\ pipe[i].id = d => pipe[i].m.w # w
      /\ \A i \in 1 .. Len(s.high) : s.high[i].m.w # w
      /\ \A i \in 1 .. Len(s.low) : s.low[i].m.w # w
      /\ Len(s.high) > 0 => s.high[1].k = 1
  <2>1. AloneFor(w)
    BY DEF WInv, Alone
  <2> QED
    BY ZenonT(60), <1>1, <1>3, <2>1 DEF AloneFor
<1>5. NoneElse(s)
  BY ZenonT(60), <1>3 DEF DirectWrite
<1>6. PICK n \in 0 .. Size :
        /\ wire' = [wire EXCEPT ![d] = @ \o SubSeq(From(m, 1), 1, n)]
        /\ SetSlot(h, [s EXCEPT !.dw = From(m, n + 1), !.armed = @ \/ n < Size, !.lock = FALSE])
  <2>1. (IF d \in gone THEN {0} ELSE 0 .. Size) \subseteq 0 .. Size
    BY SizeNat
  <2>2. PICK n \in IF d \in gone THEN {0} ELSE 0 .. Size :
          /\ wire' = [wire EXCEPT ![s.id] = @ \o SubSeq(From(m, 1), 1, n)]
          /\ SetSlot(h, [s EXCEPT !.dw = From(m, n + 1), !.armed = @ \/ n < Size, !.lock = FALSE])
    BY <1>3, Zenon DEF DirectWrite
  <2> QED
    BY <1>4, <2>1, <2>2, Zenon
<1>7. s \in Socket /\ Sound(h, s) /\ s.dw = << >> /\ s.type = "CONNECTED"
  BY <1>5 DEF IInv, Typed, Sockets, NoneElse
<1> DEFINE t == [s EXCEPT !.dw = From(m, n + 1), !.armed = @ \/ n < Size, !.lock = FALSE]
<1>8. /\ t.dw = From(m, n + 1) /\ t.high = s.high /\ t.low = s.low /\ t.id = s.id
      /\ t.tcp = s.tcp /\ t.type = s.type
  BY <1>7 DEF Socket
<1>9. SetSlot(h, t)
  BY <1>6
<1> HIDE DEF t
<1>10. slot'[h] = t /\ \A g \in Slot : g # h => slot'[g] = slot[g]
  BY <1>9, SetIs
<1>11. IInv'
  BY DirectWriteIInv
<1>12. t \in Socket
  <2>1. slot' \in [Slot -> Socket]
    BY <1>11 DEF IInv, Typed, Slot, Socket, SockType, Byte, Message, Id
  <2> QED
    BY <1>10, <2>1
<1>13. wire \in [Id -> Seq(Byte)] /\ due \in [Id -> SUBSET Message] /\ wire[d] \in Seq(Byte)
  BY DEF WInv, Histories
<1>14. /\ wire[d] \o SubSeq(From(m, 1), 1, n) \in Seq(Byte)
       /\ Put(wire[d] \o Waiting(s), m, Len(wire[d]), (wire[d] \o SubSeq(From(m, 1), 1, n)) \o Waiting(t))
  <2>1. m \in Message
    BY <1>2, <1>3
  <2> QED
    BY <1>7, <1>8, <1>12, <1>13, <2>1, PutDirect
<1>15. /\ wire' \in [Id -> Seq(Byte)] /\ wire'[d] = wire[d] \o SubSeq(From(m, 1), 1, n)
       /\ \A id \in Id : id # d => wire'[id] = wire[id]
  BY <1>6, <1>13, <1>14
<1>16. Histories'
  BY <1>1, <1>13, <1>15, HistoriesStep
<1>17. HASH_ID(d) = h /\ slot'[h].id = d
  BY ZenonT(60), <1>3, <1>4, <1>8, <1>10
<1>18. /\ Stream(d) = wire[d] \o Waiting(s) /\ Stream(d)' = wire'[d] \o Waiting(slot'[h])
  BY <1>4, <1>10, <1>15, <1>17, StreamStep
<1>19. Put(Stream(d), m, Len(wire[d]), Stream(d)')
  BY <1>10, <1>14, <1>15, <1>18
<1>20. /\ Len(wire[d]) < Len(Stream(d)) => Stream(d)[Len(wire[d]) + 1].k = 1
       /\ \A i \in Len(wire[d]) + 1 .. Len(Stream(d)) : Stream(d)[i].m.w # w
  <2> DEFINE x == wire[d]
             b == x \o Waiting(s)
  <2>1. x \in Seq(Byte) /\ Stream(d) = b
    BY <1>13, <1>18
  <2> HIDE DEF s, x
  <2>2. /\ Len(x) < Len(x \o Waiting(s)) => (x \o Waiting(s))[Len(x) + 1].k = 1
        /\ \A i \in Len(x) + 1 .. Len(x \o Waiting(s)) : (x \o Waiting(s))[i].m.w # w
    BY <1>4, <1>7, <2>1, AloneBehind
  <2> HIDE DEF b
  <2>3. /\ Len(x) < Len(b) => b[Len(x) + 1].k = 1
        /\ \A i \in Len(x) + 1 .. Len(b) : b[i].m.w # w
    BY <2>2 DEF b
  <2> QED
    BY <2>1, <2>3 DEF x
<1>21. Cut(wire'[d], wire[d])
  <2>1. SubSeq(From(m, 1), 1, n) \in Seq(Byte)
    <3>1. m \in Message /\ 1 \in 1 .. Size + 1
      BY <1>2, <1>3, SizeNat
    <3>2. From(m, 1) \in Seq(Byte) /\ Len(From(m, 1)) = Size - 1 + 1
      BY <3>1, FromFacts
    <3>3. Len(From(m, 1)) = Size /\ 1 \in Nat \ {0} /\ n \in Nat /\ n <= Size /\ 1 <= n + 1
      BY <3>2, SizeNat
    <3> QED
      BY <3>2, <3>3, SubAt
  <2> QED
    BY <1>13, <1>15, <2>1, CutFirst
<1>22. call'[w] = Idle /\ \A v \in Service : v # w => call'[v] = call[v]
  BY <1>1, CallStep DEF IInv
<1>23. CallsFewer
  BY <1>22 DEF CallsFewer
<1>24. SendsFewer(0)
  BY <1>1, PipeStill
<1>25. Causes' /\ DuesAsked'
  BY <1>1, <1>11, <1>23, CausesSame, DuesAskedSame DEF WInv
<1>26. ASSUME NEW v \in Service PROVE AloneFor(v)'
  <2>1. CASE v = w
    BY <1>22, <2>1, IdleAlone
  <2>2. CASE v # w
    <3>1. call'[v] = call[v]
      BY <1>22, <2>2
    <3>2. ASSUME call[v].at \in {"locked", "sure"}
          PROVE  LET a == slot[HASH_ID(call[v].m.id)]
                     b == slot'[HASH_ID(call[v].m.id)]
                 IN  b.id = a.id /\ b.high = a.high /\ b.low = a.low
      <4>1. HASH_ID(call[v].m.id) \in Slot
        BY <3>2, CallFacts DEF IInv
      <4> QED
        BY <1>8, <1>10, <4>1
    <3> QED
      BY <1>11, <1>24, <3>1, <3>2, AloneForCalm DEF WInv
  <2> QED
    BY <2>1, <2>2
<1>27. Alone'
  BY <1>26 DEF Alone
<1>28. Valid(d) /\ Before(Stream(d), m)
  BY ZenonT(60), <1>2, <1>3, <1>4, <1>7 DEF Valid, WInv, InOrder
<1>29. \A i \in 1 .. Len(slot'[h].low) : slot'[h].low[i].m.op = "P"
  BY <1>8, <1>10 DEF WInv, Placed
<1>30. slot'[h].type = slot[h].type /\ slot'[h].tcp = slot[h].tcp
  BY <1>8, <1>10
<1>31. \A i \in Len(wire[d]) + 1 .. Len(Stream(d)) : Stream(d)[i].m.w # m.w \/ Stream(d)[i].m.op # m.op
  BY <1>2, <1>3, <1>20
<1>32. /\ \A v \in Service : call'[v] # Idle => m.w # v \/ m.n < call'[v].m.n
       /\ \A i \in DOMAIN pipe' : IsSend(pipe'[i]) /\ pipe'[i].id = d => m.w # pipe'[i].m.w \/ m.n < pipe'[i].m.n
       /\ \A i \in DOMAIN pipe : IsSend(pipe[i]) /\ pipe[i].m # m => \E j \in DOMAIN pipe' : pipe'[j] = pipe[i]
       /\ \A v \in Service : call[v] # Idle /\ call[v].m # m => call'[v] = call[v]
  <2>1. m.w = w
    BY <1>2, <1>3
  <2> QED
    BY ZenonT(60), <1>1, <1>3, <1>4, <1>22, <2>1
<1>33. PICK p : p = Len(wire[d])
  OBVIOUS
<1>34. /\ Put(Stream(d), m, p, Stream(d)')
       /\ p < Len(Stream(d)) => Stream(d)[p + 1].k = 1
       /\ \A i \in p + 1 .. Len(Stream(d)) : Stream(d)[i].m.w # m.w \/ Stream(d)[i].m.op # m.op
  BY <1>19, <1>20, <1>31, <1>33
<1>35. m.id = d /\ \A id \in Id : id # d => wire'[id] = wire[id]
  BY ZenonT(60), <1>3, <1>15
<1>36. UNCHANGED <<closing, told, asked, gone, sent, due>>
  BY <1>1
<1>37. \A g \in Slot : g # h => slot'[g] = slot[g]
  BY <1>10
<1> HIDE DEF s
<1> QED
  BY <1>11, <1>16, <1>17, <1>21, <1>23, <1>24, <1>25, <1>27, <1>28,
     <1>29, <1>30, <1>32, <1>34, <1>35, <1>36, <1>37, PutWInv

(* A request whose message is not taken. *)
LEMMA DropWInv ==
  ASSUME IInv, IInv', WInv, SlotsStill, pipe # << >>, pipe' = Tail(pipe), IsSend(Head(pipe)),
         ~(Valid(Head(pipe).id) /\ slot[HASH_ID(Head(pipe).id)].type # "HALFCLOSE"),
         UNCHANGED <<ev, closing, call, told, asked, gone, sent, wire, due>>
  PROVE  WInv'
<1>1. Histories /\ Histories' /\ Phases /\ Placed /\ InOrder /\ Streams /\ Alone /\ Kept /\ DuesKept
  BY DEF WInv, Histories
<1>2. /\ \A id \in Id : Stream(id)' = Stream(id)
      /\ \A id \in Id : Valid(id)' = Valid(id)
  BY StillFacts
<1>3. PipeCalm(1) /\ EventsFewer
  BY TakesPipe, TakesEvent
<1>4. /\ SendsFewer(1) /\ SparedStay /\ CallsFewer /\ CallsStay
      /\ Causes' /\ DuesAsked'
  BY <1>3, TakesCalm
<1>5. \A id \in Id : Stream(id) \in Seq(Byte) /\ wire[id] \in Seq(Byte)
  BY <1>1, StreamsAre
<1>6. StreamsCut /\ \A id \in Id : Cut(wire'[id], wire[id])
  BY <1>2, <1>5, CutSelf DEF StreamsCut
<1>7. Phases' /\ TellsOn
  BY <1>1, <1>2 DEF Phases, SlotsStill, TellsOn
<1>8. \A h \in Slot : \A i \in 1 .. Len(slot'[h].low) : slot'[h].low[i].m.op = "P"
  BY <1>1 DEF Placed, SlotsStill
<1>9. Placed' /\ InOrder'
  BY <1>1, <1>4, <1>6, <1>7, <1>8, PlacedCalm, InOrderCalm
<1>10. Streams'
  BY <1>1, <1>2, <1>4, <1>6, StreamsCalm
<1>11. DuesKept'
  BY <1>1, <1>2, <1>4, <1>6, DuesKeptCalm
<1>12. ASSUME NEW v \in Service PROVE AloneFor(v)'
  <2>1. ASSUME call[v].at \in {"locked", "sure"}
        PROVE  LET a == slot[HASH_ID(call[v].m.id)]
                   b == slot'[HASH_ID(call[v].m.id)]
               IN  b.id = a.id /\ b.high = a.high /\ b.low = a.low
    <3>1. HASH_ID(call[v].m.id) \in Slot
      BY <2>1, CallFacts DEF IInv
    <3> QED
      BY <3>1 DEF SlotsStill
  <2> QED
    BY <1>1, <1>4, <2>1, AloneForCalm
<1>13. Alone'
  BY <1>12 DEF Alone
<1>14. Kept'
  <2> SUFFICES ASSUME NEW x \in sent, Valid(x.id)', slot'[HASH_ID(x.id)].type # "HALFCLOSE", ~Spared(x.id)'
               PROVE  \/ Has(Stream(x.id)', x)
                      \/ \E i \in DOMAIN pipe' : IsSend(pipe'[i]) /\ pipe'[i].m = x
                      \/ call'[x.w] # Idle /\ call'[x.w].m = x
    BY DEF Kept, IsSend, Has, Idle
  <2>1. x.id \in Id /\ HASH_ID(x.id) \in Slot
    BY Constants DEF IInv, Typed, Message
  <2>2. Valid(x.id) /\ ~Spared(x.id) /\ slot[HASH_ID(x.id)].type # "HALFCLOSE"
    BY <1>2, <1>4, <2>1, SparedOn DEF SlotsStill
  <2>3. \/ Has(Stream(x.id), x)
        \/ \E i \in DOMAIN pipe : IsSend(pipe[i]) /\ pipe[i].m = x
        \/ call[x.w] # Idle /\ call[x.w].m = x
    BY <1>1, <2>2 DEF Kept
  <2>4. ASSUME NEW i \in DOMAIN pipe, IsSend(pipe[i]), pipe[i].m = x
        PROVE  \E j \in DOMAIN pipe' : IsSend(pipe'[j]) /\ pipe'[j].m = x
    <3>1. pipe[i].id = x.id
      BY <1>1, <2>4 DEF Placed
    <3>2. Head(pipe) = pipe[1]
      BY PipeTail DEF IInv
    <3>3. i # 1
      BY <2>2, <3>1, <3>2
    <3>4. PICK j \in DOMAIN pipe' : pipe'[j] = pipe[i]
      BY <3>3, PipeLess
    <3> QED
      BY <2>4, <3>4
  <2> QED
    BY <1>2, <2>1, <2>3, <2>4
<1> QED
  BY <1>1, <1>4, <1>7, <1>9, <1>10, <1>11, <1>13, <1>14 DEF WInv

(* A message behind those of a list. *)
LEMMA AppendFrom ==
  ASSUME NEW b \in Seq(Byte), NEW m \in Message
  PROVE  LET c == b \o From(m, 1) IN
         /\ \A i \in 1 .. Len(c) : c[i].m = m \/ \E j \in 1 .. Len(b) : c[i] = b[j]
         /\ Len(b) = 0 => c[1].k = 1
         /\ Len(b) > 0 => c[1] = b[1]
<1> DEFINE f == From(m, 1)
           c == b \o f
<1>1. /\ f \in Seq(Byte) /\ Len(f) = Size /\ \A i \in 1 .. Size : f[i].m = m /\ f[i].k = i
  <2>1. 1 \in 1 .. Size + 1
    BY SizeNat
  <2>2. f \in Seq(Byte) /\ Len(f) = Size - 1 + 1 /\ \A i \in 1 .. Size - 1 + 1 : f[i] = [m |-> m, k |-> 1 + i - 1]
    BY <2>1, FromFacts
  <2>3. Size - 1 + 1 = Size /\ \A i \in 1 .. Size : 1 + i - 1 = i
    BY SizeNat
  <2> HIDE DEF f
  <2> QED
    BY <2>2, <2>3
<1> HIDE DEF f
<1>2. /\ Len(b) \in Nat /\ Len(c) = Len(b) + Size
      /\ \A i \in 1 .. Len(b) : c[i] = b[i]
      /\ \A i \in 1 .. Size : c[Len(b) + i] = f[i]
  BY <1>1, ConcatAt
<1> HIDE DEF c
<1>3. ASSUME NEW i \in 1 .. Len(c) PROVE c[i].m = m \/ \E j \in 1 .. Len(b) : c[i] = b[j]
  <2>1. CASE i <= Len(b)
    <3>1. i \in 1 .. Len(b)
      BY <1>2, <2>1
    <3> QED
      BY <1>2, <3>1
  <2>2. CASE ~(i <= Len(b))
    <3> DEFINE j == i - Len(b)
    <3>1. j \in 1 .. Size /\ i = Len(b) + j
      BY <1>2, <2>2, SizeNat
    <3> HIDE DEF j
    <3> QED
      BY <1>1, <1>2, <3>1
  <2> QED
    BY <2>1, <2>2
<1>4. ASSUME Len(b) = 0 PROVE c[1].k = 1
  <2>1. 1 \in 1 .. Size /\ Len(b) + 1 = 1
    BY <1>4, SizeNat
  <2> QED
    BY <1>1, <1>2, <2>1
<1>5. ASSUME Len(b) > 0 PROVE c[1] = b[1]
  <2>1. 1 \in 1 .. Len(b)
    BY <1>2, <1>5
  <2> QED
    BY <1>2, <2>1
<1> QED
  BY <1>3, <1>4, <1>5 DEF c, f

(* What a list that a message was added to has. *)
Grows(b, m, c) ==
  /\ \A i \in 1 .. Len(c) : c[i].m = m \/ \E j \in 1 .. Len(b) : c[i] = b[j]
  /\ Len(c) > 0 => c[1].k = 1 \/ (Len(b) > 0 /\ c[1] = b[1])

LEMMA GrowsSame ==
  ASSUME NEW b \in Seq(Byte), NEW m
  PROVE  Grows(b, m, b)
  BY DEF Grows

LEMMA GrowsFrom ==
  ASSUME NEW b \in Seq(Byte), NEW m \in Message
  PROVE  Grows(b, m, b \o From(m, 1))
<1>1. Len(b) \in Nat
  BY BytesOf
<1>2. Len(b) = 0 \/ Len(b) > 0
  BY <1>1
<1> QED
  BY <1>2, AppendFrom DEF Grows

(* The socket thread takes the request to send m to d off the pipe. *)
Taking(d, m) ==
  pipe # << >> /\ pipe' = Tail(pipe) /\ IsSend(Head(pipe)) /\ d = Head(pipe).id /\ m = Head(pipe).m

(* A message is put into a list, by the socket thread. *)
LEMMA TakenWInv ==
  ASSUME IInv, IInv', WInv, NEW d \in Id, NEW m \in sent, Taking(d, m),
         NEW h \in Slot, HASH_ID(d) = h, Valid(d), NEW t \in Socket, SetSlot(h, t),
         t.id = d, t.type = slot[h].type, t.tcp = slot[h].tcp, t.dw = slot[h].dw,
         Grows(slot[h].high, m, t.high), Grows(slot[h].low, m, t.low),
         \A i \in 1 .. Len(t.low) : t.low[i].m.op = "P",
         NEW p, Put(wire[d] \o Waiting(slot[h]), m, p, wire[d] \o Waiting(t)),
         p < Len(Stream(d)) => Stream(d)[p + 1].k = 1,
         \A i \in p + 1 .. Len(Stream(d)) : Stream(d)[i].m.w # m.w \/ Stream(d)[i].m.op # m.op,
         UNCHANGED <<ev, closing, call, told, asked, gone, sent, wire, due>>
  PROVE  WInv'
<1>1. slot'[h] = t /\ \A g \in Slot : g # h => slot'[g] = slot[g]
  BY SetIs
<1>2. slot[h].id = d /\ slot[h] \in Socket
  BY DEF Valid, IInv, Typed
<1>3. /\ PipeCalm(1) /\ EventsFewer /\ Head(pipe) = pipe[1] /\ 1 \in DOMAIN pipe
      /\ DOMAIN pipe \subseteq Nat /\ DOMAIN pipe' \subseteq Nat \ {0}
  <2>1. 1 \in DOMAIN pipe /\ Head(pipe) = pipe[1] /\ DOMAIN pipe \subseteq Nat /\ DOMAIN pipe' \subseteq Nat \ {0}
    BY PipeTail DEF IInv, Taking
  <2> QED
    BY <2>1, TakesPipe, TakesEvent DEF Taking
<1>4. /\ SendsFewer(1) /\ CallsFewer /\ Causes' /\ DuesAsked'
  BY <1>3, TakesCalm
<1>5. Histories' /\ wire[d] \in Seq(Byte)
  BY DEF WInv, Histories
<1>6. Stream(d) = wire[d] \o Waiting(slot[h]) /\ Stream(d)' = wire'[d] \o Waiting(slot'[h])
  BY <1>1, <1>2, StreamStep
<1>7. Put(Stream(d), m, p, Stream(d)')
  BY <1>1, <1>6
<1>8. Before(Stream(d), m) /\ m.id = d /\ IsSend(pipe[1]) /\ pipe[1].m = m /\ pipe[1].id = d
  BY <1>3 DEF WInv, InOrder, Placed, Taking
<1>9. ASSUME NEW v \in Service PROVE AloneFor(v)'
  <2> SUFFICES ASSUME call[v].at \in {"locked", "sure"}
               PROVE  LET x == call[v].m s == slot'[HASH_ID(x.id)] IN
                      /\ s.id = x.id =>
                           \A i \in DOMAIN pipe' : IsSend(pipe'[i]) /\ pipe'[i].id = x.id => pipe'[i].m.w # v
                      /\ call[v].at = "sure" =>
                           /\ s.id = x.id
                           /\ \A i \in 1 .. Len(s.high) : s.high[i].m.w # v
                           /\ \A i \in 1 .. Len(s.low) : s.low[i].m.w # v
                           /\ Len(s.high) > 0 => s.high[1].k = 1
    BY ZenonT(60) DEF AloneFor
  <2>1. AloneFor(v)
    BY DEF WInv, Alone
  <2>2. PICK x \in Message, g \in Slot : x = call[v].m /\ g = HASH_ID(x.id)
    BY CallFacts DEF IInv
  <2>3. /\ slot[g].id = x.id => \A i \in DOMAIN pipe : IsSend(pipe[i]) /\ pipe[i].id = x.id => pipe[i].m.w # v
        /\ call[v].at = "sure" =>
             /\ slot[g].id = x.id
             /\ \A i \in 1 .. Len(slot[g].high) : slot[g].high[i].m.w # v
             /\ \A i \in 1 .. Len(slot[g].low) : slot[g].low[i].m.w # v
             /\ Len(slot[g].high) > 0 => slot[g].high[1].k = 1
    BY ZenonT(60), <2>1, <2>2 DEF AloneFor
  <2>4. slot'[g].id = slot[g].id
    BY <1>1, <1>2
  <2>5. slot[g].id = x.id =>
           \A i \in DOMAIN pipe' : IsSend(pipe'[i]) /\ pipe'[i].id = x.id => pipe'[i].m.w # v
    BY <1>4, <2>3 DEF SendsFewer, IsSend
  <2>6. ASSUME call[v].at = "sure"
        PROVE  /\ \A i \in 1 .. Len(slot'[g].high) : slot'[g].high[i].m.w # v
               /\ \A i \in 1 .. Len(slot'[g].low) : slot'[g].low[i].m.w # v
               /\ Len(slot'[g].high) > 0 => slot'[g].high[1].k = 1
    <3>1. CASE g # h
      BY ZenonT(60), <1>1, <2>3, <2>6, <3>1
    <3>2. CASE g = h
      <4>1. x.id = d /\ m.w # v
        BY <1>2, <1>3, <1>8, <2>3, <2>6, <3>2
      <4>2. /\ \A i \in 1 .. Len(slot[h].high) : slot[h].high[i].m.w # v
            /\ \A i \in 1 .. Len(slot[h].low) : slot[h].low[i].m.w # v
            /\ Len(slot[h].high) > 0 => slot[h].high[1].k = 1
        BY ZenonT(60), <2>3, <2>6, <3>2
      <4>3. /\ \A i \in 1 .. Len(t.high) : t.high[i].m.w # v
            /\ Len(t.high) > 0 => t.high[1].k = 1
        BY <4>1, <4>2 DEF Grows
      <4>4. \A i \in 1 .. Len(t.low) : t.low[i].m.w # v
        BY <4>1, <4>2 DEF Grows
      <4> QED
        BY ZenonT(60), <1>1, <3>2, <4>3, <4>4
    <3> QED
      BY ZenonT(60), <3>1, <3>2
  <2> QED
    BY ZenonT(60), <2>2, <2>3, <2>4, <2>5, <2>6
<1>10. Alone'
  BY <1>9 DEF Alone
<1>11. \A v \in Service : call'[v] # Idle => m.w # v \/ m.n < call'[v].m.n
  BY <1>3, <1>8 DEF WInv, InOrder
<1>12. ASSUME NEW i \in DOMAIN pipe', IsSend(pipe'[i]) PROVE m.w # pipe'[i].m.w \/ m.n < pipe'[i].m.n
  <2>1. i + 1 \in DOMAIN pipe /\ pipe'[i] = pipe[i + 1]
    BY <1>4, <1>12 DEF SendsFewer, IsSend
  <2>2. 1 < i + 1
    BY <1>3
  <2> QED
    BY <1>3, <1>8, <1>12, <2>1, <2>2 DEF WInv, InOrder
<1>13. ASSUME NEW i \in DOMAIN pipe, pipe[i].m # m PROVE \E j \in DOMAIN pipe' : pipe'[j] = pipe[i]
  <2>1. i # 1
    BY <1>8, <1>13
  <2> QED
    BY <2>1, PipeLess DEF Taking
<1>14. \A i \in 1 .. Len(slot'[h].low) : slot'[h].low[i].m.op = "P"
  BY <1>1
<1>15. Cut(wire'[d], wire[d])
  BY <1>5, CutSelf
<1>16. slot'[h].id = d /\ slot'[h].type = slot[h].type /\ slot'[h].tcp = slot[h].tcp
  BY <1>1
<1>17. \A id \in Id : id # d => wire'[id] = wire[id]
  OBVIOUS
<1>18. 1 \in Nat /\ UNCHANGED <<closing, told, asked, gone, sent, due>>
  OBVIOUS
<1>19. /\ \A i \in DOMAIN pipe' : IsSend(pipe'[i]) /\ pipe'[i].id = d => m.w # pipe'[i].m.w \/ m.n < pipe'[i].m.n
       /\ \A i \in DOMAIN pipe : IsSend(pipe[i]) /\ pipe[i].m # m => \E j \in DOMAIN pipe' : pipe'[j] = pipe[i]
       /\ \A v \in Service : call[v] # Idle /\ call[v].m # m => call'[v] = call[v]
  BY ZenonT(60), <1>12, <1>13
<1>20. SendsFewer(1) /\ CallsFewer /\ Causes' /\ DuesAsked' /\ \A g \in Slot : g # h => slot'[g] = slot[g]
  BY <1>1, <1>4
<1> QED
  BY SMTT(60), <1>5, <1>7, <1>8, <1>10, <1>11, <1>14, <1>15, <1>16, <1>17, <1>18, <1>19, <1>20, PutWInv

(* dec_sending_ref touches the count alone. *)
LEMMA DecFacts ==
  ASSUME NEW t \in Socket, NEW id
  PROVE  LET u == dec_sending_ref(t, id) IN
         /\ u.type = t.type /\ u.id = t.id /\ u.tcp = t.tcp
         /\ u.dw = t.dw /\ u.high = t.high /\ u.low = t.low
  BY DEF dec_sending_ref, Socket

LEMMA SendSocketWInv ==
  ASSUME IInv, WInv, ctrl_cmd, Head(pipe).op \in {"D", "P"}, send_socket(Head(pipe))
  PROVE  WInv'
<1> DEFINE r == Head(pipe)
<1>1. /\ pipe # << >> /\ pipe' = Tail(pipe) /\ pipe[1] = r /\ 1 \in DOMAIN pipe
      /\ r \in Req /\ r.id \in Id /\ HASH_ID(r.id) \in Slot
      /\ slot[HASH_ID(r.id)] \in Socket /\ Sound(HASH_ID(r.id), slot[HASH_ID(r.id)])
      /\ UNCHANGED <<call, sent>>
  BY HeadFacts
<1>2. IsSend(r) /\ r.m \in sent /\ r.m.id = r.id /\ r.m.op = r.op /\ told[r.id] \in {"open", "close"}
  BY <1>1 DEF IsSend, WInv, Placed, IInv, Fresh
<1>3. PICK d \in Id, h \in Slot, m \in sent : d = r.id /\ h = HASH_ID(d) /\ m = r.m
  BY <1>1, <1>2
<1> DEFINE s == slot[h]
           taken == Valid(d) /\ s.type \notin {"HALFCLOSE", "PACCEPT"}
           only == send_buffer_empty(s) /\ s.type = "CONNECTED"
           t == IF ~taken THEN s
                ELSE IF r.op = "P" /\ ~only THEN [s EXCEPT !.low = @ \o From(m, 1)]
                ELSE [s EXCEPT !.high = @ \o From(m, 1), !.armed = @ \/ only]
           u == dec_sending_ref(t, d)
<1>4. SetSlot(h, u) /\ UNCHANGED <<told, ev, closing, wire, due>>
  BY ZenonT(60), <1>3 DEF send_socket
<1>5. IInv' /\ UNCHANGED <<asked, gone>>
  BY TakesCmd
<1>6. s \in Socket /\ Sound(h, s) /\ m \in Message /\ s.high \in Seq(Byte) /\ s.low \in Seq(Byte)
  BY <1>1, <1>3 DEF IInv, Typed, Socket
<1>7. slot'[h] = u /\ \A g \in Slot : g # h => slot'[g] = slot[g]
  <2> HIDE DEF u
  <2> QED
    BY <1>4, SetIs
<1>8. u \in Socket
  <2> HIDE DEF u
  <2>1. slot' \in [Slot -> Socket]
    BY <1>5 DEF IInv, Typed, Slot, Socket, SockType, Byte, Message, Id
  <2> QED
    BY <1>7, <2>1
<1>9. wire[d] \in Seq(Byte)
  BY DEF WInv, Histories
<1>10. Valid(d) => s.id = d /\ s.type # "PACCEPT"
  <2>1. ASSUME Valid(d), s.type = "PACCEPT" PROVE FALSE
    <3>1. told[d] = "accepted"
      BY <1>3, <2>1 DEF WInv, Phases, Valid
    <3> QED
      BY <1>2, <1>3, <3>1
  <2> QED
    BY <1>3, <2>1 DEF Valid
<1>11. CASE ~taken
  <2>1. t = s
    BY <1>11
  <2> HIDE DEF t, s
  <2>2. /\ u.type = s.type /\ u.id = s.id /\ u.tcp = s.tcp
        /\ u.dw = s.dw /\ u.high = s.high /\ u.low = s.low
    BY <1>6, <2>1, DecFacts
  <2> HIDE DEF u
  <2>3. SlotsStill
    BY <1>4, <2>2, SetStill DEF s
  <2>4. ~(Valid(r.id) /\ slot[HASH_ID(r.id)].type # "HALFCLOSE")
    BY <1>3, <1>10, <1>11 DEF s
  <2> QED
    BY <1>1, <1>2, <1>4, <1>5, <2>3, <2>4, DropWInv
<1>12. CASE taken /\ r.op = "P" /\ ~only
  <2> DEFINE b == s.low \o From(m, 1)
  <2>1. b \in Seq(Byte) /\ t = [s EXCEPT !.low = b]
    BY <1>6, <1>12, WholeFrom DEF Sound
  <2>2. Grows(s.low, m, b) /\ Grows(s.high, m, s.high)
    BY <1>6, GrowsFrom, GrowsSame
  <2>3. \A i \in 1 .. Len(b) : b[i].m.op = "P"
    <3>1. m.op = "P"
      BY <1>2, <1>3, <1>12
    <3>2. \A i \in 1 .. Len(s.low) : s.low[i].m.op = "P"
      BY DEF WInv, Placed
    <3> HIDE DEF b, s
    <3> QED
      BY <2>2, <3>1, <3>2 DEF Grows
  <2> HIDE DEF t
  <2>4. /\ t \in Socket /\ t.type = s.type /\ t.id = s.id /\ t.tcp = s.tcp
        /\ t.dw = s.dw /\ t.high = s.high /\ t.low = b
    BY <1>6, <2>1 DEF Socket
  <2>5. /\ u.type = s.type /\ u.id = s.id /\ u.tcp = s.tcp
        /\ u.dw = s.dw /\ u.high = s.high /\ u.low = b
    BY <2>4, DecFacts
  <2> HIDE DEF u
  <2>6. PICK p : p = Len(wire[d] \o Waiting(s))
    OBVIOUS
  <2>7. Put(wire[d] \o Waiting(s), m, p, wire[d] \o Waiting(u))
    BY <1>6, <1>8, <1>9, <2>5, <2>6, PutLow
  <2>8. s.id = d /\ Valid(d) /\ HASH_ID(d) = h
    BY <1>3, <1>10, <1>12
  <2>9. Stream(d) = wire[d] \o Waiting(s) /\ p \in Nat
    <3>1. wire[d] \o Waiting(s) \in Seq(Byte)
      BY <1>6, <1>9, WaitingSeq, CatSeq
    <3> QED
      BY <2>6, <2>8, <3>1, BytesOf DEF Stream, StreamIn
  <2>10. /\ p < Len(Stream(d)) => Stream(d)[p + 1].k = 1
         /\ \A i \in p + 1 .. Len(Stream(d)) : Stream(d)[i].m.w # m.w \/ Stream(d)[i].m.op # m.op
    <3>1. p = Len(Stream(d))
      BY <2>6, <2>9
    <3>2. ~(p < p) /\ p + 1 .. p = {}
      BY <2>9
    <3>3. ~(p < Len(Stream(d))) /\ p + 1 .. Len(Stream(d)) = {}
      BY <3>1, <3>2
    <3> QED
      BY <3>3
  <2> HIDE DEF s
  <2>11. u.id = d /\ Grows(s.low, m, u.low) /\ Grows(s.high, m, u.high) /\ \A i \in 1 .. Len(u.low) : u.low[i].m.op = "P"
    BY <2>2, <2>3, <2>5, <2>8
  <2> HIDE DEF s, b, taken, only
  <2>12. /\ Put(wire[d] \o Waiting(slot[h]), m, p, wire[d] \o Waiting(u))
         /\ Grows(slot[h].high, m, u.high) /\ Grows(slot[h].low, m, u.low)
         /\ u.type = slot[h].type /\ u.tcp = slot[h].tcp /\ u.dw = slot[h].dw
    BY <2>5, <2>7, <2>11 DEF s
  <2>13. /\ d = Head(pipe).id /\ m = Head(pipe).m /\ IsSend(Head(pipe)) /\ pipe # << >> /\ pipe' = Tail(pipe)
         /\ UNCHANGED <<ev, closing, call, told, asked, gone, sent, wire, due>>
    BY <1>1, <1>2, <1>3, <1>4, <1>5
  <2> HIDE DEF r
  <2> QED
    BY SMTT(60), <1>4, <1>5, <1>8, <2>8, <2>10, <2>11, <2>12, <2>13, TakenWInv DEF Taking
<1>13. CASE taken /\ ~(r.op = "P" /\ ~only)
  <2> DEFINE b == s.high \o From(m, 1)
             a == s.armed \/ only
  <2>1. b \in Seq(Byte)
    <3>1. 1 \in 1 .. Size + 1
      BY SizeNat
    <3>2. From(m, 1) \in Seq(Byte)
      BY <1>6, <3>1, FromFacts
    <3> QED
      BY <1>6, <3>2, CatSeq
  <2>2. t = [s EXCEPT !.high = b, !.armed = a] /\ a \in BOOLEAN
    BY <1>6, <1>13 DEF Socket
  <2>3. Grows(s.high, m, b) /\ Grows(s.low, m, s.low)
    BY <1>6, GrowsFrom, GrowsSame
  <2>4. \A i \in 1 .. Len(s.low) : s.low[i].m.op = "P"
    BY DEF WInv, Placed
  <2>5. r.op = "P" => s.low = << >>
    BY <1>13 DEF send_buffer_empty
  <2> HIDE DEF t, a
  <2>6. /\ t \in Socket /\ t.type = s.type /\ t.id = s.id /\ t.tcp = s.tcp
        /\ t.dw = s.dw /\ t.high = b /\ t.low = s.low
    BY <1>6, <2>1, <2>2 DEF Socket
  <2>7. /\ u.type = s.type /\ u.id = s.id /\ u.tcp = s.tcp
        /\ u.dw = s.dw /\ u.high = b /\ u.low = s.low
    BY <2>6, DecFacts
  <2> HIDE DEF u
  <2>8. s.id = d /\ Valid(d) /\ HASH_ID(d) = h
    BY <1>3, <1>10, <1>13
  <2>9. Stream(d) = wire[d] \o Waiting(s)
    BY <2>8 DEF Stream, StreamIn
  <2>10. PICK p : p = Len(wire[d]) + Len(s.dw) + Len(s.high)
    OBVIOUS
  <2>11. /\ Put(wire[d] \o Waiting(s), m, p, wire[d] \o Waiting(u))
         /\ \A i \in 1 .. Len(s.low) : Stream(d)[p + i] = s.low[i]
    <3> DEFINE x == wire[d]
    <3>1. x \in Seq(Byte) /\ Stream(d) = x \o Waiting(s) /\ p = Len(x) + Len(s.dw) + Len(s.high)
      BY <1>9, <2>9, <2>10
    <3> HIDE DEF s, x, b
    <3>2. u.dw = s.dw /\ u.high = s.high \o From(m, 1) /\ u.low = s.low
      BY <2>7 DEF b
    <3>3. /\ Put(x \o Waiting(s), m, Len(x) + Len(s.dw) + Len(s.high), x \o Waiting(u))
          /\ \A i \in 1 .. Len(s.low) : (x \o Waiting(s))[Len(x) + Len(s.dw) + Len(s.high) + i] = s.low[i]
      BY <1>6, <1>8, <3>1, <3>2, PutHigh
    <3>4. Put(x \o Waiting(s), m, p, x \o Waiting(u))
      BY <3>1, <3>3
    <3>5. \A i \in 1 .. Len(s.low) : Stream(d)[p + i] = s.low[i]
      BY <3>1, <3>3
    <3> QED
      BY <3>4, <3>5 DEF x
  <2>12. p \in Nat /\ Len(Stream(d)) = p + Len(s.low) /\ Len(s.low) \in Nat
    <3>1. /\ Waiting(s) \in Seq(Byte) /\ Len(s.dw) \in Nat /\ Len(s.high) \in Nat /\ Len(s.low) \in Nat
          /\ Len(Waiting(s)) = Len(s.dw) + Len(s.high) + Len(s.low)
      BY <1>6, WaitingAt
    <3>2. Len(wire[d]) \in Nat /\ Len(wire[d] \o Waiting(s)) = Len(wire[d]) + Len(Waiting(s))
      BY <1>9, <3>1, ConcatAt
    <3> DEFINE x == Len(wire[d])
               e == Len(s.dw)
               hh == Len(s.high)
               l == Len(s.low)
    <3>3. x \in Nat /\ e \in Nat /\ hh \in Nat /\ l \in Nat /\ p = x + e + hh /\ Len(Stream(d)) = x + (e + hh + l)
      BY <2>9, <2>10, <3>1, <3>2
    <3> HIDE DEF x, e, hh, l
    <3>4. p \in Nat /\ Len(Stream(d)) = p + l
      BY <3>3
    <3> QED
      BY <3>1, <3>4 DEF l
  <2>13. p < Len(Stream(d)) => Stream(d)[p + 1].k = 1
    <3>1. SUFFICES ASSUME p < Len(Stream(d)) PROVE Stream(d)[p + 1].k = 1
      OBVIOUS
    <3>2. 1 \in 1 .. Len(s.low)
      BY <2>12, <3>1
    <3>3. s.low # << >>
      BY <3>2
    <3>4. s.low[1].k = 1
      BY <1>6, <3>3, WholeFirst DEF Sound
    <3> QED
      BY <2>11, <3>2, <3>4
  <2>14. ASSUME NEW i \in p + 1 .. Len(Stream(d)) PROVE Stream(d)[i].m.op # m.op
    <3> DEFINE j == i - p
    <3>1. j \in 1 .. Len(s.low) /\ i = p + j
      BY <2>12
    <3> HIDE DEF j
    <3>2. Stream(d)[i].m.op = "P"
      BY <2>4, <2>11, <3>1
    <3>3. s.low # << >>
      BY <3>1
    <3>4. m.op # "P"
      BY <1>2, <1>3, <2>5, <3>3
    <3> QED
      BY <3>2, <3>4
  <2> HIDE DEF s
  <2>15. u.id = d /\ Grows(s.low, m, u.low) /\ Grows(s.high, m, u.high) /\ \A i \in 1 .. Len(u.low) : u.low[i].m.op = "P"
    BY <2>3, <2>4, <2>7, <2>8
  <2> HIDE DEF s, b, taken, only
  <2>16. /\ Put(wire[d] \o Waiting(slot[h]), m, p, wire[d] \o Waiting(u))
         /\ Grows(slot[h].high, m, u.high) /\ Grows(slot[h].low, m, u.low)
         /\ u.type = slot[h].type /\ u.tcp = slot[h].tcp /\ u.dw = slot[h].dw
    BY <2>7, <2>11, <2>15 DEF s
  <2>17. /\ d = Head(pipe).id /\ m = Head(pipe).m /\ IsSend(Head(pipe)) /\ pipe # << >> /\ pipe' = Tail(pipe)
         /\ UNCHANGED <<ev, closing, call, told, asked, gone, sent, wire, due>>
    BY <1>1, <1>2, <1>3, <1>4, <1>5
  <2> HIDE DEF r
  <2> QED
    BY <1>4, <1>5, <1>8, <2>8, <2>13, <2>14, <2>15, <2>16, <2>17, TakenWInv DEF Taking
<1> QED
  BY <1>11, <1>12, <1>13

-----------------------------------------------------------------------------
(* Every step. *)

LEMMA CtrlCmdWInv ==
  ASSUME IInv, WInv, ctrl_cmd
  PROVE  WInv'
<1> DEFINE r == Head(pipe)
<1>1. \/ r.op = "S" /\ start_socket(r)
      \/ r.op = "K" /\ close_socket(r)
      \/ r.op = "O" /\ open_socket(r)
      \/ r.op \in {"D", "P"} /\ send_socket(r)
  BY DEF ctrl_cmd
<1> QED
  BY <1>1, StartSocketWInv, CloseSocketWInv, OpenSocketWInv, SendSocketWInv

LEMMA WaitWInv ==
  ASSUME IInv, WInv, sp_wait
  PROVE  WInv'
<1>1. UNCHANGED <<slot, pipe, closing, call, told, asked, gone, sent, wire, due>>
  BY DEF sp_wait, world
<1>2. PICK S : S \subseteq Ready \cup {Knock} /\ ev' \in SetToSeqs(S)
  <2>1. PICK S \in {Ready} \cup (IF conns < MaxConn THEN {Ready \cup {Knock}} ELSE {}) : ev' \in SetToSeqs(S)
    BY DEF sp_wait
  <2>2. S = Ready \/ S = Ready \cup {Knock}
    OBVIOUS
  <2>3. S \subseteq Ready \cup {Knock}
    BY <2>2
  <2> QED
    BY <2>1, <2>3
<1>3. \A i \in DOMAIN ev' : ev'[i] \in S
  BY <1>2 DEF SetToSeqs
<1>4. \A e \in Ready \cup {Knock} : e.kind = "eof" => e.id \in gone
  BY DEF Ready, Knock
<1>5. Causes'
  BY <1>1, <1>2, <1>3, <1>4 DEF WInv, Causes, Shut
<1>6. IInv'
  BY WaitIInv
<1> QED
  BY <1>1, <1>5, <1>6, QuietWInv

LEMMA EventWInv ==
  ASSUME IInv, WInv, Held, Event
  PROVE  WInv'
<1>1. closing = {} /\ ev # << >> /\ ev' = Tail(ev) /\ UNCHANGED <<pipe, call>>
  BY DEF Event
<1>2. IInv'
  BY EventIInv
<1>3. CASE UNCHANGED <<slot, closing, told, world, wire, due>>
  <2>1. UNCHANGED <<slot, closing, told, asked, gone, sent, wire, due>>
    BY <1>3 DEF world
  <2>2. PipeCalm(0) /\ EventsFewer
    BY <1>1, TakesPipe, TakesEvent
  <2>3. Causes'
    BY <1>1, <1>2, <2>1, <2>2, TakesCalm
  <2> QED
    BY <1>1, <1>2, <2>1, <2>3, QuietWInv
<1>4. CASE SocketEvent(Head(ev))
  BY <1>1, <1>2, <1>4, SocketEventWInv
<1>5. CASE report_accept(Head(ev))
  BY <1>1, <1>2, <1>5, AcceptWInv
<1> QED
  BY <1>3, <1>4, <1>5 DEF Event

LEMMA SameWInv ==
  ASSUME IInv, IInv', WInv, UNCHANGED <<slot, pipe, ev, closing, call, told, asked, gone, sent, wire, due>>
  PROVE  WInv'
<1>1. Causes'
  BY CausesSame DEF WInv
<1> QED
  BY <1>1, QuietWInv

-----------------------------------------------------------------------------
(* A locked socket stays in use: only a service that finds it connected locks *)
(* it, and force_close waits for the lock.                                    *)

LEMMA HeldSet ==
  ASSUME IInv, Held, NEW h \in Slot, NEW t, SetSlot(h, t), t.lock => t.type \notin Blank
  PROVE  Held'
<1>1. slot'[h] = t /\ \A g \in Slot : g # h => slot'[g] = slot[g]
  BY SetIs
<1> QED
  BY <1>1 DEF Held, Blank

LEMMA SendHeld ==
  ASSUME IInv, Held, NEW w \in Service, SendStep(w)
  PROVE  Held'
<1> DEFINE h == HASH_ID(call[w].m.id)
           s == slot[h]
<1>1. h \in Slot /\ s \in Socket
  <2>1. call[w].at # "idle"
    BY ZenonT(60) DEF SendStep, Look, Recheck, DirectWrite, NotAlone, inc_sending_ref, send_request, At
  <2> QED
    BY <2>1, CallFacts DEF IInv, Typed
<1>2. ASSUME NEW b, SetSlot(h, [s EXCEPT !.lock = b]), b => s.type \notin Blank PROVE Held'
  <2> DEFINE t == [s EXCEPT !.lock = b]
  <2>1. t.lock = b /\ t.type = s.type
    BY <1>1 DEF Socket
  <2>2. SetSlot(h, t)
    BY <1>2
  <2> HIDE DEF t
  <2> QED
    BY <1>1, <1>2, <2>1, <2>2, HeldSet
<1>3. CASE Look(w)
  <2>1. SetSlot(h, [s EXCEPT !.lock = s.lock \/ (NoneElse(s) /\ ~s.lock)])
    BY ZenonT(60), <1>3 DEF Look
  <2>2. s.lock \/ (NoneElse(s) /\ ~s.lock) => s.type \notin Blank
    BY <1>1 DEF Held, NoneElse, Blank
  <2> QED
    BY <1>2, <2>1, <2>2
<1>4. CASE Recheck(w)
  <2>1. call[w].at = "locked" /\ SetSlot(h, [s EXCEPT !.lock = (s.id = call[w].m.id /\ send_buffer_empty(s))])
    BY ZenonT(60), <1>4 DEF Recheck, At
  <2>2. s.type \notin Blank
    BY <1>1, <2>1 DEF Held, IInv, Locks, HoldsLock
  <2> QED
    BY <1>2, <2>1, <2>2
<1>5. CASE NotAlone(w)
  <2>1. SetSlot(h, [s EXCEPT !.lock = FALSE])
    BY ZenonT(60), <1>5 DEF NotAlone
  <2> QED
    BY <1>2, <2>1
<1>6. CASE DirectWrite(w)
  <2>1. PICK n : SetSlot(h, [s EXCEPT !.dw = From(call[w].m, n + 1), !.armed = @ \/ n < Size, !.lock = FALSE])
    BY ZenonT(60), <1>6 DEF DirectWrite
  <2> DEFINE t == [s EXCEPT !.dw = From(call[w].m, n + 1), !.armed = @ \/ n < Size, !.lock = FALSE]
  <2>2. t.lock = FALSE
    BY <1>1 DEF Socket
  <2> HIDE DEF t
  <2>3. SetSlot(h, t)
    BY <2>1 DEF t
  <2> QED
    BY <1>1, <2>2, <2>3, HeldSet
<1>7. CASE inc_sending_ref(w)
  <2> DEFINE t == [s EXCEPT !.sending = @ + 1]
  <2>1. SetSlot(h, t) \/ SetSlot(h, s)
    BY ZenonT(60), <1>7 DEF inc_sending_ref
  <2>2. t.lock = s.lock /\ t.type = s.type
    BY <1>1 DEF Socket
  <2>3. s.lock => s.type \notin Blank
    BY <1>1 DEF Held
  <2> HIDE DEF t
  <2> QED
    BY <1>1, <2>1, <2>2, <2>3, HeldSet
<1>8. CASE send_request(w)
  BY <1>8 DEF send_request, Held
<1> QED
  BY <1>3, <1>4, <1>5, <1>6, <1>7, <1>8 DEF SendStep

LEMMA RequestHeld ==
  ASSUME IInv, Held, ctrl_cmd
  PROVE  Held'
<1> DEFINE r == Head(pipe)
           h == HASH_ID(r.id)
           s == slot[h]
<1>1. h \in Slot /\ s \in Socket /\ Sound(h, s) /\ r.id \in Id /\ pipe[1] = r /\ 1 \in DOMAIN pipe
  BY HeadFacts
<1>2. s.lock => s.type \notin Blank
  BY <1>1 DEF Held
<1>3. ASSUME slot' = slot PROVE Held'
  BY <1>3 DEF Held
<1>4. Freed(s).lock = s.lock /\ Freed(s).type = s.type /\ Closed(s).lock = s.lock
  BY <1>1, FreedFacts DEF Keeps
<1>5. CASE r.op = "S" /\ start_socket(r)
  <2> DEFINE t == [s EXCEPT !.type = "CONNECTED", !.watched = TRUE]
  <2>1. SetSlot(h, t) \/ SetSlot(h, Freed(s)) \/ slot' = slot
    BY ZenonT(60), <1>5 DEF start_socket, force_close
  <2>2. t.type = "CONNECTED"
    BY <1>1 DEF Socket
  <2> HIDE DEF t
  <2> QED
    BY <1>1, <1>2, <1>3, <1>4, <2>1, <2>2, HeldSet DEF Blank
<1>6. CASE r.op = "O" /\ open_socket(r)
  <2>1. s.type = "RESERVE"
    BY <1>1, <1>6 DEF IInv, Opening
  <2>2. ~s.lock
    BY <1>2, <2>1 DEF Blank
  <2> DEFINE f == new_fd(s, r.id)
             a == [s EXCEPT !.type = "INVALID"]
             b == [f EXCEPT !.watched = TRUE, !.type = "CONNECTED"]
             d == [f EXCEPT !.watched = TRUE, !.type = "CONNECTING", !.armed = TRUE]
  <2>3. SetSlot(h, a) \/ SetSlot(h, b) \/ SetSlot(h, d)
    BY <1>6 DEF open_socket
  <2>4. f \in Socket /\ f.lock = s.lock
    BY <1>1, <2>1, NewFdFacts DEF Blank
  <2> HIDE DEF f
  <2>5. a.lock = s.lock /\ b.lock = f.lock /\ d.lock = f.lock
    BY <1>1, <2>4 DEF Socket
  <2> HIDE DEF a, b, d
  <2> QED
    BY <1>1, <2>2, <2>3, <2>4, <2>5, HeldSet
<1>7. CASE r.op \in {"D", "P"} /\ send_socket(r)
  <2> DEFINE a == [s EXCEPT !.low = @ \o From(r.m, 1)]
             only == send_buffer_empty(s) /\ s.type = "CONNECTED"
             b == [s EXCEPT !.high = @ \o From(r.m, 1), !.armed = @ \/ only]
  <2>1. \E t \in {s, a, b} : SetSlot(h, dec_sending_ref(t, r.id))
    BY ZenonT(60), <1>7 DEF send_socket
  <2>2. ASSUME NEW t \in {s, a, b}
        PROVE  LET u == dec_sending_ref(t, r.id) IN u.lock = s.lock /\ u.type = s.type
    <3>1. t.lock = s.lock /\ t.type = s.type
      BY <1>1 DEF Socket
    <3>2. [t EXCEPT !.sending = @ - 1].lock = t.lock /\ [t EXCEPT !.sending = @ - 1].type = t.type
      BY <1>1 DEF Socket
    <3> HIDE DEF a, b
    <3> QED
      BY <3>1, <3>2 DEF dec_sending_ref
  <2> HIDE DEF a, b
  <2> QED
    BY <1>1, <1>2, <2>1, <2>2, HeldSet
<1>8. CASE r.op = "K" /\ close_socket(r)
  <2>1. CASE ~Valid(r.id)
    BY <1>3, <1>8, <2>1 DEF close_socket
  <2>2. CASE Valid(r.id)
    <3> DEFINE try == ~nomore_sending_data(s) /\ ~s.lock
    <3>1. PICK k \in 0 .. Len(Waiting(s)) :
            LET t == IF try THEN send_buffer(s, k) ELSE s IN
            IF try /\ Ends(s, k) THEN SetSlot(h, Closed(s))
            ELSE IF r.shutdown \/ nomore_sending_data(t) THEN force_close(h, t)
            ELSE SetSlot(h, [t EXCEPT !.type = "HALFCLOSE"])
      <4>1. (IF try /\ r.id \notin gone THEN 0 .. Len(Waiting(s)) ELSE {0}) \subseteq 0 .. Len(Waiting(s))
        BY <1>1, WaitingSeq
      <4> QED
        BY <1>8, <2>2, <4>1, Zenon DEF close_socket
    <3> DEFINE t == IF try THEN send_buffer(s, k) ELSE s
               u == [t EXCEPT !.type = "HALFCLOSE"]
    <3>2. t \in Socket /\ Sound(h, t) /\ Keeps(s, t) /\ t.type = s.type
      BY <1>1, SendBuffer DEF Keeps
    <3>3. (SetSlot(h, Closed(s)) /\ ~s.lock) \/ force_close(h, t) \/ SetSlot(h, u)
      BY <3>1
    <3> HIDE DEF t
    <3>4. Freed(t).lock = s.lock /\ Freed(t).type = s.type
      BY <3>2, FreedFacts DEF Keeps
    <3>5. u.type = "HALFCLOSE"
      BY <3>2 DEF Socket
    <3> HIDE DEF u
    <3> QED
      BY <1>1, <1>2, <1>4, <3>3, <3>4, <3>5, HeldSet DEF force_close, Blank
  <2> QED
    BY <2>1, <2>2
<1> QED
  BY <1>5, <1>6, <1>7, <1>8 DEF ctrl_cmd

LEMMA EventHeld ==
  ASSUME IInv, Held, Event
  PROVE  Held'
<1> DEFINE e == Head(ev)
<1>1. CASE UNCHANGED slot
  BY <1>1 DEF Held
<1>2. CASE SocketEvent(e)
  <2>1. e.h \in Slot /\ slot[e.h].type \notin Blank
    <3>1. Len(ev) \in Nat \ {0} /\ DOMAIN ev = 1 .. Len(ev) /\ e = ev[1]
      BY SeqTail DEF IInv, Typed, Event
    <3>2. 1 \in DOMAIN ev /\ Real(e)
      BY <1>2, <3>1 DEF SocketEvent, Real
    <3> QED
      BY <3>1, <3>2 DEF IInv, Events
  <2> DEFINE h == e.h
             s == slot[h]
  <2>2. s \in Socket /\ Sound(h, s)
    BY <2>1 DEF IInv, Typed, Sockets
  <2>3. Freed(s).type = s.type /\ Closed(s).lock = s.lock
    BY <2>2, FreedFacts DEF Keeps
  <2>4. ASSUME force_close(h, s) PROVE Held'
    BY <2>1, <2>3, <2>4, HeldSet DEF force_close
  <2>5. ASSUME report_connect(h, s) PROVE Held'
    <3> DEFINE t == [s EXCEPT !.type = "CONNECTED", !.armed = ~nomore_sending_data(s)]
    <3>1. SetSlot(h, t) \/ force_close(h, s)
      BY <2>5 DEF report_connect
    <3>2. t.type = "CONNECTED"
      BY <2>2 DEF Socket
    <3> HIDE DEF t
    <3> QED
      BY <2>1, <2>4, <3>1, <3>2, HeldSet DEF Blank
  <2>6. ASSUME Writable(h, s) PROVE Held'
    <3>1. PICK k \in 0 .. Len(Waiting(s)) :
            SetSlot(h, IF s.lock THEN s ELSE IF Ends(s, k) THEN Closed(s) ELSE send_buffer(s, k))
      <4>1. (IF s.lock \/ s.id \in gone THEN {0}
             ELSE {n \in 0 .. Len(Waiting(s)) : n = 0 <=> Waiting(s) = << >>}) \subseteq 0 .. Len(Waiting(s))
        BY <2>2, WaitingSeq
      <4> QED
        BY <2>6, <4>1, Zenon DEF Writable
    <3>2. send_buffer(s, k).type = s.type
      BY <2>2, SendBuffer
    <3>3. CASE s.lock
      BY <2>1, <3>1, <3>3, HeldSet
    <3>4. CASE ~s.lock /\ Ends(s, k)
      <4>1. SetSlot(h, Closed(s))
        BY <3>1, <3>4
      <4> QED
        BY <2>1, <2>3, <3>4, <4>1, HeldSet
    <3>5. CASE ~s.lock /\ ~Ends(s, k)
      <4>1. SetSlot(h, send_buffer(s, k))
        BY <3>1, <3>5
      <4> QED
        BY <2>1, <3>2, <4>1, HeldSet
    <3> QED
      BY <3>3, <3>4, <3>5
  <2>7. report_connect(h, s) \/ slot' = slot \/ force_close(h, s) \/ Writable(h, s)
    BY <1>2 DEF SocketEvent
  <2> QED
    BY <1>1, <2>4, <2>5, <2>6, <2>7
<1>3. CASE report_accept(e)
  <2>1. ASSUME NEW id \in Id, reserve_id(id),
               SetSlot(HASH_ID(id), [new_fd(slot[HASH_ID(id)], id) EXCEPT !.type = "PACCEPT"])
        PROVE  Held'
    <3> DEFINE f == new_fd(slot[HASH_ID(id)], id)
               t == [f EXCEPT !.type = "PACCEPT"]
    <3>1. HASH_ID(id) \in Slot /\ f \in Socket
      BY <2>1, ReserveFacts, NewFdFacts DEF Blank
    <3> HIDE DEF f
    <3>2. t.type = "PACCEPT"
      BY <3>1 DEF Socket
    <3>3. SetSlot(HASH_ID(id), t)
      BY <2>1 DEF f
    <3> HIDE DEF t
    <3> QED
      BY <3>1, <3>2, <3>3, HeldSet DEF Blank
  <2> QED
    BY <1>1, <1>3, <2>1 DEF report_accept
<1> QED
  BY <1>1, <1>2, <1>3 DEF Event

LEMMA StepHeld == IInv /\ Held /\ [Next]_vars => Held'
<1> SUFFICES ASSUME IInv, Held, [Next]_vars PROVE Held'
  OBVIOUS
<1>1. ASSUME slot' = slot PROVE Held'
  BY <1>1 DEF Held
<1>2. CASE SocketThread
  <2>1. CASE ForceClosed
    <3>1. PICK id \in closing : LET h == HASH_ID(id) IN ~slot[h].lock /\ SetSlot(h, Closed(slot[h]))
      BY <2>1 DEF ForceClosed
    <3> DEFINE h == HASH_ID(id)
    <3>2. h \in Slot
      BY Constants DEF IInv, Typed, Closing
    <3>3. Closed(slot[h]).lock = slot[h].lock
      <4>1. slot[h] \in Socket /\ Sound(h, slot[h])
        BY <3>2 DEF IInv, Typed, Sockets
      <4> QED
        BY <4>1, FreedFacts DEF Keeps
    <3> QED
      BY <3>1, <3>2, <3>3, HeldSet
  <2>2. CASE NoCmd \/ sp_wait
    BY <1>1, <2>2 DEF NoCmd, sp_wait
  <2> QED
    BY <1>2, <2>1, <2>2, RequestHeld, EventHeld DEF SocketThread
<1>3. ASSUME NEW w \in Service, SendStep(w) PROVE Held'
  BY <1>3, SendHeld
<1>4. ASSUME NEW w \in Service, NEW id \in Id, Connect(w, id) PROVE Held'
  <2> DEFINE h == HASH_ID(id)
             t == Reserved(slot[h], id)
  <2>1. SetSlot(h, t) /\ h \in Slot /\ slot[h] \in Socket /\ slot[h].type = "INVALID"
    BY <1>4, ReserveFacts DEF Connect
  <2>2. t.lock = slot[h].lock
    BY <2>1 DEF Reserved, Socket
  <2> HIDE DEF t
  <2> QED
    BY <2>1, <2>2, HeldSet DEF Held, Blank
<1>5. ASSUME NEW w \in Service, NEW id \in Id, Start(w, id) PROVE Held'
  BY <1>1, <1>5 DEF Start
<1>6. ASSUME NEW w \in Service, NEW id \in Id, NEW op \in {"D", "P"}, Send(w, id, op) PROVE Held'
  BY <1>1, <1>6 DEF Send
<1>7. ASSUME NEW w \in Service, NEW id \in Id, NEW shutdown \in BOOLEAN, Close(w, id, shutdown) PROVE Held'
  BY <1>1, <1>7 DEF Close
<1>8. ASSUME NEW id \in Id, PeerClose(id) PROVE Held'
  BY <1>1, <1>8 DEF PeerClose
<1>9. CASE UNCHANGED vars
  BY <1>1, <1>9 DEF vars
<1> QED
  BY <1>2, <1>3, <1>4, <1>5, <1>6, <1>7, <1>8, <1>9 DEF Next

LEMMA InitHeld == Init => Held
  BY DEF Init, Held

-----------------------------------------------------------------------------
LEMMA StepWInv == IInv /\ WInv /\ Held /\ [Next]_vars => WInv'
<1> SUFFICES ASSUME IInv, WInv, Held, [Next]_vars PROVE WInv'
  OBVIOUS
<1>1. IInv'
  BY StepIInv
<1>2. CASE SocketThread
  <2>1. CASE NoCmd
    BY <1>1, <2>1, SameWInv DEF NoCmd, world
  <2> QED
    BY <1>2, <2>1, ForceClosedWInv, CtrlCmdWInv, WaitWInv, EventWInv DEF SocketThread
<1>3. ASSUME NEW w \in Service, SendStep(w) PROVE WInv'
  BY <1>3, LookWInv, DirectWriteWInv, SendRequestWInv DEF SendStep
<1>4. ASSUME NEW w \in Service, NEW id \in Id, Start(w, id) \/ Connect(w, id) PROVE WInv'
  BY <1>4, StartWInv, ConnectWInv
<1>5. ASSUME NEW w \in Service, NEW id \in Id, NEW op \in {"D", "P"}, Send(w, id, op) PROVE WInv'
  BY <1>5, SendWInv
<1>6. ASSUME NEW w \in Service, NEW id \in Id, NEW shutdown \in BOOLEAN, Close(w, id, shutdown) PROVE WInv'
  BY <1>6, CloseWInv
<1>7. ASSUME NEW id \in Id, PeerClose(id) PROVE WInv'
  BY <1>1, <1>7, PeerCloseWInv
<1>8. CASE UNCHANGED vars
  BY <1>1, <1>8, SameWInv DEF vars
<1> QED
  BY <1>2, <1>3, <1>4, <1>5, <1>6, <1>7, <1>8 DEF Next

LEMMA InitWInv == Init => WInv
<1> SUFFICES ASSUME Init PROVE WInv
  OBVIOUS
<1>1. /\ \A h \in Slot : /\ slot[h].type = "INVALID" /\ slot[h].id = 0 /\ slot[h].low = << >>
      /\ pipe = << >> /\ ev = << >> /\ closing = {} /\ sent = {}
      /\ \A w \in Service : call[w] = Idle
      /\ \A id \in Id : told[id] = "nothing" /\ wire[id] = << >> /\ due[id] = {}
  BY DEF Init
<1>2. Histories
  <2>1. << >> \in Seq(Byte)
    BY EmptySeq
  <2> QED
    BY <2>1 DEF Init, Histories
<1>3. \A id \in Id : HASH_ID(id) \in Slot /\ id # 0
  BY Constants
<1>4. \A id \in Id : ~Valid(id) /\ Stream(id) = << >>
  BY <1>1, <1>3 DEF Valid, Stream, StreamIn
<1>5. Len(<< >>) = 0 /\ DOMAIN << >> = {} /\ 1 .. 0 = {}
  OBVIOUS
<1>6. DOMAIN pipe = {} /\ DOMAIN ev = {} /\ \A id \in Id : 1 .. Len(Stream(id)) = {}
  BY <1>1, <1>4, <1>5
<1>7. Phases
  BY <1>1, <1>4 DEF Phases, Blank
<1>8. Causes /\ DuesAsked
  BY <1>6 DEF Causes, DuesAsked
<1>9. Placed
  <2>1. \A h \in Slot : 1 .. Len(slot[h].low) = {}
    BY <1>1, <1>5
  <2> QED
    BY <1>1, <1>6, <2>1 DEF Placed
<1>10. InOrder
  BY <1>1, <1>6 DEF InOrder
<1>11. Streams
  BY <1>4, <1>6 DEF Streams, Exact
<1>12. Alone
  BY <1>1, IdleAlone DEF Alone
<1>13. Kept /\ DuesKept
  BY <1>1 DEF Kept, DuesKept
<1> QED
  BY <1>2, <1>7, <1>8, <1>9, <1>10, <1>11, <1>12, <1>13 DEF WInv

LEMMA SocketWInv == Spec => []WInv
<1>1. Spec => [](IInv /\ Held)
  BY InitIInv, StepIInv, InitHeld, StepHeld, PTL DEF Spec
<1> QED
  BY <1>1, InitWInv, StepWInv, PTL DEF Spec

-----------------------------------------------------------------------------
(* The results. *)

(* Whatever the threads do, the peer of a connection that is not shut down   *)
(* reads whole messages, none mixed into another, none twice, none meant for *)
(* another connection, those of a service and a priority in the order it     *)
(* sent them: a direct write of a worker thread (socket_server_send), the    *)
(* rest of one in dw_buffer and the two lists of send_buffer never meet in   *)
(* the middle of a message.                                                  *)
THEOREM SocketWireExact == Spec => []WireExact
<1>1. ASSUME IInv, WInv PROVE WireExact
  <2> SUFFICES ASSUME NEW id \in Id, ~Spared(id), NEW b, b = wire[id], NEW i \in DOMAIN b
               PROVE  /\ b[i].m.id = id
                      /\ IF i > 1 /\ b[i].k > 1 THEN b[i - 1] = [b[i] EXCEPT !.k = @ - 1]
                         ELSE b[i].k = 1 /\ (i > 1 => b[i - 1].k = Size)
                      /\ \A j \in 1 .. i - 1 : b[j].m.w = b[i].m.w /\ b[j].m.op = b[i].m.op =>
                           b[j].m.n < b[i].m.n \/ (b[j].m = b[i].m /\ b[j].k < b[i].k)
    BY DEF WireExact, Spared
  <2>1. Stream(id) \in Seq(Byte) /\ b \in Seq(Byte) /\ Cut(Stream(id), b)
    BY <1>1, StreamIs DEF IInv, Typed, WInv, Histories, Stream
  <2>2. Exact(b)
    <3>1. Exact(Stream(id))
      BY <1>1 DEF WInv, Streams
    <3> QED
      BY <2>1, <3>1, CutExact
  <2>3. Len(b) \in Nat /\ DOMAIN b = 1 .. Len(b) /\ Len(Stream(id)) \in Nat /\ \A j \in 1 .. Len(b) : b[j] \in Byte
    BY <2>1, BytesOf
  <2>4. b[i].m.id = id
    <3>1. i \in 1 .. Len(Stream(id)) /\ b[i] = Stream(id)[i]
      BY <2>1, <2>3 DEF Cut
    <3> QED
      BY <1>1, <3>1 DEF WInv, Placed
  <2>5. /\ i > 1 /\ b[i].k > 1 => b[i - 1].m = b[i].m /\ b[i - 1].k = b[i].k - 1
        /\ ~(i > 1 /\ b[i].k > 1) => b[i].k = 1 /\ (i > 1 => b[i - 1].k = Size)
        /\ \A j \in 1 .. i - 1 : b[j].m.w = b[i].m.w /\ b[j].m.op = b[i].m.op =>
             b[j].m.n < b[i].m.n \/ (b[j].m = b[i].m /\ b[j].k < b[i].k)
    BY <2>2, <2>3, Zenon DEF Exact
  <2>6. ASSUME i > 1, b[i].k > 1 PROVE b[i - 1] = [b[i] EXCEPT !.k = @ - 1]
    <3>1. i - 1 \in 1 .. Len(b)
      BY <2>3, <2>6
    <3>2. b[i] \in Byte /\ b[i - 1] \in Byte
      BY <2>3, <3>1
    <3>3. b[i - 1].m = b[i].m /\ b[i - 1].k = b[i].k - 1
      BY <2>5, <2>6
    <3> QED
      BY <3>2, <3>3 DEF Byte
  <2> QED
    BY <2>4, <2>5, <2>6
<1> QED
  BY <1>1, SocketIInv, SocketWInv, PTL

(* A service that sends and then closes has all it had sent written before   *)
(* the services hear that the socket is closed (close_socket, force_close),  *)
(* unless the peer is gone or somebody shuts the socket down.                *)
THEOREM SocketCloserFlushed == Spec => []CloserFlushed
<1>1. ASSUME IInv, WInv PROVE CloserFlushed
  <2> SUFFICES ASSUME NEW id \in Id, told[id] = "close", ~Spared(id), NEW m \in due[id]
               PROVE  [m |-> m, k |-> Size] \in Range(wire[id])
    BY DEF CloserFlushed, Spared
  <2>1. Has(wire[id], m)
    BY <1>1 DEF WInv, DuesKept
  <2>2. PICK i \in 1 .. Len(wire[id]) : wire[id][i].m = m /\ wire[id][i].k = Size
    BY <2>1 DEF Has
  <2>3. DOMAIN wire[id] = 1 .. Len(wire[id]) /\ wire[id][i] \in Byte
    BY <1>1, BytesOf DEF WInv, Histories
  <2>4. wire[id][i] = [m |-> m, k |-> Size]
    BY <2>2, <2>3 DEF Byte
  <2> QED
    BY <2>3, <2>4 DEF Range
<1> QED
  BY <1>1, SocketIInv, SocketWInv, PTL
=============================================================================
