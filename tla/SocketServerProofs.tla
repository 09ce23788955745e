------------------------- MODULE SocketServerProofs -------------------------
(* EventsFresh and SendingExact of SocketServer, with the types they include, *)
(* for any number of services, slots and connections and any message size:   *)
(* the counter in sending, the spinlock, the lists and the events of a slot  *)
(* are those of the id that has the slot now, whatever requests of an        *)
(* earlier id are still on their way.                                        *)
EXTENDS SocketServer, FiniteSetTheorems, SequenceTheorems, FunctionTheorems, TLAPS

(* The places of s that hold a member of T. *)
Hits(s, T) == {i \in DOMAIN s : s[i] \in T}

-----------------------------------------------------------------------------
(* What remains when the C code divides, and how many entries of a list are  *)
(* of a kind when one is linked at its end or taken from its front.          *)

(* Division with a remainder. *)
LEMMA DivMod ==
  ASSUME NEW a \in Int, NEW n \in Nat \ {0}
  PROVE  /\ a % n \in 0 .. n - 1
         /\ a \div n \in Int
         /\ a = n * (a \div n) + (a % n)
<1>1. n \in Int /\ n > 0
  OBVIOUS
<1>2. n * (a \div n) + (a % n) = a
  BY <1>1, SMT
<1>3. a % n \in 0 .. n - 1 /\ a \div n \in Int
  BY SMT
<1> QED
  BY <1>2, <1>3

(* There is one quotient and one remainder. *)
LEMMA DivModUnique ==
  ASSUME NEW a \in Int, NEW n \in Nat \ {0}, NEW q \in Int, NEW r \in 0 .. n - 1, a = n * q + r
  PROVE  a % n = r /\ a \div n = q
  BY SMT

(* Of numbers that have the same remainder and quotient there is one. *)
LEMMA DivModSame ==
  ASSUME NEW a \in Int, NEW b \in Int, NEW n \in Nat \ {0}, a % n = b % n, a \div n = b \div n
  PROVE  a = b
  BY DivMod

LEMMA DivNat ==
  ASSUME NEW a \in Nat, NEW n \in Nat \ {0}
  PROVE  a \div n \in Nat
<1> DEFINE q == a \div n
           r == a % n
<1>1. q \in Int /\ r \in 0 .. n - 1 /\ a = n * q + r
  BY DivMod
<1> HIDE DEF q, r
<1>2. ASSUME q < 0 PROVE FALSE
  <2>1. n * (q + 1) <= 0 /\ n * (q + 1) = n * q + n
    BY <1>1, <1>2
  <2>2. n * q \in Int
    BY <1>1
  <2> DEFINE p == n * q
  <2> HIDE DEF p
  <2>3. p \in Int /\ p + n <= 0 /\ a = p + r
    BY <1>1, <2>1, <2>2 DEF p
  <2> QED
    BY <1>1, <2>3
<1> QED
  BY <1>1, <1>2 DEF q

(* A multiple of n that is not negative is so because of the other factor. *)
LEMMA FactorNat ==
  ASSUME NEW n \in Nat \ {0}, NEW d \in Int, n * d \in Nat
  PROVE  d \in Nat
  BY SMT

-----------------------------------------------------------------------------
(* A list has finitely many places. *)
LEMMA HitsFinite ==
  ASSUME NEW S, NEW s \in Seq(S), NEW T
  PROVE  /\ IsFiniteSet(Hits(s, T)) /\ Cardinality(Hits(s, T)) \in Nat
         /\ \A i \in Hits(s, T) : Cardinality(Hits(s, T)) > 0
<1>1. Len(s) \in Nat /\ DOMAIN s = 1 .. Len(s)
  BY LenProperties
<1>2. IsFiniteSet(1 .. Len(s))
  BY <1>1, FS_Interval
<1>3. Hits(s, T) \in SUBSET (1 .. Len(s))
  BY <1>1 DEF Hits
<1>4. IsFiniteSet(Hits(s, T))
  BY <1>2, <1>3, FS_Subset
<1>5. Cardinality(Hits(s, T)) \in Nat
  BY <1>4, FS_CardinalityType
<1>6. Hits(s, T) # {} => Cardinality(Hits(s, T)) # 0
  BY <1>4, FS_EmptySet
<1> QED
  BY <1>4, <1>5, <1>6

(* One more entry at the end. *)
LEMMA HitsAppend ==
  ASSUME NEW S, NEW s \in Seq(S), NEW e \in S, NEW T
  PROVE  Cardinality(Hits(Append(s, e), T)) = Cardinality(Hits(s, T)) + (IF e \in T THEN 1 ELSE 0)
<1> DEFINE n == Len(s)
<1>1. n \in Nat /\ DOMAIN s = 1 .. n
  BY LenProperties
<1>2. /\ Append(s, e) \in Seq(S) /\ Len(Append(s, e)) = n + 1
      /\ \A i \in 1 .. n : Append(s, e)[i] = s[i]
      /\ Append(s, e)[n + 1] = e
  BY AppendProperties
<1>3. DOMAIN Append(s, e) = 1 .. n + 1
  BY <1>2, LenProperties
<1> HIDE DEF n
<1>4. n + 1 \notin Hits(s, T)
  BY <1>1 DEF Hits
<1>5. \A i \in 1 .. n + 1 : i = n + 1 \/ i \in 1 .. n
  BY <1>1
<1>6. n + 1 \in 1 .. n + 1 /\ \A i \in 1 .. n : i \in 1 .. n + 1
  BY <1>1
<1>7. IsFiniteSet(Hits(s, T)) /\ Cardinality(Hits(s, T)) \in Nat
  BY HitsFinite
<1>8. CASE e \in T
  <2>1. Hits(Append(s, e), T) = Hits(s, T) \cup {n + 1}
    BY <1>1, <1>2, <1>3, <1>5, <1>6, <1>8 DEF Hits
  <2>2. Cardinality(Hits(s, T) \cup {n + 1}) = Cardinality(Hits(s, T)) + 1
    BY <1>4, <1>7, FS_AddElement
  <2> QED
    BY <1>8, <2>1, <2>2
<1>9. CASE e \notin T
  <2>1. Hits(Append(s, e), T) = Hits(s, T)
    BY <1>1, <1>2, <1>3, <1>5, <1>6, <1>9 DEF Hits
  <2> QED
    BY <1>7, <1>9, <2>1
<1> QED
  BY <1>8, <1>9

(* The entry at the front is gone. *)
LEMMA HitsTail ==
  ASSUME NEW S, NEW s \in Seq(S), s # << >>, NEW T
  PROVE  Cardinality(Hits(Tail(s), T)) = Cardinality(Hits(s, T)) - (IF Head(s) \in T THEN 1 ELSE 0)
<1> DEFINE n == Len(s)
           A == Hits(Tail(s), T)
           B == Hits(s, T) \ {1}
           f == [i \in A |-> i + 1]
<1>1. n \in Nat \ {0} /\ DOMAIN s = 1 .. n
  BY LenProperties, EmptySeq
<1>2. Tail(s) \in Seq(S) /\ Len(Tail(s)) = n - 1 /\ \A i \in 1 .. n - 1 : Tail(s)[i] = s[i + 1]
  BY HeadTailProperties
<1>3. DOMAIN Tail(s) = 1 .. n - 1
  BY <1>2, LenProperties
<1>4. Head(s) = s[1]
  BY <1>1, SMT
<1> HIDE DEF n
<1>5. \A i \in 1 .. n - 1 : i + 1 \in 1 .. n /\ i + 1 # 1
  BY <1>1
<1>6. \A j \in 1 .. n : j # 1 => j - 1 \in 1 .. n - 1 /\ (j - 1) + 1 = j
  BY <1>1
<1>7. \A i \in A : i \in 1 .. n - 1 /\ s[i + 1] \in T
  BY <1>2, <1>3 DEF Hits
<1>8. \A j \in B : j \in 1 .. n /\ j # 1 /\ s[j] \in T
  BY <1>1 DEF Hits
<1>9. \A j \in B : j - 1 \in A
  BY <1>2, <1>3, <1>6, <1>8 DEF Hits
<1>10. \A i \in A : i + 1 \in B
  BY <1>1, <1>5, <1>7 DEF Hits
<1>11. \A i, j \in A : i + 1 = j + 1 => i = j
  BY <1>7, SMT
<1> HIDE DEF A, B
<1>12. f \in [A -> B]
  BY <1>10
<1>13. \A i, j \in A : f[i] = f[j] => i = j
  BY <1>11
<1>14. \A j \in B : \E i \in A : f[i] = j
  <2> SUFFICES ASSUME NEW j \in B PROVE f[j - 1] = j /\ j - 1 \in A
    OBVIOUS
  <2>1. (j - 1) + 1 = j
    BY <1>6, <1>8
  <2> QED
    BY <1>9, <2>1
<1>15. f \in Bijection(A, B)
  <2>1. IsInjective(f)
    BY <1>13 DEF IsInjective
  <2> QED
    BY <1>12, <1>14, <2>1 DEF Bijection, Injection, Surjection
<1>16. IsFiniteSet(A) /\ IsFiniteSet(Hits(s, T)) /\ Cardinality(Hits(s, T)) \in Nat
  BY <1>2, HitsFinite DEF A
<1>17. Cardinality(B) = Cardinality(A)
  BY <1>15, <1>16, FS_Bijection DEF ExistsBijection
<1>18. Cardinality(B) = IF 1 \in Hits(s, T) THEN Cardinality(Hits(s, T)) - 1 ELSE Cardinality(Hits(s, T))
  BY <1>16, FS_RemoveElement DEF B
<1>19. 1 \in Hits(s, T) <=> Head(s) \in T
  BY <1>1, <1>4 DEF Hits
<1> QED
  BY <1>16, <1>17, <1>18, <1>19 DEF A

-----------------------------------------------------------------------------
(* The shape of the state. *)
SockType == {"INVALID", "RESERVE", "PACCEPT", "CONNECTING", "CONNECTED", "HALFCLOSE"}
Blank == {"INVALID", "RESERVE"}
Socket == [type : SockType, id : Nat, tcp : BOOLEAN, tag : Nat, sending : 0 .. MaxSending,
           high : Seq(Byte), low : Seq(Byte), dw : Seq(Byte), lock : BOOLEAN,
           watched : BOOLEAN, armed : BOOLEAN]
Req == [op : {"S", "O"}, id : Id]
       \cup [op : {"K"}, id : Id, shutdown : BOOLEAN, due : SUBSET Message]
       \cup [op : {"D", "P"}, id : Id, m : Message]
Busy == [at : {"look", "locked", "sure", "inc", "push"}, m : Message]
Happening == [h : 0 .. MaxSocket, id : Nat, kind : {"eof", "write", "accept", "none"}]

Typed ==
  /\ slot \in [Slot -> Socket]
  /\ alloc_id \in Nat
  /\ pipe \in Seq(Req)
  /\ ev \in Seq(Happening)
  /\ closing \subseteq Id
  /\ call \in [Service -> Busy \cup {Idle}]
  /\ told \in [Id -> {"nothing", "opening", "accepted", "open", "close"}]
  /\ sent \in SUBSET Message /\ IsFiniteSet(sent) /\ Cardinality(sent) <= MaxSend

(* A list of whole messages. *)
Whole(b) ==
  /\ \E q \in Nat : Len(b) = Size * q
  /\ \A i \in 1 .. Len(b) : b[i].k = ((i - 1) % Size) + 1

(* What is true of one struct socket: a slot in use, and one whose tag is    *)
(* looked at, has an id of that slot; free and new slots have empty lists.   *)
Sound(h, s) ==
  /\ s.type # "INVALID" \/ s.tcp => s.id \in Id /\ HASH_ID(s.id) = h
  /\ s.tcp => s.tag = ID_TAG16(s.id)
  /\ s.watched => s.type \notin Blank
  /\ s.type \in Blank \cup {"PACCEPT"} => s.high = << >> /\ s.low = << >> /\ s.dw = << >>
  /\ Whole(s.low)

Sockets == \A h \in Slot : Sound(h, slot[h]) /\ slot[h].id <= alloc_id

(* Ids are told of only after they were given out, and written to only after *)
(* the services were told that they are open.                                *)
Fresh ==
  /\ \A id \in Id : told[id] # "nothing" => id <= alloc_id
  /\ \A i \in DOMAIN pipe : told[pipe[i].id] # "nothing"
  /\ \A i \in DOMAIN pipe : pipe[i].op \in {"D", "P"} => told[pipe[i].id] \in {"open", "close"}
  /\ \A w \in Service : call[w] # Idle => told[call[w].m.id] \in {"open", "close"}
  /\ \A h \in Slot : slot[h].type = "RESERVE" => told[slot[h].id] = "opening"

(* A reserved slot waits for its one connect request, which comes before any *)
(* request to close it.                                                      *)
Opening ==
  /\ \A i \in DOMAIN pipe : pipe[i].op = "O" =>
       slot[HASH_ID(pipe[i].id)].type = "RESERVE" /\ slot[HASH_ID(pipe[i].id)].id = pipe[i].id
  /\ \A i, j \in DOMAIN pipe : pipe[i].op = "O" /\ pipe[j].op = "O"
                               /\ HASH_ID(pipe[i].id) = HASH_ID(pipe[j].id) => i = j
  /\ \A i, j \in DOMAIN pipe : pipe[i].op = "K" /\ pipe[j].op = "O"
                               /\ pipe[i].id = pipe[j].id => j < i
  /\ \A h \in Slot : slot[h].type = "RESERVE" =>
       \E i \in DOMAIN pipe : pipe[i].op = "O" /\ pipe[i].id = slot[h].id

(* The socket that force_close waits for keeps its slot. *)
Closing ==
  /\ \A id, jd \in closing : id = jd
  /\ \A id \in closing : slot[HASH_ID(id)].type \notin Blank /\ slot[HASH_ID(id)].id = id

(* One event at most for a slot, and none for a free one. *)
Real(e) == e.kind \in {"eof", "write"}
Events ==
  /\ \A i \in DOMAIN ev : Real(ev[i]) =>
       /\ ev[i].h \in Slot /\ slot[ev[i].h].id = ev[i].id
       /\ slot[ev[i].h].type \notin Blank
  /\ \A i, j \in DOMAIN ev : Real(ev[i]) /\ Real(ev[j]) /\ ev[i].h = ev[j].h => i = j

HoldsLock(w, h) == call[w].at \in {"locked", "sure"} /\ HASH_ID(call[w].m.id) = h
Locks ==
  \A h \in Slot :
    /\ slot[h].lock => \E w \in Service : HoldsLock(w, h)
    /\ \A w \in Service : HoldsLock(w, h) => slot[h].lock
    /\ \A v, w \in Service : HoldsLock(v, h) /\ HoldsLock(w, h) => v = w

(* Requests in the pipe and calls about to write one, for an id. *)
Sending(id) == {r \in Req : r.op \in {"D", "P"} /\ r.id = id}
Pushing(id) == {w \in Service : At(w, "push") /\ call[w].m.id = id}
Underway(id) == Cardinality(Hits(pipe, Sending(id))) + Cardinality(Pushing(id))
Counted == \A h \in Slot : slot[h].tcp => slot[h].sending = Underway(slot[h].id)

IInv == /\ Typed /\ Sockets /\ Fresh /\ Opening /\ Closing /\ Events /\ Locks /\ Counted

-----------------------------------------------------------------------------
(* Ids and slots. *)

LEMMA Constants ==
  /\ IsFiniteSet(Service) /\ MaxConn \in Nat /\ MaxSend \in Nat
  /\ MaxSocket \in Nat \ {0} /\ Size \in Nat \ {0} /\ MaxSending \in Nat \ {0}
  /\ Id \subseteq Nat \ {0}
  /\ Slot \subseteq Nat
  /\ \A id \in Nat : HASH_ID(id) \in Slot
<1>1. /\ IsFiniteSet(Service) /\ MaxConn \in Nat /\ MaxSend \in Nat
      /\ MaxSocket \in Nat \ {0} /\ Size \in Nat \ {0} /\ MaxSending \in Nat \ {0}
  BY SocketAssumption
<1>2. Id \subseteq Nat \ {0} /\ Slot \subseteq Nat
  BY <1>1 DEF Id, Slot
<1>3. \A id \in Nat : HASH_ID(id) \in Slot
  BY <1>1, DivMod DEF HASH_ID, Slot
<1> QED
  BY <1>1, <1>2, <1>3

(* The tag tells the ids of one slot apart. *)
LEMMA TagExact ==
  ASSUME NEW a \in Nat, NEW b \in Nat, HASH_ID(a) = HASH_ID(b), ID_TAG16(a) = ID_TAG16(b)
  PROVE  a = b
  BY Constants, DivModSame DEF HASH_ID, ID_TAG16

-----------------------------------------------------------------------------
(* Bytes and lists. *)

LEMMA FromFacts ==
  ASSUME NEW m \in Message, NEW k \in 1 .. Size + 1
  PROVE  /\ From(m, k) \in Seq(Byte)
         /\ Len(From(m, k)) = Size - k + 1
         /\ \A i \in 1 .. Size - k + 1 : From(m, k)[i] = [m |-> m, k |-> k + i - 1]
<1> USE Constants
<1> DEFINE n == Size - k + 1
<1>1. n \in Nat
  OBVIOUS
<1>2. \A i \in 1 .. n : k + i - 1 \in 1 .. Size
  OBVIOUS
<1> HIDE DEF n
<1>3. From(m, k) = [i \in 1 .. n |-> [m |-> m, k |-> k + i - 1]]
  BY DEF From, n
<1>4. \A i \in 1 .. n : [m |-> m, k |-> k + i - 1] \in Byte
  BY <1>2 DEF Byte
<1>5. From(m, k) \in [1 .. n -> Byte]
  BY <1>3, <1>4
<1>6. From(m, k) \in Seq(Byte)
  BY <1>1, <1>5, SeqDef
<1>7. Len(From(m, k)) = n
  BY <1>1, <1>3, <1>6, LenProperties
<1> QED
  BY <1>3, <1>6, <1>7 DEF n

LEMMA SizeNat == Size \in Nat \ {0}
  BY SocketAssumption

(* Whole messages stay whole behind whole messages. *)
LEMMA WholeFrom ==
  ASSUME NEW b \in Seq(Byte), Whole(b), NEW m \in Message
  PROVE  b \o From(m, 1) \in Seq(Byte) /\ Whole(b \o From(m, 1))
<1> USE SizeNat
<1> DEFINE f == From(m, 1)
           n == Len(b)
<1>1. f \in Seq(Byte) /\ Len(f) = Size /\ \A i \in 1 .. Size : f[i].k = i
  <2>1. 1 \in 1 .. Size + 1 /\ Size - 1 + 1 = Size /\ \A i \in 1 .. Size : 1 + i - 1 = i
    OBVIOUS
  <2>2. /\ f \in Seq(Byte) /\ Len(f) = Size - 1 + 1
        /\ \A i \in 1 .. Size - 1 + 1 : f[i] = [m |-> m, k |-> 1 + i - 1]
    BY <2>1, FromFacts
  <2> HIDE DEF f
  <2>3. \A i \in 1 .. Size : f[i].k = 1 + i - 1
    BY <2>1, <2>2
  <2> QED
    BY <2>1, <2>2, <2>3
<1> HIDE DEF f
<1>2. n \in Nat
  BY LenProperties
<1>3. /\ b \o f \in Seq(Byte) /\ Len(b \o f) = n + Size
      /\ \A i \in 1 .. n + Size : (b \o f)[i] = IF i <= n THEN b[i] ELSE f[i - n]
  BY ZenonT(60), <1>1, ConcatProperties
<1>4. PICK q \in Nat : n = Size * q
  BY DEF Whole
<1>5. \A i \in 1 .. n : b[i].k = ((i - 1) % Size) + 1
  BY DEF Whole
<1> HIDE DEF n
<1>6. n + Size = Size * (q + 1) /\ q + 1 \in Nat
  BY <1>4
<1>7. ASSUME NEW i \in 1 .. n + Size PROVE (b \o f)[i].k = ((i - 1) % Size) + 1
  <2>1. CASE i <= n
    <3>1. i \in 1 .. n
      BY <1>2, <2>1
    <3> QED
      BY <1>3, <1>5, <2>1, <3>1
  <2>2. CASE ~(i <= n)
    <3>1. i - n \in 1 .. Size /\ i - n - 1 \in 0 .. Size - 1
      BY <1>2, <2>2
    <3>2. i - 1 = Size * q + (i - n - 1) /\ i - 1 \in Int /\ q \in Int
      BY <1>2, <1>4
    <3>3. (i - 1) % Size = i - n - 1
      BY <3>1, <3>2, DivModUnique
    <3>4. f[i - n].k = i - n
      BY <1>1, <3>1
    <3>5. (b \o f)[i] = f[i - n]
      BY <1>3, <2>2
    <3> QED
      BY <1>2, <3>1, <3>3, <3>4, <3>5
  <2> QED
    BY <2>1, <2>2
<1> QED
  BY <1>3, <1>6, <1>7 DEF Whole, f

(* A list of whole messages cut after a whole number of them. *)
LEMMA WholeCut ==
  ASSUME NEW b \in Seq(Byte), Whole(b), NEW c \in 0 .. Len(b), NEW p \in Nat, c = Size * p,
         NEW t \in Seq(Byte), Len(t) = Len(b) - c, \A i \in 1 .. Len(t) : t[i] = b[c + i]
  PROVE  Whole(t)
<1> USE SizeNat
<1> DEFINE N == Len(b)
           L == Len(t)
<1>1. N \in Nat /\ c \in Nat /\ L \in Nat /\ L = N - c
  BY LenProperties
<1>2. PICK q \in Nat : N = Size * q
  BY DEF Whole
<1>3. \A i \in 1 .. N : b[i].k = ((i - 1) % Size) + 1
  BY DEF Whole
<1> HIDE DEF N, L
<1>4. L = Size * (q - p)
  BY <1>1, <1>2
<1>5. q - p \in Nat
  <2>1. q - p \in Int
    OBVIOUS
  <2>2. Size * (q - p) \in Nat
    BY <1>1, <1>4, Zenon
  <2> QED
    BY <2>1, <2>2, FactorNat
<1>6. ASSUME NEW i \in 1 .. L PROVE t[i].k = ((i - 1) % Size) + 1
  <2>1. t[i] = b[c + i] /\ c + i \in 1 .. N
    BY <1>1 DEF L
  <2>2. t[i].k = (((c + i) - 1) % Size) + 1
    BY <1>3, <2>1
  <2> DEFINE a == (i - 1) \div Size
             r == (i - 1) % Size
  <2>3. i - 1 \in Int /\ r \in 0 .. Size - 1 /\ a \in Int /\ i - 1 = Size * a + r
    BY SMTT(60), <1>1, DivMod
  <2> HIDE DEF a, r
  <2>4. (c + i) - 1 = Size * (p + a) + r /\ (c + i) - 1 \in Int /\ p + a \in Int
    BY <1>1, <2>3
  <2>5. ((c + i) - 1) % Size = r
    BY ZenonT(60), <2>3, <2>4, DivModUnique
  <2> QED
    BY <2>2, <2>5 DEF r
<1> QED
  BY <1>4, <1>5, <1>6 DEF Whole, L

(* The rest of the message that place n is in. *)
LEMMA RestOf ==
  ASSUME NEW q \in Nat, NEW n \in 1 .. Size * q, NEW r, r = (n - 1) % Size
  PROVE  /\ r \in 0 .. Size - 1
         /\ r = 0 => \E p \in Nat : n - 1 = Size * p
         /\ r # 0 => Size - r <= Size * q - n + 1 /\ \E p \in Nat : n - 1 + (Size - r) = Size * p
<1> USE SizeNat
<1> DEFINE a == (n - 1) \div Size
<1>1. n \in Int /\ n >= 1 /\ n <= Size * q
  OBVIOUS
<1>2. n - 1 \in Int /\ r \in 0 .. Size - 1 /\ a \in Int /\ n - 1 = Size * a + r
  BY <1>1, DivMod
<1> HIDE DEF a
<1>3. a >= 0
  BY <1>1, <1>2
<1>4. Size * a < Size * q
  BY <1>1, <1>2
<1>5. a < q
  BY <1>2, <1>4
<1>6. Size * (a + 1) <= Size * q
  BY <1>2, <1>5
<1>7. n - 1 + (Size - r) = Size * (a + 1) /\ a + 1 \in Nat
  BY <1>1, <1>2, <1>3
<1>8. Size - r <= Size * q - n + 1
  BY <1>1, <1>2, <1>6, <1>7
<1>9. r = 0 => n - 1 = Size * a /\ a \in Nat
  BY <1>2, <1>3
<1> QED
  BY <1>2, <1>7, <1>8, <1>9

(* What send_buffer keeps of the low list starts with a whole message: the   *)
(* rest of one that was sent in part goes to the high list.                  *)
RestPart(low) == IF low # << >> /\ low[1].k > 1 THEN Size - low[1].k + 1 ELSE 0

LEMMA WholeRest ==
  ASSUME NEW b \in Seq(Byte), Whole(b), NEW n \in 1 .. Len(b) + 1
  PROVE  LET low == SubSeq(b, n, Len(b)) IN
         /\ RestPart(low) \in 0 .. Len(low)
         /\ SubSeq(low, 1, RestPart(low)) \in Seq(Byte)
         /\ SubSeq(low, RestPart(low) + 1, Len(low)) \in Seq(Byte)
         /\ Whole(SubSeq(low, RestPart(low) + 1, Len(low)))
<1> USE SizeNat
<1> DEFINE N == Len(b)
           low == SubSeq(b, n, N)
           L == Len(low)
           part == RestPart(low)
           rest == SubSeq(low, part + 1, L)
<1>1. N \in Nat /\ \A i \in 1 .. N : b[i] \in Byte
  BY LenProperties, ElementOfSeq
<1>2. PICK q \in Nat : N = Size * q
  BY DEF Whole
<1>3. \A i \in 1 .. N : b[i].k = ((i - 1) % Size) + 1
  BY DEF Whole
<1>4. n \in 1 .. N + 1 /\ n \in Int
  BY <1>1
<1> HIDE DEF N
<1>5. n \in Int /\ N \in Int /\ \A i \in n .. N : b[i] \in Byte
  BY <1>1, <1>4
<1>6. /\ low \in Seq(Byte) /\ L = IF n <= N THEN N - n + 1 ELSE 0
      /\ \A i \in 1 .. N - n + 1 : low[i] = b[n + i - 1]
  BY <1>5, SubSeqProperties
<1>7. low = << >> <=> L = 0
  BY <1>6, EmptySeq
<1> HIDE DEF low, L
<1>8. L = N - n + 1 /\ L \in Nat
  BY <1>1, <1>4, <1>6
<1>9. \A i \in 1 .. L : low[i] \in Byte
  BY <1>6, ElementOfSeq DEF L
<1>10. part \in 0 .. L /\ \E p \in Nat : L = 0 \/ n - 1 + part = Size * p
  <2>1. CASE L = 0
    BY <1>7, <2>1 DEF RestPart
  <2>2. CASE L # 0
    <3>1. n \in 1 .. Size * q /\ n \in 1 .. N /\ 1 \in 1 .. N - n + 1 /\ n + 1 - 1 = n
      BY <1>1, <1>2, <1>4, <1>8, <2>2
    <3> DEFINE r == (n - 1) % Size
    <3>2. low[1] = b[n] /\ low[1].k = r + 1
      BY <1>3, <1>6, <3>1
    <3>3. /\ r \in 0 .. Size - 1
          /\ r = 0 => \E p \in Nat : n - 1 = Size * p
          /\ r # 0 => Size - r <= Size * q - n + 1 /\ \E p \in Nat : n - 1 + (Size - r) = Size * p
      BY ZenonT(60), <3>1, RestOf
    <3> HIDE DEF r
    <3>4. part = IF r + 1 > 1 THEN Size - (r + 1) + 1 ELSE 0
      BY <1>7, <2>2, <3>2 DEF RestPart
    <3>5. CASE r = 0
      <4>1. part = 0 /\ n - 1 + part = n - 1
        BY <1>4, <3>4, <3>5
      <4> HIDE DEF part
      <4>2. PICK p \in Nat : n - 1 = Size * p
        BY <3>3, <3>5
      <4>3. part \in 0 .. L
        BY <1>8, <4>1
      <4> QED
        BY <4>1, <4>2, <4>3
    <3>6. CASE r # 0
      <4>1. part = Size - r
        BY <3>3, <3>4, <3>6
      <4> HIDE DEF part
      <4>2. part \in 0 .. L
        BY <1>2, <1>8, <3>3, <3>6, <4>1
      <4> QED
        BY <3>3, <3>6, <4>1, <4>2
    <3> QED
      BY <3>5, <3>6
  <2> QED
    BY <2>1, <2>2
<1> HIDE DEF part
<1>11. SubSeq(low, 1, part) \in Seq(Byte)
  <2>1. 1 \in Int /\ part \in Int /\ \A i \in 1 .. part : low[i] \in Byte
    BY <1>8, <1>9, <1>10
  <2> QED
    BY <2>1, SubSeqProperties
<1>12. /\ rest \in Seq(Byte) /\ Len(rest) = L - part
       /\ \A i \in 1 .. L - part : rest[i] = low[part + i]
  <2>1. part + 1 \in Int /\ L \in Int /\ \A i \in part + 1 .. L : low[i] \in Byte
    BY <1>8, <1>9, <1>10
  <2>2. /\ rest \in Seq(Byte) /\ Len(rest) = IF part + 1 <= L THEN L - (part + 1) + 1 ELSE 0
        /\ \A i \in 1 .. L - (part + 1) + 1 : rest[i] = low[(part + 1) + i - 1]
    BY SMTT(60), <2>1, SubSeqProperties
  <2> HIDE DEF rest
  <2>3. L - (part + 1) + 1 = L - part /\ \A i \in 1 .. L - part : (part + 1) + i - 1 = part + i
    BY <1>8, <1>10
  <2>4. Len(rest) = L - part
    BY <1>8, <1>10, <2>2
  <2> QED
    BY <2>2, <2>3, <2>4
<1> HIDE DEF rest
<1>13. Whole(rest)
  <2>1. CASE L = 0
    <3>1. Len(rest) = Size * 0 /\ 1 .. Len(rest) = {}
      BY <1>10, <1>12, <2>1
    <3> QED
      BY <3>1 DEF Whole
  <2>2. CASE L # 0
    <3> DEFINE c == n - 1 + part
    <3>1. PICK p \in Nat : c = Size * p
      BY <1>10, <2>2
    <3>2. c \in 0 .. N /\ Len(rest) = N - c
      BY <1>1, <1>4, <1>8, <1>10, <1>12
    <3>3. ASSUME NEW i \in 1 .. Len(rest) PROVE rest[i] = b[c + i]
      <4>1. i \in 1 .. L - part /\ part + i \in 1 .. N - n + 1 /\ n + (part + i) - 1 = c + i
        BY <1>4, <1>8, <1>10, <1>12
      <4> QED
        BY <1>6, <1>12, <4>1
    <3> HIDE DEF c
    <3> QED
      BY <1>12, <3>1, <3>2, <3>3, WholeCut DEF N
  <2> QED
    BY <2>1, <2>2
<1> QED
  BY <1>10, <1>11, <1>12, <1>13 DEF rest, part, L, low, N

-----------------------------------------------------------------------------
(* What the steps make of one struct socket. *)

(* The id, its tag, the count and the lock stay. *)
Keeps(s, t) ==
  t.id = s.id /\ t.tcp = s.tcp /\ t.tag = s.tag /\ t.sending = s.sending /\ t.lock = s.lock

LEMMA WaitingSeq ==
  ASSUME NEW s \in Socket
  PROVE  /\ s.dw \in Seq(Byte) /\ s.high \in Seq(Byte) /\ s.low \in Seq(Byte)
         /\ s.dw \o s.high \in Seq(Byte) /\ Len(s.dw \o s.high) \in Nat
         /\ Waiting(s) \in Seq(Byte)
         /\ Len(Waiting(s)) = Len(s.dw \o s.high) + Len(s.low) /\ Len(s.low) \in Nat
<1>1. s.dw \in Seq(Byte) /\ s.high \in Seq(Byte) /\ s.low \in Seq(Byte)
  BY DEF Socket
<1>2. s.dw \o s.high \in Seq(Byte)
  BY <1>1, ConcatProperties
<1>3. Waiting(s) \in Seq(Byte) /\ Len(Waiting(s)) = Len(s.dw \o s.high) + Len(s.low)
  BY <1>1, <1>2, ConcatProperties DEF Waiting
<1> QED
  BY <1>1, <1>2, <1>3, LenProperties

LEMMA SendBuffer ==
  ASSUME NEW h, NEW s \in Socket, Sound(h, s), NEW k \in 0 .. Len(Waiting(s))
  PROVE  LET t == send_buffer(s, k)
         IN  t \in Socket /\ Sound(h, t) /\ Keeps(s, t) /\ t.type = s.type
<1> DEFINE first == s.dw \o s.high
           F == Len(first)
           n == IF k > F THEN k - F + 1 ELSE 1
           low == SubSeq(s.low, n, Len(s.low))
           part == RestPart(low)
           high1 == SubSeq(first, k + 1, F) \o SubSeq(low, 1, part)
           low1 == SubSeq(low, part + 1, Len(low))
           armed1 == s.armed /\ k < Len(Waiting(s))
<1>1. /\ s.low \in Seq(Byte) /\ first \in Seq(Byte) /\ F \in Nat /\ Len(s.low) \in Nat
      /\ Len(Waiting(s)) = F + Len(s.low)
  BY WaitingSeq
<1>2. send_buffer(s, k) = [s EXCEPT !.dw = << >>, !.high = high1, !.low = low1, !.armed = armed1]
  BY DEF send_buffer, RestPart
<1>3. Whole(s.low)
  BY DEF Sound
<1>4. n \in 1 .. Len(s.low) + 1
  <2> HIDE DEF F
  <2> QED
    BY <1>1
<1>5. /\ SubSeq(low, 1, part) \in Seq(Byte) /\ low1 \in Seq(Byte) /\ Whole(low1)
  <2> HIDE DEF n
  <2> QED
    BY <1>1, <1>3, <1>4, WholeRest
<1>6. SubSeq(first, k + 1, F) \in Seq(Byte)
  <2>1. \A i \in 1 .. F : first[i] \in Byte
    BY <1>1, ElementOfSeq
  <2> HIDE DEF first, F
  <2>2. k + 1 \in Int /\ F \in Int /\ \A i \in k + 1 .. F : first[i] \in Byte
    BY <1>1, <2>1
  <2> QED
    BY <2>2, SubSeqProperties
<1>7. high1 \in Seq(Byte)
  BY <1>5, <1>6, ConcatProperties
<1>8. s.type \in Blank \cup {"PACCEPT"} => high1 = << >> /\ low1 = << >>
  <2> SUFFICES ASSUME s.type \in Blank \cup {"PACCEPT"} PROVE high1 = << >> /\ low1 = << >>
    OBVIOUS
  <2>1. s.high = << >> /\ s.low = << >> /\ s.dw = << >>
    BY DEF Sound
  <2>2. first = << >> /\ F = 0 /\ Len(s.low) = 0
    BY <2>1, EmptySeq, ConcatEmptySeq
  <2>3. k = 0 /\ n = 1
    <3> HIDE DEF F
    <3> QED
      BY <1>1, <2>2
  <2>4. low = << >>
    BY <2>1, <2>2, <2>3, SubSeqEmpty
  <2>5. part = 0
    BY <2>4 DEF RestPart
  <2>6. SubSeq(first, k + 1, F) = << >> /\ SubSeq(low, 1, part) = << >>
    BY <2>2, <2>3, <2>5, SubSeqEmpty
  <2>7. low1 = << >>
    <3> HIDE DEF part, low
    <3>1. part + 1 = 1 /\ Len(low) = 0
      BY <2>4, <2>5, EmptySeq
    <3>2. low1 = SubSeq(low, 1, 0)
      BY <3>1, Zenon
    <3>3. SubSeq(low, 1, 0) = << >>
      <4>1. 1 \in Int /\ 0 \in Int /\ 0 < 1
        OBVIOUS
      <4> QED
        BY <4>1, SubSeqEmpty
    <3> QED
      BY <3>2, <3>3, Zenon
  <2> QED
    BY <2>6, <2>7, EmptySeq, ConcatEmptySeq
<1>9. armed1 \in BOOLEAN
  BY DEF Socket
<1> HIDE DEF high1, low1, armed1
<1>10. << >> \in Seq(Byte)
  BY EmptySeq
<1> DEFINE t == [s EXCEPT !.dw = << >>, !.high = high1, !.low = low1, !.armed = armed1]
<1>11. t \in Socket
  BY <1>5, <1>7, <1>9, <1>10 DEF Socket
<1>12. /\ t.dw = << >> /\ t.high = high1 /\ t.low = low1 /\ t.type = s.type /\ t.watched = s.watched
       /\ Keeps(s, t)
  BY DEF Socket, Keeps
<1> HIDE DEF t
<1>13. Sound(h, t)
  BY <1>5, <1>8, <1>12 DEF Sound, Keeps
<1> QED
  BY <1>2, <1>11, <1>12, <1>13 DEF t

-----------------------------------------------------------------------------
(* One slot changes. *)
LEMMA SlotStep ==
  ASSUME Typed, Sockets, NEW h \in Slot, NEW t \in Socket, Sound(h, t),
         alloc_id' \in Nat, alloc_id <= alloc_id', t.id <= alloc_id', SetSlot(h, t)
  PROVE  /\ slot' \in [Slot -> Socket] /\ Sockets'
         /\ slot'[h] = t /\ \A g \in Slot : g # h => slot'[g] = slot[g]
<1>1. slot' = [slot EXCEPT ![h] = t]
  BY DEF SetSlot
<1>2. slot' \in [Slot -> Socket] /\ slot'[h] = t /\ \A g \in Slot : g # h => slot'[g] = slot[g]
  BY <1>1 DEF Typed
<1>3. ASSUME NEW g \in Slot PROVE Sound(g, slot'[g]) /\ slot'[g].id <= alloc_id'
  <2>1. CASE g = h
    BY <1>2, <2>1
  <2>2. CASE g # h
    <3>1. slot[g] \in Socket /\ slot'[g] = slot[g]
      BY <1>2, <2>2 DEF Typed
    <3>2. slot[g].id \in Nat /\ alloc_id \in Nat
      BY <3>1 DEF Socket, Typed
    <3>3. Sound(g, slot[g]) /\ slot[g].id <= alloc_id
      BY DEF Sockets
    <3> QED
      BY <3>1, <3>2, <3>3
  <2> QED
    BY <2>1, <2>2
<1> QED
  BY <1>2, <1>3 DEF Sockets, Sound, Whole

(* What a step leaves alone in the slots: the reserved ones; those in use,   *)
(* but for h; the locks; the counts.                                         *)
ReservesSame ==
  \A g \in Slot : /\ slot'[g].type = "RESERVE" <=> slot[g].type = "RESERVE"
                  /\ slot[g].type = "RESERVE" => slot'[g].id = slot[g].id
UsedSame(h) ==
  \A g \in Slot : g = h \/ (slot[g].type \notin Blank =>
                              slot'[g].type \notin Blank /\ slot'[g].id = slot[g].id)
LocksSame == \A g \in Slot : slot'[g].lock = slot[g].lock
CountsSame ==
  \A g \in Slot : slot'[g].tcp =>
     slot[g].tcp /\ slot'[g].id = slot[g].id /\ slot'[g].sending = slot[g].sending

LEMMA ReqFacts ==
  ASSUME NEW r \in Req
  PROVE  /\ r.id \in Id /\ r.op \in {"S", "O", "K", "D", "P"}
         /\ r.op \in {"D", "P"} => r.m \in Message
         /\ r.op = "K" => r.shutdown \in BOOLEAN
  BY DEF Req

(* The pipe. *)
LEMMA PipeAppend ==
  ASSUME Typed, NEW r \in Req, pipe' = Append(pipe, r)
  PROVE  /\ pipe' \in Seq(Req) /\ Len(pipe) \in Nat
         /\ DOMAIN pipe = 1 .. Len(pipe) /\ DOMAIN pipe' = 1 .. Len(pipe) + 1
         /\ \A i \in 1 .. Len(pipe) : pipe'[i] = pipe[i]
         /\ pipe'[Len(pipe) + 1] = r
<1>1. pipe \in Seq(Req)
  BY DEF Typed
<1>2. /\ Append(pipe, r) \in Seq(Req) /\ Len(Append(pipe, r)) = Len(pipe) + 1
      /\ \A i \in 1 .. Len(pipe) : Append(pipe, r)[i] = pipe[i]
      /\ Append(pipe, r)[Len(pipe) + 1] = r
  BY <1>1, AppendProperties
<1> QED
  BY <1>1, <1>2, LenProperties

LEMMA SeqTail ==
  ASSUME NEW S, NEW s \in Seq(S), s # << >>
  PROVE  /\ Tail(s) \in Seq(S) /\ Len(s) \in Nat \ {0} /\ Head(s) = s[1] /\ s[1] \in S
         /\ DOMAIN s = 1 .. Len(s) /\ DOMAIN Tail(s) = 1 .. Len(s) - 1
         /\ \A i \in 1 .. Len(s) - 1 : Tail(s)[i] = s[i + 1]
<1>1. Len(s) \in Nat \ {0} /\ DOMAIN s = 1 .. Len(s)
  BY LenProperties, EmptySeq
<1>2. /\ Head(s) = s[1] /\ Head(s) \in S /\ Tail(s) \in Seq(S) /\ Len(Tail(s)) = Len(s) - 1
      /\ \A i \in 1 .. Len(Tail(s)) : Tail(s)[i] = s[i + 1]
  BY HeadTailProperties
<1>3. DOMAIN Tail(s) = 1 .. Len(Tail(s))
  BY <1>2, LenProperties
<1> QED
  BY <1>1, <1>2, <1>3

LEMMA PipeTail ==
  ASSUME Typed, pipe # << >>, pipe' = Tail(pipe)
  PROVE  /\ pipe' \in Seq(Req) /\ Len(pipe) \in Nat \ {0} /\ Head(pipe) = pipe[1] /\ pipe[1] \in Req
         /\ DOMAIN pipe = 1 .. Len(pipe) /\ DOMAIN pipe' = 1 .. Len(pipe) - 1
         /\ \A i \in 1 .. Len(pipe) - 1 : pipe'[i] = pipe[i + 1]
  BY SeqTail DEF Typed

-----------------------------------------------------------------------------
(* What keeps each part of the invariant. *)

LEMMA PipeSlots ==
  ASSUME Typed
  PROVE  \A i \in DOMAIN pipe :
           pipe[i] \in Req /\ pipe[i].id \in Id /\ HASH_ID(pipe[i].id) \in Slot
<1>1. pipe \in Seq(Req) /\ DOMAIN pipe = 1 .. Len(pipe)
  BY LenProperties DEF Typed
<1>2. \A i \in DOMAIN pipe : pipe[i] \in Req
  BY <1>1, ElementOfSeq
<1> QED
  BY <1>2, Constants, ReqFacts

LEMMA OpeningSame ==
  ASSUME Typed, Opening, ReservesSame, pipe' = pipe
  PROVE  Opening'
<1>1. \A i \in DOMAIN pipe : HASH_ID(pipe[i].id) \in Slot
  BY PipeSlots
<1>2. \A i \in DOMAIN pipe : pipe[i].op = "O" =>
        slot'[HASH_ID(pipe[i].id)].type = "RESERVE" /\ slot'[HASH_ID(pipe[i].id)].id = pipe[i].id
  BY <1>1 DEF Opening, ReservesSame
<1>3. \A h \in Slot : slot'[h].type = "RESERVE" =>
        \E i \in DOMAIN pipe : pipe[i].op = "O" /\ pipe[i].id = slot'[h].id
  BY DEF Opening, ReservesSame
<1> QED
  BY <1>2, <1>3 DEF Opening

LEMMA OpeningAppend ==
  ASSUME Typed, Opening, ReservesSame, NEW r \in Req, r.op # "O", pipe' = Append(pipe, r)
  PROVE  Opening'
<1> DEFINE n == Len(pipe)
<1>1. /\ n \in Nat /\ DOMAIN pipe = 1 .. n /\ DOMAIN pipe' = 1 .. n + 1
      /\ \A i \in 1 .. n : pipe'[i] = pipe[i]
      /\ pipe'[n + 1] = r
  BY PipeAppend
<1>2. \A i \in 1 .. n : HASH_ID(pipe[i].id) \in Slot
  BY <1>1, Constants, ReqFacts, ElementOfSeq DEF Typed
<1> HIDE DEF n
<1>3. \A i \in 1 .. n + 1 : i \in 1 .. n \/ i = n + 1
  BY <1>1
<1>4. \A i \in 1 .. n + 1 : pipe'[i].op = "O" => i \in 1 .. n /\ pipe'[i] = pipe[i]
  BY <1>1, <1>3
<1>5. \A i \in DOMAIN pipe' : pipe'[i].op = "O" =>
        slot'[HASH_ID(pipe'[i].id)].type = "RESERVE" /\ slot'[HASH_ID(pipe'[i].id)].id = pipe'[i].id
  BY <1>1, <1>2, <1>4 DEF Opening, ReservesSame
<1>6. \A i, j \in DOMAIN pipe' : pipe'[i].op = "O" /\ pipe'[j].op = "O"
                                 /\ HASH_ID(pipe'[i].id) = HASH_ID(pipe'[j].id) => i = j
  BY <1>1, <1>4 DEF Opening
<1>7. ASSUME NEW i \in DOMAIN pipe', NEW j \in DOMAIN pipe', pipe'[i].op = "K", pipe'[j].op = "O",
             pipe'[i].id = pipe'[j].id
      PROVE  j < i
  <2>1. j \in 1 .. n /\ pipe'[j] = pipe[j]
    BY <1>1, <1>4, <1>7
  <2>2. CASE i = n + 1
    BY <1>1, <2>1, <2>2
  <2>3. CASE i \in 1 .. n
    BY <1>1, <1>7, <2>1, <2>3 DEF Opening
  <2> QED
    BY <1>1, <1>3, <2>2, <2>3
<1>8. ASSUME NEW h \in Slot, slot'[h].type = "RESERVE"
      PROVE  \E i \in DOMAIN pipe' : pipe'[i].op = "O" /\ pipe'[i].id = slot'[h].id
  <2>1. PICK i \in DOMAIN pipe : pipe[i].op = "O" /\ pipe[i].id = slot'[h].id
    BY <1>8 DEF Opening, ReservesSame
  <2>2. i \in DOMAIN pipe'
    BY <1>1
  <2> QED
    BY <1>1, <2>1, <2>2
<1> QED
  BY <1>5, <1>6, <1>7, <1>8 DEF Opening

LEMMA OpeningTail ==
  ASSUME Typed, Opening, ReservesSame, pipe # << >>, Head(pipe).op # "O", pipe' = Tail(pipe)
  PROVE  Opening'
<1> DEFINE n == Len(pipe)
<1>1. /\ n \in Nat \ {0} /\ Head(pipe) = pipe[1] /\ DOMAIN pipe = 1 .. n /\ DOMAIN pipe' = 1 .. n - 1
      /\ \A i \in 1 .. n - 1 : pipe'[i] = pipe[i + 1]
  BY PipeTail
<1>2. \A i \in 1 .. n : HASH_ID(pipe[i].id) \in Slot
  BY <1>1, Constants, ReqFacts, ElementOfSeq DEF Typed
<1> HIDE DEF n
<1>3. \A i \in 1 .. n - 1 : i + 1 \in 1 .. n
  BY <1>1
<1>5. \A i \in DOMAIN pipe' : pipe'[i].op = "O" =>
        slot'[HASH_ID(pipe'[i].id)].type = "RESERVE" /\ slot'[HASH_ID(pipe'[i].id)].id = pipe'[i].id
  BY <1>1, <1>2, <1>3 DEF Opening, ReservesSame
<1>6. ASSUME NEW i \in DOMAIN pipe', NEW j \in DOMAIN pipe', pipe'[i].op = "O", pipe'[j].op = "O",
             HASH_ID(pipe'[i].id) = HASH_ID(pipe'[j].id)
      PROVE  i = j
  <2>1. i + 1 = j + 1
    BY <1>1, <1>3, <1>6 DEF Opening
  <2> QED
    BY <1>1, <2>1
<1>7. ASSUME NEW i \in DOMAIN pipe', NEW j \in DOMAIN pipe', pipe'[i].op = "K", pipe'[j].op = "O",
             pipe'[i].id = pipe'[j].id
      PROVE  j < i
  <2>1. j + 1 < i + 1
    BY <1>1, <1>3, <1>7 DEF Opening
  <2> QED
    BY <1>1, <2>1
<1>8. ASSUME NEW h \in Slot, slot'[h].type = "RESERVE"
      PROVE  \E i \in DOMAIN pipe' : pipe'[i].op = "O" /\ pipe'[i].id = slot'[h].id
  <2>1. PICK i \in DOMAIN pipe : pipe[i].op = "O" /\ pipe[i].id = slot'[h].id
    BY <1>8 DEF Opening, ReservesSame
  <2>2. i # 1
    BY <1>1, <2>1
  <2>3. i - 1 \in DOMAIN pipe' /\ i - 1 + 1 = i
    BY <1>1, <2>2
  <2> QED
    BY <1>1, <2>1, <2>3
<1> QED
  BY <1>5, <1>6, <1>7, <1>8 DEF Opening

LEMMA ClosingSame ==
  ASSUME Typed, Closing, NEW h \in Slot \cup {MaxSocket}, UsedSame(h), closing' \subseteq closing,
         \A id \in closing' : HASH_ID(id) # h
  PROVE  Closing'
<1>1. \A id \in closing : HASH_ID(id) \in Slot
  BY Constants DEF Typed
<1> QED
  BY <1>1 DEF Closing, UsedSame

LEMMA EventsStay ==
  ASSUME Events, UsedSame(MaxSocket), ev' = ev
  PROVE  Events'
<1>1. MaxSocket \notin Slot
  BY Constants DEF Slot
<1> QED
  BY <1>1 DEF Events, UsedSame, Real

(* The events of h are gone. *)
LEMMA EventsCleared ==
  ASSUME Typed, Events, NEW h, UsedSame(h), ev' = clear_closed_event(h)
  PROVE  Events' /\ ev' \in Seq(Happening)
<1>1. ev \in Seq(Happening) /\ Len(ev) \in Nat /\ DOMAIN ev = 1 .. Len(ev)
  BY LenProperties DEF Typed
<1>2. \A i \in DOMAIN ev : ev[i] \in Happening
  BY <1>1, ElementOfSeq
<1>3. Cleared \in Happening /\ ~Real(Cleared)
  BY Constants DEF Cleared, Happening, Real
<1>4. /\ DOMAIN ev' = DOMAIN ev
      /\ \A i \in DOMAIN ev : ev'[i] = IF ev[i].h = h THEN Cleared ELSE ev[i]
      /\ ev' \in [1 .. Len(ev) -> Happening]
  BY <1>1, <1>2, <1>3 DEF clear_closed_event
<1>5. ev' \in Seq(Happening)
  BY <1>1, <1>4, SeqDef
<1>6. \A i \in DOMAIN ev : Real(ev'[i]) => ev'[i] = ev[i] /\ ev[i].h # h
  BY <1>3, <1>4
<1>7. Events'
  BY <1>4, <1>6 DEF Events, UsedSame, Real
<1> QED
  BY <1>5, <1>7

LEMMA EventsTail ==
  ASSUME Typed, Events, ev # << >>, UsedSame(Head(ev).h), ev' = Tail(ev),
         Real(Head(ev)) \/ UsedSame(MaxSocket)
  PROVE  Events' /\ ev' \in Seq(Happening)
<1> DEFINE n == Len(ev)
<1>1. /\ ev' \in Seq(Happening) /\ n \in Nat \ {0} /\ Head(ev) = ev[1]
      /\ DOMAIN ev = 1 .. n /\ DOMAIN ev' = 1 .. n - 1
      /\ \A i \in 1 .. n - 1 : ev'[i] = ev[i + 1]
  BY SeqTail DEF Typed
<1> HIDE DEF n
<1>2. \A i \in 1 .. n - 1 : i + 1 \in 1 .. n /\ i + 1 # 1 /\ 1 \in 1 .. n
  BY <1>1
<1>3. ASSUME NEW i \in DOMAIN ev', Real(ev'[i])
      PROVE  ev'[i].h \in Slot /\ slot'[ev'[i].h].id = ev'[i].id /\ slot'[ev'[i].h].type \notin Blank
  <2>1. /\ ev'[i] = ev[i + 1] /\ i + 1 \in DOMAIN ev /\ ev[i + 1].h \in Slot
        /\ slot[ev[i + 1].h].id = ev[i + 1].id /\ slot[ev[i + 1].h].type \notin Blank
    BY <1>1, <1>2, <1>3 DEF Events
  <2>2. CASE Real(Head(ev))
    <3>1. ev[i + 1].h # ev[1].h
      BY <1>1, <1>2, <1>3, <2>1, <2>2 DEF Events
    <3> QED
      BY <1>1, <2>1, <3>1 DEF UsedSame
  <2>3. CASE UsedSame(MaxSocket)
    <3>1. MaxSocket \notin Slot
      BY Constants DEF Slot
    <3> QED
      BY <2>1, <2>3, <3>1 DEF UsedSame
  <2> QED
    BY <2>2, <2>3
<1>4. ASSUME NEW i \in DOMAIN ev', NEW j \in DOMAIN ev', Real(ev'[i]), Real(ev'[j]), ev'[i].h = ev'[j].h
      PROVE  i = j
  <2>1. i + 1 = j + 1
    BY <1>1, <1>2, <1>4 DEF Events
  <2> QED
    BY <1>1, <2>1
<1> QED
  BY <1>1, <1>3, <1>4 DEF Events, Real

LEMMA LocksKept ==
  ASSUME Locks, LocksSame,
         \A w \in Service : /\ call'[w].at \in {"locked", "sure"} <=> call[w].at \in {"locked", "sure"}
                            /\ call[w].at \in {"locked", "sure"} => call'[w].m = call[w].m
  PROVE  Locks'
<1>1. \A w \in Service, h \in Slot : HoldsLock(w, h)' <=> HoldsLock(w, h)
  BY DEF HoldsLock
<1> QED
  BY <1>1 DEF Locks, LocksSame

(* The requests under way for an id. *)
LEMMA UnderwayNat ==
  ASSUME Typed, NEW id
  PROVE  /\ Cardinality(Hits(pipe, Sending(id))) \in Nat
         /\ IsFiniteSet(Pushing(id)) /\ Cardinality(Pushing(id)) \in Nat
         /\ Underway(id) \in Nat
<1>1. Cardinality(Hits(pipe, Sending(id))) \in Nat
  BY HitsFinite DEF Typed
<1>2. IsFiniteSet(Pushing(id))
  BY Constants, FS_Subset DEF Pushing
<1>3. Cardinality(Pushing(id)) \in Nat
  BY <1>2, FS_CardinalityType
<1> QED
  BY <1>1, <1>2, <1>3 DEF Underway

PushSame ==
  \A w \in Service : /\ call'[w].at = "push" <=> call[w].at = "push"
                     /\ call[w].at = "push" => call'[w].m = call[w].m

LEMMA PipeSame ==
  ASSUME Typed, NEW id,
         \/ pipe' = pipe
         \/ \E r \in Req : r.op \notin {"D", "P"} /\ pipe' = Append(pipe, r)
         \/ pipe # << >> /\ Head(pipe).op \notin {"D", "P"} /\ pipe' = Tail(pipe)
  PROVE  Cardinality(Hits(pipe', Sending(id))) = Cardinality(Hits(pipe, Sending(id)))
<1> DEFINE c == Cardinality(Hits(pipe, Sending(id)))
<1>1. pipe \in Seq(Req) /\ c \in Nat
  BY UnderwayNat DEF Typed
<1>2. ASSUME NEW r \in Req, r.op \notin {"D", "P"}, pipe' = Append(pipe, r)
      PROVE  Cardinality(Hits(pipe', Sending(id))) = c
  <2>1. r \notin Sending(id)
    BY <1>2 DEF Sending
  <2>2. Cardinality(Hits(Append(pipe, r), Sending(id))) = c + (IF r \in Sending(id) THEN 1 ELSE 0)
    BY <1>1, HitsAppend
  <2> HIDE DEF c
  <2> QED
    BY <1>1, <1>2, <2>1, <2>2
<1>3. ASSUME pipe # << >>, Head(pipe).op \notin {"D", "P"}, pipe' = Tail(pipe)
      PROVE  Cardinality(Hits(pipe', Sending(id))) = c
  <2>1. Head(pipe) \notin Sending(id)
    BY <1>3 DEF Sending
  <2>2. Cardinality(Hits(Tail(pipe), Sending(id))) = c - (IF Head(pipe) \in Sending(id) THEN 1 ELSE 0)
    BY <1>1, <1>3, HitsTail
  <2> HIDE DEF c
  <2> QED
    BY <1>1, <1>3, <2>1, <2>2
<1> QED
  BY <1>2, <1>3

LEMMA UnderwaySame ==
  ASSUME Typed, NEW id, PushSame,
         Cardinality(Hits(pipe', Sending(id))) = Cardinality(Hits(pipe, Sending(id)))
  PROVE  Underway(id)' = Underway(id)
<1>1. Pushing(id)' = Pushing(id)
  BY DEF Pushing, PushSame, At
<1>2. Sending(id)' = Sending(id)
  BY DEF Sending, Req
<1> QED
  BY <1>1, <1>2 DEF Underway, Hits

LEMMA CountedSame ==
  ASSUME Typed, Counted, CountsSame, PushSame,
         \/ pipe' = pipe
         \/ \E r \in Req : r.op \notin {"D", "P"} /\ pipe' = Append(pipe, r)
         \/ pipe # << >> /\ Head(pipe).op \notin {"D", "P"} /\ pipe' = Tail(pipe)
  PROVE  Counted'
<1>1. \A id : Underway(id)' = Underway(id)
  BY PipeSame, UnderwaySame
<1> QED
  BY <1>1 DEF Counted, CountsSame

(* Nothing is under way for an id that the services do not know as open. *)
LEMMA UnderwayNone ==
  ASSUME Typed, Fresh, NEW id \in Id, told[id] \notin {"open", "close"}
  PROVE  Underway(id) = 0
<1>1. Hits(pipe, Sending(id)) = {}
  BY DEF Hits, Sending, Fresh
<1>2. Pushing(id) = {}
  <2>1. \A w \in Service : call[w].at = "push" => call[w] # Idle
    BY DEF Idle
  <2> QED
    BY <2>1 DEF Pushing, Fresh, At
<1> QED
  BY <1>1, <1>2, FS_EmptySet DEF Underway

(* Ids are told of and used in the order nothing, opening or accepted, open. *)
TellsMore ==
  /\ alloc_id' \in Nat /\ alloc_id <= alloc_id'
  /\ told' \in [Id -> {"nothing", "opening", "accepted", "open", "close"}]
  /\ \A id \in Id : \/ told'[id] = told[id]
                    \/ /\ told'[id] # "nothing" /\ id <= alloc_id'
                       /\ told[id] \in {"open", "close"} => told'[id] \in {"open", "close"}
CallsKnown ==
  \A w \in Service : call'[w] # Idle =>
     \/ call[w] # Idle /\ call'[w].m = call[w].m
     \/ told[call'[w].m.id] \in {"open", "close"}
Known(r) ==
  told'[r.id] # "nothing" /\ (r.op \in {"D", "P"} => told'[r.id] \in {"open", "close"})

LEMMA FreshKept ==
  ASSUME Typed, Fresh, TellsMore, CallsKnown, call' \in [Service -> Busy \cup {Idle}],
         \/ pipe' = pipe
         \/ \E r \in Req : Known(r) /\ pipe' = Append(pipe, r)
         \/ pipe # << >> /\ pipe' = Tail(pipe),
         \A h \in Slot : slot'[h].type = "RESERVE" => told'[slot'[h].id] = "opening"
  PROVE  Fresh'
<1>1. \A id \in Id : told'[id] # "nothing" => id <= alloc_id'
  <2>1. \A id \in Id : id \in Nat
    BY Constants
  <2> QED
    BY <2>1 DEF TellsMore, Fresh, Typed
<1>2. \A i \in DOMAIN pipe : Known(pipe[i])
  <2>1. \A i \in DOMAIN pipe : pipe[i].id \in Id
    BY PipeSlots
  <2> QED
    BY <2>1 DEF TellsMore, Fresh, Known
<1>3. \A i \in DOMAIN pipe' : Known(pipe'[i])
  <2>1. CASE pipe' = pipe
    BY <1>2, <2>1
  <2>2. ASSUME NEW r \in Req, Known(r), pipe' = Append(pipe, r) PROVE \A i \in DOMAIN pipe' : Known(pipe'[i])
    <3> DEFINE n == Len(pipe)
    <3>1. /\ n \in Nat /\ DOMAIN pipe = 1 .. n /\ DOMAIN pipe' = 1 .. n + 1
          /\ \A i \in 1 .. n : pipe'[i] = pipe[i]
          /\ pipe'[n + 1] = r
      BY <2>2, PipeAppend
    <3> HIDE DEF n
    <3>2. \A i \in 1 .. n + 1 : i \in 1 .. n \/ i = n + 1
      BY <3>1
    <3> QED
      BY <1>2, <2>2, <3>1, <3>2
  <2>3. ASSUME pipe # << >>, pipe' = Tail(pipe) PROVE \A i \in DOMAIN pipe' : Known(pipe'[i])
    <3> DEFINE n == Len(pipe)
    <3>1. /\ n \in Nat \ {0} /\ DOMAIN pipe = 1 .. n /\ DOMAIN pipe' = 1 .. n - 1
          /\ \A i \in 1 .. n - 1 : pipe'[i] = pipe[i + 1]
      BY ZenonT(60), <2>3, PipeTail
    <3> HIDE DEF n
    <3>2. \A i \in 1 .. n - 1 : i + 1 \in 1 .. n
      BY <3>1
    <3> QED
      BY <1>2, <3>1, <3>2
  <2> QED
    BY <2>1, <2>2, <2>3
<1>4. ASSUME NEW w \in Service, call'[w] # Idle PROVE told'[call'[w].m.id] \in {"open", "close"}
  <2>1. call'[w].m.id \in Id
    <3>1. call'[w] \in Busy
      BY <1>4
    <3> QED
      BY <3>1 DEF Busy, Message
  <2>2. told[call'[w].m.id] \in {"open", "close"}
    BY <1>4 DEF CallsKnown, Fresh
  <2> QED
    BY <2>1, <2>2 DEF TellsMore
<1>5. \A w \in Service : call'[w] # Idle' => told'[call'[w].m.id] \in {"open", "close"}
  BY <1>4 DEF Idle
<1> QED
  BY <1>1, <1>3, <1>5 DEF Fresh, Known

LEMMA FreshSame ==
  ASSUME Typed, Sockets, Fresh, ReservesSame, alloc_id' = alloc_id,
         CallsKnown, call' \in [Service -> Busy \cup {Idle}],
         \/ pipe' = pipe
         \/ \E r \in Req : Known(r) /\ pipe' = Append(pipe, r)
         \/ pipe # << >> /\ pipe' = Tail(pipe),
         \/ told' = told
         \/ \E id \in Id, what \in {"open", "close"} :
              /\ id <= alloc_id /\ Report(id, what)
              /\ ~(slot[HASH_ID(id)].id = id /\ slot[HASH_ID(id)].type = "RESERVE")
  PROVE  Fresh' /\ told' \in [Id -> {"nothing", "opening", "accepted", "open", "close"}]
<1>1. /\ \A h \in Slot : slot[h].type = "RESERVE" => told'[slot[h].id] = "opening"
      /\ TellsMore
  <2>1. CASE told' = told
    BY <2>1 DEF Fresh, TellsMore, Typed
  <2>2. ASSUME NEW id \in Id, NEW what \in {"open", "close"}, id <= alloc_id, Report(id, what),
               ~(slot[HASH_ID(id)].id = id /\ slot[HASH_ID(id)].type = "RESERVE")
        PROVE  /\ \A h \in Slot : slot[h].type = "RESERVE" => told'[slot[h].id] = "opening"
               /\ TellsMore
    <3>1. /\ told' \in [Id -> {"nothing", "opening", "accepted", "open", "close"}]
          /\ told'[id] = what /\ \A jd \in Id : jd # id => told'[jd] = told[jd]
      BY <2>2 DEF Report, Typed
    <3>2. \A h \in Slot : slot[h].type = "RESERVE" => slot[h].id \in Id /\ slot[h].id # id
      BY <2>2 DEF Sockets, Sound
    <3>3. \A h \in Slot : slot[h].type = "RESERVE" => told'[slot[h].id] = "opening"
      BY <3>1, <3>2 DEF Fresh
    <3>4. id <= alloc_id /\ alloc_id \in Nat
      BY <2>2 DEF Fresh, Typed
    <3>5. TellsMore
      BY <3>1, <3>4 DEF TellsMore
    <3> QED
      BY <3>3, <3>5
  <2> QED
    BY <2>1, <2>2
<1>2. \A h \in Slot : slot'[h].type = "RESERVE" => told'[slot'[h].id] = "opening"
  BY <1>1 DEF ReservesSame
<1>3. Fresh'
  BY <1>1, <1>2, FreshKept
<1> QED
  BY <1>1, <1>3 DEF TellsMore

LEMMA SlotsSame ==
  ASSUME slot' = slot
  PROVE  ReservesSame /\ LocksSame /\ CountsSame /\ \A h : UsedSame(h)
  BY DEF ReservesSame, LocksSame, CountsSame, UsedSame

LEMMA SocketsSame ==
  ASSUME Sockets, slot' = slot, alloc_id' = alloc_id
  PROVE  Sockets'
  BY DEF Sockets, Sound, Whole

(* No step but a close takes a slot in use away. *)
LEMMA ClosingEventsSame ==
  ASSUME Typed, Closing, Events, UsedSame(MaxSocket), ev' = ev, closing' = closing
  PROVE  Closing' /\ Events'
<1>1. MaxSocket \notin Slot /\ MaxSocket \in Nat
  BY Constants DEF Slot
<1>2. \A id \in closing : HASH_ID(id) # MaxSocket
  BY <1>1, Constants DEF Typed
<1>3. Closing'
  BY <1>2, ClosingSame
<1>4. Events'
  BY EventsStay
<1> QED
  BY <1>3, <1>4

-----------------------------------------------------------------------------
(* The services. *)

LEMMA CallFacts ==
  ASSUME Typed, NEW w \in Service, call[w].at # "idle"
  PROVE  /\ call[w] \in Busy /\ call[w] # Idle
         /\ call[w].m \in Message /\ call[w].m.id \in Id /\ HASH_ID(call[w].m.id) \in Slot
         /\ call[w].at \in {"look", "locked", "sure", "inc", "push"}
<1>1. call[w] \in Busy /\ call[w] # Idle
  BY DEF Typed, Idle
<1>2. call[w].m \in Message /\ call[w].at \in {"look", "locked", "sure", "inc", "push"}
  BY <1>1 DEF Busy
<1>3. call[w].m.id \in Id
  BY <1>2 DEF Message
<1> QED
  BY <1>1, <1>2, <1>3, Constants

LEMMA CallStep ==
  ASSUME Typed, NEW w \in Service, NEW c \in Busy \cup {Idle}, call' = [call EXCEPT ![w] = c]
  PROVE  /\ call' \in [Service -> Busy \cup {Idle}] /\ call'[w] = c
         /\ \A v \in Service : v # w => call'[v] = call[v]
  BY DEF Typed

LEMMA GoesStep ==
  ASSUME Typed, NEW w \in Service, call[w].at # "idle",
         NEW place \in {"look", "locked", "sure", "inc", "push"}, Goes(w, place)
  PROVE  /\ call' \in [Service -> Busy \cup {Idle}]
         /\ call'[w].at = place /\ call'[w].m = call[w].m /\ call'[w] # Idle
         /\ \A v \in Service : v # w => call'[v] = call[v]
         /\ CallsKnown
<1> DEFINE c == [call[w] EXCEPT !.at = place]
<1>1. call[w] \in Busy /\ call[w] # Idle
  BY CallFacts
<1>2. c \in Busy /\ c.at = place /\ c.m = call[w].m
  BY <1>1 DEF Busy
<1>3. call' = [call EXCEPT ![w] = c]
  BY DEF Goes
<1> HIDE DEF c
<1>4. call' \in [Service -> Busy \cup {Idle}] /\ call'[w] = c /\ \A v \in Service : v # w => call'[v] = call[v]
  BY <1>2, <1>3, CallStep
<1>5. call'[w] # Idle
  BY <1>2, <1>4 DEF Idle
<1>6. CallsKnown
  BY <1>1, <1>2, <1>4 DEF CallsKnown
<1> QED
  BY <1>2, <1>4, <1>5, <1>6

LEMMA SendIInv ==
  ASSUME IInv, NEW w \in Service, NEW id \in Id, NEW op \in {"D", "P"}, Send(w, id, op)
  PROVE  IInv'
<1> USE DEF IInv
<1> DEFINE m == [w |-> w, n |-> Cardinality(Sends(w)) + 1, id |-> id, op |-> op]
<1>1. m \in Message /\ m.id = id
  <2>1. IsFiniteSet(sent) /\ Cardinality(sent) < MaxSend /\ Cardinality(sent) \in Nat
    BY FS_CardinalityType DEF Typed, Send
  <2>2. Sends(w) \subseteq sent
    BY DEF Sends
  <2>3. /\ IsFiniteSet(Sends(w)) /\ Cardinality(Sends(w)) <= Cardinality(sent)
        /\ Cardinality(Sends(w)) \in Nat
    BY <2>1, <2>2, FS_Subset, FS_CardinalityType
  <2>4. Cardinality(Sends(w)) + 1 \in 1 .. MaxSend
    BY <2>1, <2>3, Constants
  <2> QED
    BY <2>4 DEF Message
<1>2. PICK at \in {"look", "inc"} : call' = [call EXCEPT ![w] = [at |-> at, m |-> m]]
  BY DEF Send
<1>3. sent' = sent \cup {m} /\ Cardinality(sent) < MaxSend
  BY DEF Send
<1>4. told[id] \in {"open", "close"} /\ call[w].at = "idle"
  BY DEF Send, At
<1>5. UNCHANGED <<slot, alloc_id, pipe, ev, closing, told>>
  BY DEF Send, thread
<1> HIDE DEF m
<1> DEFINE c == [at |-> at, m |-> m]
<1>6. c \in Busy /\ c.m = m /\ c.at = at
  BY <1>1 DEF Busy
<1> HIDE DEF c
<1>7. call' \in [Service -> Busy \cup {Idle}] /\ call'[w] = c /\ \A v \in Service : v # w => call'[v] = call[v]
  BY <1>2, <1>6, CallStep DEF c
<1>8. sent' \in SUBSET Message /\ IsFiniteSet(sent') /\ Cardinality(sent') <= MaxSend
  <2>1. IsFiniteSet(sent) /\ Cardinality(sent) \in Nat /\ MaxSend \in Nat
    BY FS_CardinalityType, Constants DEF Typed
  <2>2. /\ IsFiniteSet(sent \cup {m})
        /\ Cardinality(sent \cup {m}) = Cardinality(sent) \/ Cardinality(sent \cup {m}) = Cardinality(sent) + 1
    BY <2>1, FS_AddElement
  <2> QED
    BY <1>1, <1>3, <2>1, <2>2 DEF Typed
<1>9. Typed'
  BY <1>5, <1>7, <1>8 DEF Typed, Idle, Busy, Message
<1>10. ReservesSame /\ LocksSame /\ CountsSame /\ UsedSame(MaxSocket) /\ Sockets'
  BY <1>5, SlotsSame, SocketsSame
<1>11. CallsKnown
  BY <1>1, <1>4, <1>6, <1>7 DEF CallsKnown
<1>12. Fresh'
  BY <1>5, <1>7, <1>10, <1>11, FreshSame
<1>13. PushSame
  BY <1>4, <1>6, <1>7 DEF PushSame
<1>14. Locks'
  BY <1>4, <1>6, <1>7, <1>10, LocksKept
<1>15. Opening' /\ Counted'
  BY <1>5, <1>10, <1>13, OpeningSame, CountedSame
<1>16. Closing' /\ Events'
  BY <1>5, <1>10, ClosingEventsSame
<1> QED
  BY <1>9, <1>10, <1>12, <1>14, <1>15, <1>16

(* A step on a slot that stays with its id. *)
LEMMA QuietSlot ==
  ASSUME Typed, Sockets, NEW h \in Slot, NEW t \in Socket, Sound(h, t), SetSlot(h, t), alloc_id' = alloc_id,
         t.id = slot[h].id, t.tcp = slot[h].tcp,
         t.type = slot[h].type \/ (t.type \notin Blank /\ slot[h].type \notin Blank)
  PROVE  /\ slot' \in [Slot -> Socket] /\ Sockets'
         /\ slot'[h] = t /\ \A g \in Slot : g # h => slot'[g] = slot[g]
         /\ ReservesSame /\ UsedSame(MaxSocket)
         /\ t.sending = slot[h].sending => CountsSame
         /\ t.lock = slot[h].lock => LocksSame
<1>1. slot[h].id <= alloc_id /\ alloc_id \in Nat /\ alloc_id <= alloc_id
  BY DEF Sockets, Typed
<1>2. /\ slot' \in [Slot -> Socket] /\ Sockets'
      /\ slot'[h] = t /\ \A g \in Slot : g # h => slot'[g] = slot[g]
  BY <1>1, SlotStep
<1>3. ReservesSame
  BY <1>2 DEF ReservesSame, Blank
<1>4. UsedSame(MaxSocket)
  BY <1>2 DEF UsedSame
<1>5. t.sending = slot[h].sending => CountsSame
  BY <1>2 DEF CountsSame
<1>6. t.lock = slot[h].lock => LocksSame
  BY <1>2 DEF LocksSame
<1> QED
  BY <1>2, <1>3, <1>4, <1>5, <1>6

LEMMA LockTaken ==
  ASSUME Locks, NEW h \in Slot, NEW w \in Service, ~slot[h].lock, slot'[h].lock,
         \A g \in Slot : g # h => slot'[g] = slot[g],
         \A v \in Service : v # w => call'[v] = call[v],
         call'[w].at = "locked", HASH_ID(call'[w].m.id) = h,
         call[w].at \notin {"locked", "sure"}
  PROVE  Locks'
<1>1. \A v \in Service, g \in Slot : HoldsLock(v, g)' <=> IF v = w THEN g = h ELSE HoldsLock(v, g)
  BY DEF HoldsLock
<1>2. \A v \in Service : ~HoldsLock(v, h)
  BY DEF Locks
<1>3. \A g \in Slot : ~HoldsLock(w, g)
  BY DEF HoldsLock
<1>4. ASSUME NEW g \in Slot
      PROVE  /\ slot'[g].lock => \E v \in Service : HoldsLock(v, g)'
             /\ \A v \in Service : HoldsLock(v, g)' => slot'[g].lock
             /\ \A u, v \in Service : HoldsLock(u, g)' /\ HoldsLock(v, g)' => u = v
  <2>1. CASE g = h
    BY <1>1, <1>2, <2>1
  <2>2. CASE g # h
    BY <1>1, <1>3, <2>2 DEF Locks
  <2> QED
    BY <2>1, <2>2
<1> QED
  BY <1>4 DEF Locks

LEMMA LockFreed ==
  ASSUME Locks, NEW h \in Slot, NEW w \in Service, HoldsLock(w, h), ~slot'[h].lock,
         \A g \in Slot : g # h => slot'[g] = slot[g],
         \A v \in Service : v # w => call'[v] = call[v],
         call'[w].at \notin {"locked", "sure"}
  PROVE  Locks'
<1>1. \A v \in Service, g \in Slot : HoldsLock(v, g)' <=> v # w /\ HoldsLock(v, g)
  BY DEF HoldsLock
<1>2. \A v \in Service : HoldsLock(v, h) => v = w
  BY DEF Locks
<1>3. \A g \in Slot : HoldsLock(w, g) => g = h
  BY DEF HoldsLock
<1>4. ASSUME NEW g \in Slot
      PROVE  /\ slot'[g].lock => \E v \in Service : HoldsLock(v, g)'
             /\ \A v \in Service : HoldsLock(v, g)' => slot'[g].lock
             /\ \A u, v \in Service : HoldsLock(u, g)' /\ HoldsLock(v, g)' => u = v
  <2>1. CASE g = h
    BY <1>1, <1>2, <2>1
  <2>2. CASE g # h
    BY <1>1, <1>3, <2>2 DEF Locks
  <2> QED
    BY <2>1, <2>2
<1> QED
  BY <1>4 DEF Locks

(* The lock alone of a slot changes, and where a service is. *)
LEMMA LockIInv ==
  ASSUME IInv, NEW w \in Service, call[w].at \in {"look", "locked", "sure"},
         NEW place \in {"locked", "sure", "inc"}, Goes(w, place), NEW b \in BOOLEAN,
         SetSlot(HASH_ID(call[w].m.id), [slot[HASH_ID(call[w].m.id)] EXCEPT !.lock = b]),
         UNCHANGED <<alloc_id, pipe, ev, closing, told, sent>>,
         \/ call[w].at = "look" /\ place = "locked" /\ ~slot[HASH_ID(call[w].m.id)].lock /\ b
         \/ call[w].at = "look" /\ place = "inc" /\ b = slot[HASH_ID(call[w].m.id)].lock
         \/ call[w].at \in {"locked", "sure"} /\ place = "sure" /\ b
         \/ call[w].at \in {"locked", "sure"} /\ place = "inc" /\ ~b
  PROVE  IInv'
<1> USE DEF IInv
<1> DEFINE h == HASH_ID(call[w].m.id)
           s == slot[h]
           t == [s EXCEPT !.lock = b]
<1>1. h \in Slot /\ call[w] # Idle
  BY CallFacts
<1>2. s \in Socket /\ Sound(h, s)
  BY <1>1 DEF Typed, Sockets
<1>3. /\ t \in Socket /\ t.id = s.id /\ t.tcp = s.tcp /\ t.type = s.type /\ t.sending = s.sending
      /\ t.tag = s.tag /\ t.watched = s.watched /\ t.high = s.high /\ t.low = s.low /\ t.dw = s.dw
      /\ t.lock = b
  BY <1>2 DEF Socket
<1>4. SetSlot(h, t)
  OBVIOUS
<1> HIDE DEF t
<1>5. Sound(h, t)
  BY ZenonT(60), <1>2, <1>3 DEF Sound
<1>6. /\ slot' \in [Slot -> Socket] /\ Sockets'
      /\ slot'[h] = t /\ \A g \in Slot : g # h => slot'[g] = slot[g]
      /\ ReservesSame /\ UsedSame(MaxSocket) /\ CountsSame
      /\ t.lock = s.lock => LocksSame
  BY ZenonT(60), <1>1, <1>3, <1>4, <1>5, QuietSlot
<1>7. /\ call' \in [Service -> Busy \cup {Idle}]
      /\ call'[w].at = place /\ call'[w].m = call[w].m
      /\ \A v \in Service : v # w => call'[v] = call[v]
      /\ CallsKnown
  BY GoesStep
<1>8. Typed'
  BY <1>6, <1>7 DEF Typed, Idle, Busy, Message
<1>9. Fresh'
  BY <1>6, <1>7, FreshSame
<1>10. PushSame
  BY <1>7 DEF PushSame
<1>11. Opening' /\ Counted'
  BY <1>6, <1>10, OpeningSame, CountedSame
<1>12. Closing' /\ Events'
  BY <1>6, ClosingEventsSame
<1>13. Locks'
  <2>1. CASE call[w].at = "look" /\ place = "locked" /\ ~s.lock /\ b
    BY ZenonT(60), <1>1, <1>3, <1>6, <1>7, <2>1, LockTaken
  <2>2. CASE call[w].at = "look" /\ place = "inc" /\ b = s.lock
    <3>1. LocksSame
      BY ZenonT(60), <1>3, <1>6, <2>2
    <3> QED
      BY <1>7, <2>2, <3>1, LocksKept
  <2>3. CASE call[w].at \in {"locked", "sure"} /\ place = "sure" /\ b
    <3>1. HoldsLock(w, h)
      BY <2>3 DEF HoldsLock
    <3>2. s.lock /\ s.lock \in BOOLEAN
      BY <1>1, <1>2, <3>1 DEF Locks, Socket
    <3>3. LocksSame
      BY <1>3, <1>6, <2>3, <3>2
    <3> QED
      BY <1>7, <2>3, <3>3, LocksKept
  <2>4. CASE call[w].at \in {"locked", "sure"} /\ place = "inc" /\ ~b
    <3>1. HoldsLock(w, h)
      BY <2>4 DEF HoldsLock
    <3> HIDE DEF h
    <3> QED
      BY <1>1, <1>3, <1>6, <1>7, <2>4, <3>1, LockFreed
  <2> QED
    BY <2>1, <2>2, <2>3, <2>4
<1> QED
  BY <1>6, <1>8, <1>9, <1>11, <1>12, <1>13

LEMMA LookIInv ==
  ASSUME IInv, NEW w \in Service, Look(w) \/ Recheck(w) \/ NotAlone(w)
  PROVE  IInv'
<1> DEFINE h == HASH_ID(call[w].m.id)
           s == slot[h]
<1>1. call[w].at \in {"look", "locked", "sure"}
  BY DEF Look, Recheck, NotAlone, At
<1>2. s \in Socket /\ s.lock \in BOOLEAN
  BY <1>1, CallFacts DEF IInv, Typed, Socket
<1>3. UNCHANGED <<alloc_id, pipe, ev, closing, told, sent>>
  BY DEF Look, Recheck, NotAlone, thread, world
<1>4. CASE Look(w)
  <2> DEFINE free == NoneElse(s) /\ ~s.lock
  <2>1. call[w].at = "look" /\ Goes(w, IF free THEN "locked" ELSE "inc") /\ SetSlot(h, [s EXCEPT !.lock = s.lock \/ free])
    BY ZenonT(60), <1>4 DEF Look, At
  <2>2. CASE free
    <3>1. (s.lock \/ free) = TRUE
      BY <2>2
    <3>2. Goes(w, "locked") /\ SetSlot(h, [s EXCEPT !.lock = TRUE])
      BY <2>1, <2>2, <3>1
    <3> QED
      BY <1>1, <1>3, <2>1, <2>2, <3>2, LockIInv
  <2>3. CASE ~free
    <3>1. (s.lock \/ free) = s.lock
      BY <1>2, <2>3
    <3>2. Goes(w, "inc") /\ SetSlot(h, [s EXCEPT !.lock = s.lock])
      BY ZenonT(60), <2>1, <2>3, <3>1
    <3> QED
      BY ZenonT(60), <1>1, <1>2, <1>3, <2>1, <3>2, LockIInv
  <2> QED
    BY <2>2, <2>3
<1>5. CASE Recheck(w)
  <2> DEFINE ok == s.id = call[w].m.id /\ send_buffer_empty(s)
  <2>1. call[w].at = "locked" /\ Goes(w, IF ok THEN "sure" ELSE "inc") /\ SetSlot(h, [s EXCEPT !.lock = ok])
    BY <1>5 DEF Recheck, At
  <2>2. CASE ok
    <3>1. ok = TRUE
      BY <2>2
    <3>2. Goes(w, "sure") /\ SetSlot(h, [s EXCEPT !.lock = TRUE])
      BY <2>1, <3>1
    <3> QED
      BY <1>1, <1>3, <2>1, <3>2, LockIInv
  <2>3. CASE ~ok
    <3>1. ok = FALSE
      BY <2>3
    <3>2. Goes(w, "inc") /\ SetSlot(h, [s EXCEPT !.lock = FALSE])
      BY <2>1, <3>1
    <3> QED
      BY <1>1, <1>3, <2>1, <3>2, LockIInv
  <2> QED
    BY <2>2, <2>3
<1>6. CASE NotAlone(w)
  BY <1>1, <1>3, <1>6, LockIInv DEF NotAlone, At
<1> QED
  BY <1>4, <1>5, <1>6

LEMMA DirectWriteIInv ==
  ASSUME IInv, NEW w \in Service, DirectWrite(w)
  PROVE  IInv'
<1> USE DEF IInv
<1> DEFINE m == call[w].m
           h == HASH_ID(m.id)
           s == slot[h]
<1>1. call[w].at = "sure" /\ NoneElse(s) /\ call' = [call EXCEPT ![w] = Idle]
  BY ZenonT(60) DEF DirectWrite, At
<1>2. UNCHANGED <<alloc_id, pipe, ev, closing, told, sent>>
  BY ZenonT(60) DEF DirectWrite, thread, world
<1>3. PICK n \in 0 .. Size :
        SetSlot(h, [s EXCEPT !.dw = From(m, n + 1), !.armed = @ \/ n < Size, !.lock = FALSE])
  <2>1. (IF m.id \in gone THEN {0} ELSE 0 .. Size) \subseteq 0 .. Size
    BY SizeNat
  <2> QED
    BY <2>1, Zenon DEF DirectWrite
<1>4. m \in Message /\ h \in Slot
  BY <1>1, CallFacts
<1>5. s \in Socket /\ Sound(h, s) /\ s.type = "CONNECTED"
  BY <1>1, <1>4 DEF Typed, Sockets, NoneElse
<1> DEFINE d == From(m, n + 1)
           a == s.armed \/ n < Size
           t == [s EXCEPT !.dw = d, !.armed = a, !.lock = FALSE]
<1>6. d \in Seq(Byte)
  <2>1. n + 1 \in 1 .. Size + 1
    BY SizeNat
  <2> QED
    BY <1>4, <2>1, FromFacts
<1>7. a \in BOOLEAN
  BY <1>5 DEF Socket
<1>8. SetSlot(h, t)
  BY <1>3
<1> HIDE DEF d, a
<1>9. /\ t \in Socket /\ t.id = s.id /\ t.tcp = s.tcp /\ t.type = s.type /\ t.sending = s.sending
      /\ t.tag = s.tag /\ t.watched = s.watched /\ t.low = s.low /\ t.lock = FALSE
  BY <1>5, <1>6, <1>7 DEF Socket
<1> HIDE DEF t
<1>10. Sound(h, t)
  BY <1>5, <1>9 DEF Sound, Blank
<1>11. /\ slot' \in [Slot -> Socket] /\ Sockets'
       /\ slot'[h] = t /\ \A g \in Slot : g # h => slot'[g] = slot[g]
       /\ ReservesSame /\ UsedSame(MaxSocket) /\ CountsSame
  BY <1>2, <1>4, <1>8, <1>9, <1>10, QuietSlot
<1>12. /\ call' \in [Service -> Busy \cup {Idle}] /\ call'[w] = Idle
       /\ \A v \in Service : v # w => call'[v] = call[v]
  BY <1>1, CallStep
<1>13. CallsKnown /\ PushSame
  BY <1>1, <1>12 DEF CallsKnown, PushSame, Idle
<1>14. Typed'
  BY <1>2, <1>11, <1>12 DEF Typed, Idle, Busy, Message
<1>15. Fresh'
  BY <1>2, <1>11, <1>12, <1>13, FreshSame
<1>16. Opening' /\ Counted'
  BY <1>2, <1>11, <1>13, OpeningSame, CountedSame
<1>17. Closing' /\ Events'
  BY <1>2, <1>11, ClosingEventsSame
<1>18. Locks'
  <2>1. HoldsLock(w, h)
    BY <1>1 DEF HoldsLock
  <2>2. ~slot'[h].lock /\ call'[w].at \notin {"locked", "sure"}
    BY <1>9, <1>11, <1>12 DEF Idle
  <2> HIDE DEF h
  <2> QED
    BY <1>4, <1>11, <1>12, <2>1, <2>2, LockFreed
<1> QED
  BY <1>11, <1>14, <1>15, <1>16, <1>17, <1>18

(* A call reaches the point where it writes its request. *)
LEMMA UnderwayPush ==
  ASSUME Typed, NEW w \in Service, call[w].at # "push", call'[w].at = "push",
         \A v \in Service : v # w => call'[v] = call[v], pipe' = pipe, NEW id
  PROVE  Underway(id)' = Underway(id) + (IF call'[w].m.id = id THEN 1 ELSE 0)
<1>1. Pushing(id)' = IF call'[w].m.id = id THEN Pushing(id) \cup {w} ELSE Pushing(id)
  BY DEF Pushing, At
<1>2. w \notin Pushing(id)
  BY DEF Pushing, At
<1>3. IsFiniteSet(Pushing(id)) /\ Cardinality(Pushing(id)) \in Nat /\ Cardinality(Hits(pipe, Sending(id))) \in Nat
  BY UnderwayNat
<1>4. Cardinality(Pushing(id) \cup {w}) = Cardinality(Pushing(id)) + 1
  BY <1>2, <1>3, FS_AddElement
<1>5. Sending(id)' = Sending(id)
  BY DEF Sending, Req
<1>6. Underway(id)' = Cardinality(Hits(pipe, Sending(id))) + Cardinality(Pushing(id)')
  BY <1>5 DEF Underway, Hits
<1> QED
  BY <1>1, <1>3, <1>4, <1>6 DEF Underway

LEMMA IncIInv ==
  ASSUME IInv, NEW w \in Service, inc_sending_ref(w)
  PROVE  IInv'
<1> USE DEF IInv
<1> DEFINE m == call[w].m
           h == HASH_ID(m.id)
           s == slot[h]
           counts == s.tcp /\ s.tag = ID_TAG16(m.id)
           t == IF counts THEN [s EXCEPT !.sending = @ + 1] ELSE s
<1>1. call[w].at = "inc" /\ (counts => s.sending < MaxSending) /\ Goes(w, "push") /\ SetSlot(h, t)
  BY ZenonT(60) DEF inc_sending_ref, At
<1>2. UNCHANGED <<alloc_id, pipe, ev, closing, told, sent>>
  BY DEF inc_sending_ref, thread, world
<1>3. m \in Message /\ m.id \in Id /\ h \in Slot /\ m.id \in Nat
  BY <1>1, CallFacts, Constants
<1>4. s \in Socket /\ Sound(h, s)
  BY <1>3 DEF Typed, Sockets
<1>5. /\ s.sending \in 0 .. MaxSending /\ s.sending \in Nat
      /\ counts => s.sending + 1 \in 0 .. MaxSending
  <2>1. s.sending \in 0 .. MaxSending /\ MaxSending \in Nat
    BY <1>4, Constants DEF Socket
  <2> HIDE DEF s, counts
  <2> QED
    BY <1>1, <2>1
<1>6. /\ t \in Socket /\ t.id = s.id /\ t.tcp = s.tcp /\ t.type = s.type
      /\ t.sending = s.sending + (IF counts THEN 1 ELSE 0)
      /\ t.tag = s.tag /\ t.watched = s.watched /\ t.high = s.high /\ t.low = s.low /\ t.dw = s.dw
      /\ t.lock = s.lock
  <2>1. CASE counts
    <3>1. t = [s EXCEPT !.sending = s.sending + 1]
      BY <2>1
    <3> HIDE DEF counts, t
    <3> QED
      BY <1>4, <1>5, <2>1, <3>1 DEF Socket
  <2>2. CASE ~counts
    <3>1. t = s
      BY <2>2
    <3> HIDE DEF counts, t
    <3> QED
      BY <1>4, <1>5, <2>2, <3>1
  <2> QED
    BY ZenonT(60), <2>1, <2>2
<1> HIDE DEF t
<1>7. Sound(h, t)
  BY ZenonT(60), <1>4, <1>6 DEF Sound
<1>8. /\ slot' \in [Slot -> Socket] /\ Sockets'
      /\ slot'[h] = t /\ \A g \in Slot : g # h => slot'[g] = slot[g]
      /\ ReservesSame /\ UsedSame(MaxSocket) /\ LocksSame
  BY <1>1, <1>2, <1>3, <1>6, <1>7, QuietSlot
<1>9. /\ call' \in [Service -> Busy \cup {Idle}]
      /\ call'[w].at = "push" /\ call'[w].m = m
      /\ \A v \in Service : v # w => call'[v] = call[v]
      /\ CallsKnown
  BY <1>1, GoesStep
<1>10. Typed'
  BY <1>2, <1>8, <1>9 DEF Typed, Idle, Busy, Message
<1>11. Fresh'
  BY <1>2, <1>8, <1>9, FreshSame
<1>12. Opening' /\ Closing' /\ Events'
  BY <1>2, <1>8, OpeningSame, ClosingEventsSame
<1>13. Locks'
  BY <1>1, <1>8, <1>9, LocksKept
<1>14. counts <=> s.tcp /\ s.id = m.id
  <2>1. s.tcp => s.tag = ID_TAG16(s.id) /\ HASH_ID(s.id) = h /\ s.id \in Nat
    BY <1>4, Constants DEF Sound
  <2> QED
    BY <1>3, <2>1, TagExact
<1>15. \A id : Underway(id)' = Underway(id) + (IF m.id = id THEN 1 ELSE 0)
  BY <1>1, <1>2, <1>9, UnderwayPush
<1> HIDE DEF counts, s
<1>16. ASSUME NEW g \in Slot, slot'[g].tcp, NEW d, d = slot'[g].id PROVE slot'[g].sending = Underway(d)'
  <2>1. CASE g = h
    <3>1. s.tcp /\ slot'[g].sending = s.sending + (IF counts THEN 1 ELSE 0) /\ d = s.id
      BY <1>6, <1>8, <1>16, <2>1
    <3>2. s.sending = Underway(d)
      BY <1>3, <3>1 DEF Counted, s
    <3>3. Underway(d)' = Underway(d) + (IF m.id = d THEN 1 ELSE 0)
      BY <1>15
    <3> QED
      BY <1>14, <3>1, <3>2, <3>3
  <2>2. CASE g # h
    <3>1. slot'[g] = slot[g] /\ slot[g].tcp /\ d = slot[g].id
      BY <1>8, <1>16, <2>2
    <3>2. d # m.id
      BY <2>2, <3>1 DEF Sockets, Sound
    <3>3. slot[g].sending = Underway(d)
      BY <3>1 DEF Counted
    <3>4. Underway(d)' = Underway(d)
      BY <1>15, <3>2, UnderwayNat
    <3> QED
      BY <3>1, <3>3, <3>4
  <2> QED
    BY <2>1, <2>2
<1>17. Counted'
  BY <1>16 DEF Counted
<1> QED
  BY <1>8, <1>10, <1>11, <1>12, <1>13, <1>17

LEMMA SendRequestIInv ==
  ASSUME IInv, NEW w \in Service, send_request(w)
  PROVE  IInv'
<1> USE DEF IInv
<1> DEFINE m == call[w].m
           r == [op |-> m.op, id |-> m.id, m |-> m]
<1>1. call[w].at = "push" /\ pipe' = Append(pipe, r) /\ call' = [call EXCEPT ![w] = Idle]
  BY DEF send_request, Request, At
<1>2. UNCHANGED <<slot, alloc_id, ev, closing, told, sent>>
  BY DEF send_request, thread, world
<1>3. m \in Message /\ m.id \in Id /\ call[w] # Idle
  BY <1>1, CallFacts
<1>4. r \in Req /\ r.op \in {"D", "P"} /\ r.id = m.id
  BY <1>3 DEF Req, Message
<1>5. told[m.id] \in {"open", "close"}
  BY <1>3 DEF Fresh
<1> HIDE DEF r
<1>6. /\ call' \in [Service -> Busy \cup {Idle}] /\ call'[w] = Idle
      /\ \A v \in Service : v # w => call'[v] = call[v]
  BY <1>1, CallStep
<1>7. CallsKnown
  BY <1>6 DEF CallsKnown
<1>8. ReservesSame /\ LocksSame /\ UsedSame(MaxSocket) /\ Sockets'
  BY <1>2, SlotsSame, SocketsSame
<1>9. Typed'
  <2>1. pipe' \in Seq(Req)
    BY <1>1, <1>4, PipeAppend
  <2> QED
    BY <1>2, <1>6, <2>1 DEF Typed, Idle, Busy, Message, Req
<1>10. Fresh'
  <2>1. Known(r)
    BY <1>2, <1>4, <1>5 DEF Known
  <2> QED
    BY <1>1, <1>2, <1>4, <1>6, <1>7, <1>8, <2>1, FreshSame
<1>11. Opening'
  BY <1>1, <1>4, <1>8, OpeningAppend
<1>12. Closing' /\ Events'
  BY <1>2, <1>8, ClosingEventsSame
<1>13. Locks'
  BY <1>1, <1>6, <1>8, LocksKept DEF Idle
<1>14. ASSUME NEW d PROVE Underway(d)' = Underway(d)
  <2> DEFINE c == Cardinality(Hits(pipe, Sending(d)))
             e == Cardinality(Pushing(d))
             b == IF m.id = d THEN 1 ELSE 0
  <2>1. IsFiniteSet(Pushing(d)) /\ c \in Nat /\ e \in Nat
    BY UnderwayNat
  <2>2. r \in Sending(d) <=> m.id = d
    BY <1>4 DEF Sending
  <2>3. Cardinality(Hits(Append(pipe, r), Sending(d))) = c + b
    <3>1. pipe \in Seq(Req)
      BY DEF Typed
    <3>2. Cardinality(Hits(Append(pipe, r), Sending(d))) = c + (IF r \in Sending(d) THEN 1 ELSE 0)
      BY <1>4, <3>1, HitsAppend
    <3> QED
      BY <2>2, <3>2
  <2>4. w \in Pushing(d) <=> m.id = d
    BY <1>1 DEF Pushing, At
  <2>5. Pushing(d)' = Pushing(d) \ {w}
    BY <1>6 DEF Pushing, At, Idle
  <2>6. Cardinality(Pushing(d)') = e - b
    <3>1. Cardinality(Pushing(d) \ {w}) = IF w \in Pushing(d) THEN e - 1 ELSE e
      BY <2>1, FS_RemoveElement
    <3> HIDE DEF e
    <3> QED
      BY <2>1, <2>4, <2>5, <3>1
  <2>7. Sending(d)' = Sending(d)
    BY DEF Sending, Req
  <2>8. Underway(d)' = Cardinality(Hits(Append(pipe, r), Sending(d))) + Cardinality(Pushing(d)')
    BY <1>1, <2>7 DEF Underway, Hits
  <2> HIDE DEF c, e
  <2>9. Underway(d)' = c + b + (e - b) /\ b \in Nat
    BY <2>3, <2>6, <2>8
  <2>10. Underway(d)' = c + e
    BY <2>1, <2>9
  <2> QED
    BY <2>10 DEF Underway, c, e
<1>15. Counted'
  BY <1>2, <1>14 DEF Counted
<1> QED
  BY <1>8, <1>9, <1>10, <1>11, <1>12, <1>13, <1>15

(* Start and Close ask for something of an id that is known. *)
LEMMA AskIInv ==
  ASSUME IInv, NEW r \in Req, r.op \in {"S", "K"}, told[r.id] # "nothing", pipe' = Append(pipe, r),
         UNCHANGED <<slot, alloc_id, ev, closing, call, told, sent>>
  PROVE  IInv'
<1> USE DEF IInv
<1>1. ReservesSame /\ LocksSame /\ CountsSame /\ UsedSame(MaxSocket) /\ Sockets'
  BY SlotsSame, SocketsSame
<1>2. CallsKnown /\ PushSame /\ call' \in [Service -> Busy \cup {Idle}]
  BY DEF CallsKnown, PushSame, Typed
<1>3. Typed'
  <2>1. pipe' \in Seq(Req)
    BY PipeAppend
  <2> QED
    BY <2>1 DEF Typed, Idle, Busy, Message, Req
<1>4. Fresh'
  <2>1. Known(r)
    BY DEF Known
  <2> QED
    BY <1>1, <1>2, <2>1, FreshSame
<1>5. Opening' /\ Counted'
  BY <1>1, <1>2, OpeningAppend, CountedSame
<1>6. Closing' /\ Events'
  BY <1>1, ClosingEventsSame
<1>7. Locks'
  BY <1>1, LocksKept
<1> QED
  BY <1>1, <1>3, <1>4, <1>5, <1>6, <1>7

LEMMA StartIInv ==
  ASSUME IInv, NEW w \in Service, NEW id \in Id, Start(w, id)
  PROVE  IInv'
<1> DEFINE r == [op |-> "S", id |-> id]
<1>1. r \in Req /\ r.op = "S" /\ r.id = id
  BY DEF Req
<1>2. told[id] # "nothing" /\ pipe' = Append(pipe, r)
  BY DEF Start, Request
<1>3. UNCHANGED <<slot, alloc_id, ev, closing, call, told, sent>>
  BY DEF Start, thread
<1> HIDE DEF r
<1> QED
  BY <1>1, <1>2, <1>3, AskIInv

LEMMA CloseIInv ==
  ASSUME IInv, NEW w \in Service, NEW id \in Id, NEW shutdown \in BOOLEAN, Close(w, id, shutdown)
  PROVE  IInv'
<1> DEFINE d == {m \in Sends(w) : m.id = id}
           r == [op |-> "K", id |-> id, shutdown |-> shutdown, due |-> d]
<1>1. d \subseteq Message
  BY DEF Sends, IInv, Typed
<1>2. told[id] # "nothing" /\ pipe' = Append(pipe, r)
  BY DEF Close, Request
<1> HIDE DEF d
<1>3. r \in Req /\ r.op = "K" /\ r.id = id
  BY <1>1 DEF Req
<1>4. UNCHANGED <<slot, alloc_id, ev, closing, call, told, sent>>
  BY DEF Close, thread
<1> HIDE DEF r
<1> QED
  BY <1>2, <1>3, <1>4, AskIInv

(* A new id: its slot is free, nobody has heard of it. *)
LEMMA ReserveFacts ==
  ASSUME IInv, NEW id \in Id, reserve_id(id)
  PROVE  /\ alloc_id' = id /\ alloc_id' \in Nat /\ alloc_id <= alloc_id'
         /\ HASH_ID(id) \in Slot /\ told[id] = "nothing"
         /\ slot[HASH_ID(id)] \in Socket /\ Sound(HASH_ID(id), slot[HASH_ID(id)])
         /\ slot[HASH_ID(id)].type = "INVALID" /\ ~slot[HASH_ID(id)].watched
         /\ slot[HASH_ID(id)].high = << >> /\ slot[HASH_ID(id)].low = << >> /\ slot[HASH_ID(id)].dw = << >>
         /\ \A i \in DOMAIN pipe : pipe[i].id # id
         /\ \A g \in Slot : slot[g].type = "RESERVE" => g # HASH_ID(id) /\ slot[g].id # id
<1> USE DEF IInv
<1>1. alloc_id' = id /\ id \in alloc_id + 1 .. alloc_id + MaxSocket /\ slot[HASH_ID(id)].type = "INVALID"
  BY DEF reserve_id, FreeIds
<1>2. alloc_id \in Nat /\ id \in Nat /\ alloc_id < id /\ HASH_ID(id) \in Slot
  <2>1. alloc_id \in Nat /\ MaxSocket \in Nat /\ id \in Nat /\ HASH_ID(id) \in Slot
    BY Constants DEF Typed
  <2> QED
    BY <1>1, <2>1
<1>3. told[id] = "nothing"
  BY <1>2 DEF Fresh
<1>4. \A i \in DOMAIN pipe : pipe[i].id # id
  BY <1>3 DEF Fresh
<1>5. slot[HASH_ID(id)] \in Socket /\ Sound(HASH_ID(id), slot[HASH_ID(id)])
  BY <1>2 DEF Typed, Sockets
<1>6. /\ ~slot[HASH_ID(id)].watched
      /\ slot[HASH_ID(id)].high = << >> /\ slot[HASH_ID(id)].low = << >> /\ slot[HASH_ID(id)].dw = << >>
  BY <1>1, <1>5 DEF Sound, Blank
<1>7. \A g \in Slot : slot[g].type = "RESERVE" => g # HASH_ID(id) /\ slot[g].id # id
  BY <1>1 DEF Sockets, Sound
<1> QED
  BY <1>1, <1>2, <1>3, <1>4, <1>5, <1>6, <1>7

LEMMA ConnectIInv ==
  ASSUME IInv, NEW w \in Service, NEW id \in Id, Connect(w, id)
  PROVE  IInv'
<1> USE DEF IInv
<1> DEFINE h == HASH_ID(id)
           s == slot[h]
           t == Reserved(s, id)
           r == [op |-> "O", id |-> id]
           n == Len(pipe)
<1>1. reserve_id(id) /\ SetSlot(h, t) /\ pipe' = Append(pipe, r) /\ told' = [told EXCEPT ![id] = "opening"]
  BY DEF Connect, Request
<1>2. UNCHANGED <<ev, closing, call, sent>>
  BY DEF Connect, thread
<1>3. /\ alloc_id' = id /\ alloc_id' \in Nat /\ alloc_id <= alloc_id'
      /\ h \in Slot /\ told[id] = "nothing" /\ s \in Socket /\ Sound(h, s)
      /\ s.type = "INVALID" /\ ~s.watched /\ s.high = << >> /\ s.low = << >> /\ s.dw = << >>
      /\ \A i \in DOMAIN pipe : pipe[i].id # id
      /\ \A g \in Slot : slot[g].type = "RESERVE" => g # h /\ slot[g].id # id
  BY <1>1, ReserveFacts
<1>4. r \in Req /\ r.op = "O" /\ r.id = id
  BY DEF Req
<1> HIDE DEF r, s
<1>5. /\ t \in Socket /\ t.id = id /\ t.type = "RESERVE" /\ t.tcp = FALSE /\ t.lock = s.lock
      /\ t.watched = s.watched /\ t.high = s.high /\ t.low = s.low /\ t.dw = s.dw
  <2>1. id \in Nat
    BY Constants
  <2> QED
    BY <1>3, <2>1 DEF Reserved, Socket, SockType
<1> HIDE DEF t
<1>6. Sound(h, t)
  BY <1>3, <1>5 DEF Sound, Blank
<1>7. /\ slot' \in [Slot -> Socket] /\ Sockets'
      /\ slot'[h] = t /\ \A g \in Slot : g # h => slot'[g] = slot[g]
  <2>1. t.id <= alloc_id'
    BY <1>3, <1>5
  <2> QED
    BY <1>1, <1>3, <1>5, <1>6, <2>1, SlotStep
<1>8. /\ told' \in [Id -> {"nothing", "opening", "accepted", "open", "close"}]
      /\ told'[id] = "opening" /\ \A jd \in Id : jd # id => told'[jd] = told[jd]
  BY <1>1 DEF Typed
<1>9. /\ pipe' \in Seq(Req) /\ n \in Nat /\ DOMAIN pipe = 1 .. n /\ DOMAIN pipe' = 1 .. n + 1
      /\ \A i \in 1 .. n : pipe'[i] = pipe[i]
      /\ pipe'[n + 1] = r
  BY <1>1, <1>4, PipeAppend
<1> HIDE DEF n
<1>10. LocksSame /\ CountsSame /\ UsedSame(MaxSocket)
  BY <1>3, <1>5, <1>7 DEF LocksSame, CountsSame, UsedSame, Blank, s
<1>11. CallsKnown /\ PushSame /\ call' \in [Service -> Busy \cup {Idle}]
  BY <1>2 DEF CallsKnown, PushSame, Typed
<1>12. Typed'
  BY <1>2, <1>3, <1>7, <1>8, <1>9, <1>11 DEF Typed, Idle, Busy, Message, Req
<1>13. Fresh'
  <2>1. TellsMore
    <3>1. id <= alloc_id'
      BY <1>3
    <3> QED
      BY <1>3, <1>8, <3>1 DEF TellsMore
  <2>2. Known(r)
    BY <1>4, <1>8 DEF Known
  <2>3. ASSUME NEW g \in Slot, slot'[g].type = "RESERVE" PROVE told'[slot'[g].id] = "opening"
    <3>1. CASE g = h
      BY <1>5, <1>7, <1>8, <3>1
    <3>2. CASE g # h
      <4>1. slot'[g] = slot[g] /\ slot[g].type = "RESERVE" /\ slot[g].id # id /\ slot[g].id \in Id
        BY <1>3, <1>7, <2>3, <3>2 DEF Sockets, Sound
      <4> QED
        BY <1>8, <4>1 DEF Fresh
    <3> QED
      BY <3>1, <3>2
  <2> QED
    BY <1>1, <1>4, <1>11, <2>1, <2>2, <2>3, FreshKept
<1>14. Opening'
  <2>1. \A i \in 1 .. n + 1 : i \in 1 .. n \/ i = n + 1
    BY <1>9
  <2>2. \A i \in 1 .. n : pipe[i].id \in Id /\ HASH_ID(pipe[i].id) \in Slot
    BY <1>9, PipeSlots
  <2>3. \A i \in 1 .. n : pipe[i].op = "O" =>
          /\ slot[HASH_ID(pipe[i].id)].type = "RESERVE" /\ slot[HASH_ID(pipe[i].id)].id = pipe[i].id
          /\ HASH_ID(pipe[i].id) # h
    BY <1>3, <1>9, <2>2 DEF Opening
  <2>4. \A i \in DOMAIN pipe' : pipe'[i].op = "O" =>
          slot'[HASH_ID(pipe'[i].id)].type = "RESERVE" /\ slot'[HASH_ID(pipe'[i].id)].id = pipe'[i].id
    BY <1>4, <1>5, <1>7, <1>9, <2>1, <2>2, <2>3
  <2>5. \A i, j \in DOMAIN pipe' : pipe'[i].op = "O" /\ pipe'[j].op = "O"
                                   /\ HASH_ID(pipe'[i].id) = HASH_ID(pipe'[j].id) => i = j
    BY <1>4, <1>9, <2>1, <2>3 DEF Opening
  <2>6. ASSUME NEW i \in DOMAIN pipe', NEW j \in DOMAIN pipe', pipe'[i].op = "K", pipe'[j].op = "O",
               pipe'[i].id = pipe'[j].id
        PROVE  j < i
    <3>1. i \in 1 .. n /\ pipe'[i] = pipe[i] /\ pipe[i].id # id
      BY <1>3, <1>4, <1>9, <2>1, <2>6
    <3>2. j \in 1 .. n /\ pipe'[j] = pipe[j]
      BY <1>4, <1>9, <2>1, <2>6, <3>1
    <3> QED
      BY <1>9, <2>6, <3>1, <3>2 DEF Opening
  <2>7. ASSUME NEW g \in Slot, slot'[g].type = "RESERVE"
        PROVE  \E i \in DOMAIN pipe' : pipe'[i].op = "O" /\ pipe'[i].id = slot'[g].id
    <3>1. CASE g = h
      <4>1. n + 1 \in DOMAIN pipe'
        BY <1>9
      <4> QED
        BY <1>4, <1>5, <1>7, <1>9, <3>1, <4>1
    <3>2. CASE g # h
      <4>1. PICK i \in DOMAIN pipe : pipe[i].op = "O" /\ pipe[i].id = slot'[g].id
        BY <1>7, <2>7, <3>2 DEF Opening
      <4>2. i \in DOMAIN pipe'
        BY <1>9
      <4> QED
        BY <1>9, <4>1, <4>2
    <3> QED
      BY <3>1, <3>2
  <2> QED
    BY <2>4, <2>5, <2>6, <2>7 DEF Opening
<1>15. Closing' /\ Events'
  BY <1>2, <1>10, ClosingEventsSame
<1>16. Locks'
  BY <1>2, <1>10, LocksKept
<1>17. Counted'
  BY <1>1, <1>4, <1>10, <1>11, CountedSame
<1> QED
  BY <1>7, <1>12, <1>13, <1>14, <1>15, <1>16, <1>17

-----------------------------------------------------------------------------
(* The socket thread. *)

LEMMA WholeNone == Whole(<< >>) /\ << >> \in Seq(Byte)
<1>1. Len(<< >>) = Size * 0 /\ 1 .. Len(<< >>) = {} /\ 0 \in Nat
  BY SizeNat
<1> QED
  BY <1>1, EmptySeq DEF Whole

LEMMA FreedFacts ==
  ASSUME NEW h, NEW s \in Socket, Sound(h, s)
  PROVE  /\ Freed(s) \in Socket /\ Sound(h, Freed(s)) /\ Keeps(s, Freed(s)) /\ Freed(s).type = s.type
         /\ Closed(s) \in Socket /\ Sound(h, Closed(s)) /\ Keeps(s, Closed(s)) /\ Closed(s).type = "INVALID"
<1>1. << >> \in Seq(Byte) /\ Whole(<< >>)
  BY WholeNone
<1> DEFINE f == Freed(s)
           c == Closed(s)
<1>2. /\ f \in Socket /\ f.type = s.type /\ Keeps(s, f)
      /\ f.watched = FALSE /\ f.high = << >> /\ f.low = << >> /\ f.dw = s.dw
  BY <1>1 DEF Freed, Socket, Keeps
<1>3. /\ c \in Socket /\ c.type = "INVALID" /\ Keeps(s, c)
      /\ c.watched = FALSE /\ c.high = << >> /\ c.low = << >> /\ c.dw = << >>
  BY <1>1, <1>2 DEF Closed, Socket, SockType, Keeps
<1> HIDE DEF f, c
<1>4. Sound(h, f)
  BY <1>1, <1>2 DEF Sound, Keeps
<1>5. Sound(h, c)
  BY <1>1, <1>3 DEF Sound, Keeps
<1> QED
  BY <1>2, <1>3, <1>4, <1>5 DEF f, c

LEMMA KeepSlot ==
  ASSUME Typed, Sockets, NEW h \in Slot, NEW t \in Socket, Sound(h, t), SetSlot(h, t), alloc_id' = alloc_id,
         Keeps(slot[h], t), t.type = slot[h].type \/ (slot[h].type \notin Blank /\ t.type # "RESERVE")
  PROVE  /\ slot' \in [Slot -> Socket] /\ Sockets'
         /\ slot'[h] = t /\ \A g \in Slot : g # h => slot'[g] = slot[g]
         /\ ReservesSame /\ LocksSame /\ CountsSame /\ UsedSame(h)
         /\ t.type # "INVALID" \/ slot[h].type \in Blank => UsedSame(MaxSocket)
<1>1. slot[h].id <= alloc_id /\ alloc_id \in Nat /\ alloc_id <= alloc_id /\ t.id <= alloc_id
  BY DEF Sockets, Typed, Keeps
<1>2. /\ slot' \in [Slot -> Socket] /\ Sockets'
      /\ slot'[h] = t /\ \A g \in Slot : g # h => slot'[g] = slot[g]
  BY <1>1, SlotStep
<1>3. ReservesSame
  BY <1>2 DEF ReservesSame, Blank, Keeps
<1>4. LocksSame /\ CountsSame
  BY <1>2 DEF LocksSame, CountsSame, Keeps
<1>5. UsedSame(h)
  BY <1>2 DEF UsedSame
<1>6. ASSUME t.type # "INVALID" \/ slot[h].type \in Blank PROVE UsedSame(MaxSocket)
  BY <1>2, <1>6 DEF UsedSame, Blank, Keeps
<1> QED
  BY <1>2, <1>3, <1>4, <1>5, <1>6

(* A step of the socket thread that opens no socket and takes no message. *)
LEMMA ThreadIInv ==
  ASSUME IInv, UNCHANGED <<call, alloc_id, sent>>,
         slot' \in [Slot -> Socket], Sockets', ReservesSame, LocksSame, CountsSame,
         closing' \subseteq Id, Closing', ev' \in Seq(Happening), Events',
         \/ pipe' = pipe
         \/ pipe # << >> /\ Head(pipe).op \in {"S", "K"} /\ pipe' = Tail(pipe),
         \/ told' = told
         \/ \E id \in Id, what \in {"open", "close"} :
              /\ id <= alloc_id /\ Report(id, what)
              /\ ~(slot[HASH_ID(id)].id = id /\ slot[HASH_ID(id)].type = "RESERVE")
  PROVE  IInv'
<1> USE DEF IInv
<1>1. CallsKnown /\ PushSame /\ call' \in [Service -> Busy \cup {Idle}]
  BY DEF CallsKnown, PushSame, Typed
<1>2. Fresh' /\ told' \in [Id -> {"nothing", "opening", "accepted", "open", "close"}]
  BY <1>1, FreshSame
<1>3. pipe' \in Seq(Req)
  BY PipeTail DEF Typed
<1>4. Typed'
  BY <1>1, <1>2, <1>3 DEF Typed, Idle, Busy, Message, Req
<1>5. Opening'
  BY OpeningSame, OpeningTail
<1>6. Counted'
  BY <1>1, CountedSame
<1>7. Locks'
  BY LocksKept
<1> QED
  BY <1>2, <1>4, <1>5, <1>6, <1>7

(* force_close starts. *)
LEMMA ClosingNew ==
  ASSUME NEW h \in Slot, slot'[h].type \notin Blank, Sound(h, slot'[h]), closing' = {slot'[h].id}
  PROVE  Closing' /\ closing' \subseteq Id
<1>1. slot'[h].id \in Id /\ HASH_ID(slot'[h].id) = h
  BY DEF Sound, Blank
<1> QED
  BY <1>1 DEF Closing

LEMMA ClosingNone ==
  ASSUME closing' = {}
  PROVE  Closing' /\ closing' \subseteq Id
  BY DEF Closing

LEMMA ForceClosedIInv ==
  ASSUME IInv, ForceClosed
  PROVE  IInv'
<1> USE DEF IInv
<1>1. PICK id \in closing :
        /\ SetSlot(HASH_ID(id), Closed(slot[HASH_ID(id)])) /\ Report(id, "close")
        /\ closing' = {} /\ ev' = clear_closed_event(HASH_ID(id))
        /\ UNCHANGED <<pipe, call, alloc_id, sent>>
  BY DEF ForceClosed, world
<1> DEFINE h == HASH_ID(id)
           s == slot[h]
<1>2. id \in Id /\ h \in Slot /\ s.type \notin Blank /\ s.id = id
  BY Constants DEF Typed, Closing
<1>3. s \in Socket /\ Sound(h, s) /\ s.id <= alloc_id
  BY <1>2 DEF Typed, Sockets
<1>4. Closed(s) \in Socket /\ Sound(h, Closed(s)) /\ Keeps(s, Closed(s)) /\ Closed(s).type = "INVALID"
  BY <1>3, FreedFacts
<1>5. /\ slot' \in [Slot -> Socket] /\ Sockets'
      /\ ReservesSame /\ LocksSame /\ CountsSame /\ UsedSame(h)
  BY <1>1, <1>2, <1>4, KeepSlot
<1>6. Events' /\ ev' \in Seq(Happening)
  BY <1>1, <1>5, EventsCleared
<1>7. Closing' /\ closing' \subseteq Id
  BY <1>1, ClosingNone
<1>8. ~(slot[HASH_ID(id)].id = id /\ slot[HASH_ID(id)].type = "RESERVE")
  BY <1>2 DEF Blank
<1> QED
  BY <1>1, <1>2, <1>3, <1>5, <1>6, <1>7, <1>8, ThreadIInv

(* The socket thread turns to a request. *)
LEMMA HeadFacts ==
  ASSUME IInv, ctrl_cmd
  PROVE  LET r == Head(pipe) IN
         /\ pipe # << >> /\ pipe' = Tail(pipe) /\ pipe[1] = r /\ 1 \in DOMAIN pipe /\ closing = {}
         /\ r \in Req /\ r.id \in Id /\ HASH_ID(r.id) \in Slot /\ r.id <= alloc_id /\ told[r.id] # "nothing"
         /\ slot[HASH_ID(r.id)] \in Socket /\ Sound(HASH_ID(r.id), slot[HASH_ID(r.id)])
         /\ UNCHANGED <<call, alloc_id, sent>>
<1> USE DEF IInv
<1> DEFINE r == Head(pipe)
<1>1. pipe # << >> /\ pipe' = Tail(pipe) /\ UNCHANGED <<call, alloc_id, sent>> /\ closing = {}
  BY DEF ctrl_cmd, world
<1>2. Len(pipe) \in Nat \ {0} /\ DOMAIN pipe = 1 .. Len(pipe) /\ r = pipe[1] /\ r \in Req
  BY <1>1, PipeTail
<1>3. 1 \in DOMAIN pipe
  BY <1>2
<1> HIDE DEF r
<1>4. r.id \in Id /\ HASH_ID(r.id) \in Slot
  BY <1>2, <1>3, PipeSlots
<1>5. told[r.id] # "nothing" /\ r.id <= alloc_id
  BY <1>2, <1>3, <1>4 DEF Fresh
<1>6. slot[HASH_ID(r.id)] \in Socket /\ Sound(HASH_ID(r.id), slot[HASH_ID(r.id)])
  BY <1>4 DEF Typed, Sockets
<1> QED
  BY <1>1, <1>2, <1>3, <1>4, <1>5, <1>6 DEF r

LEMMA StartSocketIInv ==
  ASSUME IInv, ctrl_cmd, Head(pipe).op = "S", start_socket(Head(pipe))
  PROVE  IInv'
<1> USE DEF IInv
<1> DEFINE r == Head(pipe)
           h == HASH_ID(r.id)
           s == slot[h]
           t == [s EXCEPT !.type = "CONNECTED", !.watched = TRUE]
<1>1. /\ pipe # << >> /\ pipe' = Tail(pipe) /\ closing = {}
      /\ r.id \in Id /\ h \in Slot /\ r.id <= alloc_id /\ s \in Socket /\ Sound(h, s)
      /\ UNCHANGED <<call, alloc_id, sent>>
  BY HeadFacts
<1>2. /\ IF Valid(r.id) /\ s.type = "PACCEPT"
         THEN \/ SetSlot(h, t) /\ Report(r.id, "open") /\ closing' = closing
              \/ force_close(h, s)
         ELSE /\ IF ~Valid(r.id) THEN Report(r.id, "close")
                 ELSE IF s.type = "CONNECTED" THEN Report(r.id, "open")
                 ELSE UNCHANGED told
              /\ slot' = slot /\ closing' = closing
      /\ ev' = ev
  BY DEF start_socket
<1>3. Valid(r.id) <=> s.type # "INVALID" /\ s.id = r.id
  BY DEF Valid
<1> HIDE DEF r, h, s
<1>4. CASE Valid(r.id) /\ s.type = "PACCEPT" /\ SetSlot(h, t) /\ Report(r.id, "open") /\ closing' = closing
  <2>1. /\ t \in Socket /\ t.type = "CONNECTED" /\ t.watched = TRUE /\ Keeps(s, t)
        /\ t.high = s.high /\ t.low = s.low /\ t.dw = s.dw
    BY <1>1 DEF Socket, SockType, Keeps
  <2>2. SetSlot(h, t)
    BY <1>4
  <2> HIDE DEF t
  <2>3. Sound(h, t)
    BY <1>1, <1>4, <2>1 DEF Sound, Keeps, Blank
  <2>4. /\ slot' \in [Slot -> Socket] /\ Sockets'
        /\ ReservesSame /\ LocksSame /\ CountsSame /\ UsedSame(MaxSocket)
    BY <1>1, <1>4, <2>1, <2>2, <2>3, KeepSlot DEF Blank, s
  <2>5. Closing' /\ Events' /\ closing' \subseteq Id /\ ev' \in Seq(Happening)
    BY <1>2, <1>4, <2>4, ClosingEventsSame DEF Typed
  <2>6. ~(slot[HASH_ID(r.id)].id = r.id /\ slot[HASH_ID(r.id)].type = "RESERVE")
    BY <1>4 DEF s, h
  <2> QED
    BY <1>1, <1>4, <2>4, <2>5, <2>6, ThreadIInv
<1>5. CASE Valid(r.id) /\ s.type = "PACCEPT" /\ force_close(h, s)
  <2>1. SetSlot(h, Freed(s)) /\ closing' = {s.id} /\ told' = told
    BY <1>5 DEF force_close
  <2>2. Freed(s) \in Socket /\ Sound(h, Freed(s)) /\ Keeps(s, Freed(s)) /\ Freed(s).type = s.type
    BY <1>1, FreedFacts
  <2>3. /\ slot' \in [Slot -> Socket] /\ Sockets' /\ slot'[h] = Freed(s)
        /\ ReservesSame /\ LocksSame /\ CountsSame /\ UsedSame(MaxSocket)
    BY <1>1, <1>5, <2>1, <2>2, KeepSlot DEF Blank, s
  <2>4. Events' /\ ev' \in Seq(Happening)
    BY <1>2, <2>3, EventsStay DEF Typed
  <2>5. Closing' /\ closing' \subseteq Id
    BY <1>1, <1>5, <2>1, <2>2, <2>3, ClosingNew DEF Keeps, Blank
  <2> QED
    BY <1>1, <2>1, <2>3, <2>4, <2>5, ThreadIInv
<1>6. CASE ~(Valid(r.id) /\ s.type = "PACCEPT")
  <2>1. slot' = slot /\ closing' = closing
    BY <1>2, <1>6
  <2>2. /\ slot' \in [Slot -> Socket] /\ Sockets'
        /\ ReservesSame /\ LocksSame /\ CountsSame /\ UsedSame(MaxSocket)
    BY <1>1, <2>1, SlotsSame, SocketsSame DEF Typed
  <2>3. Closing' /\ Events' /\ closing' \subseteq Id /\ ev' \in Seq(Happening)
    BY <1>2, <2>1, <2>2, ClosingEventsSame DEF Typed
  <2>4. \/ told' = told
        \/ \E what \in {"open", "close"} : Report(r.id, what) /\ ~(s.id = r.id /\ s.type = "RESERVE")
    BY <1>2, <1>3, <1>6
  <2> QED
    BY <1>1, <2>2, <2>3, <2>4, ThreadIInv DEF s, h
<1> QED
  BY <1>2, <1>4, <1>5, <1>6

(* A request to close never meets a reserved slot. *)
LEMMA CloseNotReserved ==
  ASSUME IInv, ctrl_cmd, Head(pipe).op = "K", Valid(Head(pipe).id)
  PROVE  slot[HASH_ID(Head(pipe).id)].type \notin Blank /\ slot[HASH_ID(Head(pipe).id)].id = Head(pipe).id
<1> DEFINE r == Head(pipe)
           s == slot[HASH_ID(r.id)]
<1>1. pipe[1] = r /\ 1 \in DOMAIN pipe /\ HASH_ID(r.id) \in Slot /\ pipe \in Seq(Req)
  BY HeadFacts DEF IInv, Typed
<1>2. s.type # "INVALID" /\ s.id = r.id
  BY DEF Valid
<1>3. ASSUME s.type = "RESERVE" PROVE FALSE
  <2>1. PICK i \in DOMAIN pipe : pipe[i].op = "O" /\ pipe[i].id = s.id
    BY <1>1, <1>3 DEF IInv, Opening
  <2>2. i < 1
    BY <1>1, <1>2, <2>1 DEF IInv, Opening
  <2>3. i \in 1 .. Len(pipe)
    BY <1>1, LenProperties
  <2> QED
    BY <2>2, <2>3
<1> QED
  BY <1>2, <1>3 DEF Blank

LEMMA CloseSocketIInv ==
  ASSUME IInv, ctrl_cmd, Head(pipe).op = "K", close_socket(Head(pipe))
  PROVE  IInv'
<1> USE DEF IInv
<1> DEFINE r == Head(pipe)
           h == HASH_ID(r.id)
           s == slot[h]
           try == ~nomore_sending_data(s) /\ ~s.lock
<1>1. /\ pipe # << >> /\ pipe' = Tail(pipe) /\ closing = {}
      /\ r.id \in Id /\ h \in Slot /\ r.id <= alloc_id /\ s \in Socket /\ Sound(h, s)
      /\ UNCHANGED <<call, alloc_id, sent>>
  BY HeadFacts
<1>2. CASE ~Valid(r.id)
  <2>1. Report(r.id, "close") /\ UNCHANGED <<slot, ev, closing>>
    BY <1>2 DEF close_socket
  <2>2. ~(s.id = r.id /\ s.type = "RESERVE")
    BY <1>2 DEF Valid
  <2>3. /\ slot' \in [Slot -> Socket] /\ Sockets'
        /\ ReservesSame /\ LocksSame /\ CountsSame /\ UsedSame(MaxSocket)
    BY <1>1, <2>1, SlotsSame, SocketsSame DEF Typed
  <2>4. Closing' /\ Events' /\ closing' \subseteq Id /\ ev' \in Seq(Happening)
    BY <2>1, <2>3, ClosingEventsSame DEF Typed
  <2> QED
    BY <1>1, <2>1, <2>2, <2>3, <2>4, ThreadIInv
<1>3. CASE Valid(r.id)
  <2>1. s.type \notin Blank /\ s.id = r.id
    BY <1>3, CloseNotReserved
  <2>2. PICK k \in 0 .. Len(Waiting(s)) :
          LET t == IF try THEN send_buffer(s, k) ELSE s IN
          IF try /\ Ends(s, k)
          THEN SetSlot(h, Closed(s)) /\ Report(r.id, "close") /\ ev' = clear_closed_event(h) /\ UNCHANGED closing
          ELSE /\ UNCHANGED ev
               /\ IF r.shutdown \/ nomore_sending_data(t) THEN force_close(h, t)
                  ELSE SetSlot(h, [t EXCEPT !.type = "HALFCLOSE"]) /\ UNCHANGED <<told, closing>>
    <3>1. (IF try /\ r.id \notin gone THEN 0 .. Len(Waiting(s)) ELSE {0}) \subseteq 0 .. Len(Waiting(s))
      BY <1>1, WaitingSeq
    <3> QED
      BY <1>3, <3>1, Zenon DEF close_socket
  <2> DEFINE t == IF try THEN send_buffer(s, k) ELSE s
  <2>3. t \in Socket /\ Sound(h, t) /\ Keeps(s, t) /\ t.type = s.type
    BY <1>1, SendBuffer DEF Keeps
  <2>4. CASE try /\ Ends(s, k)
    <3>1. SetSlot(h, Closed(s)) /\ Report(r.id, "close") /\ ev' = clear_closed_event(h) /\ closing' = {}
      BY <1>1, <2>2, <2>4
    <3>2. Closed(s) \in Socket /\ Sound(h, Closed(s)) /\ Keeps(s, Closed(s)) /\ Closed(s).type = "INVALID"
      BY <1>1, FreedFacts
    <3>3. /\ slot' \in [Slot -> Socket] /\ Sockets'
          /\ ReservesSame /\ LocksSame /\ CountsSame /\ UsedSame(h)
      BY <1>1, <2>1, <3>1, <3>2, KeepSlot
    <3>4. Events' /\ ev' \in Seq(Happening) /\ Closing' /\ closing' \subseteq Id
      BY <3>1, <3>3, EventsCleared, ClosingNone
    <3>5. ~(s.id = r.id /\ s.type = "RESERVE")
      BY <2>1 DEF Blank
    <3> QED
      BY <1>1, <3>1, <3>3, <3>4, <3>5, ThreadIInv
  <2>5. CASE ~(try /\ Ends(s, k)) /\ (r.shutdown \/ nomore_sending_data(t))
    <3>1. ev' = ev /\ force_close(h, t)
      BY <2>2, <2>5
    <3> HIDE DEF t
    <3>2. SetSlot(h, Freed(t)) /\ closing' = {t.id} /\ told' = told
      BY <3>1 DEF force_close
    <3>3. Freed(t) \in Socket /\ Sound(h, Freed(t)) /\ Keeps(t, Freed(t)) /\ Freed(t).type = s.type
      BY <2>3, FreedFacts
    <3>4. Keeps(s, Freed(t))
      BY <2>3, <3>3 DEF Keeps
    <3>5. /\ slot' \in [Slot -> Socket] /\ Sockets' /\ slot'[h] = Freed(t)
          /\ ReservesSame /\ LocksSame /\ CountsSame /\ UsedSame(MaxSocket)
      BY <1>1, <2>1, <3>2, <3>3, <3>4, KeepSlot DEF Blank
    <3>6. Events' /\ ev' \in Seq(Happening)
      BY <3>1, <3>5, EventsStay DEF Typed
    <3>7. Closing' /\ closing' \subseteq Id
      BY <1>1, <2>1, <3>2, <3>3, <3>5, ClosingNew DEF Keeps
    <3> QED
      BY <1>1, <3>2, <3>5, <3>6, <3>7, ThreadIInv
  <2>6. CASE ~(try /\ Ends(s, k)) /\ ~(r.shutdown \/ nomore_sending_data(t))
    <3> DEFINE u == [t EXCEPT !.type = "HALFCLOSE"]
    <3>1. ev' = ev /\ SetSlot(h, u) /\ told' = told /\ closing' = {}
      BY <1>1, <2>2, <2>6
    <3> HIDE DEF t
    <3>2. /\ u \in Socket /\ u.type = "HALFCLOSE" /\ Keeps(t, u)
          /\ u.watched = t.watched /\ u.low = t.low
      BY <2>3 DEF Socket, SockType, Keeps
    <3> HIDE DEF u
    <3>3. Sound(h, u)
      BY <2>1, <2>3, <3>2 DEF Sound, Keeps, Blank
    <3>4. Keeps(s, u)
      BY <2>3, <3>2 DEF Keeps
    <3>5. /\ slot' \in [Slot -> Socket] /\ Sockets'
          /\ ReservesSame /\ LocksSame /\ CountsSame /\ UsedSame(MaxSocket)
      BY <1>1, <2>1, <3>1, <3>2, <3>3, <3>4, KeepSlot
    <3>6. Events' /\ ev' \in Seq(Happening) /\ Closing' /\ closing' \subseteq Id
      BY <3>1, <3>5, EventsStay, ClosingNone DEF Typed
    <3> QED
      BY <1>1, <3>1, <3>5, <3>6, ThreadIInv
  <2> QED
    BY <2>4, <2>5, <2>6
<1> QED
  BY <1>2, <1>3

(* The socket thread takes a message from the pipe. *)
LEMMA UnderwayTail ==
  ASSUME Typed, pipe # << >>, Head(pipe) \in Req, Head(pipe).op \in {"D", "P"}, pipe' = Tail(pipe),
         call' = call, NEW d
  PROVE  /\ Underway(d)' = Underway(d) - (IF Head(pipe).id = d THEN 1 ELSE 0)
         /\ Head(pipe).id = d => Underway(d) > 0
<1> DEFINE c == Cardinality(Hits(pipe, Sending(d)))
           e == Cardinality(Pushing(d))
           b == IF Head(pipe).id = d THEN 1 ELSE 0
<1>1. pipe \in Seq(Req) /\ c \in Nat /\ e \in Nat
  BY UnderwayNat DEF Typed
<1>2. Head(pipe) \in Sending(d) <=> Head(pipe).id = d
  BY DEF Sending
<1>3. Cardinality(Hits(Tail(pipe), Sending(d))) = c - b
  <2>1. Cardinality(Hits(Tail(pipe), Sending(d))) = c - (IF Head(pipe) \in Sending(d) THEN 1 ELSE 0)
    BY <1>1, HitsTail
  <2> QED
    BY <1>2, <2>1
<1>4. Pushing(d)' = Pushing(d)
  BY DEF Pushing, At
<1>5. Sending(d)' = Sending(d)
  BY DEF Sending, Req
<1>6. Underway(d)' = (c - b) + e
  BY <1>3, <1>4, <1>5 DEF Underway, Hits
<1>7. Head(pipe).id = d => c > 0
  <2>1. 1 \in DOMAIN pipe /\ Head(pipe) = pipe[1]
    <3>1. Len(pipe) \in Nat \ {0} /\ DOMAIN pipe = 1 .. Len(pipe) /\ Head(pipe) = pipe[1]
      BY <1>1, SeqTail
    <3> QED
      BY <3>1
  <2>2. Head(pipe).id = d => 1 \in Hits(pipe, Sending(d))
    BY <1>2, <2>1 DEF Hits
  <2> QED
    BY <1>1, <2>2, HitsFinite
<1>8. Underway(d) = c + e
  BY DEF Underway
<1> HIDE DEF c, e
<1> QED
  BY <1>1, <1>6, <1>7, <1>8

LEMMA SendSocketIInv ==
  ASSUME IInv, ctrl_cmd, Head(pipe).op \in {"D", "P"}, send_socket(Head(pipe))
  PROVE  IInv'
<1> USE DEF IInv
<1> DEFINE r == Head(pipe)
           h == HASH_ID(r.id)
           s == slot[h]
           taken == Valid(r.id) /\ s.type \notin {"HALFCLOSE", "PACCEPT"}
           only == send_buffer_empty(s) /\ s.type = "CONNECTED"
           t == IF ~taken THEN s
                ELSE IF r.op = "P" /\ ~only THEN [s EXCEPT !.low = @ \o From(r.m, 1)]
                ELSE [s EXCEPT !.high = @ \o From(r.m, 1), !.armed = @ \/ only]
           u == dec_sending_ref(t, r.id)
<1>1. /\ pipe # << >> /\ pipe' = Tail(pipe) /\ closing = {} /\ pipe[1] = r /\ 1 \in DOMAIN pipe
      /\ r \in Req /\ r.id \in Id /\ h \in Slot /\ s \in Socket /\ Sound(h, s)
      /\ UNCHANGED <<call, alloc_id, sent>>
  BY HeadFacts
<1>2. SetSlot(h, u) /\ UNCHANGED <<told, ev, closing>>
  BY ZenonT(60) DEF send_socket
<1>3. r.m \in Message /\ told[r.id] \in {"open", "close"}
  BY <1>1, ReqFacts DEF Fresh
<1>4. taken => s.type \notin Blank \cup {"PACCEPT"}
  <2>1. Valid(r.id) <=> s.type # "INVALID" /\ s.id = r.id
    BY DEF Valid
  <2>2. s.type = "RESERVE" => s.id # r.id
    BY <1>1, <1>3 DEF Fresh
  <2> QED
    BY <2>1, <2>2 DEF Blank
<1>5. \A d : /\ Underway(d)' = Underway(d) - (IF r.id = d THEN 1 ELSE 0)
             /\ r.id = d => Underway(d) > 0
  BY <1>1, UnderwayTail
<1> HIDE DEF r, h, taken
<1>6. t \in Socket /\ Sound(h, t) /\ Keeps(s, t) /\ t.type = s.type
  <2>1. CASE ~taken
    <3>1. t = s
      BY <2>1
    <3> QED
      BY <1>1, <3>1 DEF Keeps
  <2>2. CASE taken /\ r.op = "P" /\ ~only
    <3> DEFINE b == s.low \o From(r.m, 1)
    <3>1. b \in Seq(Byte) /\ Whole(b)
      BY <1>1, <1>3, WholeFrom DEF Sound, Socket
    <3>2. t = [s EXCEPT !.low = b]
      BY <2>2
    <3> HIDE DEF b, t, s
    <3>3. /\ t \in Socket /\ Keeps(s, t) /\ t.type = s.type
          /\ t.watched = s.watched /\ t.low = b
      BY <1>1, <3>1, <3>2 DEF Socket, Keeps
    <3>4. Sound(h, t)
      BY <1>1, <1>4, <2>2, <3>1, <3>3 DEF Sound, Keeps
    <3> QED
      BY <3>3, <3>4
  <2>3. CASE taken /\ ~(r.op = "P" /\ ~only)
    <3> DEFINE b == s.high \o From(r.m, 1)
               a == s.armed \/ only
    <3>1. b \in Seq(Byte)
      <4>1. 1 \in 1 .. Size + 1
        BY SizeNat
      <4>2. From(r.m, 1) \in Seq(Byte) /\ s.high \in Seq(Byte)
        BY <1>1, <1>3, <4>1, FromFacts DEF Socket
      <4> QED
        BY <4>2, ConcatProperties
    <3>2. a \in BOOLEAN
      BY <1>1 DEF Socket
    <3>3. t = [s EXCEPT !.high = b, !.armed = a]
      BY <2>3
    <3> HIDE DEF b, a, t, s
    <3>4. /\ t \in Socket /\ Keeps(s, t) /\ t.type = s.type
          /\ t.watched = s.watched /\ t.low = s.low
      BY <1>1, <3>1, <3>2, <3>3 DEF Socket, Keeps
    <3>5. Sound(h, t)
      BY <1>1, <1>4, <2>3, <3>4 DEF Sound, Keeps
    <3> QED
      BY <3>4, <3>5
  <2> QED
    BY <2>1, <2>2, <2>3
<1> HIDE DEF t, s
<1> DEFINE counts == s.id = r.id /\ s.tcp
<1>7. s.sending \in 0 .. MaxSending /\ MaxSending \in Nat /\ (s.tcp => s.sending = Underway(s.id))
  BY <1>1, Constants DEF Counted, Socket, s
<1>8. counts => s.sending - 1 \in 0 .. MaxSending
  <2>1. counts => s.sending > 0
    BY <1>5, <1>7
  <2> QED
    BY <1>7, <2>1
<1>9. /\ u \in Socket /\ u.id = s.id /\ u.tcp = s.tcp /\ u.type = t.type
      /\ u.sending = s.sending - (IF counts THEN 1 ELSE 0)
      /\ u.tag = t.tag /\ u.watched = t.watched /\ u.high = t.high /\ u.low = t.low /\ u.dw = t.dw
      /\ u.lock = s.lock
  <2>1. counts <=> t.id = r.id /\ t.tcp
    BY <1>6 DEF Keeps
  <2>2. CASE counts
    <3>1. u = [t EXCEPT !.sending = s.sending - 1]
      BY <1>6, <2>1, <2>2 DEF dec_sending_ref, Keeps
    <3>2. s.sending - 1 \in 0 .. MaxSending
      BY <1>8, <2>2
    <3> HIDE DEF u
    <3> QED
      BY <1>6, <2>2, <3>1, <3>2 DEF Socket, Keeps
  <2>3. CASE ~counts
    <3>1. u = t
      BY <2>1, <2>3 DEF dec_sending_ref
    <3> HIDE DEF u
    <3> QED
      BY <1>6, <1>7, <2>3, <3>1 DEF Keeps
  <2> QED
    BY <2>2, <2>3
<1> HIDE DEF u
<1>10. Sound(h, u)
  BY <1>6, <1>9 DEF Sound, Keeps
<1>11. /\ slot' \in [Slot -> Socket] /\ Sockets'
       /\ slot'[h] = u /\ \A g \in Slot : g # h => slot'[g] = slot[g]
       /\ ReservesSame /\ UsedSame(MaxSocket) /\ LocksSame
  BY <1>1, <1>2, <1>6, <1>9, <1>10, QuietSlot DEF s
<1>12. CallsKnown /\ PushSame /\ call' \in [Service -> Busy \cup {Idle}]
  BY <1>1 DEF CallsKnown, PushSame, Typed
<1>13. Fresh'
  BY <1>1, <1>2, <1>11, <1>12, FreshSame
<1>14. Typed'
  <2>1. pipe' \in Seq(Req)
    BY <1>1, PipeTail
  <2> QED
    BY <1>1, <1>2, <1>11, <2>1 DEF Typed, Idle, Busy, Message, Req
<1>15. Opening' /\ Closing' /\ Events'
  <2>1. Head(pipe).op # "O"
    OBVIOUS
  <2> QED
    BY <1>1, <1>2, <1>11, <2>1, OpeningTail, ClosingEventsSame
<1>16. Locks'
  BY <1>1, <1>11, LocksKept
<1>17. ASSUME NEW g \in Slot, slot'[g].tcp, NEW d, d = slot'[g].id PROVE slot'[g].sending = Underway(d)'
  <2>1. Underway(d)' = Underway(d) - (IF r.id = d THEN 1 ELSE 0) /\ Underway(d) \in Nat
    BY <1>5, UnderwayNat
  <2>2. CASE g = h
    <3>1. slot'[g].sending = s.sending - (IF counts THEN 1 ELSE 0) /\ s.tcp /\ d = s.id
      BY <1>9, <1>11, <1>17, <2>2
    <3>2. s.sending = Underway(d)
      BY <1>7, <3>1
    <3>3. counts <=> r.id = d
      BY <3>1
    <3> HIDE DEF counts
    <3> QED
      BY <2>1, <3>1, <3>2, <3>3
  <2>3. CASE g # h
    <3>1. slot'[g] = slot[g] /\ slot[g].tcp /\ d = slot[g].id
      BY <1>11, <1>17, <2>3
    <3>2. d # r.id
      BY <2>3, <3>1 DEF Sockets, Sound, h
    <3>3. slot[g].sending = Underway(d)
      BY <3>1 DEF Counted
    <3> QED
      BY <2>1, <3>1, <3>2, <3>3
  <2> QED
    BY <2>2, <2>3
<1>18. Counted'
  BY <1>17 DEF Counted
<1> QED
  BY <1>11, <1>13, <1>14, <1>15, <1>16, <1>18

(* A slot gets a file descriptor: nothing is under way for its id yet. *)
LEMMA CountedNew ==
  ASSUME Typed, Counted, Fresh, NEW h \in Slot, NEW id \in Id, told[id] \notin {"open", "close"},
         \A g \in Slot : g # h => slot'[g] = slot[g],
         slot'[h].tcp => \/ slot'[h].id = id /\ slot'[h].sending = 0
                         \/ slot[h].tcp /\ slot'[h].id = slot[h].id /\ slot'[h].sending = slot[h].sending,
         PushSame,
         \A d : Cardinality(Hits(pipe', Sending(d))) = Cardinality(Hits(pipe, Sending(d)))
  PROVE  Counted'
<1>1. \A d : Underway(d)' = Underway(d)
  BY UnderwaySame
<1>2. Underway(id) = 0
  BY UnderwayNone
<1>3. ASSUME NEW g \in Slot, slot'[g].tcp, NEW d, d = slot'[g].id PROVE slot'[g].sending = Underway(d)'
  <2>1. Underway(d)' = Underway(d)
    BY <1>1
  <2>2. CASE g = h /\ d = id /\ slot'[h].sending = 0
    BY <1>2, <2>1, <2>2
  <2>3. CASE slot[g].tcp /\ d = slot[g].id /\ slot'[g].sending = slot[g].sending
    <3>1. slot[g].sending = Underway(d)
      BY <2>3 DEF Counted
    <3> QED
      BY <2>1, <2>3, <3>1
  <2> QED
    BY <1>3, <2>2, <2>3
<1> QED
  BY <1>3 DEF Counted

LEMMA NewFdFacts ==
  ASSUME NEW id \in Id, NEW s \in Socket, Sound(HASH_ID(id), s), s.type \in Blank
  PROVE  LET f == new_fd(s, id) IN
         /\ f \in Socket /\ f.id = id /\ f.tcp = TRUE /\ f.tag = ID_TAG16(id) /\ f.sending = 0 /\ f.lock = s.lock
         /\ f.high = << >> /\ f.low = << >> /\ f.dw = << >> /\ f.type = s.type /\ f.watched = FALSE
<1>1. id \in Nat /\ ID_TAG16(id) \in Nat /\ 0 \in 0 .. MaxSending
  <2>1. id \in Nat /\ MaxSocket \in Nat \ {0} /\ MaxSending \in Nat
    BY Constants
  <2>2. ID_TAG16(id) \in Nat
    BY <2>1, DivNat DEF ID_TAG16
  <2> QED
    BY <2>1, <2>2
<1>2. s.high = << >> /\ s.low = << >> /\ ~s.watched /\ << >> \in Seq(Byte)
  BY WholeNone DEF Sound
<1> QED
  BY <1>1, <1>2 DEF new_fd, Socket

LEMMA OpenSocketIInv ==
  ASSUME IInv, ctrl_cmd, Head(pipe).op = "O", open_socket(Head(pipe))
  PROVE  IInv'
<1> USE DEF IInv
<1> DEFINE r == Head(pipe)
           h == HASH_ID(r.id)
           s == slot[h]
           f == new_fd(s, r.id)
           n == Len(pipe)
<1>1. /\ pipe # << >> /\ pipe' = Tail(pipe) /\ closing = {} /\ pipe[1] = r /\ 1 \in DOMAIN pipe
      /\ r \in Req /\ r.id \in Id /\ h \in Slot /\ s \in Socket /\ Sound(h, s) /\ r.id <= alloc_id
      /\ UNCHANGED <<call, alloc_id, sent>>
  BY HeadFacts
<1>2. s.type = "RESERVE" /\ s.id = r.id /\ told[r.id] = "opening" /\ s.type \in Blank
  BY <1>1 DEF Opening, Fresh, Blank
<1>3. /\ pipe' \in Seq(Req) /\ n \in Nat \ {0} /\ DOMAIN pipe = 1 .. n /\ DOMAIN pipe' = 1 .. n - 1
      /\ \A i \in 1 .. n - 1 : pipe'[i] = pipe[i + 1]
  BY <1>1, PipeTail
<1>4. /\ \/ SetSlot(h, [s EXCEPT !.type = "INVALID"]) /\ Report(r.id, "close")
         \/ SetSlot(h, [f EXCEPT !.watched = TRUE, !.type = "CONNECTED"]) /\ Report(r.id, "open")
         \/ SetSlot(h, [f EXCEPT !.watched = TRUE, !.type = "CONNECTING", !.armed = TRUE]) /\ UNCHANGED told
      /\ UNCHANGED <<ev, closing>>
  BY DEF open_socket
<1>5. /\ f \in Socket /\ f.id = r.id /\ f.tcp = TRUE /\ f.tag = ID_TAG16(r.id) /\ f.sending = 0 /\ f.lock = s.lock
      /\ f.high = << >> /\ f.low = << >> /\ f.dw = << >>
  BY <1>1, <1>2, NewFdFacts
<1> HIDE DEF r, h, s, f, n
<1>6. PICK t \in Socket :
        /\ SetSlot(h, t) /\ Sound(h, t) /\ t.id = r.id /\ t.lock = s.lock /\ t.type # "RESERVE"
        /\ t.tcp => t.sending = 0 \/ (s.tcp /\ t.sending = s.sending)
  <2>1. CASE SetSlot(h, [s EXCEPT !.type = "INVALID"])
    <3> DEFINE t == [s EXCEPT !.type = "INVALID"]
    <3>1. /\ t \in Socket /\ Keeps(s, t) /\ t.type = "INVALID" /\ t.watched = s.watched
          /\ t.high = s.high /\ t.low = s.low /\ t.dw = s.dw
      BY <1>1 DEF Socket, SockType, Keeps
    <3> HIDE DEF t
    <3>2. Sound(h, t)
      BY <1>1, <1>2, <3>1 DEF Sound, Keeps
    <3> QED
      BY <1>2, <2>1, <3>1, <3>2 DEF Keeps, t
  <2>2. CASE SetSlot(h, [f EXCEPT !.watched = TRUE, !.type = "CONNECTED"])
    <3> DEFINE t == [f EXCEPT !.watched = TRUE, !.type = "CONNECTED"]
    <3>1. /\ t \in Socket /\ Keeps(f, t) /\ t.type = "CONNECTED"
          /\ t.high = f.high /\ t.low = f.low /\ t.dw = f.dw
      BY <1>5 DEF Socket, SockType, Keeps
    <3> HIDE DEF t
    <3>2. Sound(h, t)
      BY <1>1, <1>5, <3>1, WholeNone DEF Sound, Keeps, Blank, h
    <3> QED
      BY <1>5, <2>2, <3>1, <3>2 DEF Keeps, t
  <2>3. CASE SetSlot(h, [f EXCEPT !.watched = TRUE, !.type = "CONNECTING", !.armed = TRUE])
    <3> DEFINE t == [f EXCEPT !.watched = TRUE, !.type = "CONNECTING", !.armed = TRUE]
    <3>1. /\ t \in Socket /\ Keeps(f, t) /\ t.type = "CONNECTING"
          /\ t.high = f.high /\ t.low = f.low /\ t.dw = f.dw
      BY <1>5 DEF Socket, SockType, Keeps
    <3> HIDE DEF t
    <3>2. Sound(h, t)
      BY <1>1, <1>5, <3>1, WholeNone DEF Sound, Keeps, Blank, h
    <3> QED
      BY <1>5, <2>3, <3>1, <3>2 DEF Keeps, t
  <2> QED
    BY <1>4, <2>1, <2>2, <2>3
<1>7. /\ slot' \in [Slot -> Socket] /\ Sockets'
      /\ slot'[h] = t /\ \A g \in Slot : g # h => slot'[g] = slot[g]
  <2>1. t.id <= alloc_id' /\ alloc_id' \in Nat /\ alloc_id <= alloc_id'
    BY <1>1, <1>6 DEF Typed
  <2> QED
    BY <1>1, <1>6, <2>1, SlotStep
<1>8. LocksSame /\ UsedSame(MaxSocket)
  BY <1>2, <1>6, <1>7 DEF LocksSame, UsedSame, s
<1>9. CallsKnown /\ PushSame /\ call' \in [Service -> Busy \cup {Idle}]
  BY <1>1 DEF CallsKnown, PushSame, Typed
<1>10. TellsMore /\ \A d \in Id : d # r.id => told'[d] = told[d]
  <2>1. /\ told' \in [Id -> {"nothing", "opening", "accepted", "open", "close"}]
        /\ told'[r.id] \in {"opening", "open", "close"} /\ \A d \in Id : d # r.id => told'[d] = told[d]
    BY <1>1, <1>2, <1>4 DEF Report, Typed
  <2>2. alloc_id \in Nat /\ alloc_id' = alloc_id /\ alloc_id <= alloc_id
    BY <1>1 DEF Typed
  <2> QED
    BY <1>1, <1>2, <2>1, <2>2 DEF TellsMore
<1>11. \A g \in Slot : slot'[g].type = "RESERVE" => g # h /\ slot'[g] = slot[g] /\ slot[g].id # r.id
  <2>1. \A g \in Slot : slot'[g].type = "RESERVE" => g # h /\ slot'[g] = slot[g]
    BY <1>6, <1>7
  <2> QED
    BY <2>1 DEF Sockets, Sound, h
<1>12. Fresh'
  <2>1. \A g \in Slot : slot'[g].type = "RESERVE" => told'[slot'[g].id] = "opening"
    BY <1>10, <1>11 DEF Fresh, Sockets, Sound
  <2> QED
    BY <1>1, <1>9, <1>10, <2>1, FreshKept
<1>13. Typed'
  BY <1>1, <1>3, <1>4, <1>7, <1>9, <1>10 DEF Typed, TellsMore, Idle, Busy, Message, Req
<1>14. Opening'
  <2>1. \A i \in 1 .. n - 1 : i + 1 \in 1 .. n /\ i + 1 # 1
    BY <1>3
  <2>2. \A i \in DOMAIN pipe : HASH_ID(pipe[i].id) \in Slot
    BY PipeSlots
  <2>3. \A i \in DOMAIN pipe : i # 1 /\ pipe[i].op = "O" => HASH_ID(pipe[i].id) # h
    BY <1>1 DEF Opening, r, h
  <2>4. ASSUME NEW i \in DOMAIN pipe', pipe'[i].op = "O"
        PROVE  slot'[HASH_ID(pipe'[i].id)].type = "RESERVE" /\ slot'[HASH_ID(pipe'[i].id)].id = pipe'[i].id
    <3>1. pipe'[i] = pipe[i + 1] /\ i + 1 \in DOMAIN pipe /\ i + 1 # 1
      BY <1>3, <2>1
    <3>2. HASH_ID(pipe'[i].id) # h /\ HASH_ID(pipe'[i].id) \in Slot
      BY <2>2, <2>3, <2>4, <3>1
    <3> QED
      BY <1>7, <2>4, <3>1, <3>2 DEF Opening
  <2>5. ASSUME NEW i \in DOMAIN pipe', NEW j \in DOMAIN pipe', pipe'[i].op = "O", pipe'[j].op = "O",
               HASH_ID(pipe'[i].id) = HASH_ID(pipe'[j].id)
        PROVE  i = j
    <3>1. /\ pipe'[i] = pipe[i + 1] /\ i + 1 \in DOMAIN pipe
          /\ pipe'[j] = pipe[j + 1] /\ j + 1 \in DOMAIN pipe
      BY <1>3, <2>1
    <3>2. i + 1 = j + 1
      BY <2>5, <3>1 DEF Opening
    <3> QED
      BY <1>3, <3>2
  <2>6. ASSUME NEW i \in DOMAIN pipe', NEW j \in DOMAIN pipe', pipe'[i].op = "K", pipe'[j].op = "O",
               pipe'[i].id = pipe'[j].id
        PROVE  j < i
    <3>1. /\ pipe'[i] = pipe[i + 1] /\ i + 1 \in DOMAIN pipe
          /\ pipe'[j] = pipe[j + 1] /\ j + 1 \in DOMAIN pipe
      BY <1>3, <2>1
    <3>2. j + 1 < i + 1
      BY <2>6, <3>1 DEF Opening
    <3> QED
      BY <1>3, <3>2
  <2>7. ASSUME NEW g \in Slot, slot'[g].type = "RESERVE"
        PROVE  \E i \in DOMAIN pipe' : pipe'[i].op = "O" /\ pipe'[i].id = slot'[g].id
    <3>1. slot'[g] = slot[g] /\ slot[g].id # r.id
      BY <1>11, <2>7
    <3>2. PICK i \in DOMAIN pipe : pipe[i].op = "O" /\ pipe[i].id = slot[g].id
      BY <2>7, <3>1 DEF Opening
    <3>3. i # 1
      BY <1>1, <3>1, <3>2
    <3>4. i - 1 \in DOMAIN pipe' /\ i - 1 + 1 = i
      BY <1>3, <3>3
    <3> QED
      BY <1>3, <3>1, <3>2, <3>4
  <2> QED
    BY <2>4, <2>5, <2>6, <2>7 DEF Opening
<1>15. Closing' /\ Events'
  BY <1>4, <1>8, ClosingEventsSame
<1>16. Locks'
  BY <1>1, <1>8, LocksKept
<1>17. Counted'
  <2>1. \A d : Cardinality(Hits(pipe', Sending(d))) = Cardinality(Hits(pipe, Sending(d)))
    BY <1>1, PipeSame DEF r
  <2>2. slot'[h].tcp => \/ slot'[h].id = r.id /\ slot'[h].sending = 0
                        \/ slot[h].tcp /\ slot'[h].id = slot[h].id /\ slot'[h].sending = slot[h].sending
    BY <1>2, <1>6, <1>7 DEF s
  <2> QED
    BY <1>1, <1>2, <1>7, <1>9, <2>1, <2>2, CountedNew
<1> QED
  BY <1>7, <1>12, <1>13, <1>14, <1>15, <1>16, <1>17

LEMMA CtrlCmdIInv ==
  ASSUME IInv, ctrl_cmd
  PROVE  IInv'
<1>1. \/ Head(pipe).op = "S" /\ start_socket(Head(pipe))
      \/ Head(pipe).op = "K" /\ close_socket(Head(pipe))
      \/ Head(pipe).op = "O" /\ open_socket(Head(pipe))
      \/ Head(pipe).op \in {"D", "P"} /\ send_socket(Head(pipe))
  BY DEF ctrl_cmd
<1> QED
  BY <1>1, StartSocketIInv, CloseSocketIInv, OpenSocketIInv, SendSocketIInv

(* Steps that leave all but the events alone. *)
LEMMA IdleIInv ==
  ASSUME IInv, UNCHANGED <<slot, alloc_id, pipe, closing, call, told, sent>>,
         ev' \in Seq(Happening), Events'
  PROVE  IInv'
<1> USE DEF IInv
<1>1. ReservesSame /\ LocksSame /\ CountsSame /\ Sockets' /\ slot' \in [Slot -> Socket]
  BY SlotsSame, SocketsSame DEF Typed
<1>2. Closing' /\ closing' \subseteq Id
  BY DEF Closing, Typed
<1> QED
  BY <1>1, <1>2, ThreadIInv

LEMMA NoCmdIInv ==
  ASSUME IInv, NoCmd
  PROVE  IInv'
<1>1. UNCHANGED <<slot, alloc_id, pipe, ev, closing, call, told, sent>>
  BY DEF NoCmd, world
<1>2. ev' \in Seq(Happening) /\ Events'
  BY <1>1 DEF IInv, Typed, Events, Real
<1> QED
  BY <1>1, <1>2, IdleIInv

(* The events epoll may report: one for a slot in use. *)
LEMMA ReadyFacts ==
  ASSUME IInv, NEW S, S \subseteq Ready \cup {Knock}
  PROVE  /\ S \subseteq Happening /\ IsFiniteSet(S)
         /\ \A e \in S : Real(e) => /\ e.h \in Slot /\ slot[e.h].id = e.id
                                    /\ slot[e.h].type \notin Blank
         /\ \A d, e \in S : d.h = e.h => d = e
<1> USE DEF IInv
<1>1. ASSUME NEW e \in Ready
      PROVE  /\ e.h \in Slot /\ slot[e.h].watched
             /\ e = [h |-> e.h, id |-> slot[e.h].id, kind |-> IF slot[e.h].id \in gone THEN "eof" ELSE "write"]
  BY DEF Ready
<1>2. MaxSocket \in Nat /\ MaxSocket \notin Slot /\ Slot \subseteq 0 .. MaxSocket
  BY Constants DEF Slot
<1>3. Knock \in Happening /\ ~Real(Knock) /\ Knock.h = MaxSocket
  BY <1>2 DEF Knock, Happening, Real
<1>4. ASSUME NEW e \in Ready
      PROVE  /\ e \in Happening /\ e.h \in Slot /\ slot[e.h].id = e.id /\ slot[e.h].type \notin Blank
  <2>1. slot[e.h] \in Socket /\ slot[e.h].id \in Nat
    BY <1>1 DEF Typed, Socket
  <2>2. e.h \in 0 .. MaxSocket
    BY <1>1, <1>2
  <2>3. e \in Happening /\ slot[e.h].id = e.id
    BY <1>1, <2>1, <2>2 DEF Happening
  <2> QED
    BY <1>1, <2>3 DEF Sockets, Sound
<1>5. S \subseteq Happening
  BY <1>3, <1>4
<1>6. \A e \in S : Real(e) => /\ e.h \in Slot /\ slot[e.h].id = e.id
                              /\ slot[e.h].type \notin Blank
  BY <1>3, <1>4
<1>7. \A d, e \in S : d.h = e.h => d = e
  <2>1. \A d, e \in Ready : d.h = e.h => d = e
    BY <1>1
  <2>2. \A e \in Ready : e.h # Knock.h
    BY <1>1, <1>2, <1>3
  <2> QED
    BY <2>1, <2>2
<1>8. IsFiniteSet(S)
  <2> DEFINE f == [e \in S |-> e.h]
  <2>1. \A e \in S : e.h \in 0 .. MaxSocket
    BY <1>5 DEF Happening
  <2>2. f \in Injection(S, 0 .. MaxSocket)
    BY <1>7, <2>1 DEF Injection, IsInjective
  <2>3. IsFiniteSet(0 .. MaxSocket)
    BY <1>2, FS_Interval
  <2> QED
    BY <2>2, <2>3, FS_Injection
<1> QED
  BY <1>5, <1>6, <1>7, <1>8

LEMMA WaitIInv ==
  ASSUME IInv, sp_wait
  PROVE  IInv'
<1>1. UNCHANGED <<slot, alloc_id, pipe, closing, call, told, sent>>
  BY DEF sp_wait, world
<1>2. PICK S : S \subseteq Ready \cup {Knock} /\ ev' \in SetToSeqs(S)
  <2>1. PICK S \in {Ready} \cup (IF conns < MaxConn THEN {Ready \cup {Knock}} ELSE {}) : ev' \in SetToSeqs(S)
    BY DEF sp_wait
  <2>2. S = Ready \/ S = Ready \cup {Knock}
    OBVIOUS
  <2>3. S \subseteq Ready \cup {Knock}
    BY <2>2
  <2> QED
    BY <2>1, <2>3
<1>3. /\ S \subseteq Happening /\ IsFiniteSet(S)
      /\ \A e \in S : Real(e) => /\ e.h \in Slot /\ slot[e.h].id = e.id
                                 /\ slot[e.h].type \notin Blank
      /\ \A d, e \in S : d.h = e.h => d = e
  BY <1>2, ReadyFacts
<1> DEFINE n == Cardinality(S)
<1>4. n \in Nat
  BY <1>3, FS_CardinalityType
<1>5. ev' \in [1 .. n -> S] /\ \A i, j \in 1 .. n : i # j => ev'[i] # ev'[j]
  BY <1>2 DEF SetToSeqs
<1> HIDE DEF n
<1>6. ev' \in [1 .. n -> Happening]
  BY <1>3, <1>5
<1>7. ev' \in Seq(Happening)
  BY <1>4, <1>6, SeqDef
<1>8. Events'
  <2>1. \A i \in DOMAIN ev' : ev'[i] \in S
    BY <1>5
  <2>2. \A i, j \in DOMAIN ev' : ev'[i].h = ev'[j].h => i = j
    BY <1>3, <1>5, <2>1
  <2> QED
    BY <1>1, <1>3, <2>1, <2>2 DEF Events, Real
<1> QED
  BY <1>1, <1>7, <1>8, IdleIInv

(* A socket's slot changes at an event of it. *)
LEMMA EventStep ==
  ASSUME IInv, ev # << >>, ev' = Tail(ev), Real(Head(ev)), closing = {},
         UNCHANGED <<pipe, call, alloc_id, sent>>,
         NEW t \in Socket, Sound(Head(ev).h, t), SetSlot(Head(ev).h, t), Keeps(slot[Head(ev).h], t),
         t.type # "RESERVE",
         closing' = {} \/ (closing' = {t.id} /\ t.type \notin Blank),
         told' = told \/ Report(slot[Head(ev).h].id, "open") \/ Report(slot[Head(ev).h].id, "close")
  PROVE  IInv'
<1> USE DEF IInv
<1> DEFINE h == Head(ev).h
           s == slot[h]
<1>1. h \in Slot /\ s.type \notin Blank
  <2>1. Len(ev) \in Nat \ {0} /\ DOMAIN ev = 1 .. Len(ev) /\ Head(ev) = ev[1]
    BY SeqTail DEF Typed
  <2>2. 1 \in DOMAIN ev
    BY <2>1
  <2> QED
    BY <2>1, <2>2 DEF Events
<1>2. Sound(h, s) /\ s.id <= alloc_id
  BY <1>1 DEF Sockets
<1>3. s.id \in Id /\ HASH_ID(s.id) = h
  BY <1>1, <1>2 DEF Sound, Blank
<1>4. /\ slot' \in [Slot -> Socket] /\ Sockets' /\ slot'[h] = t
      /\ ReservesSame /\ LocksSame /\ CountsSame /\ UsedSame(h)
  BY <1>1, KeepSlot
<1>5. Events' /\ ev' \in Seq(Happening)
  BY <1>4, EventsTail
<1>6. Closing' /\ closing' \subseteq Id
  BY <1>1, <1>4, ClosingNew, ClosingNone
<1>7. ~(slot[HASH_ID(s.id)].id = s.id /\ slot[HASH_ID(s.id)].type = "RESERVE")
  BY <1>1, <1>3 DEF Blank
<1>8. \/ told' = told
      \/ \E id \in Id, what \in {"open", "close"} :
           /\ id <= alloc_id /\ Report(id, what)
           /\ ~(slot[HASH_ID(id)].id = id /\ slot[HASH_ID(id)].type = "RESERVE")
  BY <1>2, <1>3, <1>7
<1> QED
  BY <1>4, <1>5, <1>6, <1>8, ThreadIInv

LEMMA SocketEventIInv ==
  ASSUME IInv, ev # << >>, ev' = Tail(ev), closing = {}, UNCHANGED <<pipe, call>>, SocketEvent(Head(ev))
  PROVE  IInv'
<1> USE DEF IInv
<1> DEFINE e == Head(ev)
           h == e.h
           s == slot[h]
<1>1. Real(e) /\ UNCHANGED <<pipe, call, alloc_id, sent>>
  BY DEF SocketEvent, Real, world
<1>2. h \in Slot /\ s.type \notin Blank
  <2>1. Len(ev) \in Nat \ {0} /\ DOMAIN ev = 1 .. Len(ev) /\ e = ev[1]
    BY SeqTail DEF Typed
  <2>2. 1 \in DOMAIN ev
    BY <2>1
  <2> QED
    BY <1>1, <2>1, <2>2 DEF Events
<1>3. s \in Socket /\ Sound(h, s) /\ s.type # "INVALID" /\ s.type # "RESERVE"
  BY <1>2 DEF Typed, Sockets, Blank
<1>4. ASSUME force_close(h, s) PROVE IInv'
  <2>1. SetSlot(h, Freed(s)) /\ closing' = {s.id} /\ told' = told
    BY <1>4 DEF force_close
  <2>2. Freed(s) \in Socket /\ Sound(h, Freed(s)) /\ Keeps(s, Freed(s)) /\ Freed(s).type = s.type
    BY <1>3, FreedFacts
  <2>3. closing' = {Freed(s).id}
    BY <2>1, <2>2 DEF Keeps
  <2> QED
    BY <1>1, <1>2, <1>3, <2>1, <2>2, <2>3, EventStep
<1>5. CASE s.type = "CONNECTING"
  <2> DEFINE t == [s EXCEPT !.type = "CONNECTED", !.armed = ~nomore_sending_data(s)]
  <2>1. \/ SetSlot(h, t) /\ Report(s.id, "open") /\ closing' = {}
        \/ force_close(h, s)
    BY <1>5 DEF SocketEvent, report_connect
  <2>2. CASE SetSlot(h, t) /\ Report(s.id, "open") /\ closing' = {}
    <3>1. /\ t \in Socket /\ Keeps(s, t) /\ t.type = "CONNECTED"
          /\ t.watched = s.watched /\ t.low = s.low
      BY <1>3 DEF Socket, SockType, Keeps
    <3> HIDE DEF t
    <3>2. Sound(h, t)
      BY <1>3, <3>1 DEF Sound, Keeps, Blank
    <3> QED
      BY <1>1, <2>2, <3>1, <3>2, EventStep
  <2> QED
    BY <1>4, <2>1, <2>2
<1>6. CASE s.type # "CONNECTING" /\ e.kind = "eof"
  <2>1. force_close(h, s)
    BY <1>3, <1>6 DEF SocketEvent
  <2> QED
    BY <1>4, <2>1
<1>7. CASE s.type # "CONNECTING" /\ e.kind # "eof"
  <2>1. Writable(h, s)
    BY <1>3, <1>7 DEF SocketEvent
  <2>2. PICK k \in 0 .. Len(Waiting(s)) :
          /\ SetSlot(h, IF s.lock THEN s ELSE IF Ends(s, k) THEN Closed(s) ELSE send_buffer(s, k))
          /\ IF Ends(s, k) THEN Report(s.id, "close") ELSE UNCHANGED told
    <3>1. (IF s.lock \/ s.id \in gone THEN {0}
           ELSE {n \in 0 .. Len(Waiting(s)) : n = 0 <=> Waiting(s) = << >>}) \subseteq 0 .. Len(Waiting(s))
      BY <1>3, WaitingSeq
    <3> QED
      BY <2>1, <3>1, Zenon DEF Writable
  <2> DEFINE t == IF s.lock THEN s ELSE IF Ends(s, k) THEN Closed(s) ELSE send_buffer(s, k)
  <2>3. t \in Socket /\ Sound(h, t) /\ Keeps(s, t) /\ t.type # "RESERVE"
    <3>1. /\ Closed(s) \in Socket /\ Sound(h, Closed(s)) /\ Keeps(s, Closed(s))
          /\ Closed(s).type # "RESERVE"
      BY <1>3, FreedFacts
    <3>2. /\ send_buffer(s, k) \in Socket /\ Sound(h, send_buffer(s, k)) /\ Keeps(s, send_buffer(s, k))
          /\ send_buffer(s, k).type # "RESERVE"
      BY <1>3, SendBuffer
    <3>3. Keeps(s, s)
      BY DEF Keeps
    <3> QED
      BY ZenonT(60), <1>3, <3>1, <3>2, <3>3
  <2>4. closing' = {} /\ SetSlot(h, t) /\ (told' = told \/ Report(s.id, "close"))
    BY <2>1, <2>2 DEF Writable
  <2> HIDE DEF t
  <2> QED
    BY <1>1, <2>3, <2>4, EventStep
<1> QED
  BY <1>5, <1>6, <1>7

LEMMA AcceptIInv ==
  ASSUME IInv, ev # << >>, ev' = Tail(ev), closing = {}, UNCHANGED <<pipe, call>>, report_accept(Head(ev))
  PROVE  IInv'
<1> USE DEF IInv
<1>1. UNCHANGED <<closing, sent>>
  BY DEF report_accept
<1>2. CallsKnown /\ PushSame /\ call' \in [Service -> Busy \cup {Idle}]
  BY DEF CallsKnown, PushSame, Typed
<1>3. Closing' /\ closing' \subseteq Id
  BY <1>1, ClosingNone
<1>4. ASSUME NEW id \in Id, reserve_id(id),
             SetSlot(HASH_ID(id), [new_fd(slot[HASH_ID(id)], id) EXCEPT !.type = "PACCEPT"]),
             Report(id, "accepted")
      PROVE  IInv'
  <2> DEFINE h == HASH_ID(id)
             s == slot[h]
             f == new_fd(s, id)
             t == [f EXCEPT !.type = "PACCEPT"]
  <2>1. /\ alloc_id' = id /\ alloc_id' \in Nat /\ alloc_id <= alloc_id'
        /\ h \in Slot /\ told[id] = "nothing" /\ s \in Socket /\ Sound(h, s) /\ s.type = "INVALID"
        /\ \A g \in Slot : slot[g].type = "RESERVE" => g # h /\ slot[g].id # id
    BY <1>4, ReserveFacts
  <2>2. /\ f \in Socket /\ f.id = id /\ f.tcp = TRUE /\ f.tag = ID_TAG16(id) /\ f.sending = 0 /\ f.lock = s.lock
        /\ f.high = << >> /\ f.low = << >> /\ f.dw = << >> /\ f.watched = FALSE
    <3>1. s.type \in Blank
      BY <2>1 DEF Blank
    <3> QED
      BY <2>1, <3>1, NewFdFacts
  <2>3. SetSlot(h, t)
    BY <1>4
  <2> HIDE DEF f, s
  <2>4. /\ t \in Socket /\ Keeps(f, t) /\ t.type = "PACCEPT"
        /\ t.high = f.high /\ t.low = f.low /\ t.dw = f.dw /\ t.watched = f.watched
    BY <2>2 DEF Socket, SockType, Keeps
  <2> HIDE DEF t
  <2>5. Sound(h, t)
    BY <2>1, <2>2, <2>4, WholeNone DEF Sound, Keeps, Blank
  <2>6. /\ slot' \in [Slot -> Socket] /\ Sockets'
        /\ slot'[h] = t /\ \A g \in Slot : g # h => slot'[g] = slot[g]
    <3>1. t.id <= alloc_id'
      BY <2>1, <2>2, <2>4 DEF Keeps
    <3> QED
      BY <2>1, <2>3, <2>4, <2>5, <3>1, SlotStep
  <2>7. ReservesSame /\ LocksSame /\ \A g : UsedSame(g)
    BY <2>1, <2>2, <2>4, <2>6 DEF ReservesSame, LocksSame, UsedSame, Keeps, Blank, s
  <2>8. /\ told' \in [Id -> {"nothing", "opening", "accepted", "open", "close"}]
        /\ told'[id] = "accepted" /\ \A d \in Id : d # id => told'[d] = told[d]
    BY <1>4 DEF Report, Typed
  <2>9. Fresh'
    <3>1. TellsMore
      <4>1. id <= alloc_id'
        BY <2>1
      <4> QED
        BY <2>1, <2>8, <4>1 DEF TellsMore
    <3>2. \A g \in Slot : slot'[g].type = "RESERVE" => told'[slot'[g].id] = "opening"
      <4>1. \A g \in Slot : slot[g].type = "RESERVE" => slot[g].id # id /\ slot[g].id \in Id
        BY <2>1 DEF Sockets, Sound
      <4> QED
        BY <2>7, <2>8, <4>1 DEF Fresh, ReservesSame
    <3> QED
      BY <1>2, <3>1, <3>2, FreshKept
  <2>10. Events' /\ ev' \in Seq(Happening)
    BY <2>7, EventsTail
  <2>11. Typed'
    BY <1>1, <1>2, <1>3, <2>1, <2>6, <2>8, <2>10 DEF Typed, Idle, Busy, Message, Req
  <2>12. Opening' /\ Locks'
    BY <2>7, OpeningSame, LocksKept
  <2>13. Counted'
    <3>1. slot'[h].id = id /\ slot'[h].sending = 0
      BY <2>2, <2>4, <2>6 DEF Keeps
    <3> QED
      BY <1>2, <2>1, <2>6, <3>1, CountedNew
  <2> QED
    BY <1>3, <2>6, <2>9, <2>10, <2>11, <2>12, <2>13
<1>5. ASSUME NoId, UNCHANGED <<slot, told>> PROVE IInv'
  <2>1. alloc_id' \in Nat /\ alloc_id <= alloc_id' /\ alloc_id \in Nat
    BY <1>5, Constants DEF NoId, Typed
  <2>2. ReservesSame /\ LocksSame /\ CountsSame /\ \A h : UsedSame(h)
    BY <1>5, SlotsSame
  <2>3. Sockets'
    <3>1. \A h \in Slot : slot[h].id \in Nat
      BY DEF Typed, Socket
    <3>2. \A h \in Slot : slot[h].id <= alloc_id'
      BY <2>1, <3>1 DEF Sockets
    <3> QED
      BY <1>5, <3>2 DEF Sockets, Sound, Whole
  <2>4. TellsMore
    BY <1>5, <2>1 DEF TellsMore, Typed
  <2>5. Fresh'
    <3>1. \A h \in Slot : slot'[h].type = "RESERVE" => told'[slot'[h].id] = "opening"
      BY <1>5 DEF Fresh
    <3> QED
      BY <1>2, <2>4, <3>1, FreshKept
  <2>6. Events' /\ ev' \in Seq(Happening)
    BY <2>2, EventsTail
  <2>7. Typed'
    BY <1>1, <1>2, <1>3, <1>5, <2>1, <2>6 DEF Typed, Idle, Busy, Message, Req
  <2>8. Opening' /\ Locks' /\ Counted'
    BY <1>2, <2>2, OpeningSame, LocksKept, CountedSame
  <2> QED
    BY <1>3, <2>3, <2>5, <2>6, <2>7, <2>8
<1> QED
  BY <1>4, <1>5 DEF report_accept

LEMMA EventIInv ==
  ASSUME IInv, Event
  PROVE  IInv'
<1>1. closing = {} /\ ev # << >> /\ ev' = Tail(ev) /\ UNCHANGED <<pipe, call>>
  BY DEF Event
<1>2. CASE UNCHANGED <<slot, closing, told, world, wire, due>>
  <2>1. UNCHANGED <<slot, alloc_id, pipe, closing, call, told, sent>>
    BY <1>1, <1>2 DEF world
  <2>2. \A h : UsedSame(h)
    BY <2>1, SlotsSame
  <2>3. Events' /\ ev' \in Seq(Happening)
    BY <1>1, <2>2, EventsTail DEF IInv
  <2> QED
    BY <2>1, <2>3, IdleIInv
<1> QED
  BY <1>1, <1>2, SocketEventIInv, AcceptIInv DEF Event

-----------------------------------------------------------------------------
LEMMA InitIInv == Init => IInv
<1> SUFFICES ASSUME Init PROVE IInv
  OBVIOUS
<1> DEFINE s == [type |-> "INVALID", id |-> 0, tcp |-> FALSE, tag |-> 0, sending |-> 0,
                 high |-> << >>, low |-> << >>, dw |-> << >>, lock |-> FALSE,
                 watched |-> FALSE, armed |-> FALSE]
<1>1. /\ slot = [h \in Slot |-> s] /\ alloc_id = 0 /\ pipe = << >> /\ ev = << >> /\ closing = {}
      /\ call = [w \in Service |-> Idle] /\ told = [id \in Id |-> "nothing"] /\ sent = {}
  BY DEF Init
<1>2. 0 \in 0 .. MaxSending
  BY Constants
<1>3. s \in Socket
  BY <1>2, WholeNone DEF Socket, SockType
<1>4. \A h : Sound(h, s)
  BY WholeNone DEF Sound
<1>5. s.type = "INVALID" /\ s.id = 0 /\ s.tcp = FALSE /\ s.lock = FALSE
  OBVIOUS
<1> HIDE DEF s
<1>6. \A h \in Slot : slot[h] = s
  BY <1>1
<1>7. Typed
  <2>1. IsFiniteSet(sent) /\ Cardinality(sent) = 0
    BY <1>1, FS_EmptySet
  <2>2. pipe \in Seq(Req) /\ ev \in Seq(Happening)
    BY <1>1, EmptySeq
  <2> QED
    BY <1>1, <1>3, <2>1, <2>2, Constants DEF Typed
<1>8. Sockets
  BY <1>1, <1>4, <1>5, <1>6 DEF Sockets
<1>9. DOMAIN pipe = {} /\ DOMAIN ev = {}
  BY <1>1
<1>10. Fresh /\ Opening /\ Closing /\ Events
  BY <1>1, <1>5, <1>6, <1>9 DEF Fresh, Opening, Closing, Events
<1>11. Locks
  BY <1>1, <1>5, <1>6 DEF Locks, HoldsLock, Idle
<1>12. Counted
  BY <1>5, <1>6 DEF Counted
<1> QED
  BY <1>7, <1>8, <1>10, <1>11, <1>12 DEF IInv

LEMMA StepIInv == IInv /\ [Next]_vars => IInv'
<1> SUFFICES ASSUME IInv, [Next]_vars PROVE IInv'
  OBVIOUS
<1>1. ASSUME UNCHANGED <<slot, alloc_id, pipe, ev, closing, call, told, sent>> PROVE IInv'
  <2>1. ev' \in Seq(Happening) /\ Events'
    BY <1>1 DEF IInv, Typed, Events, Real
  <2> QED
    BY <1>1, <2>1, IdleIInv
<1>2. CASE SocketThread
  BY <1>2, ForceClosedIInv, CtrlCmdIInv, NoCmdIInv, WaitIInv, EventIInv DEF SocketThread
<1>3. ASSUME NEW w \in Service, SendStep(w) PROVE IInv'
  BY <1>3, LookIInv, DirectWriteIInv, IncIInv, SendRequestIInv DEF SendStep
<1>4. ASSUME NEW w \in Service, NEW id \in Id, Start(w, id) \/ Connect(w, id) PROVE IInv'
  BY <1>4, StartIInv, ConnectIInv
<1>5. ASSUME NEW w \in Service, NEW id \in Id, NEW op \in {"D", "P"}, Send(w, id, op) PROVE IInv'
  BY <1>5, SendIInv
<1>6. ASSUME NEW w \in Service, NEW id \in Id, NEW shutdown \in BOOLEAN, Close(w, id, shutdown) PROVE IInv'
  BY <1>6, CloseIInv
<1>7. ASSUME NEW id \in Id, PeerClose(id) PROVE IInv'
  BY <1>1, <1>7 DEF PeerClose, thread
<1>8. CASE UNCHANGED vars
  BY <1>1, <1>8 DEF vars
<1> QED
  BY <1>2, <1>3, <1>4, <1>5, <1>6, <1>7, <1>8 DEF Next

LEMMA SocketIInv == Spec => []IInv
  BY InitIInv, StepIInv, PTL DEF Spec

-----------------------------------------------------------------------------
(* The results. *)

(* An event fetched by sp_wait is handled for the socket it was fetched for, *)
(* never for one that has taken the slot since: clear_closed_event drops the *)
(* events of a closed socket before its slot can be given out again.         *)
THEOREM SocketEventsFresh == Spec => []EventsFresh
<1>1. IInv => EventsFresh
  BY DEF IInv, Events, Real, EventsFresh
<1> QED
  BY <1>1, SocketIInv, PTL

(* A list of bytes has bytes. *)
LEMMA RangeBytes ==
  ASSUME NEW b \in Seq(Byte)
  PROVE  Range(b) \subseteq Byte
<1>1. DOMAIN b = 1 .. Len(b)
  BY LenProperties
<1>2. \A i \in DOMAIN b : b[i] \in Byte
  BY <1>1, ElementOfSeq
<1> QED
  BY <1>2 DEF Range

LEMMA WholeFirst ==
  ASSUME NEW b \in Seq(Byte), Whole(b), b # << >>
  PROVE  b[1].k = 1
<1>1. Len(b) \in Nat \ {0}
  BY LenProperties, EmptySeq
<1>2. 1 \in 1 .. Len(b) /\ 1 - 1 = 0
  BY <1>1
<1>3. b[1].k = (0 % Size) + 1
  BY <1>2 DEF Whole
<1>4. 0 % Size = 0
  <2>1. 0 \in Int /\ 0 \in 0 .. Size - 1 /\ 0 = Size * 0 + 0
    BY SizeNat
  <2> QED
    BY <2>1, SizeNat, DivModUnique
<1> QED
  BY <1>3, <1>4

LEMMA IInvTypeOK == IInv => TypeOK
<1> SUFFICES ASSUME IInv PROVE TypeOK
  OBVIOUS
<1>1. ASSUME NEW h \in Slot
      PROVE  LET s == slot[h] IN
             /\ s.type \in {"INVALID", "RESERVE", "PACCEPT", "CONNECTING", "CONNECTED", "HALFCLOSE"}
             /\ s.sending \in 0 .. MaxSending
             /\ Range(s.high) \cup Range(s.low) \cup Range(s.dw) \subseteq Byte
             /\ s.low # << >> => s.low[1].k = 1
             /\ s.type \in {"INVALID", "RESERVE", "PACCEPT"} => Waiting(s) = << >>
             /\ Cardinality({w \in Service : call[w].at \in {"locked", "sure"} /\ HASH_ID(call[w].m.id) = h})
                  = IF s.lock THEN 1 ELSE 0
  <2> DEFINE s == slot[h]
             L == {w \in Service : call[w].at \in {"locked", "sure"} /\ HASH_ID(call[w].m.id) = h}
  <2>1. s \in Socket /\ Sound(h, s)
    BY DEF IInv, Typed, Sockets
  <2>2. /\ s.type \in {"INVALID", "RESERVE", "PACCEPT", "CONNECTING", "CONNECTED", "HALFCLOSE"}
        /\ s.sending \in 0 .. MaxSending
        /\ s.high \in Seq(Byte) /\ s.low \in Seq(Byte) /\ s.dw \in Seq(Byte)
    BY <2>1 DEF Socket, SockType
  <2>3. Range(s.high) \cup Range(s.low) \cup Range(s.dw) \subseteq Byte
    BY <2>2, RangeBytes
  <2>4. s.low # << >> => s.low[1].k = 1
    BY <2>1, <2>2, WholeFirst DEF Sound
  <2>5. s.type \in {"INVALID", "RESERVE", "PACCEPT"} => Waiting(s) = << >>
    <3>1. s.type \in {"INVALID", "RESERVE", "PACCEPT"} => s.high = << >> /\ s.low = << >> /\ s.dw = << >>
      BY <2>1 DEF Sound, Blank
    <3> QED
      BY <3>1 DEF Waiting
  <2>6. L = {w \in Service : HoldsLock(w, h)}
    BY DEF HoldsLock
  <2>7. Cardinality(L) = IF s.lock THEN 1 ELSE 0
    <3>1. CASE s.lock
      <4>1. PICK w \in Service : HoldsLock(w, h)
        BY <3>1 DEF IInv, Locks
      <4>2. L = {w}
        BY <2>6, <4>1 DEF IInv, Locks
      <4> QED
        BY <3>1, <4>2, FS_Singleton
    <3>2. CASE ~s.lock
      <4>1. L = {}
        BY <2>6, <3>2 DEF IInv, Locks
      <4> QED
        BY <3>2, <4>1, FS_EmptySet
    <3> QED
      BY <3>1, <3>2
  <2> QED
    BY <2>2, <2>3, <2>4, <2>5, <2>7
<1>2. Cardinality(closing) <= 1
  <2>1. CASE closing = {}
    BY <2>1, FS_EmptySet
  <2>2. ASSUME NEW id \in closing PROVE Cardinality(closing) <= 1
    <3>1. closing = {id}
      BY DEF IInv, Closing
    <3>2. Cardinality(closing) = 1
      BY <3>1, FS_Singleton
    <3> QED
      BY <3>2
  <2> QED
    BY <2>1, <2>2
<1> QED
  BY <1>1, <1>2 DEF TypeOK

(* The count in sending is that of the requests under way for the id that    *)
(* has the slot: it never goes below zero in dec_sending_ref and never       *)
(* counts a request of an earlier id.  With it the assertions of the code:   *)
(* one holder of the lock, whole messages at the start of the low list,      *)
(* empty lists in a slot that is free or new.                                *)
THEOREM SocketSendingExact == Spec => []SendingExact
<1>1. IInv => SendingExact
  <2> SUFFICES ASSUME IInv PROVE SendingExact
    OBVIOUS
  <2>1. TypeOK
    BY IInvTypeOK
  <2>2. ASSUME NEW h \in Slot, slot[h].tcp
        PROVE  slot[h].sending
                 = Cardinality({i \in DOMAIN pipe : pipe[i].op \in {"D", "P"} /\ pipe[i].id = slot[h].id})
                   + Cardinality({w \in Service : At(w, "push") /\ call[w].m.id = slot[h].id})
    <3>1. slot[h].sending = Underway(slot[h].id)
      BY <2>2 DEF IInv, Counted
    <3>2. Hits(pipe, Sending(slot[h].id))
            = {i \in DOMAIN pipe : pipe[i].op \in {"D", "P"} /\ pipe[i].id = slot[h].id}
      <4>1. \A i \in DOMAIN pipe : pipe[i] \in Req
        BY PipeSlots DEF IInv
      <4> QED
        BY <4>1 DEF Hits, Sending
    <3> QED
      BY <3>1, <3>2 DEF Underway, Pushing
  <2> QED
    BY <2>1, <2>2 DEF SendingExact
<1> QED
  BY <1>1, SocketIInv, PTL
=============================================================================
