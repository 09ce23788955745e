------------------------- MODULE SkynetServerProofs -------------------------
(* Proofs about SkynetServer, for any number of workers, services and        *)
(* messages: a queue is in one place at a time, a context has as many        *)
(* references as users, a registered context is found under its handle, and  *)
(* the runtime implements Mailbox.  First what the ring of skynet_mq.c       *)
(* computes, for every size and every state of the ring: pushing appends to  *)
(* the list of messages, also when the ring doubles, and popping takes the   *)
(* first of them.                                                            *)
EXTENDS SkynetServer, FiniteSetTheorems, SequenceTheorems, FunctionTheorems, TLAPS

(* Division with a remainder. *)
LEMMA DivMod ==
  ASSUME NEW a \in Int, NEW n \in Nat \ {0}
  PROVE  /\ a % n \in 0 .. n - 1
         /\ a \div n \in Int
         /\ a = n * (a \div n) + (a % n)
<1>1. n \in Int /\ n > 0
  OBVIOUS
<1>2. n * (a \div n) + (a % n) = a
  BY <1>1, SMT
<1>3. a % n \in 0 .. n - 1 /\ a \div n \in Int
  BY SMT
<1> QED
  BY ZenonT(60), <1>2, <1>3

(* There is one quotient and one remainder. *)
LEMMA DivModUnique ==
  ASSUME NEW a \in Int, NEW n \in Nat \ {0}, NEW q \in Int, NEW r \in 0 .. n - 1, a = n * q + r
  PROVE  a % n = r /\ a \div n = q
  BY SMT

-----------------------------------------------------------------------------
(* A ring for messages in Ms: the places from head to tail hold messages. *)
Frame(q, Ms) ==
  /\ DOMAIN q = {"cap", "head", "tail", "queue", "in_global", "release"}
  /\ q.cap \in Nat \ {0} /\ q.head \in 0 .. q.cap - 1 /\ q.tail \in 0 .. q.cap - 1
  /\ q.in_global \in BOOLEAN /\ q.release \in BOOLEAN
  /\ q.queue \in [0 .. q.cap - 1 -> Ms \cup {Nil}]

Ring(q, Ms) ==
  /\ Frame(q, Ms)
  /\ \A k \in 0 .. mq_length(q) - 1 : q.queue[(q.head + k) % q.cap] \in Ms

(* The same flags. *)
SameFlags(q, r) == q.in_global = r.in_global /\ q.release = r.release

-----------------------------------------------------------------------------
(* An index that has gone round at most once. *)
Wrap(a, n) == IF a < n THEN a ELSE a - n

LEMMA ModOnce ==
  ASSUME NEW n \in Nat \ {0}, NEW a \in 0 .. 2 * n - 1
  PROVE  a % n = Wrap(a, n)
<1>1. CASE a < n
  <2>1. a \in 0 .. n - 1 /\ a = n * 0 + a
    BY <1>1
  <2>2. a % n = a
    BY <2>1, DivModUnique
  <2> QED
    BY <1>1, <2>2 DEF Wrap
<1>2. CASE ~(a < n)
  <2>1. a - n \in 0 .. n - 1 /\ a = n * 1 + (a - n)
    BY <1>2
  <2>2. a % n = a - n
    BY <2>1, DivModUnique
  <2> QED
    BY <1>2, <2>2 DEF Wrap
<1> QED
  BY <1>1, <1>2

LEMMA WrapNext ==
  ASSUME NEW n \in Nat \ {0}, NEW a \in 0 .. n - 1, NEW k \in 0 .. n - 1
  PROVE  /\ Wrap(a + k, n) \in 0 .. n - 1
         /\ Wrap(a, n) = a
         /\ k # 0 => Wrap(a + k, n) # a
         /\ k + 1 < n => Wrap(Wrap(a + 1, n) + k, n) = Wrap(a + (k + 1), n)
         /\ k + 1 < n => Wrap(Wrap(a + k, n) + 1, n) = Wrap(a + (k + 1), n)
         /\ k + 1 = n => Wrap(Wrap(a + k, n) + 1, n) = a
  BY DEF Wrap

(* How far it is from head to tail. *)
LEMMA WrapLength ==
  ASSUME NEW n \in Nat \ {0}, NEW a \in 0 .. n - 1, NEW k \in 0 .. n - 1
  PROVE  (IF a <= Wrap(a + k, n) THEN Wrap(a + k, n) - a ELSE Wrap(a + k, n) + n - a) = k
  BY DEF Wrap

LEMMA RingLength ==
  ASSUME NEW Ms, NEW q, Ring(q, Ms)
  PROVE  /\ mq_length(q) \in 0 .. q.cap - 1
         /\ Empty(q) <=> mq_length(q) = 0
         /\ \A k \in 0 .. q.cap - 1 :
              /\ (q.head + k) % q.cap = Wrap(q.head + k, q.cap)
              /\ Wrap(q.head + k, q.cap) \in 0 .. q.cap - 1
<1>1. q.cap \in Nat \ {0} /\ q.head \in 0 .. q.cap - 1 /\ q.tail \in 0 .. q.cap - 1
  BY DEF Ring, Frame
<1>2. mq_length(q) \in 0 .. q.cap - 1 /\ (Empty(q) <=> mq_length(q) = 0)
  BY <1>1 DEF mq_length, Empty
<1>3. ASSUME NEW k \in 0 .. q.cap - 1
      PROVE  /\ (q.head + k) % q.cap = Wrap(q.head + k, q.cap)
             /\ Wrap(q.head + k, q.cap) \in 0 .. q.cap - 1
  <2>1. q.head + k \in 0 .. 2 * q.cap - 1
    BY <1>1
  <2>2. (q.head + k) % q.cap = Wrap(q.head + k, q.cap)
    BY <1>1, <2>1, ModOnce
  <2> QED
    BY SMTT(60), <1>1, <2>2 DEF Wrap
<1> QED
  BY <1>2, <1>3

(* The list of the messages, place by place. *)
LEMMA RingContent ==
  ASSUME NEW Ms, NEW q, Ring(q, Ms)
  PROVE  /\ Content(q) \in Seq(Ms) /\ Len(Content(q)) = mq_length(q)
         /\ \A i \in 1 .. mq_length(q) : Content(q)[i] = q.queue[Wrap(q.head + (i - 1), q.cap)]
<1>1. q.cap \in Nat \ {0} /\ q.head \in 0 .. q.cap - 1 /\ mq_length(q) \in 0 .. q.cap - 1
  BY RingLength DEF Ring, Frame
<1>2. ASSUME NEW i \in 1 .. mq_length(q)
      PROVE  /\ q.queue[(q.head + i - 1) % q.cap] = q.queue[Wrap(q.head + (i - 1), q.cap)]
             /\ q.queue[(q.head + i - 1) % q.cap] \in Ms
  <2>1. i - 1 \in 0 .. mq_length(q) - 1 /\ i - 1 \in 0 .. q.cap - 1
    BY <1>1
  <2>2. q.head + i - 1 = q.head + (i - 1)
    BY <1>1
  <2>3. (q.head + (i - 1)) % q.cap = Wrap(q.head + (i - 1), q.cap)
    BY <2>1, RingLength
  <2>4. q.queue[(q.head + (i - 1)) % q.cap] \in Ms
    BY <2>1, Zenon DEF Ring
  <2> QED
    BY <2>2, <2>3, <2>4
<1>3. /\ DOMAIN Content(q) = 1 .. mq_length(q)
      /\ \A i \in 1 .. mq_length(q) : Content(q)[i] = q.queue[(q.head + i - 1) % q.cap]
  BY DEF Content
<1>4. Content(q) \in [1 .. mq_length(q) -> Ms]
  BY <1>2 DEF Content
<1>5. Content(q) \in Seq(Ms) /\ Len(Content(q)) = mq_length(q)
  BY <1>1, <1>4
<1> QED
  BY <1>2, <1>3, <1>5

(* A ring is known by the places it uses. *)
Spells(q, s) == \A k \in 0 .. mq_length(q) - 1 : q.queue[Wrap(q.head + k, q.cap)] = s[k + 1]

LEMMA RingIntro ==
  ASSUME NEW Ms, NEW q, Frame(q, Ms), NEW s \in Seq(Ms), Len(s) = mq_length(q), Spells(q, s)
  PROVE  Ring(q, Ms) /\ Content(q) = s
<1>1. /\ mq_length(q) \in 0 .. q.cap - 1
      /\ q.cap \in Nat \ {0} /\ q.head \in 0 .. q.cap - 1
  BY DEF Frame, mq_length
<1>2. ASSUME NEW k \in 0 .. mq_length(q) - 1
      PROVE  q.queue[(q.head + k) % q.cap] = s[k + 1] /\ s[k + 1] \in Ms
  <2>1. q.head + k \in 0 .. 2 * q.cap - 1 /\ k + 1 \in 1 .. Len(s)
    BY SMTT(60), <1>1
  <2>2. (q.head + k) % q.cap = Wrap(q.head + k, q.cap)
    BY <1>1, <2>1, ModOnce
  <2>3. s[k + 1] \in Ms
    BY <2>1, ElementOfSeq
  <2>4. q.queue[Wrap(q.head + k, q.cap)] = s[k + 1]
    BY DEF Spells
  <2> QED
    BY <2>2, <2>3, <2>4
<1>3. Ring(q, Ms)
  BY <1>2 DEF Ring
<1>4. /\ Content(q) \in Seq(Ms) /\ Len(Content(q)) = Len(s)
      /\ \A i \in 1 .. mq_length(q) : Content(q)[i] = q.queue[Wrap(q.head + (i - 1), q.cap)]
  BY <1>3, RingContent
<1>5. ASSUME NEW i \in 1 .. Len(s) PROVE Content(q)[i] = s[i]
  <2>1. i - 1 \in 0 .. mq_length(q) - 1 /\ (i - 1) + 1 = i
    BY <1>1
  <2> QED
    BY <1>4, <2>1 DEF Spells
<1> QED
  BY <1>3, <1>4, <1>5, SeqEqual

-----------------------------------------------------------------------------
(* skynet_mq_create. *)
LEMMA RingCreate ==
  ASSUME NEW Ms
  PROVE  Ring(mq_create, Ms) /\ Content(mq_create) = << >> /\ Empty(mq_create)
<1>1. DefaultQueueSize \in Nat \ {0}
  BY QueueSizeAssumption
<1>2. mq_length(mq_create) = 0 /\ Empty(mq_create)
  BY <1>1 DEF mq_create, mq_length, Empty
<1>3. << >> \in Seq(Ms) /\ Len(<< >>) = 0
  OBVIOUS
<1>4. /\ DOMAIN mq_create = {"cap", "head", "tail", "queue", "in_global", "release"}
      /\ mq_create.cap = DefaultQueueSize /\ mq_create.head = 0 /\ mq_create.tail = 0
      /\ mq_create.in_global \in BOOLEAN /\ mq_create.release \in BOOLEAN
      /\ mq_create.queue \in [0 .. DefaultQueueSize - 1 -> Ms \cup {Nil}]
  BY DEF mq_create
<1>5. \A k \in 0 .. mq_length(mq_create) - 1 : FALSE
  BY <1>2
<1>6. Frame(mq_create, Ms)
  BY <1>1, <1>4 DEF Frame
<1>7. Spells(mq_create, << >>)
  BY <1>5 DEF Spells
<1> QED
  BY <1>2, <1>3, <1>6, <1>7, RingIntro

(* The flags have nothing to do with the messages. *)
LEMMA RingFlags ==
  ASSUME NEW Ms, NEW q, Ring(q, Ms), NEW b \in BOOLEAN
  PROVE  /\ Ring([q EXCEPT !.in_global = b], Ms) /\ Ring([q EXCEPT !.release = b], Ms)
         /\ Content([q EXCEPT !.in_global = b]) = Content(q)
         /\ Content([q EXCEPT !.release = b]) = Content(q)
         /\ Empty([q EXCEPT !.in_global = b]) <=> Empty(q)
         /\ Empty([q EXCEPT !.release = b]) <=> Empty(q)
         /\ [q EXCEPT !.in_global = b].in_global = b
         /\ [q EXCEPT !.in_global = b].release = q.release
         /\ [q EXCEPT !.release = b].release = b
         /\ [q EXCEPT !.release = b].in_global = q.in_global
  BY DEF Ring, Frame, Content, Empty, mq_length

(* skynet_mq_pop: the first message leaves. *)
THEOREM RingPop ==
  ASSUME NEW Ms, NEW q, Ring(q, Ms), ~Empty(q)
  PROVE  /\ Ring(mq_pop(q), Ms) /\ SameFlags(mq_pop(q), q)
         /\ Content(q) # << >> /\ Content(mq_pop(q)) = Tail(Content(q))
         /\ mq_first(q) \in Ms
<1> DEFINE r == mq_pop(q)
           n == mq_length(q)
<1>1. /\ q.cap \in Nat \ {0} /\ q.head \in 0 .. q.cap - 1 /\ q.tail \in 0 .. q.cap - 1
      /\ q.queue \in [0 .. q.cap - 1 -> Ms \cup {Nil}]
  BY DEF Ring, Frame
<1>2. n \in 1 .. q.cap - 1
  BY RingLength
<1>3. (q.head + 1) % q.cap = Wrap(q.head + 1, q.cap) /\ Wrap(q.head + 1, q.cap) \in 0 .. q.cap - 1
  <2>1. 1 \in 0 .. q.cap - 1
    BY <1>1, <1>2
  <2> QED
    BY <2>1, RingLength
<1>4. /\ DOMAIN r = {"cap", "head", "tail", "queue", "in_global", "release"}
      /\ r.cap = q.cap /\ r.head = Wrap(q.head + 1, q.cap) /\ r.tail = q.tail
      /\ r.in_global = q.in_global /\ r.release = q.release
      /\ r.queue = [q.queue EXCEPT ![q.head] = Nil]
  BY <1>3 DEF mq_pop, Ring, Frame
<1>5. r.queue \in [0 .. q.cap - 1 -> Ms \cup {Nil}]
  BY <1>1, <1>4
<1>6. mq_length(r) = n - 1
  BY SMTT(60), <1>1, <1>2, <1>4 DEF mq_length, Wrap
<1>7. /\ Content(q) \in Seq(Ms) /\ Len(Content(q)) = n
      /\ \A i \in 1 .. n : Content(q)[i] = q.queue[Wrap(q.head + (i - 1), q.cap)]
  BY RingContent
<1>8. Content(q) # << >>
  BY <1>2, <1>7
<1>9. /\ Tail(Content(q)) \in Seq(Ms) /\ Len(Tail(Content(q))) = n - 1
      /\ \A i \in 1 .. n - 1 : Tail(Content(q))[i] = Content(q)[i + 1]
  BY <1>7, <1>8, HeadTailProperties
<1> HIDE DEF r, n
<1>10. ASSUME NEW k \in 0 .. n - 2
       PROVE  r.queue[Wrap(r.head + k, q.cap)] = Tail(Content(q))[k + 1]
  <2>1. k + 1 \in 1 .. n - 1 /\ k + 2 \in 1 .. n /\ (k + 1) + 1 = k + 2 /\ (k + 2) - 1 = k + 1
    BY <1>2
  <2>2. Tail(Content(q))[k + 1] = q.queue[Wrap(q.head + (k + 1), q.cap)]
    BY <1>7, <1>9, <2>1
  <2>3. k \in 0 .. q.cap - 1 /\ k + 1 \in 0 .. q.cap - 1 /\ k + 1 < q.cap /\ k + 1 # 0
    BY <1>1, <1>2
  <2>4. /\ Wrap(r.head + k, q.cap) = Wrap(q.head + (k + 1), q.cap)
        /\ Wrap(q.head + (k + 1), q.cap) \in 0 .. q.cap - 1
        /\ Wrap(q.head + (k + 1), q.cap) # q.head
    <3>1. /\ Wrap(Wrap(q.head + 1, q.cap) + k, q.cap) = Wrap(q.head + (k + 1), q.cap)
      BY ZenonT(60), <1>1, <2>3, WrapNext
    <3>2. Wrap(q.head + (k + 1), q.cap) \in 0 .. q.cap - 1 /\ Wrap(q.head + (k + 1), q.cap) # q.head
      BY <1>1, <2>3, WrapNext
    <3> QED
      BY <1>4, <3>1, <3>2
  <2>5. r.queue[Wrap(q.head + (k + 1), q.cap)] = q.queue[Wrap(q.head + (k + 1), q.cap)]
    BY <1>1, <1>4, <2>4
  <2> QED
    BY <2>2, <2>4, <2>5
<1>11. Spells(r, Tail(Content(q)))
  <2>0. \A k \in 0 .. mq_length(r) - 1 : r.queue[Wrap(r.head + k, r.cap)] = Tail(Content(q))[k + 1]
    <3>1. (n - 1) - 1 = n - 2
      BY <1>2
    <3> QED
      BY <1>4, <1>6, <1>10, <3>1
  <2> QED
    BY <2>0 DEF Spells
<1>12. Ring(r, Ms) /\ Content(r) = Tail(Content(q))
  <2>1. r.head \in 0 .. r.cap - 1 /\ r.tail \in 0 .. r.cap - 1 /\ r.cap \in Nat \ {0}
    BY <1>1, <1>3, <1>4
  <2>2. r.in_global \in BOOLEAN /\ r.release \in BOOLEAN
    BY <1>4 DEF Ring, Frame
  <2>3. Len(Tail(Content(q))) = mq_length(r) /\ Frame(r, Ms)
    BY <1>4, <1>5, <1>6, <1>9, <2>1, <2>2 DEF Frame
  <2> QED
    BY <1>9, <1>11, <2>3, RingIntro
<1>13. mq_first(q) \in Ms
  <2>1. 1 \in 1 .. n /\ q.head + (1 - 1) = q.head
    BY <1>1, <1>2
  <2>2. Content(q)[1] = q.queue[Wrap(q.head, q.cap)] /\ Content(q)[1] \in Ms
    BY <1>7, <2>1, ElementOfSeq
  <2>3. Wrap(q.head, q.cap) = q.head
    BY <1>1 DEF Wrap
  <2> QED
    BY <2>2, <2>3 DEF mq_first
<1> QED
  BY <1>4, <1>8, <1>12, <1>13 DEF r, SameFlags

(* skynet_mq_push: the message comes last, also when the ring is full and    *)
(* expand_queue turns it.                                                    *)
THEOREM RingPush ==
  ASSUME NEW Ms, NEW q, Ring(q, Ms), NEW m \in Ms
  PROVE  /\ Ring(mq_push(q, m), Ms) /\ SameFlags(mq_push(q, m), q)
         /\ Content(mq_push(q, m)) = Append(Content(q), m)
<1> DEFINE p == [q EXCEPT !.queue[q.tail] = m, !.tail = (@ + 1) % q.cap]
           n == mq_length(q)
           c == Append(Content(q), m)
<1>1. /\ q.cap \in Nat \ {0} /\ q.head \in 0 .. q.cap - 1 /\ q.tail \in 0 .. q.cap - 1
      /\ q.queue \in [0 .. q.cap - 1 -> Ms \cup {Nil}]
      /\ q.in_global \in BOOLEAN /\ q.release \in BOOLEAN
  BY DEF Ring, Frame
<1>2. n \in 0 .. q.cap - 1 /\ q.tail = Wrap(q.head + n, q.cap)
  BY SMTT(60), <1>1 DEF mq_length, Wrap
<1>0. /\ n + 1 = q.cap => Wrap(q.tail + 1, q.cap) = q.head
      /\ n + 1 < q.cap => Wrap(q.tail + 1, q.cap) = Wrap(q.head + (n + 1), q.cap)
      /\ n + 1 < q.cap => Wrap(q.tail + 1, q.cap) # q.head
  <2> HIDE DEF n
  <2>0. q.cap \in Nat \ {0} /\ q.head \in 0 .. q.cap - 1
    BY <1>1
  <2>1. ASSUME NEW k \in 0 .. q.cap - 1
        PROVE  /\ k + 1 = q.cap => Wrap(Wrap(q.head + k, q.cap) + 1, q.cap) = q.head
               /\ k + 1 < q.cap => Wrap(Wrap(q.head + k, q.cap) + 1, q.cap) = Wrap(q.head + (k + 1), q.cap)
    BY ZenonT(60), <2>0, WrapNext
  <2>2. ASSUME NEW k \in 0 .. q.cap - 1, k # 0
        PROVE  Wrap(q.head + k, q.cap) # q.head
    BY <2>0, <2>2, WrapNext
  <2>3. n \in 0 .. q.cap - 1 /\ q.tail = Wrap(q.head + n, q.cap)
    BY <1>2
  <2>4. n + 1 < q.cap => n + 1 \in 0 .. q.cap - 1 /\ n + 1 # 0
    BY <1>1, <2>3
  <2> QED
    BY <2>1, <2>2, <2>3, <2>4
<1>3. (q.tail + 1) % q.cap = Wrap(q.tail + 1, q.cap) /\ Wrap(q.tail + 1, q.cap) \in 0 .. q.cap - 1
  <2>1. q.tail + 1 \in 0 .. 2 * q.cap - 1
    BY <1>1
  <2>2. (q.tail + 1) % q.cap = Wrap(q.tail + 1, q.cap)
    BY <1>1, <2>1, ModOnce
  <2> QED
    BY SMTT(60), <1>1, <2>2 DEF Wrap
<1>4. /\ DOMAIN p = {"cap", "head", "tail", "queue", "in_global", "release"}
      /\ p.cap = q.cap /\ p.head = q.head /\ p.tail = Wrap(q.tail + 1, q.cap)
      /\ p.in_global = q.in_global /\ p.release = q.release
      /\ p.queue = [q.queue EXCEPT ![q.tail] = m]
  BY <1>3 DEF Ring, Frame
<1>5. p.queue \in [0 .. q.cap - 1 -> Ms \cup {Nil}]
  BY <1>1, <1>4
<1>6. /\ Content(q) \in Seq(Ms) /\ Len(Content(q)) = n
      /\ \A i \in 1 .. n : Content(q)[i] = q.queue[Wrap(q.head + (i - 1), q.cap)]
  BY RingContent
<1>7. /\ c \in Seq(Ms) /\ Len(c) = n + 1 /\ c[n + 1] = m
      /\ \A i \in 1 .. n : c[i] = Content(q)[i]
  BY <1>6, AppendProperties
<1> HIDE DEF p, n, c
(* The ring with the message in it, place by place. *)
<1>8. ASSUME NEW k \in 0 .. n
      PROVE  p.queue[Wrap(q.head + k, q.cap)] = c[k + 1]
  <2>1. Wrap(q.head + k, q.cap) \in 0 .. q.cap - 1
    BY SMTT(60), <1>1, <1>2 DEF Wrap
  <2>2. CASE k = n
    BY <1>1, <1>2, <1>4, <1>7, <2>2
  <2>3. CASE k # n
    <3>1. k + 1 \in 1 .. n /\ (k + 1) - 1 = k
      BY <1>2, <2>3
    <3>2. c[k + 1] = q.queue[Wrap(q.head + k, q.cap)]
      BY <1>6, <1>7, <3>1
    <3>3. Wrap(q.head + k, q.cap) # q.tail
      BY SMTT(60), <1>1, <1>2, <2>3 DEF Wrap
    <3> QED
      BY <1>1, <1>4, <2>1, <3>2, <3>3
  <2> QED
    BY <2>2, <2>3
<1>9. mq_push(q, m) = IF p.head = p.tail THEN expand_queue(p) ELSE p
  BY DEF mq_push, p
<1>10. CASE p.head # p.tail
  <2>1. mq_length(p) = n + 1
    <3>1. n + 1 \in 0 .. q.cap - 1 /\ n + 1 < q.cap
      BY SMTT(60), <1>0, <1>1, <1>2, <1>4, <1>10
    <3>2. p.tail = Wrap(q.head + (n + 1), q.cap)
      BY <1>0, <1>4, <3>1
    <3>3. (IF q.head <= Wrap(q.head + (n + 1), q.cap) THEN Wrap(q.head + (n + 1), q.cap) - q.head
           ELSE Wrap(q.head + (n + 1), q.cap) + q.cap - q.head) = n + 1
      BY <1>1, <3>1, WrapLength
    <3> QED
      BY <1>1, <1>4, <3>1, <3>2, <3>3 DEF mq_length
  <2>2. Spells(p, c)
    <3>1. (n + 1) - 1 = n
      BY <1>2
    <3> QED
      BY <1>4, <1>8, <2>1, <3>1 DEF Spells
  <2>3. p.head \in 0 .. p.cap - 1 /\ p.tail \in 0 .. p.cap - 1 /\ p.cap \in Nat \ {0}
    BY <1>1, <1>3, <1>4
  <2>4. p.in_global \in BOOLEAN /\ p.release \in BOOLEAN
    BY <1>1, <1>4
  <2>5. Frame(p, Ms) /\ Len(c) = mq_length(p)
    BY <1>4, <1>5, <1>7, <2>1, <2>3, <2>4 DEF Frame
  <2>6. Ring(p, Ms) /\ Content(p) = c
    BY <1>7, <2>2, <2>5, RingIntro
  <2> QED
    BY <1>4, <1>9, <1>10, <2>6 DEF SameFlags, c
<1>11. CASE p.head = p.tail
  <2> DEFINE e == expand_queue(p)
             F(i) == IF i < p.cap THEN p.queue[(p.head + i) % p.cap] ELSE Nil
  <2>1. n + 1 = q.cap
    BY <1>0, <1>1, <1>2, <1>4, <1>11
  <2>2. /\ DOMAIN e = {"cap", "head", "tail", "queue", "in_global", "release"}
        /\ e.cap = 2 * q.cap /\ e.head = 0 /\ e.tail = q.cap
        /\ e.in_global = q.in_global /\ e.release = q.release
        /\ e.queue = [i \in 0 .. 2 * q.cap - 1 |-> F(i)]
    BY <1>4 DEF expand_queue
  <2>3. mq_length(e) = n + 1
    BY <1>1, <2>1, <2>2 DEF mq_length
  <2>4. ASSUME NEW k \in 0 .. q.cap - 1
        PROVE  F(k) = p.queue[Wrap(q.head + k, q.cap)] /\ Wrap(q.head + k, q.cap) \in 0 .. q.cap - 1
    <3>1. /\ (q.head + k) % q.cap = Wrap(q.head + k, q.cap)
          /\ Wrap(q.head + k, q.cap) \in 0 .. q.cap - 1
      BY RingLength
    <3>2. k < q.cap
      BY <1>1
    <3> QED
      BY <1>4, <3>1, <3>2
  <2>5. \A i \in 0 .. 2 * q.cap - 1 : F(i) \in Ms \cup {Nil}
    <3> TAKE i \in 0 .. 2 * q.cap - 1
    <3>1. CASE i < q.cap
      <4>1. i \in 0 .. q.cap - 1
        BY <1>1, <3>1
      <4> HIDE DEF F
      <4> QED
        BY <1>5, <2>4, <4>1
    <3>2. CASE ~(i < q.cap)
      BY <1>4, <3>2
    <3> QED
      BY <3>1, <3>2
  <2> HIDE DEF e
  <2>6. e.queue \in [0 .. e.cap - 1 -> Ms \cup {Nil}]
    BY <2>2, <2>5
  <2>7. ASSUME NEW k \in 0 .. mq_length(e) - 1
        PROVE  e.queue[Wrap(e.head + k, e.cap)] = c[k + 1]
    <3>1. k \in 0 .. q.cap - 1 /\ k \in 0 .. n /\ k \in 0 .. 2 * q.cap - 1
      BY SMTT(60), <1>1, <1>2, <2>1, <2>3
    <3>2. Wrap(e.head + k, e.cap) = k
      BY <1>1, <2>2, <3>1 DEF Wrap
    <3>3. e.queue[k] = F(k)
      BY <2>2, <3>1
    <3> HIDE DEF F
    <3> QED
      BY <1>8, <2>4, <3>1, <3>2, <3>3
  <2>8. e.head \in 0 .. e.cap - 1 /\ e.tail \in 0 .. e.cap - 1 /\ e.cap \in Nat \ {0}
    BY <1>1, <2>2
  <2>9. e.in_global \in BOOLEAN /\ e.release \in BOOLEAN
    BY <1>1, <2>2
  <2>10. Frame(e, Ms) /\ Spells(e, c) /\ Len(c) = mq_length(e)
    BY <1>7, <2>2, <2>3, <2>6, <2>7, <2>8, <2>9 DEF Frame, Spells
  <2>11. Ring(e, Ms) /\ Content(e) = c
    BY <1>7, <2>10, RingIntro
  <2> QED
    BY <1>9, <1>11, <2>2, <2>11 DEF SameFlags, c, e
<1> QED
  BY <1>10, <1>11

-----------------------------------------------------------------------------
(* The invariant. *)

CallPlace == {"ret", "push", "unref", "delete"}
LaunchPlace == {"no", "registered", "init", "started", "failed", "release", "drop"}

(* A handle table. *)
Table(s) ==
  /\ DOMAIN s = {"handle_index", "slot_size", "slot"}
  /\ s.handle_index \in Nat \ {0} /\ s.slot_size \in Nat \ {0}
  /\ s.slot \in [0 .. s.slot_size - 1 -> Nat \cup {Nil}]
  /\ \A i \in 0 .. s.slot_size - 1 : s.slot[i] # Nil =>
       s.slot[i] % s.slot_size = i /\ s.slot[i] \in 1 .. s.handle_index - 1

Typed ==
  /\ Table(hs)
  /\ DOMAIN ctx \subseteq Ctx /\ ctx \in [DOMAIN ctx -> [handle : Nat, ref : Nat] \cup {Nil}]
  /\ DOMAIN mq \subseteq Ctx /\ mq = [h \in DOMAIN mq |-> mq[h]]
  /\ \A h \in DOMAIN mq : Ring(mq[h], Msg)
  /\ gq \in Seq(Ctx)
  /\ worker = [w \in Worker |-> worker[w]]
  /\ \A w \in Worker : /\ DOMAIN worker[w] = {"at", "q", "nq", "left"}
                       /\ worker[w].at \in Place
                       /\ worker[w].q \in Ctx \cup {Nil} /\ worker[w].nq \in Ctx \cup {Nil}
  /\ launch \in [Thread -> [at : LaunchPlace, h : 0 .. MaxCtx]]
  /\ call \in [Thread -> [at : CallPlace, h : 0 .. MaxCtx, msg : Msg \cup {Nil}]]
  /\ sent \in 0 .. MaxMsg
  /\ quit \in BOOLEAN

(* Where a thread is tells what it has in hand: a launch runs in a callback  *)
(* of the launcher, and only a worker that yields has a second queue.        *)
Handling == {"grab", "release", "drop", "first", "more", "call", "yield", "back"}
Stack ==
  /\ \A t \in Thread : launch[t].at # "no" =>
       /\ t \in Worker /\ worker[t].at = "call" /\ worker[t].q = Launcher
       /\ launch[t].h \in Ctx \ {Launcher}
  /\ \A w \in Worker : IF worker[w].at = "back" THEN worker[w].nq \notin {Nil, worker[w].q}
                                                ELSE worker[w].nq = Nil
  /\ \A w \in Worker : worker[w].at \in Handling => worker[w].q # Nil
  /\ \A w \in Worker : worker[w].at \in {"tosleep", "asleep"} => worker[w].q = Nil

(* A queue is in the list once or in the hands of one thread, and it is       *)
(* anywhere exactly when it is marked.                                       *)
Listed(h) == \E i \in DOMAIN gq : gq[i] = h
Held(h) == \E t \in Thread : HeldBy(t, h)
Marked(h) == h \in DOMAIN mq /\ (mq[h].in_global \/ mq[h].release)
Distinct == \A i, j \in DOMAIN gq : gq[i] = gq[j] => i = j
OnceAt(h) ==
  /\ ~(Listed(h) /\ Held(h))
  /\ \A s, t \in Thread : HeldBy(s, h) /\ HeldBy(t, h) => s = t
  /\ Listed(h) \/ Held(h) <=> Marked(h)
  /\ h \in DOMAIN mq => mq[h].in_global \/ Empty(mq[h])
Once == Distinct /\ \A h \in Ctx : OnceAt(h)

(* The references of a context are its users. *)
RefAt(h) == IF Alive(h) THEN ctx[h].ref = Users(h) ELSE Users(h) = 0
Refs == \A h \in Ctx : RefAt(h)

(* A context has its handle and its queue once its launch has begun the init *)
(* function, and the queue is marked for release when it goes.               *)
Linked ==
  /\ \A h \in DOMAIN ctx : Alive(h) => ctx[h].handle \in {0, h}
  /\ \A h \in DOMAIN ctx : Alive(h) /\ ctx[h].handle = h => h \in DOMAIN mq /\ ~mq[h].release
  /\ \A h \in DOMAIN ctx : Alive(h) /\ ctx[h].handle = 0 =>
       h \notin DOMAIN mq /\ \E t \in Thread : launch[t] = [at |-> "registered", h |-> h]
  /\ \A t \in Thread : launch[t].at = "registered" =>
       Alive(launch[t].h) /\ ctx[launch[t].h].handle = 0
  /\ DOMAIN mq \subseteq DOMAIN ctx

(* A call works on a context that is alive, and the last user deletes it; a  *)
(* queue that is dropped is marked for it.                                   *)
Calls ==
  /\ \A t \in Thread : call[t].at # "ret" => Alive(call[t].h) /\ ctx[call[t].h].handle = call[t].h
  /\ \A t \in Thread : call[t].at = "push" => call[t].msg \in Msg
  /\ \A t \in Thread : call[t].at = "delete" => ctx[call[t].h].ref = 0
  /\ \A s, t \in Thread : call[s].at = "delete" /\ call[t].at = "delete"
                          /\ call[s].h = call[t].h => s = t
Drops ==
  /\ \A t \in Thread : launch[t].at = "drop" => launch[t].h \in DOMAIN mq /\ mq[launch[t].h].release
  /\ \A w \in Worker : worker[w].at = "drop" => worker[w].q \in DOMAIN mq /\ mq[worker[w].q].release
Uses == Calls /\ Drops

(* The handles given out. *)
Given ==
  /\ Launcher \in DOMAIN ctx
  /\ \A h \in DOMAIN ctx : h < hs.handle_index
  /\ \A i \in DOMAIN hs.slot : hs.slot[i] # Nil => hs.slot[i] \in DOMAIN ctx

IInv == Typed /\ Stack /\ Once /\ Refs /\ Linked /\ Uses /\ Given

-----------------------------------------------------------------------------
(* The handle table. *)

LEMMA Constants ==
  /\ IsFiniteSet(Thread) /\ IsFiniteSet(Worker) /\ Worker \subseteq Thread
  /\ MaxCtx \in Nat \ {0} /\ MaxMsg \in Nat /\ DefaultSlotSize \in Nat \ {0}
  /\ Nil \notin Nat /\ Nil \notin [handle : Nat, ref : Nat]
  /\ Ctx \subseteq Nat \ {0} /\ Launcher \in Ctx /\ Nil \notin Ctx
<1>1. IsFiniteSet(Thread)
  BY RuntimeAssumption, FS_Union DEF Thread
<1> QED
  BY <1>1, RuntimeAssumption DEF Thread, Ctx, Launcher

LEMMA TableHash ==
  ASSUME NEW s, Table(s), NEW h \in Nat
  PROVE  H!Hash(s, h) \in 0 .. s.slot_size - 1
<1>1. s.slot_size \in Nat \ {0} /\ h \in Int
  BY DEF Table
<1> QED
  BY <1>1, DivMod DEF H!Hash

(* The slots name the contexts that are registered. *)
LEMMA TableSlots ==
  ASSUME NEW s, Table(s)
  PROVE  /\ \A h \in Nat : H!Registered(s, h) => h \in 1 .. s.handle_index - 1
         /\ \A i \in 0 .. s.slot_size - 1 : s.slot[i] # Nil =>
              s.slot[i] \in Nat /\ H!Registered(s, s.slot[i]) /\ H!Hash(s, s.slot[i]) = i
<1>1. ASSUME NEW h \in Nat, H!Registered(s, h) PROVE h \in 1 .. s.handle_index - 1
  <2>1. H!Hash(s, h) \in 0 .. s.slot_size - 1
    BY TableHash
  <2>2. s.slot[H!Hash(s, h)] = h
    BY <1>1 DEF H!Registered
  <2>3. h # Nil
    BY Constants
  <2> QED
    BY <2>1, <2>2, <2>3, Zenon DEF Table
<1>2. ASSUME NEW i \in 0 .. s.slot_size - 1, s.slot[i] # Nil
      PROVE  s.slot[i] \in Nat /\ H!Registered(s, s.slot[i]) /\ H!Hash(s, s.slot[i]) = i
  <2>1. s.slot[i] \in Nat
    BY <1>2 DEF Table
  <2>2. s.slot[i] % s.slot_size = i
    BY <1>2, Zenon DEF Table
  <2> QED
    BY <2>1, <2>2, Zenon DEF H!Registered, H!Hash
<1> QED
  BY <1>1, <1>2

(* One of the handles from a on has the slot i. *)
LEMMA SlotReached ==
  ASSUME NEW n \in Nat \ {0}, NEW a \in Nat, NEW i \in 0 .. n - 1
  PROVE  \E h \in a .. a + n - 1 : h % n = i
<1> DEFINE d == (i - a) % n
           q == (i - a) \div n
<1>1. i - a \in Int
  OBVIOUS
<1>2. d \in 0 .. n - 1 /\ q \in Int /\ i - a = n * q + d
  BY <1>1, DivMod
<1> HIDE DEF d, q
<1>3. a + d \in a .. a + n - 1 /\ -q \in Int
  BY <1>2
<1>4. n * (-q) = -(n * q) /\ n * q \in Int
  BY <1>2
<1>5. a + d = n * (-q) + i
  BY <1>2, <1>4
<1>6. (a + d) % n = i
  <2> DEFINE b == a + d
             p == -q
  <2>1. b \in Int /\ p \in Int /\ b = n * p + i
    BY <1>2, <1>3, <1>5
  <2> HIDE DEF b, p
  <2>2. b % n = i
    BY <2>1, DivModUnique
  <2> QED
    BY <2>2 DEF b
<1> QED
  BY <1>3, <1>6

(* The handle given out is the least whose slot is free. *)
LEMMA TableGiven ==
  ASSUME NEW s, Table(s), ~H!Full(s)
  PROVE  /\ H!Given(s) \in Nat /\ H!Given(s) >= s.handle_index
         /\ s.slot[H!Hash(s, H!Given(s))] = Nil
         /\ \A k \in H!Candidates(s) : H!Given(s) <= k
<1> DEFINE C == H!Candidates(s)
<1>1. s.handle_index \in Nat /\ s.slot_size \in Nat
  BY DEF Table
<1>2. C # {} /\ C \subseteq Nat /\ \A h \in C : h >= s.handle_index /\ s.slot[H!Hash(s, h)] = Nil
  BY <1>1 DEF H!Full, H!Candidates
<1>3. \E h \in C : \A k \in C : h <= k
  <2> HIDE DEF C
  <2>1. PICK h \in C : \A k \in C : <<k, h>> \notin OpToRel(<, Nat)
    BY <1>2, NatLessThanWellFounded, WFMin
  <2>2. ASSUME NEW k \in C PROVE h <= k
    <3>1. k \in Nat /\ h \in Nat /\ ~(k < h)
      BY <1>2, <2>1 DEF OpToRel
    <3> QED
      BY <3>1
  <2> QED
    BY <2>2
<1>4. H!Given(s) \in C /\ \A k \in C : H!Given(s) <= k
  BY <1>3 DEF H!Given
<1> QED
  BY <1>2, <1>4

(* skynet_handle_register. *)
LEMMA TableRegister ==
  ASSUME NEW s, Table(s), ~H!Full(s)
  PROVE  /\ Table(H!handle_register(s))
         /\ H!handle_register(s).handle_index = H!Given(s) + 1
         /\ \A k \in Nat : H!Registered(H!handle_register(s), k)
                             <=> k = H!Given(s) \/ H!Registered(s, k)
<1> DEFINE h == H!Given(s)
           g == H!Hash(s, h)
           r == H!handle_register(s)
<1>1. /\ s.handle_index \in Nat \ {0} /\ s.slot_size \in Nat \ {0}
      /\ s.slot \in [0 .. s.slot_size - 1 -> Nat \cup {Nil}]
  BY DEF Table
<1>2. h \in Nat /\ h >= s.handle_index /\ s.slot[g] = Nil
  BY TableGiven
<1>3. g \in 0 .. s.slot_size - 1
  BY <1>2, TableHash
<1>4. /\ DOMAIN r = {"handle_index", "slot_size", "slot"}
      /\ r.handle_index = h + 1 /\ r.slot_size = s.slot_size
      /\ r.slot = [s.slot EXCEPT ![g] = h]
  BY DEF H!handle_register, Table
<1>5. g = h % s.slot_size
  BY DEF H!Hash
<1>6. \A k \in Nat : H!Hash(r, k) = H!Hash(s, k) /\ H!Hash(s, k) \in 0 .. s.slot_size - 1
  BY <1>4, TableHash DEF H!Hash
<1> HIDE DEF h, g, r
<1>7. /\ r.slot[g] = h
      /\ \A i \in 0 .. s.slot_size - 1 : i # g => r.slot[i] = s.slot[i]
  BY <1>1, <1>3, <1>4
<1>8. ASSUME NEW i \in 0 .. s.slot_size - 1, r.slot[i] # Nil
      PROVE  r.slot[i] % s.slot_size = i /\ r.slot[i] \in 1 .. h
  <2>1. CASE i = g
    BY <1>1, <1>2, <1>5, <1>7, <2>1
  <2>2. CASE i # g
    <3>1. s.slot[i] # Nil /\ r.slot[i] = s.slot[i]
      BY <1>7, <1>8, <2>2
    <3>2. s.slot[i] % s.slot_size = i /\ s.slot[i] \in 1 .. s.handle_index - 1
      BY <3>1, Zenon DEF Table
    <3>3. s.slot[i] \in 1 .. h
      BY <1>1, <1>2, <3>2
    <3> QED
      BY <3>1, <3>2, <3>3
  <2> QED
    BY <2>1, <2>2
<1>9. Table(r)
  <2>1. r.slot \in [0 .. r.slot_size - 1 -> Nat \cup {Nil}]
    BY <1>1, <1>2, <1>4
  <2>2. r.handle_index \in Nat \ {0} /\ r.slot_size \in Nat \ {0} /\ r.handle_index - 1 = h
    BY <1>1, <1>2, <1>4
  <2> QED
    BY <1>4, <1>8, <2>1, <2>2 DEF Table
<1>10. ASSUME NEW k \in Nat
       PROVE  H!Registered(r, k) <=> k = h \/ H!Registered(s, k)
  <2>1. H!Registered(r, k) <=> r.slot[H!Hash(s, k)] = k
    BY <1>6 DEF H!Registered
  <2>2. H!Registered(s, k) <=> s.slot[H!Hash(s, k)] = k
    BY DEF H!Registered
  <2>3. k # Nil
    BY Constants
  <2>4. H!Hash(s, h) = g
    BY DEF g, h
  <2> QED
    BY <1>2, <1>6, <1>7, <2>1, <2>2, <2>3, <2>4
<1> QED
  BY <1>4, <1>9, <1>10 DEF h, r

(* skynet_handle_retire. *)
LEMMA TableRetire ==
  ASSUME NEW s, Table(s), NEW h \in Nat, H!Registered(s, h)
  PROVE  /\ Table(H!handle_retire(s, h))
         /\ H!handle_retire(s, h).handle_index = s.handle_index
         /\ \A k \in Nat : H!Registered(H!handle_retire(s, h), k)
                             <=> k # h /\ H!Registered(s, k)
<1> DEFINE g == H!Hash(s, h)
           r == H!handle_retire(s, h)
<1>1. /\ s.handle_index \in Nat \ {0} /\ s.slot_size \in Nat \ {0}
      /\ s.slot \in [0 .. s.slot_size - 1 -> Nat \cup {Nil}]
  BY DEF Table
<1>2. g \in 0 .. s.slot_size - 1 /\ s.slot[g] = h
  BY TableHash DEF H!Registered
<1>3. /\ DOMAIN r = {"handle_index", "slot_size", "slot"}
      /\ r.handle_index = s.handle_index /\ r.slot_size = s.slot_size
      /\ r.slot = [s.slot EXCEPT ![g] = Nil]
  BY DEF H!handle_retire, Table
<1>4. \A k \in Nat : H!Hash(r, k) = H!Hash(s, k) /\ H!Hash(s, k) \in 0 .. s.slot_size - 1
  BY <1>3, TableHash DEF H!Hash
<1> HIDE DEF g, r
<1>5. /\ r.slot[g] = Nil
      /\ \A i \in 0 .. s.slot_size - 1 : i # g => r.slot[i] = s.slot[i]
  BY <1>1, <1>2, <1>3
<1>6. ASSUME NEW i \in 0 .. s.slot_size - 1, r.slot[i] # Nil
      PROVE  r.slot[i] % s.slot_size = i /\ r.slot[i] \in 1 .. s.handle_index - 1
  <2>1. s.slot[i] # Nil /\ r.slot[i] = s.slot[i]
    BY <1>5, <1>6
  <2>2. s.slot[i] % s.slot_size = i /\ s.slot[i] \in 1 .. s.handle_index - 1
    BY <2>1, Zenon DEF Table
  <2> QED
    BY <2>1, <2>2
<1>7. Table(r)
  <2>1. r.slot \in [0 .. r.slot_size - 1 -> Nat \cup {Nil}]
    BY <1>1, <1>3
  <2> QED
    BY <1>1, <1>3, <1>6, <2>1 DEF Table
<1>8. ASSUME NEW k \in Nat
      PROVE  H!Registered(r, k) <=> k # h /\ H!Registered(s, k)
  <2>1. H!Registered(r, k) <=> r.slot[H!Hash(s, k)] = k
    BY <1>4 DEF H!Registered
  <2>2. H!Registered(s, k) <=> s.slot[H!Hash(s, k)] = k
    BY DEF H!Registered
  <2>3. k # Nil
    BY Constants
  <2>4. H!Hash(s, h) = g
    BY DEF g
  <2> QED
    BY <1>2, <1>4, <1>5, <2>1, <2>2, <2>3, <2>4
<1> QED
  BY <1>3, <1>7, <1>8 DEF r

(* A full table has no empty slot. *)
LEMMA TableFull ==
  ASSUME NEW s, Table(s), H!Full(s)
  PROVE  \A i \in 0 .. s.slot_size - 1 : s.slot[i] # Nil
<1> TAKE i \in 0 .. s.slot_size - 1
<1>1. s.handle_index \in Nat /\ s.slot_size \in Nat \ {0}
  BY DEF Table
<1>2. PICK h \in s.handle_index .. s.handle_index + s.slot_size - 1 : h % s.slot_size = i
  BY <1>1, SlotReached
<1>3. h \notin H!Candidates(s)
  BY DEF H!Full
<1> QED
  BY <1>2, <1>3 DEF H!Candidates, H!Hash

(* Where a number lands among twice as many slots. *)
LEMMA ModDouble ==
  ASSUME NEW n \in Nat \ {0}, NEW a \in Nat
  PROVE  /\ 2 * n \in Nat \ {0} /\ a % (2 * n) \in 0 .. 2 * n - 1
         /\ (a % (2 * n)) % n = a % n
         /\ (a + n) % (2 * n) # a % (2 * n)
         /\ (a + n) % n = a % n
<1> DEFINE m == 2 * n
           r == a % m
           q == a \div m
<1>1. m \in Nat \ {0}
  OBVIOUS
<1>2. r \in 0 .. m - 1 /\ q \in Int /\ a = m * q + r
  <2> HIDE DEF m
  <2>1. a \in Int
    OBVIOUS
  <2> QED
    BY <1>1, <2>1, DivMod
<1>3. n * (2 * q) = m * q /\ m * q \in Int
  BY <1>2
<1> HIDE DEF r, q
<1>4. r % n \in 0 .. n - 1 /\ r \div n \in Int /\ r = n * (r \div n) + (r % n)
  BY <1>1, <1>2, DivMod
<1> DEFINE u == r \div n
           v == r % n
<1>5. v \in 0 .. n - 1 /\ u \in Int /\ r = n * u + v
  BY <1>4
<1> HIDE DEF u, v
<1>6. 2 * q + u \in Int /\ n * (2 * q + u) = n * (2 * q) + n * u
  BY <1>2, <1>5
<1>7. n * u \in Int /\ n * (2 * q) \in Int
  BY <1>2, <1>5
<1>8. a = n * (2 * q + u) + v
  BY <1>2, <1>3, <1>5, <1>6, <1>7
<1>9. a % n = v
  BY <1>5, <1>6, <1>8, DivModUnique
<1>10. n * (2 * q + u + 1) = n * (2 * q + u) + n /\ 2 * q + u + 1 \in Int
  BY <1>2, <1>5, <1>6
<1>11. a + n = n * (2 * q + u + 1) + v
  <2>1. n * (2 * q + u) \in Int
    BY <1>6
  <2> QED
    BY <1>5, <1>8, <1>10, <2>1
<1>12. (a + n) % n = v
  <2> DEFINE b == a + n
             w == 2 * q + u + 1
  <2>1. b \in Int /\ w \in Int /\ b = n * w + v
    BY <1>10, <1>11
  <2> HIDE DEF b, w
  <2>2. b % n = v
    BY <1>5, <2>1, DivModUnique
  <2> QED
    BY <2>2 DEF b
<1>13. (a + n) % m # r
  <2> DEFINE b == a + n
  <2>1. CASE r < n
    <3>1. b \in Int /\ r + n \in 0 .. m - 1 /\ b = m * q + (r + n)
      BY <1>2, <1>3, <2>1
    <3> HIDE DEF b, m
    <3>2. b % m = r + n
      BY <1>1, <1>2, <3>1, DivModUnique
    <3> QED
      BY <1>2, <3>2 DEF b
  <2>2. CASE ~(r < n)
    <3>1. b \in Int /\ r - n \in 0 .. m - 1 /\ q + 1 \in Int /\ m * (q + 1) = m * q + m
      BY <1>2, <1>3, <2>2
    <3>2. b = m * (q + 1) + (r - n)
      BY <1>2, <1>3, <3>1
    <3>3. b % m = r - n
      <4> DEFINE p == q + 1
                 x == r - n
      <4>1. p \in Int /\ x \in 0 .. m - 1 /\ b = m * p + x
        BY <3>1, <3>2
      <4> HIDE DEF b, m, p, x
      <4>2. b \in Int
        BY <3>1
      <4>3. b % m = x
        BY <1>1, <4>1, <4>2, DivModUnique
      <4> QED
        BY <4>3 DEF x
    <3> QED
      BY <1>2, <3>3
  <2> QED
    BY <2>1, <2>2
<1> QED
  BY <1>1, <1>2, <1>9, <1>12, <1>13 DEF m, r, v

(* skynet_handle_register on a full table: with twice the slots every        *)
(* context is found as before, and there is room.                            *)
LEMMA TableGrow ==
  ASSUME NEW s, Table(s), H!Full(s), NEW handle,
         \A i \in 0 .. s.slot_size - 1 : handle[s.slot[i]] = s.slot[i]
  PROVE  /\ Table(H!Grow(s, handle)) /\ ~H!Full(H!Grow(s, handle))
         /\ H!Grow(s, handle).handle_index = s.handle_index
         /\ \A k \in Nat : H!Registered(H!Grow(s, handle), k) <=> H!Registered(s, k)
<1> DEFINE n == s.slot_size
           a == s.handle_index
           r == H!Grow(s, handle)
           Lands(j) == {i \in DOMAIN s.slot : handle[s.slot[i]] % (2 * n) = j}
<1>1. a \in Nat \ {0} /\ n \in Nat \ {0} /\ s.slot \in [0 .. n - 1 -> Nat \cup {Nil}]
  BY DEF Table
<1>2. \A i \in 0 .. n - 1 : s.slot[i] # Nil
  BY TableFull
<1>3. \A i \in 0 .. n - 1 : s.slot[i] \in Nat /\ s.slot[i] % n = i /\ s.slot[i] \in 1 .. a - 1
  BY <1>1, <1>2, Zenon DEF Table
<1>4. /\ DOMAIN r = {"handle_index", "slot_size", "slot"}
      /\ r.handle_index = a /\ r.slot_size = 2 * n
      /\ r.slot = [j \in 0 .. 2 * n - 1 |->
                    IF Lands(j) = {} THEN Nil ELSE s.slot[CHOOSE i \in Lands(j) : TRUE]]
  BY DEF H!Grow, Table
<1>5. 2 * n \in Nat \ {0} /\ \A i \in 0 .. n - 1 : s.slot[i] % (2 * n) \in 0 .. 2 * n - 1
  BY <1>1, <1>3, ModDouble
<1>0. \A i \in 0 .. n - 1 : handle[s.slot[i]] = s.slot[i]
  OBVIOUS
<1> HIDE DEF n, a, r
(* One context at most comes to a slot. *)
<1>6. ASSUME NEW j \in 0 .. 2 * n - 1, NEW i \in 0 .. n - 1
      PROVE  i \in Lands(j) <=> s.slot[i] % (2 * n) = j
  BY <1>0, <1>1
<1>7. ASSUME NEW j \in 0 .. 2 * n - 1, NEW i \in Lands(j)
      PROVE  i \in 0 .. n - 1 /\ i = j % n
  <2>1. i \in 0 .. n - 1 /\ s.slot[i] % (2 * n) = j
    BY <1>1, <1>6
  <2>2. (s.slot[i] % (2 * n)) % n = s.slot[i] % n
    BY <1>1, <1>3, <2>1, ModDouble
  <2> QED
    BY <1>3, <2>1, <2>2
<1>8. ASSUME NEW j \in 0 .. 2 * n - 1, NEW i \in Lands(j)
      PROVE  r.slot[j] = s.slot[i]
  <2> HIDE DEF Lands
  <2>1. (CHOOSE k \in Lands(j) : TRUE) \in Lands(j)
    BY <1>8
  <2>2. (CHOOSE k \in Lands(j) : TRUE) = i
    BY <1>7, <1>8, <2>1
  <2> QED
    BY <1>4, <1>8, <2>2
<1>9. ASSUME NEW j \in 0 .. 2 * n - 1, Lands(j) = {}
      PROVE  r.slot[j] = Nil
  BY <1>4, <1>9
<1>10. ASSUME NEW j \in 0 .. 2 * n - 1, r.slot[j] # Nil
       PROVE  \E i \in 0 .. n - 1 : i \in Lands(j) /\ r.slot[j] = s.slot[i]
  BY <1>7, <1>8, <1>9, <1>10
<1> HIDE DEF Lands
<1>11. Table(r)
  <2>1. ASSUME NEW j \in 0 .. 2 * n - 1, r.slot[j] # Nil
        PROVE  r.slot[j] \in Nat /\ r.slot[j] % (2 * n) = j /\ r.slot[j] \in 1 .. a - 1
    <3>1. PICK i \in 0 .. n - 1 : i \in Lands(j) /\ r.slot[j] = s.slot[i]
      BY <1>10, <2>1
    <3>2. s.slot[i] % (2 * n) = j
      BY <1>6, <3>1
    <3> QED
      BY <1>3, <3>1, <3>2
  <2>2. r.slot \in [0 .. 2 * n - 1 -> Nat \cup {Nil}]
    <3>1. r.slot = [j \in 0 .. 2 * n - 1 |-> r.slot[j]]
      BY <1>4
    <3>2. \A j \in 0 .. 2 * n - 1 : r.slot[j] \in Nat \cup {Nil}
      BY <2>1
    <3> QED
      BY <3>1, <3>2
  <2> QED
    BY <1>1, <1>4, <1>5, <2>1, <2>2 DEF Table
<1>12. ASSUME NEW k \in Nat
       PROVE  H!Registered(r, k) <=> H!Registered(s, k)
  <2>1. k % (2 * n) \in 0 .. 2 * n - 1 /\ k % n \in 0 .. n - 1 /\ (k % (2 * n)) % n = k % n
    <3>1. k % (2 * n) \in 0 .. 2 * n - 1 /\ (k % (2 * n)) % n = k % n
      BY <1>1, ModDouble
    <3>2. k % n \in 0 .. n - 1
      BY <1>1, DivMod
    <3> QED
      BY <3>1, <3>2
  <2>2. H!Registered(r, k) <=> r.slot[k % (2 * n)] = k
    BY <1>4 DEF H!Registered, H!Hash
  <2>3. H!Registered(s, k) <=> s.slot[k % n] = k
    BY DEF H!Registered, H!Hash, n
  <2>4. k # Nil
    BY Constants
  <2>5. ASSUME r.slot[k % (2 * n)] = k PROVE s.slot[k % n] = k
    <3>1. PICK i \in 0 .. n - 1 : i \in Lands(k % (2 * n)) /\ k = s.slot[i]
      BY <1>10, <2>1, <2>4, <2>5
    <3>2. i = k % n
      BY <1>7, <2>1, <3>1
    <3> QED
      BY <3>1, <3>2
  <2>6. ASSUME s.slot[k % n] = k PROVE r.slot[k % (2 * n)] = k
    <3>1. k % n \in Lands(k % (2 * n))
      BY <1>6, <2>1, <2>6
    <3> QED
      BY <1>8, <2>1, <2>6, <3>1
  <2> QED
    BY <2>2, <2>3, <2>5, <2>6
(* Of the handles a and a + n one has an empty slot. *)
<1>13. ~H!Full(r)
  <2>1. /\ a % (2 * n) \in 0 .. 2 * n - 1 /\ (a + n) % (2 * n) \in 0 .. 2 * n - 1
        /\ (a % (2 * n)) % n = a % n /\ ((a + n) % (2 * n)) % n = a % n
        /\ (a + n) % (2 * n) # a % (2 * n)
    <3>1. a \in Nat /\ a + n \in Nat
      BY <1>1
    <3> QED
      BY <1>1, <3>1, ModDouble
  <2>2. r.slot[a % (2 * n)] = Nil \/ r.slot[(a + n) % (2 * n)] = Nil
    <3> SUFFICES ASSUME r.slot[a % (2 * n)] # Nil, r.slot[(a + n) % (2 * n)] # Nil PROVE FALSE
      OBVIOUS
    <3>1. PICK i \in 0 .. n - 1 : i \in Lands(a % (2 * n))
      BY <1>10, <2>1
    <3>2. PICK k \in 0 .. n - 1 : k \in Lands((a + n) % (2 * n))
      BY <1>10, <2>1
    <3>3. i = a % n /\ k = a % n
      BY <1>7, <2>1, <3>1, <3>2
    <3>4. s.slot[i] % (2 * n) = a % (2 * n) /\ s.slot[k] % (2 * n) = (a + n) % (2 * n)
      BY <1>6, <2>1, <3>1, <3>2
    <3> QED
      BY <2>1, <3>3, <3>4
  <2>3. a \in a .. a + 2 * n - 1 /\ a + n \in a .. a + 2 * n - 1
    BY <1>1
  <2>4. \E h \in a .. a + 2 * n - 1 : r.slot[h % (2 * n)] = Nil
    BY <2>2, <2>3
  <2> QED
    BY <1>4, <2>4 DEF H!Full, H!Candidates, H!Hash
<1> QED
  BY <1>4, <1>11, <1>12, <1>13 DEF a, r

-----------------------------------------------------------------------------
(* Counting the users of a context. *)

Bit(p) == IF p THEN 1 ELSE 0

CallUse(t, h) == call[t].h = h /\ call[t].at \in {"push", "unref"}
LaunchUse(t, h) == launch[t].h = h /\ launch[t].at \in {"registered", "init"}
WorkUse(t, h) ==
  t \in Worker /\ worker[t].q = h /\ worker[t].at \in {"first", "more", "call", "yield", "back"}

(* How often thread t uses h. *)
Hands(t, h) == Bit(CallUse(t, h)) + Bit(LaunchUse(t, h)) + Bit(WorkUse(t, h))

(* Only thread t moves. *)
OnlyMoves(t) ==
  /\ \A u \in Thread : u # t => call'[u] = call[u] /\ launch'[u] = launch[u]
  /\ \A w \in Worker : w # t => worker'[w] = worker[w]

LEMMA CardStep ==
  ASSUME NEW T, IsFiniteSet(T), NEW A \in SUBSET T, NEW B \in SUBSET T, NEW t \in T,
         \A u \in T : u # t => (u \in A <=> u \in B)
  PROVE  /\ Cardinality(A) \in Nat /\ Cardinality(B) \in Nat
         /\ Cardinality(B) + Bit(t \in A) = Cardinality(A) + Bit(t \in B)
<1>1. IsFiniteSet(A) /\ IsFiniteSet(B)
  BY FS_Subset
<1>2. Cardinality(A) \in Nat /\ Cardinality(B) \in Nat
  BY <1>1, FS_CardinalityType
<1>3. CASE (t \in A) <=> (t \in B)
  <2>1. A = B
    BY <1>3
  <2> QED
    BY <1>2, <2>1 DEF Bit
<1>4. CASE t \in A /\ t \notin B
  <2>1. A = B \cup {t}
    BY <1>4
  <2>2. Cardinality(A) = Cardinality(B) + 1
    BY <1>1, <1>4, <2>1, FS_AddElement
  <2> QED
    BY <1>2, <1>4, <2>2 DEF Bit
<1>5. CASE t \notin A /\ t \in B
  <2>1. B = A \cup {t}
    BY <1>5
  <2>2. Cardinality(B) = Cardinality(A) + 1
    BY <1>1, <1>5, <2>1, FS_AddElement
  <2> QED
    BY <1>2, <1>5, <2>2 DEF Bit
<1> QED
  BY <1>3, <1>4, <1>5

(* The three sets of users. *)
Callers(h) == {t \in Thread : CallUse(t, h)}
Launchers(h) == {t \in Thread : LaunchUse(t, h)}
Workers(h) == {t \in Thread : WorkUse(t, h)}

LEMMA UsersSum ==
  ASSUME NEW h
  PROVE  Users(h) = Bit(H!Registered(hs, h)) + Cardinality(Callers(h))
                      + Cardinality(Launchers(h)) + Cardinality(Workers(h))
<1>1. Callers(h) = {t \in Thread : call[t].h = h /\ call[t].at \in {"push", "unref"}}
  BY DEF Callers, CallUse
<1>2. Launchers(h) = {t \in Thread : launch[t].h = h /\ launch[t].at \in {"registered", "init"}}
  BY DEF Launchers, LaunchUse
<1>3. Workers(h) = {w \in Worker : worker[w].q = h
                                   /\ worker[w].at \in {"first", "more", "call", "yield", "back"}}
  BY Constants DEF Workers, WorkUse
<1> QED
  BY <1>1, <1>2, <1>3 DEF Users, Bit

LEMMA UsersNat ==
  ASSUME NEW h, NEW t \in Thread
  PROVE  /\ Users(h) \in Nat /\ Hands(t, h) \in Nat
         /\ Users(h) >= Bit(H!Registered(hs, h)) + Hands(t, h)
<1>1. ASSUME NEW S \in SUBSET Thread
      PROVE  Cardinality(S) \in Nat /\ Cardinality(S) >= Bit(t \in S)
  <2>1. IsFiniteSet(S) /\ Cardinality(S) \in Nat
    BY Constants, FS_Subset, FS_CardinalityType
  <2>2. t \in S => Cardinality(S) # 0
    BY <2>1, FS_EmptySet
  <2> QED
    BY <2>1, <2>2 DEF Bit
<1>2. /\ Callers(h) \in SUBSET Thread /\ Launchers(h) \in SUBSET Thread
      /\ Workers(h) \in SUBSET Thread
      /\ (t \in Callers(h)) <=> CallUse(t, h)
      /\ (t \in Launchers(h)) <=> LaunchUse(t, h)
      /\ (t \in Workers(h)) <=> WorkUse(t, h)
  BY DEF Callers, Launchers, Workers
<1>3. /\ Cardinality(Callers(h)) \in Nat /\ Cardinality(Callers(h)) >= Bit(t \in Callers(h))
      /\ Cardinality(Launchers(h)) \in Nat /\ Cardinality(Launchers(h)) >= Bit(t \in Launchers(h))
      /\ Cardinality(Workers(h)) \in Nat /\ Cardinality(Workers(h)) >= Bit(t \in Workers(h))
  BY <1>1, <1>2
<1>4. /\ Bit(t \in Callers(h)) = Bit(CallUse(t, h)) /\ Bit(t \in Launchers(h)) = Bit(LaunchUse(t, h))
      /\ Bit(t \in Workers(h)) = Bit(WorkUse(t, h))
  BY <1>2 DEF Bit
<1>5. /\ Bit(CallUse(t, h)) \in Nat /\ Bit(LaunchUse(t, h)) \in Nat /\ Bit(WorkUse(t, h)) \in Nat
      /\ Bit(H!Registered(hs, h)) \in Nat
  BY DEF Bit
<1> QED
  BY <1>3, <1>4, <1>5, UsersSum DEF Hands

(* What a step of t does to the number of users. *)
LEMMA UsersStep ==
  ASSUME NEW t \in Thread, OnlyMoves(t), NEW h
  PROVE  /\ Users(h)' + Bit(H!Registered(hs, h)) + Hands(t, h)
              = Users(h) + Bit(H!Registered(hs, h))' + Hands(t, h)'
         /\ Users(h)' \in Nat
<1>1. /\ Callers(h) \in SUBSET Thread /\ Launchers(h) \in SUBSET Thread
      /\ Workers(h) \in SUBSET Thread
      /\ (t \in Callers(h)) <=> CallUse(t, h)
      /\ (t \in Launchers(h)) <=> LaunchUse(t, h)
      /\ (t \in Workers(h)) <=> WorkUse(t, h)
  BY DEF Callers, Launchers, Workers
<1>2. /\ Callers(h)' \in SUBSET Thread /\ Launchers(h)' \in SUBSET Thread
      /\ Workers(h)' \in SUBSET Thread
      /\ (t \in Callers(h)') <=> CallUse(t, h)'
      /\ (t \in Launchers(h)') <=> LaunchUse(t, h)'
      /\ (t \in Workers(h)') <=> WorkUse(t, h)'
  BY DEF Callers, Launchers, Workers
<1>3. ASSUME NEW u \in Thread, u # t
      PROVE  /\ (u \in Callers(h)) <=> (u \in Callers(h)')
             /\ (u \in Launchers(h)) <=> (u \in Launchers(h)')
             /\ (u \in Workers(h)) <=> (u \in Workers(h)')
  BY <1>3 DEF OnlyMoves, Callers, Launchers, Workers, CallUse, LaunchUse, WorkUse
<1>4. /\ Cardinality(Callers(h)) \in Nat /\ Cardinality(Callers(h)') \in Nat
      /\ Cardinality(Callers(h)') + Bit(t \in Callers(h))
           = Cardinality(Callers(h)) + Bit(t \in Callers(h)')
  BY <1>1, <1>2, <1>3, Constants, CardStep
<1>5. /\ Cardinality(Launchers(h)) \in Nat /\ Cardinality(Launchers(h)') \in Nat
      /\ Cardinality(Launchers(h)') + Bit(t \in Launchers(h))
           = Cardinality(Launchers(h)) + Bit(t \in Launchers(h)')
  BY <1>1, <1>2, <1>3, Constants, CardStep
<1>6. /\ Cardinality(Workers(h)) \in Nat /\ Cardinality(Workers(h)') \in Nat
      /\ Cardinality(Workers(h)') + Bit(t \in Workers(h))
           = Cardinality(Workers(h)) + Bit(t \in Workers(h)')
  BY <1>1, <1>2, <1>3, Constants, CardStep
<1>7. /\ Bit(t \in Callers(h)) = Bit(CallUse(t, h)) /\ Bit(t \in Launchers(h)) = Bit(LaunchUse(t, h))
      /\ Bit(t \in Workers(h)) = Bit(WorkUse(t, h))
      /\ Bit(t \in Callers(h)') = Bit(CallUse(t, h))'
      /\ Bit(t \in Launchers(h)') = Bit(LaunchUse(t, h))'
      /\ Bit(t \in Workers(h)') = Bit(WorkUse(t, h))'
  BY <1>1, <1>2 DEF Bit
<1>8. /\ Bit(CallUse(t, h)) \in Nat /\ Bit(LaunchUse(t, h)) \in Nat /\ Bit(WorkUse(t, h)) \in Nat
      /\ Bit(CallUse(t, h))' \in Nat /\ Bit(LaunchUse(t, h))' \in Nat /\ Bit(WorkUse(t, h))' \in Nat
      /\ Bit(H!Registered(hs, h)) \in Nat /\ Bit(H!Registered(hs, h))' \in Nat
  BY DEF Bit
<1>9. Users(h)' = Bit(H!Registered(hs, h))' + Cardinality(Callers(h)')
                    + Cardinality(Launchers(h)') + Cardinality(Workers(h)')
  <2>1. Callers(h)' = {u \in Thread : call'[u].h = h /\ call'[u].at \in {"push", "unref"}}
    BY DEF Callers, CallUse
  <2>2. Launchers(h)' = {u \in Thread : launch'[u].h = h
                                        /\ launch'[u].at \in {"registered", "init"}}
    BY DEF Launchers, LaunchUse
  <2>3. Workers(h)' = {w \in Worker : worker'[w].q = h
                         /\ worker'[w].at \in {"first", "more", "call", "yield", "back"}}
    BY Constants DEF Workers, WorkUse
  <2> QED
    BY <2>1, <2>2, <2>3 DEF Users, Bit
<1>10. Hands(t, h) = Bit(CallUse(t, h)) + Bit(LaunchUse(t, h)) + Bit(WorkUse(t, h))
  BY DEF Hands
<1>11. Hands(t, h)' = Bit(CallUse(t, h))' + Bit(LaunchUse(t, h))' + Bit(WorkUse(t, h))'
  BY DEF Hands
<1>12. Users(h) = Bit(H!Registered(hs, h)) + Cardinality(Callers(h))
                    + Cardinality(Launchers(h)) + Cardinality(Workers(h))
  BY UsersSum
<1>13. Users(h)' \in Nat
  BY <1>4, <1>5, <1>6, <1>8, <1>9
<1>14. Users(h)' + Bit(H!Registered(hs, h)) + Hands(t, h)
         = Users(h) + Bit(H!Registered(hs, h))' + Hands(t, h)'
  BY <1>4, <1>5, <1>6, <1>7, <1>8, <1>9, <1>10, <1>11, <1>12
<1> QED
  BY <1>13, <1>14

(* What is used is alive. *)
LEMMA InUse ==
  ASSUME Typed, Refs, NEW t \in Thread, NEW h \in Ctx,
         CallUse(t, h) \/ LaunchUse(t, h) \/ WorkUse(t, h) \/ H!Registered(hs, h)
  PROVE  Alive(h) /\ ctx[h] \in [handle : Nat, ref : Nat] /\ ctx[h].ref = Users(h) /\ ctx[h].ref > 0
<1>1. Users(h) \in Nat /\ Users(h) >= Bit(H!Registered(hs, h)) + Hands(t, h)
  BY UsersNat
<1>2. Bit(H!Registered(hs, h)) + Hands(t, h) >= 1
  BY DEF Hands, Bit
<1>3. Hands(t, h) \in Nat /\ Bit(H!Registered(hs, h)) \in Nat
  BY DEF Hands, Bit
<1>4. Users(h) # 0 /\ Users(h) > 0
  BY <1>1, <1>2, <1>3
<1>5. Alive(h) /\ ctx[h].ref = Users(h)
  BY <1>4 DEF Refs, RefAt
<1>6. ctx[h] \in [handle : Nat, ref : Nat]
  BY <1>5 DEF Typed, Alive
<1> QED
  BY <1>4, <1>5, <1>6

(* A context whose users a step of t does not change. *)
LEMMA UsersKept ==
  ASSUME NEW t \in Thread, OnlyMoves(t), NEW h,
         H!Registered(hs, h)' <=> H!Registered(hs, h), Hands(t, h)' = Hands(t, h)
  PROVE  Users(h)' = Users(h)
<1>1. Users(h)' + Bit(H!Registered(hs, h)) + Hands(t, h)
        = Users(h) + Bit(H!Registered(hs, h))' + Hands(t, h)'
  BY UsersStep
<1>2. Bit(H!Registered(hs, h))' = Bit(H!Registered(hs, h))
  BY DEF Bit
<1>3. Users(h) \in Nat /\ Hands(t, h) \in Nat /\ Bit(H!Registered(hs, h)) \in Nat
  BY UsersNat DEF Bit
<1>4. Users(h)' \in Nat
  BY UsersStep
<1> QED
  BY <1>1, <1>2, <1>3, <1>4

(* A context that a step of t has nothing to do with. *)
LEMMA RefsOther ==
  ASSUME Refs, NEW t \in Thread, OnlyMoves(t), NEW h \in Ctx,
         h \in DOMAIN ctx' <=> h \in DOMAIN ctx, ctx'[h] = ctx[h],
         H!Registered(hs, h)' <=> H!Registered(hs, h), Hands(t, h)' = Hands(t, h)
  PROVE  RefAt(h)'
<1>1. Users(h)' = Users(h)
  BY UsersKept
<1> QED
  BY <1>1 DEF Refs, RefAt, Alive

-----------------------------------------------------------------------------
(* Where a queue goes when thread t moves. *)

LEMMA HeldOthers ==
  ASSUME NEW t \in Thread, OnlyMoves(t), NEW h
  PROVE  \A u \in Thread : u # t => (HeldBy(u, h)' <=> HeldBy(u, h))
  BY DEF OnlyMoves, HeldBy

LEMMA OnceSame ==
  ASSUME NEW t \in Thread, OnlyMoves(t), NEW h, OnceAt(h),
         HeldBy(t, h)' <=> HeldBy(t, h), Listed(h)' <=> Listed(h), Marked(h)' <=> Marked(h),
         (h \in DOMAIN mq => mq[h].in_global \/ Empty(mq[h]))'
  PROVE  OnceAt(h)'
<1>1. \A u \in Thread : HeldBy(u, h)' <=> HeldBy(u, h)
  BY HeldOthers
<1> QED
  BY <1>1 DEF OnceAt, Held

(* From the list to t. *)
LEMMA OnceTaken ==
  ASSUME NEW t \in Thread, OnlyMoves(t), NEW h, OnceAt(h),
         Listed(h), ~Listed(h)', HeldBy(t, h)', Marked(h)' <=> Marked(h),
         (h \in DOMAIN mq => mq[h].in_global \/ Empty(mq[h]))'
  PROVE  OnceAt(h)'
<1>1. \A u \in Thread : u # t => ~HeldBy(u, h)'
  BY HeldOthers DEF OnceAt, Held
<1> QED
  BY <1>1 DEF OnceAt, Held

(* From t to the list. *)
LEMMA OnceLinked ==
  ASSUME NEW t \in Thread, OnlyMoves(t), NEW h, OnceAt(h),
         HeldBy(t, h), ~HeldBy(t, h)', Listed(h)', Marked(h)' <=> Marked(h),
         (h \in DOMAIN mq => mq[h].in_global \/ Empty(mq[h]))'
  PROVE  OnceAt(h)'
<1>1. \A u \in Thread : ~HeldBy(u, h)'
  BY HeldOthers DEF OnceAt, Held
<1> QED
  BY <1>1 DEF OnceAt, Held

(* Out of the hands of t. *)
LEMMA OnceLeft ==
  ASSUME NEW t \in Thread, OnlyMoves(t), NEW h, OnceAt(h),
         HeldBy(t, h), ~HeldBy(t, h)', Listed(h)' <=> Listed(h), ~Marked(h)',
         (h \in DOMAIN mq => mq[h].in_global \/ Empty(mq[h]))'
  PROVE  OnceAt(h)'
<1>1. \A u \in Thread : ~HeldBy(u, h)'
  BY HeldOthers DEF OnceAt, Held
<1> QED
  BY <1>1 DEF OnceAt, Held

(* A queue that is nowhere, into the list. *)
LEMMA OnceListed ==
  ASSUME NEW t \in Thread, OnlyMoves(t), NEW h, OnceAt(h), ~Marked(h),
         HeldBy(t, h)' <=> HeldBy(t, h), Listed(h)', Marked(h)',
         (h \in DOMAIN mq => mq[h].in_global \/ Empty(mq[h]))'
  PROVE  OnceAt(h)'
<1>1. \A u \in Thread : ~HeldBy(u, h)'
  BY HeldOthers DEF OnceAt, Held
<1> QED
  BY <1>1 DEF OnceAt, Held

(* A queue that is nowhere, into the hands of t. *)
LEMMA OnceMade ==
  ASSUME NEW t \in Thread, OnlyMoves(t), NEW h, OnceAt(h), ~Marked(h),
         HeldBy(t, h)', Listed(h)' <=> Listed(h), Marked(h)',
         (h \in DOMAIN mq => mq[h].in_global \/ Empty(mq[h]))'
  PROVE  OnceAt(h)'
<1>1. \A u \in Thread : u # t => ~HeldBy(u, h)'
  BY HeldOthers DEF OnceAt, Held
<1> QED
  BY <1>1 DEF OnceAt, Held

(* skynet_globalmq_push. *)
LEMMA ListAppend ==
  ASSUME gq \in Seq(Ctx), Distinct, NEW h \in Ctx, gq' = Append(gq, h)
  PROVE  /\ gq' \in Seq(Ctx)
         /\ \A k : Listed(k)' <=> k = h \/ Listed(k)
         /\ ~Listed(h) => Distinct'
<1>1. Len(gq) \in Nat /\ DOMAIN gq = 1 .. Len(gq)
  BY LenProperties
<1>2. /\ gq' \in Seq(Ctx) /\ Len(gq') = Len(gq) + 1
      /\ \A i \in 1 .. Len(gq) : gq'[i] = gq[i]
      /\ gq'[Len(gq) + 1] = h
  BY AppendProperties
<1>3. DOMAIN gq' = 1 .. Len(gq) + 1
  BY <1>2, LenProperties
<1>4. \A i \in 1 .. Len(gq) + 1 : i = Len(gq) + 1 \/ i \in 1 .. Len(gq)
  BY <1>1
<1>5. Len(gq) + 1 \in 1 .. Len(gq) + 1 /\ \A i \in 1 .. Len(gq) : i \in 1 .. Len(gq) + 1
  BY <1>1
<1>6. ASSUME NEW k PROVE Listed(k)' <=> k = h \/ Listed(k)
  BY <1>1, <1>2, <1>3, <1>4, <1>5 DEF Listed
<1>7. ASSUME ~Listed(h) PROVE Distinct'
  BY <1>1, <1>2, <1>3, <1>4, <1>5, <1>7 DEF Listed, Distinct
<1> QED
  BY <1>2, <1>6, <1>7

(* skynet_globalmq_pop. *)
LEMMA ListTail ==
  ASSUME gq \in Seq(Ctx), Distinct, gq # << >>, gq' = Tail(gq)
  PROVE  /\ gq' \in Seq(Ctx) /\ Head(gq) \in Ctx /\ Listed(Head(gq))
         /\ \A k : Listed(k)' <=> k # Head(gq) /\ Listed(k)
         /\ Distinct'
<1>1. Len(gq) \in Nat \ {0} /\ DOMAIN gq = 1 .. Len(gq)
  BY LenProperties, EmptySeq
<1>2. /\ gq' \in Seq(Ctx) /\ Len(gq') = Len(gq) - 1 /\ Head(gq) \in Ctx
      /\ \A i \in 1 .. Len(gq) - 1 : gq'[i] = gq[i + 1]
  BY HeadTailProperties
<1>3. DOMAIN gq' = 1 .. Len(gq) - 1
  BY <1>2, LenProperties
<1>4. 1 \in DOMAIN gq /\ gq[1] = Head(gq)
  BY <1>1
<1>5. \A i \in 1 .. Len(gq) - 1 : i + 1 \in 1 .. Len(gq) /\ i + 1 # 1
  BY <1>1
<1>6. \A i \in 1 .. Len(gq) : i # 1 => i - 1 \in 1 .. Len(gq) - 1 /\ (i - 1) + 1 = i
  BY <1>1
<1>7. ASSUME NEW k, Listed(k)' PROVE k # Head(gq) /\ Listed(k)
  <2>1. PICK i \in 1 .. Len(gq) - 1 : gq'[i] = k
    BY <1>3, <1>7 DEF Listed
  <2>2. i + 1 \in DOMAIN gq /\ gq[i + 1] = k /\ i + 1 # 1
    BY <1>1, <1>2, <1>5, <2>1
  <2> QED
    BY <1>4, <2>2 DEF Distinct, Listed
<1>8. ASSUME NEW k, k # Head(gq), Listed(k) PROVE Listed(k)'
  <2>1. PICK i \in 1 .. Len(gq) : gq[i] = k
    BY <1>1, <1>8 DEF Listed
  <2>2. i # 1
    BY <1>4, <1>8, <2>1
  <2>3. i - 1 \in 1 .. Len(gq) - 1 /\ gq'[i - 1] = k
    BY <1>2, <1>6, <2>1, <2>2
  <2> QED
    BY <1>3, <2>3 DEF Listed
<1>9. Distinct'
  <2> SUFFICES ASSUME NEW i \in 1 .. Len(gq) - 1, NEW j \in 1 .. Len(gq) - 1, gq'[i] = gq'[j]
               PROVE  i = j
    BY <1>3 DEF Distinct
  <2>1. gq[i + 1] = gq[j + 1] /\ i + 1 \in DOMAIN gq /\ j + 1 \in DOMAIN gq
    BY <1>1, <1>2, <1>5
  <2>2. i + 1 = j + 1
    BY <2>1 DEF Distinct
  <2> QED
    BY <1>1, <2>2
<1> QED
  BY <1>2, <1>4, <1>7, <1>8, <1>9 DEF Listed

-----------------------------------------------------------------------------
(* skynet_context_push, skynet_context_release, delete_context. *)

(* The context and the queue a call works on. *)
LEMMA CallFacts ==
  ASSUME IInv, NEW t \in Thread, call[t].at # "ret"
  PROVE  LET h == call[t].h IN
         /\ h \in Ctx /\ h \in DOMAIN ctx /\ Alive(h) /\ ctx[h].handle = h /\ h # 0
         /\ ctx[h] \in [handle : Nat, ref : Nat]
         /\ h \in DOMAIN mq /\ Ring(mq[h], Msg) /\ ~mq[h].release /\ OnceAt(h)
<1> DEFINE h == call[t].h
<1>1. Alive(h) /\ ctx[h].handle = h
  BY DEF IInv, Uses, Calls, Drops
<1>2. h \in DOMAIN ctx /\ h \in Ctx
  BY <1>1 DEF Alive, IInv, Typed
<1>3. ctx[h] \in [handle : Nat, ref : Nat]
  BY <1>1, <1>2 DEF Alive, IInv, Typed
<1>4. h \in DOMAIN mq /\ ~mq[h].release
  BY <1>1, <1>2 DEF IInv, Linked
<1>5. Ring(mq[h], Msg) /\ OnceAt(h)
  BY <1>2, <1>4 DEF IInv, Typed, Once
<1>6. h # 0
  BY <1>2, Constants
<1> QED
  BY <1>1, <1>2, <1>3, <1>4, <1>5, <1>6

LEMMA context_pushStep ==
  ASSUME IInv, NEW t \in Thread, context_push(t)
  PROVE  IInv'
<1> DEFINE h == call[t].h
           p == mq_push(mq[h], call[t].msg)
           r == [p EXCEPT !.in_global = TRUE]
<1>1. call[t].at = "push" /\ call[t].msg \in Msg
  BY DEF context_push, IInv, Uses, Calls, Drops
<1>2. /\ h \in Ctx /\ h \in DOMAIN ctx /\ Alive(h) /\ ctx[h].handle = h
      /\ h \in DOMAIN mq /\ Ring(mq[h], Msg) /\ ~mq[h].release /\ OnceAt(h)
  BY <1>1, CallFacts
<1>3. Ring(p, Msg) /\ SameFlags(p, mq[h])
  BY <1>1, <1>2, RingPush
<1>4. Ring(r, Msg) /\ r.in_global = TRUE /\ ~r.release
  <2>1. TRUE \in BOOLEAN
    OBVIOUS
  <2>2. Ring(r, Msg) /\ r.in_global = TRUE /\ r.release = p.release
    BY ZenonT(60), <1>3, <2>1, RingFlags
  <2> QED
    BY <1>2, <1>3, <2>2 DEF SameFlags
<1> HIDE DEF p, r
<1>5. /\ mq' = [mq EXCEPT ![h] = r]
      /\ gq' = IF mq[h].in_global THEN gq ELSE Append(gq, h)
      /\ call' = [call EXCEPT ![t] = [at |-> "unref", h |-> h, msg |-> Nil]]
      /\ hs' = hs /\ ctx' = ctx /\ worker' = worker /\ launch' = launch
      /\ sent' = sent /\ quit' = quit
  BY DEF context_push, Unref, p, r
<1>6. /\ DOMAIN mq' = DOMAIN mq /\ mq'[h] = r
      /\ \A k \in DOMAIN mq : k # h => mq'[k] = mq[k]
      /\ mq' = [k \in DOMAIN mq' |-> mq'[k]]
  BY <1>2, <1>5 DEF IInv, Typed
<1>7. /\ call' \in [Thread -> [at : CallPlace, h : 0 .. MaxCtx, msg : Msg \cup {Nil}]]
      /\ call'[t] = [at |-> "unref", h |-> h, msg |-> Nil]
      /\ \A u \in Thread : u # t => call'[u] = call[u]
  BY <1>2, <1>5, Constants DEF IInv, Typed, CallPlace, Ctx
<1>8. OnlyMoves(t)
  BY <1>5, <1>7 DEF OnlyMoves
<1>9. /\ gq' \in Seq(Ctx) /\ Distinct'
      /\ \A k : Listed(k)' <=> Listed(k) \/ (k = h /\ ~mq[h].in_global)
  <2>1. CASE mq[h].in_global
    BY <1>5, <2>1 DEF IInv, Typed, Once, Listed, Distinct
  <2>2. CASE ~mq[h].in_global
    <3>1. ~Listed(h)
      BY <1>2, <2>2 DEF OnceAt, Marked
    <3> QED
      BY <1>2, <1>5, <2>2, <3>1, ListAppend DEF IInv, Typed, Once
  <2> QED
    BY <2>1, <2>2
<1>10. Typed'
  BY <1>2, <1>4, <1>5, <1>6, <1>7, <1>9 DEF IInv, Typed
<1>11. Stack'
  BY <1>5 DEF IInv, Stack
<1>12. Once'
  <2> SUFFICES ASSUME NEW k \in Ctx PROVE OnceAt(k)'
    BY <1>9 DEF Once
  <2>1. OnceAt(k) /\ (HeldBy(t, k)' <=> HeldBy(t, k))
    BY <1>5 DEF IInv, Once, HeldBy
  <2>2. CASE k # h
    <3>1. (Listed(k)' <=> Listed(k)) /\ (Marked(k)' <=> Marked(k))
      BY <1>6, <1>9, <2>2 DEF Marked
    <3>2. (k \in DOMAIN mq => mq[k].in_global \/ Empty(mq[k]))'
      BY <1>6, <2>1, <2>2 DEF OnceAt
    <3> QED
      BY <1>8, <2>1, <3>1, <3>2, OnceSame
  <2>3. CASE k = h
    <3>1. Marked(k)' /\ (k \in DOMAIN mq => mq[k].in_global \/ Empty(mq[k]))'
      BY <1>2, <1>4, <1>6, <2>3 DEF Marked
    <3>2. CASE mq[h].in_global
      <4>1. Marked(k) /\ (Listed(k)' <=> Listed(k))
        BY <1>2, <1>9, <2>3, <3>2 DEF Marked
      <4> QED
        BY <1>8, <2>1, <3>1, <4>1, OnceSame
    <3>3. CASE ~mq[h].in_global
      <4>1. ~Marked(k) /\ Listed(k)'
        BY <1>2, <1>9, <2>3, <3>3 DEF Marked
      <4> QED
        BY <1>8, <2>1, <3>1, <4>1, OnceListed
    <3> QED
      BY <3>2, <3>3
  <2> QED
    BY <2>2, <2>3
<1>13. Refs'
  <2> SUFFICES ASSUME NEW k \in Ctx PROVE RefAt(k)'
    BY DEF Refs
  <2>1. Hands(t, k)' = Hands(t, k)
    BY <1>1, <1>5, <1>7 DEF Hands, Bit, CallUse, LaunchUse, WorkUse
  <2>2. H!Registered(hs, k)' <=> H!Registered(hs, k)
    BY <1>5
  <2> QED
    BY <1>5, <1>8, <2>1, <2>2, RefsOther DEF IInv
<1>14. Linked'
  BY <1>2, <1>4, <1>5, <1>6 DEF IInv, Linked, Alive
<1>15. Uses'
  BY <1>1, <1>2, <1>4, <1>5, <1>6, <1>7 DEF IInv, Uses, Calls, Drops, Alive, Linked
<1>16. Given'
  BY <1>5 DEF IInv, Given
<1> QED
  BY <1>10, <1>11, <1>12, <1>13, <1>14, <1>15, <1>16 DEF IInv

LEMMA context_releaseStep ==
  ASSUME IInv, NEW t \in Thread, context_release(t)
  PROVE  IInv'
<1> DEFINE h == call[t].h
           n == ctx[h].ref
<1>1. call[t].at = "unref" /\ CallUse(t, h)
  BY DEF context_release, CallUse
<1>2. /\ h \in Ctx /\ h \in DOMAIN ctx /\ Alive(h) /\ ctx[h].handle = h /\ h # 0
      /\ ctx[h] \in [handle : Nat, ref : Nat]
  BY <1>1, CallFacts
<1>3. n \in Nat \ {0} /\ n = Users(h)
  BY <1>1, <1>2, InUse DEF IInv
<1>4. /\ ctx' = [ctx EXCEPT ![h].ref = @ - 1]
      /\ call' = [call EXCEPT ![t] = IF n = 1 THEN [@ EXCEPT !.at = "delete"] ELSE Free]
      /\ hs' = hs /\ mq' = mq /\ gq' = gq /\ worker' = worker /\ launch' = launch
      /\ sent' = sent /\ quit' = quit
  BY DEF context_release
<1> HIDE DEF n
<1>5. /\ DOMAIN ctx' = DOMAIN ctx /\ ctx'[h] = [handle |-> h, ref |-> n - 1]
      /\ \A k \in DOMAIN ctx : k # h => ctx'[k] = ctx[k]
      /\ ctx' \in [DOMAIN ctx' -> [handle : Nat, ref : Nat] \cup {Nil}]
  <2>1. ctx'[h] = [ctx[h] EXCEPT !.ref = n - 1] /\ DOMAIN ctx' = DOMAIN ctx
    BY <1>2, <1>4 DEF n, IInv, Typed
  <2>2. ctx'[h] = [handle |-> h, ref |-> n - 1] /\ n - 1 \in Nat
    BY <1>2, <1>3, <2>1
  <2> QED
    BY <1>2, <1>4, <2>1, <2>2 DEF IInv, Typed
<1>6. ctx'[h].handle = h /\ ctx'[h].ref = n - 1 /\ ctx'[h] # Nil
  <2>1. ctx'[h] \in [handle : Nat, ref : Nat]
    BY <1>2, <1>3, <1>5
  <2> QED
    BY <1>5, <2>1, Constants
<1>7. \A k : Alive(k)' <=> Alive(k)
  BY <1>2, <1>5, <1>6 DEF Alive
<1>8. /\ call' \in [Thread -> [at : CallPlace, h : 0 .. MaxCtx, msg : Msg \cup {Nil}]]
      /\ n = 1 => call'[t].at = "delete" /\ call'[t].h = h
      /\ n # 1 => call'[t] = Free
      /\ \A u \in Thread : u # t => call'[u] = call[u]
  <2> DEFINE c == IF n = 1 THEN [call[t] EXCEPT !.at = "delete"] ELSE Free
             S == [at : CallPlace, h : 0 .. MaxCtx, msg : Msg \cup {Nil}]
  <2>1. call \in [Thread -> S] /\ call' = [call EXCEPT ![t] = c]
    BY <1>4 DEF IInv, Typed
  <2>2. c \in S /\ (n = 1 => c.at = "delete" /\ c.h = h) /\ (n # 1 => c = Free)
    BY <2>1, Constants DEF CallPlace, Free
  <2> HIDE DEF c, S
  <2>3. call' \in [Thread -> S] /\ call'[t] = c /\ \A u \in Thread : u # t => call'[u] = call[u]
    BY <2>1, <2>2
  <2> QED
    BY <2>2, <2>3 DEF S
<1>9. OnlyMoves(t)
  BY <1>4, <1>8 DEF OnlyMoves
<1>10. Typed'
  BY <1>4, <1>5, <1>8 DEF IInv, Typed
<1>11. Stack' /\ Once' /\ Given'
  BY <1>4, <1>5 DEF IInv, Stack, Once, OnceAt, Distinct, Listed, Held, HeldBy, Marked, Given
<1>12. Refs'
  <2> SUFFICES ASSUME NEW k \in Ctx PROVE RefAt(k)'
    BY DEF Refs
  <2>1. H!Registered(hs, k)' <=> H!Registered(hs, k)
    BY <1>4
  <2>2. CASE k # h
    <3>1. Hands(t, k)' = Hands(t, k)
      BY <1>1, <1>4, <1>8, <2>2 DEF Hands, Bit, CallUse, LaunchUse, WorkUse, Free
    <3>2. (k \in DOMAIN ctx' <=> k \in DOMAIN ctx) /\ ctx'[k] = ctx[k]
      BY <1>4, <1>5, <2>2
    <3> QED
      BY <1>9, <2>1, <3>1, <3>2, RefsOther DEF IInv
  <2>3. CASE k = h
    <3>1. Hands(t, k)' + 1 = Hands(t, k)
      BY <1>1, <1>4, <1>8, <2>3 DEF Hands, Bit, CallUse, LaunchUse, WorkUse, Free
    <3>2. Users(k)' + Bit(H!Registered(hs, k)) + Hands(t, k)
            = Users(k) + Bit(H!Registered(hs, k))' + Hands(t, k)'
      BY <1>9, UsersStep
    <3>3. Bit(H!Registered(hs, k))' = Bit(H!Registered(hs, k)) /\ Bit(H!Registered(hs, k)) \in Nat
      BY <2>1 DEF Bit
    <3>4. Hands(t, k)' \in Nat /\ Hands(t, k) \in Nat
      BY DEF Hands, Bit
    <3>5. Users(k)' \in Nat
      BY <1>9, UsersStep
    <3>6. Users(k)' = n - 1
      BY <1>3, <2>3, <3>1, <3>2, <3>3, <3>4, <3>5
    <3> QED
      BY <1>2, <1>6, <1>7, <2>3, <3>6 DEF RefAt
  <2> QED
    BY <2>2, <2>3
<1>13. Linked'
  BY SMTT(60), ZenonT(60), <1>2, <1>4, <1>5, <1>6, <1>7 DEF IInv, Linked
<1>14. Uses'
  <2>1. ASSUME NEW u \in Thread, call[u].at = "delete" PROVE call[u].h # h
    BY <1>3, <2>1 DEF IInv, Uses, Calls, Drops, n
  <2>2. \A u \in Thread : u # t /\ call[u].at # "ret" => call[u].h \in DOMAIN ctx
    BY DEF IInv, Uses, Calls, Drops, Alive
  <2>3. \A u \in Thread : call'[u].at # "ret" =>
          Alive(call[u].h)' /\ ctx'[call'[u].h].handle = call'[u].h /\ call'[u].h = call[u].h
    BY <1>2, <1>5, <1>6, <1>7, <1>8, <2>2 DEF IInv, Uses, Calls, Drops, Free
  <2>4. \A u \in Thread : call'[u].at = "delete" => ctx'[call'[u].h].ref = 0
    BY <1>2, <1>3, <1>5, <1>6, <1>8, <2>1, <2>2 DEF IInv, Uses, Calls, Drops, Free
  <2>5. \A u, v \in Thread : call'[u].at = "delete" /\ call'[v].at = "delete"
                             /\ call'[u].h = call'[v].h => u = v
    BY <1>8, <2>1 DEF IInv, Uses, Calls, Drops, Free
  <2>6. \A u \in Thread : call'[u].at = "push" => call'[u].msg \in Msg
    BY <1>8 DEF IInv, Uses, Calls, Drops, Free
  <2>7. \A u \in Thread : call'[u].at # "ret" => Alive(call[u].h)' /\ call'[u].h = call[u].h
    BY <2>3
  <2> QED
    BY <1>4, <2>3, <2>4, <2>5, <2>6 DEF IInv, Uses, Calls, Drops, Alive
<1> QED
  BY <1>10, <1>11, <1>12, <1>13, <1>14 DEF IInv

LEMMA delete_contextStep ==
  ASSUME IInv, NEW t \in Thread, delete_context(t)
  PROVE  IInv'
<1> DEFINE h == call[t].h
           r == [mq[h] EXCEPT !.release = TRUE]
<1>1. call[t].at = "delete"
  BY DEF delete_context
<1>2. /\ h \in Ctx /\ h \in DOMAIN ctx /\ Alive(h) /\ ctx[h].handle = h /\ h # 0
      /\ h \in DOMAIN mq /\ Ring(mq[h], Msg) /\ ~mq[h].release /\ OnceAt(h)
  BY <1>1, CallFacts
<1>3. Users(h) = 0
  BY <1>1, <1>2 DEF IInv, Uses, Calls, Drops, Refs, RefAt
<1>4. /\ Ring(r, Msg) /\ r.release = TRUE /\ r.in_global = mq[h].in_global
      /\ Empty(r) <=> Empty(mq[h])
  <2> DEFINE q == mq[h]
  <2>1. Ring(q, Msg) /\ r = [q EXCEPT !.release = TRUE] /\ TRUE \in BOOLEAN
    BY <1>2
  <2> HIDE DEF q, r
  <2>2. Ring(r, Msg) /\ r.release = TRUE /\ r.in_global = q.in_global /\ (Empty(r) <=> Empty(q))
    BY ZenonT(60), <2>1, RingFlags
  <2> QED
    BY <2>2 DEF q
<1> HIDE DEF r
<1>5. /\ mq' = [mq EXCEPT ![h] = r]
      /\ gq' = IF mq[h].in_global THEN gq ELSE Append(gq, h)
      /\ ctx' = [ctx EXCEPT ![h] = Nil]
      /\ call' = [call EXCEPT ![t] = Free]
      /\ hs' = hs /\ worker' = worker /\ launch' = launch /\ sent' = sent /\ quit' = quit
  BY DEF delete_context, r
<1>6. /\ DOMAIN mq' = DOMAIN mq /\ mq'[h] = r
      /\ \A k \in DOMAIN mq : k # h => mq'[k] = mq[k]
      /\ mq' = [k \in DOMAIN mq' |-> mq'[k]]
  BY <1>2, <1>5 DEF IInv, Typed
<1>7. /\ DOMAIN ctx' = DOMAIN ctx /\ ctx'[h] = Nil
      /\ \A k \in DOMAIN ctx : k # h => ctx'[k] = ctx[k]
      /\ ctx' \in [DOMAIN ctx' -> [handle : Nat, ref : Nat] \cup {Nil}]
  BY <1>2, <1>5 DEF IInv, Typed
<1>8. \A k : Alive(k)' <=> Alive(k) /\ k # h
  BY <1>7 DEF Alive
<1>9. /\ call' \in [Thread -> [at : CallPlace, h : 0 .. MaxCtx, msg : Msg \cup {Nil}]]
      /\ call'[t] = Free
      /\ \A u \in Thread : u # t => call'[u] = call[u]
  BY <1>5, Constants DEF IInv, Typed, CallPlace, Free
<1>10. OnlyMoves(t)
  BY <1>5, <1>9 DEF OnlyMoves
<1>11. /\ gq' \in Seq(Ctx) /\ Distinct'
       /\ \A k : Listed(k)' <=> Listed(k) \/ (k = h /\ ~mq[h].in_global)
  <2>1. CASE mq[h].in_global
    BY <1>5, <2>1 DEF IInv, Typed, Once, Listed, Distinct
  <2>2. CASE ~mq[h].in_global
    <3>1. ~Listed(h)
      BY <1>2, <2>2 DEF OnceAt, Marked
    <3> QED
      BY <1>2, <1>5, <2>2, <3>1, ListAppend DEF IInv, Typed, Once
  <2> QED
    BY <2>1, <2>2
<1>12. Typed'
  BY <1>2, <1>4, <1>5, <1>6, <1>7, <1>9, <1>11 DEF IInv, Typed
<1>13. Stack' /\ Given'
  BY <1>5, <1>7 DEF IInv, Stack, Given
<1>14. Once'
  <2> SUFFICES ASSUME NEW k \in Ctx PROVE OnceAt(k)'
    BY <1>11 DEF Once
  <2>1. OnceAt(k) /\ (HeldBy(t, k)' <=> HeldBy(t, k))
    BY <1>5 DEF IInv, Once, HeldBy
  <2>2. CASE k # h
    <3>1. (Listed(k)' <=> Listed(k)) /\ (Marked(k)' <=> Marked(k))
      BY <1>6, <1>11, <2>2 DEF Marked
    <3>2. (k \in DOMAIN mq => mq[k].in_global \/ Empty(mq[k]))'
      BY <1>6, <2>1, <2>2 DEF OnceAt
    <3> QED
      BY <1>10, <2>1, <3>1, <3>2, OnceSame
  <2>3. CASE k = h
    <3>1. Marked(k)' /\ (k \in DOMAIN mq => mq[k].in_global \/ Empty(mq[k]))'
      BY <1>2, <1>4, <1>6, <2>1, <2>3 DEF Marked, OnceAt
    <3>2. CASE mq[h].in_global
      <4>1. Marked(k) /\ (Listed(k)' <=> Listed(k))
        BY <1>2, <1>11, <2>3, <3>2 DEF Marked
      <4> QED
        BY <1>10, <2>1, <3>1, <4>1, OnceSame
    <3>3. CASE ~mq[h].in_global
      <4>1. ~Marked(k) /\ Listed(k)'
        BY <1>2, <1>11, <2>3, <3>3 DEF Marked
      <4> QED
        BY <1>10, <2>1, <3>1, <4>1, OnceListed
    <3> QED
      BY <3>2, <3>3
  <2> QED
    BY <2>2, <2>3
<1>15. Refs'
  <2> SUFFICES ASSUME NEW k \in Ctx PROVE RefAt(k)'
    BY DEF Refs
  <2>1. Hands(t, k)' = Hands(t, k)
    BY <1>1, <1>5, <1>9 DEF Hands, Bit, CallUse, LaunchUse, WorkUse, Free
  <2>2. H!Registered(hs, k)' <=> H!Registered(hs, k)
    BY <1>5
  <2>3. CASE k # h
    <3>1. (k \in DOMAIN ctx' <=> k \in DOMAIN ctx) /\ ctx'[k] = ctx[k]
      BY <1>5, <1>7, <2>3
    <3> QED
      BY <1>10, <2>1, <2>2, <3>1, RefsOther DEF IInv
  <2>4. CASE k = h
    <3>1. Users(k)' = Users(k)
      BY <1>10, <2>1, <2>2, UsersKept
    <3> QED
      BY <1>3, <1>8, <2>4, <3>1 DEF RefAt
  <2> QED
    BY <2>3, <2>4
<1>16. Linked'
  <2>1. \A u \in Thread : launch[u].at = "registered" => launch[u].h # h
    BY <1>2 DEF IInv, Linked
  <2> QED
    BY <1>2, <1>4, <1>5, <1>6, <1>7, <1>8, <2>1 DEF IInv, Linked
(* Nobody else is in a call about a context without users. *)
<1>17. ASSUME NEW u \in Thread, u # t, call[u].at # "ret" PROVE call[u].h # h
  <2> SUFFICES ASSUME call[u].h = h PROVE FALSE
    OBVIOUS
  <2>1. call[u].at # "delete"
    BY <1>1, <1>17 DEF IInv, Uses, Calls, Drops
  <2>2. call[u].at \in {"push", "unref"}
    BY <1>17, <2>1 DEF IInv, Typed, CallPlace
  <2>3. CallUse(u, h)
    BY <2>2 DEF CallUse
  <2> QED
    BY <1>2, <1>3, <2>3, InUse DEF IInv
<1>18. Uses'
  <2>1. \A u \in Thread : call'[u].at # "ret" => u # t /\ call'[u] = call[u] /\ call[u].h # h
    BY <1>9, <1>17 DEF Free
  <2>2. \A u \in Thread : call[u].at # "ret" => call[u].h \in DOMAIN ctx
    BY DEF IInv, Uses, Calls, Drops, Alive
  <2> QED
    BY <1>4, <1>5, <1>6, <1>7, <1>8, <2>1, <2>2 DEF IInv, Uses, Calls, Drops
<1> QED
  BY <1>12, <1>13, <1>14, <1>15, <1>16, <1>18 DEF IInv

-----------------------------------------------------------------------------
(* The beginnings of calls. *)

(* skynet_handle_grab finds contexts that are alive. *)
LEMMA FoundFacts ==
  ASSUME IInv, NEW h \in Ctx, Found(h), Thread # {}
  PROVE  /\ H!Registered(hs, h) /\ Alive(h) /\ h \in DOMAIN ctx /\ ctx[h].handle = h /\ h # 0
         /\ ctx[h] \in [handle : Nat, ref : Nat] /\ ctx[h].ref = Users(h) /\ ctx[h].ref > 0
<1>1. H!Registered(hs, h) /\ ctx[h].handle = h
  BY DEF Found
<1>2. /\ Alive(h) /\ ctx[h] \in [handle : Nat, ref : Nat]
      /\ ctx[h].ref = Users(h) /\ ctx[h].ref > 0
  BY <1>1, InUse DEF IInv
<1>3. h \in DOMAIN ctx /\ h # 0
  BY <1>2, Constants DEF Alive
<1> QED
  BY <1>1, <1>2, <1>3

(* One reference more. *)
LEMMA GrabFacts ==
  ASSUME IInv, NEW h \in Ctx, Found(h), Thread # {}, grab(h)
  PROVE  /\ DOMAIN ctx' = DOMAIN ctx
         /\ ctx' \in [DOMAIN ctx' -> [handle : Nat, ref : Nat] \cup {Nil}]
         /\ ctx'[h].handle = h /\ ctx'[h].ref = ctx[h].ref + 1
         /\ \A k \in DOMAIN ctx : k # h => ctx'[k] = ctx[k]
         /\ \A k : Alive(k)' <=> Alive(k)
         /\ \A k \in DOMAIN ctx : Alive(k) => ctx'[k].handle = ctx[k].handle
<1>1. /\ Alive(h) /\ h \in DOMAIN ctx /\ ctx[h].handle = h
      /\ ctx[h] \in [handle : Nat, ref : Nat]
  BY FoundFacts
<1>2. ctx \in [DOMAIN ctx -> [handle : Nat, ref : Nat] \cup {Nil}]
  BY DEF IInv, Typed
<1>3. /\ DOMAIN ctx' = DOMAIN ctx /\ ctx'[h] = [ctx[h] EXCEPT !.ref = ctx[h].ref + 1]
      /\ \A k \in DOMAIN ctx : k # h => ctx'[k] = ctx[k]
      /\ ctx' = [k \in DOMAIN ctx |-> ctx'[k]]
  BY <1>1, <1>2 DEF grab
<1>4. /\ ctx'[h] \in [handle : Nat, ref : Nat]
      /\ ctx'[h].handle = h /\ ctx'[h].ref = ctx[h].ref + 1
  BY <1>1, <1>3
<1>5. ctx'[h] # Nil
  BY <1>4, Constants
<1>6. \A k : Alive(k)' <=> Alive(k)
  BY <1>1, <1>3, <1>5 DEF Alive
<1>7. \A k \in DOMAIN ctx : ctx'[k] \in [handle : Nat, ref : Nat] \cup {Nil}
  BY <1>2, <1>3, <1>4
<1> QED
  BY <1>1, <1>3, <1>4, <1>6, <1>7

LEMMA PostsFacts ==
  ASSUME IInv, NEW t \in Thread, Returned(t), NEW h \in Ctx, NEW m \in Msg, Posts(t, h, m),
         hs' = hs, worker' = worker, launch' = launch
  PROVE  /\ OnlyMoves(t)
         /\ call' \in [Thread -> [at : CallPlace, h : 0 .. MaxCtx, msg : Msg \cup {Nil}]]
         /\ DOMAIN ctx' = DOMAIN ctx
         /\ ctx' \in [DOMAIN ctx' -> [handle : Nat, ref : Nat] \cup {Nil}]
         /\ \A k : Alive(k)' <=> Alive(k)
         /\ \A k \in DOMAIN ctx : Alive(k) => ctx'[k].handle = ctx[k].handle
         /\ Refs' /\ Calls'
<1>1. /\ H!Registered(hs, h) /\ Alive(h) /\ h \in DOMAIN ctx /\ ctx[h].handle = h /\ h # 0
      /\ ctx[h].ref \in Nat /\ ctx[h].ref = Users(h) /\ ctx[h].ref > 0
  BY FoundFacts DEF Posts
<1>2. /\ DOMAIN ctx' = DOMAIN ctx
      /\ ctx' \in [DOMAIN ctx' -> [handle : Nat, ref : Nat] \cup {Nil}]
      /\ ctx'[h].handle = h /\ ctx'[h].ref = ctx[h].ref + 1
      /\ \A k \in DOMAIN ctx : k # h => ctx'[k] = ctx[k]
      /\ \A k : Alive(k)' <=> Alive(k)
      /\ \A k \in DOMAIN ctx : Alive(k) => ctx'[k].handle = ctx[k].handle
  BY GrabFacts DEF Posts
<1>3. /\ call' \in [Thread -> [at : CallPlace, h : 0 .. MaxCtx, msg : Msg \cup {Nil}]]
      /\ call'[t] = [at |-> "push", h |-> h, msg |-> m]
      /\ \A u \in Thread : u # t => call'[u] = call[u]
  BY Constants DEF Posts, IInv, Typed, CallPlace, Ctx
<1>4. OnlyMoves(t)
  BY <1>3 DEF OnlyMoves
<1>5. call[t].at = "ret"
  BY DEF Returned
<1>6. Refs'
  <2> SUFFICES ASSUME NEW k \in Ctx PROVE RefAt(k)'
    BY DEF Refs
  <2>1. H!Registered(hs, k)' <=> H!Registered(hs, k)
    OBVIOUS
  <2>2. CASE k # h
    <3>1. Hands(t, k)' = Hands(t, k)
      BY <1>3, <1>5, <2>2 DEF Hands, Bit, CallUse, LaunchUse, WorkUse
    <3>2. (k \in DOMAIN ctx' <=> k \in DOMAIN ctx) /\ ctx'[k] = ctx[k]
      BY <1>2, <2>2 DEF Posts, grab
    <3> QED
      BY <1>4, <2>1, <3>1, <3>2, RefsOther DEF IInv
  <2>3. CASE k = h
    <3>1. Hands(t, k)' = Hands(t, k) + 1
      BY <1>3, <1>5, <2>3 DEF Hands, Bit, CallUse, LaunchUse, WorkUse
    <3>2. /\ Users(k)' + Bit(H!Registered(hs, k)) + Hands(t, k)
               = Users(k) + Bit(H!Registered(hs, k))' + Hands(t, k)'
          /\ Users(k)' \in Nat
      BY <1>4, UsersStep
    <3>3. Bit(H!Registered(hs, k))' = Bit(H!Registered(hs, k)) /\ Bit(H!Registered(hs, k)) \in Nat
      BY <2>1 DEF Bit
    <3>4. Hands(t, k)' \in Nat /\ Hands(t, k) \in Nat
      BY DEF Hands, Bit
    <3>5. Users(k)' = ctx[h].ref + 1
      <4>1. Users(k) = ctx[h].ref /\ Users(k) \in Nat
        BY <1>1, <2>3
      <4>2. Users(k)' = Users(k) + 1
        BY <3>1, <3>2, <3>3, <3>4, <4>1
      <4> QED
        BY <4>1, <4>2
    <3> QED
      BY <1>1, <1>2, <2>3, <3>5 DEF RefAt
  <2> QED
    BY <2>2, <2>3
<1>7. Calls'
  <2>1. \A u \in Thread : call[u].at # "ret" => call[u].h \in DOMAIN ctx
    BY DEF IInv, Uses, Calls, Alive
  <2>2. \A u \in Thread : call[u].at = "delete" => call[u].h # h
    BY <1>1 DEF IInv, Uses, Calls
  <2> QED
    BY <1>1, <1>2, <1>3, <2>1, <2>2 DEF IInv, Uses, Calls
<1> QED
  BY <1>2, <1>3, <1>4, <1>6, <1>7

(* A reference that t had otherwise is now given back. *)
LEMMA UnrefFacts ==
  ASSUME IInv, NEW t \in Thread, Returned(t), NEW h \in Ctx,
         Alive(h), ctx[h].handle = h, Unref(t, h), ctx' = ctx
  PROVE  /\ call' \in [Thread -> [at : CallPlace, h : 0 .. MaxCtx, msg : Msg \cup {Nil}]]
         /\ call'[t] = [at |-> "unref", h |-> h, msg |-> Nil]
         /\ \A u \in Thread : u # t => call'[u] = call[u]
         /\ \A k : CallUse(t, k)' <=> k = h
         /\ \A k : ~CallUse(t, k)
         /\ Calls'
<1>1. call[t].at = "ret"
  BY DEF Returned
<1>2. /\ call' \in [Thread -> [at : CallPlace, h : 0 .. MaxCtx, msg : Msg \cup {Nil}]]
      /\ call'[t] = [at |-> "unref", h |-> h, msg |-> Nil]
      /\ \A u \in Thread : u # t => call'[u] = call[u]
  BY Constants DEF Unref, IInv, Typed, CallPlace, Ctx
<1>3. \A k : (CallUse(t, k)' <=> k = h) /\ ~CallUse(t, k)
  BY <1>1, <1>2 DEF CallUse
<1>4. Calls'
  BY <1>2 DEF IInv, Uses, Calls, Alive
<1> QED
  BY <1>2, <1>3, <1>4

(* skynet_handle_retire: the reference of the table is given back. *)
LEMMA RetireFacts ==
  ASSUME IInv, NEW t \in Thread, Returned(t), NEW h \in Ctx, handle_retire(t, h),
         ctx' = ctx, worker' = worker,
         \A u \in Thread : u # t => launch'[u] = launch[u],
         \A k : LaunchUse(t, k)' <=> LaunchUse(t, k)
  PROVE  /\ OnlyMoves(t) /\ Table(hs') /\ Given'
         /\ call' \in [Thread -> [at : CallPlace, h : 0 .. MaxCtx, msg : Msg \cup {Nil}]]
         /\ Refs' /\ Calls'
<1>1. H!Registered(hs, h) /\ Alive(h) /\ ctx[h].handle = h
  BY FoundFacts DEF handle_retire
<1>2. /\ Table(hs') /\ hs'.handle_index = hs.handle_index
      /\ \A k \in Nat : H!Registered(hs', k) <=> k # h /\ H!Registered(hs, k)
  BY <1>1, TableRetire, Constants DEF handle_retire, IInv, Typed
<1>3. /\ call' \in [Thread -> [at : CallPlace, h : 0 .. MaxCtx, msg : Msg \cup {Nil}]]
      /\ \A u \in Thread : u # t => call'[u] = call[u]
      /\ \A k : (CallUse(t, k)' <=> k = h) /\ ~CallUse(t, k)
      /\ Calls'
  BY <1>1, UnrefFacts DEF handle_retire
<1>4. OnlyMoves(t)
  BY <1>3 DEF OnlyMoves
<1>5. Given'
  <2>1. ASSUME NEW i \in DOMAIN hs'.slot, hs'.slot[i] # Nil PROVE hs'.slot[i] \in DOMAIN ctx
    <3>1. i \in 0 .. hs'.slot_size - 1
      BY <1>2, <2>1 DEF Table
    <3>2. hs'.slot[i] \in Nat /\ H!Registered(hs', hs'.slot[i])
      BY <1>2, <2>1, <3>1, TableSlots
    <3>3. H!Registered(hs, hs'.slot[i]) /\ Table(hs)
      BY <1>2, <3>2 DEF IInv, Typed
    <3> DEFINE c == hs'.slot[i]
               j == H!Hash(hs, c)
    <3>4. j \in 0 .. hs.slot_size - 1 /\ hs.slot[j] = c
      BY <3>2, <3>3, TableHash DEF H!Registered
    <3>5. j \in DOMAIN hs.slot
      BY <3>3, <3>4 DEF Table
    <3>6. hs.slot[j] \in DOMAIN ctx
      BY <2>1, <3>4, <3>5 DEF IInv, Given
    <3> QED
      BY <3>4, <3>6
  <2> QED
    BY <1>2, <2>1 DEF IInv, Given
<1>6. Refs'
  <2> SUFFICES ASSUME NEW k \in Ctx PROVE RefAt(k)'
    BY DEF Refs
  <2>1. H!Registered(hs, k)' <=> k # h /\ H!Registered(hs, k)
    BY <1>2, Constants
  <2>2. CASE k # h
    <3>1. Hands(t, k)' = Hands(t, k)
      BY <1>3, <2>2 DEF Hands, Bit, WorkUse
    <3>2. H!Registered(hs, k)' <=> H!Registered(hs, k)
      BY <2>1, <2>2
    <3> QED
      BY <1>4, <3>1, <3>2, RefsOther DEF IInv
  <2>3. CASE k = h
    <3>1. Hands(t, k)' = Hands(t, k) + 1
      BY <1>3, <2>3 DEF Hands, Bit, WorkUse
    <3>2. /\ Users(k)' + Bit(H!Registered(hs, k)) + Hands(t, k)
               = Users(k) + Bit(H!Registered(hs, k))' + Hands(t, k)'
          /\ Users(k)' \in Nat
      BY <1>4, UsersStep
    <3>3. Bit(H!Registered(hs, k))' = 0 /\ Bit(H!Registered(hs, k)) = 1
      BY <1>1, <2>1, <2>3 DEF Bit
    <3>4. Hands(t, k)' \in Nat /\ Hands(t, k) \in Nat /\ Users(k) \in Nat
      BY UsersNat DEF Hands, Bit
    <3>5. Users(k)' = Users(k)
      BY <3>1, <3>2, <3>3, <3>4
    <3> QED
      BY <3>5 DEF RefAt, Alive, IInv, Refs
  <2> QED
    BY <2>2, <2>3
<1> QED
  BY <1>2, <1>3, <1>4, <1>5, <1>6

-----------------------------------------------------------------------------
(* Code that runs in a thread. *)

LEMMA SourceType ==
  ASSUME IInv, NEW t \in Thread, Running(t)
  PROVE  Source(t) \in 0 .. MaxCtx
<1>1. CASE t \in Outside
  <2>1. launch[t].at = "no"
    BY <1>1, RuntimeAssumption DEF IInv, Stack
  <2>2. Source(t) = 0
    BY <1>1, <2>1 DEF Source
  <2> QED
    BY <2>2, Constants
<1>2. CASE t \in Worker /\ t \notin Outside
  <2>1. worker[t].at = "call"
    BY <1>2 DEF Running
  <2>2. worker[t].q \in Ctx
    BY <1>2, <2>1 DEF IInv, Typed, Stack, Handling
  <2>3. launch[t].h \in 0 .. MaxCtx /\ worker[t].q \in 0 .. MaxCtx
    BY <2>2 DEF IInv, Typed, Ctx
  <2> QED
    BY <1>2, <2>3 DEF Source
<1> QED
  BY <1>1, <1>2 DEF Running, Thread

LEMMA SendStep ==
  ASSUME IInv, NEW t \in Thread, NEW h \in Ctx, Send(t, h)
  PROVE  IInv'
<1> DEFINE m == [id |-> sent', src |-> Source(t)]
<1>1. /\ hs' = hs /\ mq' = mq /\ gq' = gq /\ worker' = worker /\ launch' = launch /\ quit' = quit
      /\ Running(t) /\ Returned(t) /\ sent' = sent + 1 /\ sent < MaxMsg /\ Posts(t, h, m)
  BY DEF Send, Running
<1>2. sent' \in 0 .. MaxMsg
  BY <1>1, Constants DEF IInv, Typed
<1>3. m \in Msg
  BY <1>1, <1>2, SourceType DEF Msg
<1> HIDE DEF m
<1>4. /\ OnlyMoves(t)
      /\ call' \in [Thread -> [at : CallPlace, h : 0 .. MaxCtx, msg : Msg \cup {Nil}]]
      /\ DOMAIN ctx' = DOMAIN ctx
      /\ ctx' \in [DOMAIN ctx' -> [handle : Nat, ref : Nat] \cup {Nil}]
      /\ \A k : Alive(k)' <=> Alive(k)
      /\ \A k \in DOMAIN ctx : Alive(k) => ctx'[k].handle = ctx[k].handle
      /\ Refs' /\ Calls'
  BY <1>1, <1>3, PostsFacts
<1>5. Typed'
  BY <1>1, <1>2, <1>4 DEF IInv, Typed
<1>6. Stack' /\ Once' /\ Given' /\ Drops'
  BY <1>1, <1>4 DEF IInv, Stack, Once, OnceAt, Distinct, Listed, Held, HeldBy, Marked, Given,
                    Uses, Drops
<1>7. Linked'
  BY <1>1, <1>4 DEF IInv, Linked, Alive
<1> QED
  BY <1>4, <1>5, <1>6, <1>7 DEF IInv, Uses

LEMMA KillStep ==
  ASSUME IInv, NEW t \in Thread, NEW h \in Ctx, Kill(t, h)
  PROVE  IInv'
<1>1. /\ ctx' = ctx /\ mq' = mq /\ gq' = gq /\ worker' = worker /\ launch' = launch
      /\ sent' = sent /\ quit' = quit /\ Returned(t) /\ handle_retire(t, h)
  BY DEF Kill, Running
<1>2. \A k : LaunchUse(t, k)' <=> LaunchUse(t, k)
  BY <1>1 DEF LaunchUse
<1>3. /\ OnlyMoves(t) /\ Table(hs') /\ Given'
      /\ call' \in [Thread -> [at : CallPlace, h : 0 .. MaxCtx, msg : Msg \cup {Nil}]]
      /\ Refs' /\ Calls'
  BY <1>1, <1>2, RetireFacts
<1>4. Typed'
  BY <1>1, <1>3 DEF IInv, Typed
<1>5. Stack' /\ Once' /\ Linked' /\ Drops'
  BY <1>1 DEF IInv, Stack, Once, OnceAt, Distinct, Listed, Held, HeldBy, Marked, Linked, Alive,
              Uses, Drops
<1> QED
  BY <1>3, <1>4, <1>5 DEF IInv, Uses

-----------------------------------------------------------------------------
(* skynet_context_new. *)

(* Only one thread at a time launches: the one that runs the launcher. *)
LEMMA OneLaunch ==
  ASSUME IInv, NEW s \in Worker, NEW t \in Thread,
         worker[s].at = "call", worker[s].q = Launcher, launch[t].at # "no"
  PROVE  s = t
<1>1. t \in Worker /\ worker[t].at = "call" /\ worker[t].q = Launcher
  BY DEF IInv, Stack
<1>2. HeldBy(s, Launcher) /\ HeldBy(t, Launcher)
  BY <1>1 DEF HeldBy, Place
<1>3. OnceAt(Launcher) /\ s \in Thread
  BY Constants DEF IInv, Once
<1> QED
  BY <1>2, <1>3 DEF OnceAt

LEMMA context_newStep ==
  ASSUME IInv, NEW t \in Thread, context_new(t)
  PROVE  /\ IInv'
         /\ \A k \in DOMAIN ctx : k \in DOMAIN ctx' /\ ctx'[k] = ctx[k]
         /\ \A k \in DOMAIN ctx' : k \notin DOMAIN ctx => ctx'[k] # Nil /\ ctx'[k].handle = 0
<1> DEFINE handle == [c \in Range(hs.slot) \ {Nil} |-> ctx[c].handle]
           s == IF H!Full(hs) THEN H!Grow(hs, handle) ELSE hs
           h == H!Given(s)
<1>1. /\ t \in Worker /\ worker[t].at = "call" /\ worker[t].q = Launcher
      /\ launch[t].at = "no" /\ Returned(t)
  BY RuntimeAssumption DEF context_new, Running
<1>2. /\ h \in Ctx /\ hs' = H!handle_register(s)
      /\ ctx' = [c \in DOMAIN ctx \cup {h} |-> IF c = h THEN [handle |-> 0, ref |-> 2] ELSE ctx[c]]
      /\ launch' = [launch EXCEPT ![t] = [at |-> "registered", h |-> h]]
      /\ mq' = mq /\ gq' = gq /\ worker' = worker /\ call' = call /\ sent' = sent /\ quit' = quit
  BY DEF context_new
<1>3. \A u \in Thread : launch[u].at = "no"
  BY <1>1, OneLaunch
<1>0. \A k \in DOMAIN ctx : Alive(k) => ctx[k].handle = k
  <2>1. \A u \in Thread : \A k : launch[u] # [at |-> "registered", h |-> k]
    BY <1>3
  <2> QED
    BY <2>1 DEF IInv, Linked
<1>4. Table(hs)
  BY DEF IInv, Typed
(* Every context in the table has stored its handle. *)
<1>5. ASSUME H!Full(hs), NEW i \in 0 .. hs.slot_size - 1
      PROVE  handle[hs.slot[i]] = hs.slot[i]
  <2> DEFINE c == hs.slot[i]
  <2>1. c # Nil
    BY <1>4, <1>5, TableFull
  <2>2. i \in DOMAIN hs.slot
    BY <1>4 DEF Table
  <2>3. c \in DOMAIN ctx /\ c \in Range(hs.slot)
    BY <2>1, <2>2 DEF IInv, Given, Range
  <2>4. c \in Ctx
    BY <2>3 DEF IInv, Typed
  <2>5. H!Registered(hs, c)
    BY <1>4, <2>1, TableSlots
  <2>6. Alive(c)
    BY <2>4, <2>5, InUse DEF IInv
  <2>7. ctx[c].handle = c
    BY <1>0, <2>3, <2>6
  <2> QED
    BY <2>1, <2>3, <2>7
<1> HIDE DEF handle
<1>6. /\ Table(s) /\ ~H!Full(s) /\ s.handle_index = hs.handle_index
      /\ \A k \in Nat : H!Registered(s, k) <=> H!Registered(hs, k)
  <2>1. CASE H!Full(hs)
    <3>1. \A i \in 0 .. hs.slot_size - 1 : handle[hs.slot[i]] = hs.slot[i]
      BY <1>5, <2>1
    <3> QED
      BY <1>4, <2>1, <3>1, TableGrow
  <2>2. CASE ~H!Full(hs)
    BY <1>4, <2>2
  <2> QED
    BY <2>1, <2>2
<1> HIDE DEF s
<1>7. h \in Nat /\ h >= hs.handle_index
  BY <1>6, TableGiven
<1>8. /\ Table(hs') /\ hs'.handle_index = h + 1
      /\ \A k \in Nat : H!Registered(hs', k) <=> k = h \/ H!Registered(hs, k)
  BY <1>2, <1>6, TableRegister
<1> HIDE DEF h
<1>9. h \notin DOMAIN ctx /\ h # Launcher
  <2>1. hs.handle_index \in Nat /\ Launcher \in Nat
    BY <1>4, Constants DEF Table
  <2>2. \A k \in DOMAIN ctx : k \in Nat /\ k < hs.handle_index
    BY Constants DEF IInv, Given, Typed
  <2> QED
    BY <1>7, <2>1, <2>2 DEF IInv, Given
<1>10. /\ DOMAIN ctx' = DOMAIN ctx \cup {h}
       /\ \A k \in DOMAIN ctx : ctx'[k] = ctx[k]
       /\ ctx'[h] = [handle |-> 0, ref |-> 2]
       /\ ctx' \in [DOMAIN ctx' -> [handle : Nat, ref : Nat] \cup {Nil}]
  BY <1>2, <1>9 DEF IInv, Typed
<1>11. ctx'[h] # Nil /\ ctx'[h].handle = 0 /\ ctx'[h].ref = 2
  <2>1. ctx'[h] \in [handle : Nat, ref : Nat]
    BY <1>10
  <2> QED
    BY <1>10, <2>1, Constants
<1>12. \A k : Alive(k)' <=> k = h \/ Alive(k)
  BY <1>9, <1>10, <1>11 DEF Alive
<1>13. ~Alive(h) /\ h \notin DOMAIN mq
  BY <1>9 DEF Alive, IInv, Linked
<1>14. /\ launch' \in [Thread -> [at : LaunchPlace, h : 0 .. MaxCtx]]
       /\ launch'[t] = [at |-> "registered", h |-> h]
       /\ \A u \in Thread : u # t => launch'[u] = launch[u]
  BY <1>2, Constants DEF IInv, Typed, LaunchPlace, Ctx
<1>15. OnlyMoves(t)
  BY <1>2, <1>14 DEF OnlyMoves
<1>16. Typed'
  BY <1>2, <1>8, <1>10, <1>14 DEF IInv, Typed
<1>17. Stack'
  BY <1>1, <1>2, <1>9, <1>14 DEF IInv, Stack
<1>18. Once'
  <2>1. \A k : \A u \in Thread : HeldBy(u, k)' <=> HeldBy(u, k)
    BY <1>2, <1>3, <1>14 DEF HeldBy
  <2> QED
    BY <1>2, <2>1 DEF IInv, Once, OnceAt, Distinct, Listed, Held, Marked
<1>19. Refs'
  <2> SUFFICES ASSUME NEW k \in Ctx PROVE RefAt(k)'
    BY DEF Refs
  <2>1. H!Registered(hs, k)' <=> k = h \/ H!Registered(hs, k)
    BY <1>8, Constants
  <2>2. CASE k # h
    <3>1. Hands(t, k)' = Hands(t, k)
      BY <1>2, <1>3, <1>14, <2>2 DEF Hands, Bit, CallUse, LaunchUse, WorkUse
    <3>2. H!Registered(hs, k)' <=> H!Registered(hs, k)
      BY <2>1, <2>2
    <3>3. Users(k)' = Users(k)
      BY <1>15, <3>1, <3>2, UsersKept
    <3> QED
      BY <1>10, <1>12, <2>2, <3>3 DEF RefAt, IInv, Refs, Alive
  <2>3. CASE k = h
    <3>1. Hands(t, k)' = Hands(t, k) + 1
      BY <1>2, <1>3, <1>14, <2>3 DEF Hands, Bit, CallUse, LaunchUse, WorkUse
    <3>2. /\ Users(k)' + Bit(H!Registered(hs, k)) + Hands(t, k)
               = Users(k) + Bit(H!Registered(hs, k))' + Hands(t, k)'
          /\ Users(k)' \in Nat
      BY <1>15, UsersStep
    <3>3. Users(k) = 0
      BY <1>13, <2>3 DEF IInv, Refs, RefAt
    <3>4. Users(k) >= Bit(H!Registered(hs, k)) + Hands(t, k)
      BY UsersNat
    <3>5. Bit(H!Registered(hs, k))' = 1 /\ Bit(H!Registered(hs, k)) \in Nat
      BY <2>1, <2>3 DEF Bit
    <3>6. Hands(t, k)' \in Nat /\ Hands(t, k) \in Nat
      BY DEF Hands, Bit
    <3>7. Users(k)' = 2
      BY <3>1, <3>2, <3>3, <3>4, <3>5, <3>6
    <3> QED
      BY <1>11, <1>12, <2>3, <3>7 DEF RefAt
  <2> QED
    BY <2>2, <2>3
<1>20. Linked'
  <2>1. launch'[t] = [at |-> "registered", h |-> h] /\ launch'[t].at = "registered" /\ launch'[t].h = h
    BY <1>14
  <2>2. \A u \in Thread : u # t => launch'[u].at # "registered"
    BY <1>3, <1>14
  <2>3. \A k \in DOMAIN ctx : k # h /\ k # 0
    BY <1>9, Constants DEF IInv, Typed
  <2>4. \A k \in DOMAIN ctx' : ctx'[k] # Nil => ctx'[k].handle \in {0, k}
    BY <1>0, <1>10, <1>11 DEF Alive
  <2>5. \A k \in DOMAIN ctx' : ctx'[k] # Nil /\ ctx'[k].handle = k =>
          k \in DOMAIN mq' /\ ~mq'[k].release
    <3>1. h # 0
      BY <1>2, Constants
    <3> QED
      BY <1>0, <1>2, <1>10, <1>11, <3>1 DEF IInv, Linked, Alive
  <2>6. \A k \in DOMAIN ctx' : ctx'[k] # Nil /\ ctx'[k].handle = 0 =>
          k \notin DOMAIN mq' /\ \E u \in Thread : launch'[u] = [at |-> "registered", h |-> k]
    BY <1>0, <1>2, <1>10, <1>13, <2>1, <2>3 DEF Alive
  <2>7. \A u \in Thread : launch'[u].at = "registered" =>
          launch'[u].h \in DOMAIN ctx' /\ ctx'[launch'[u].h] # Nil /\ ctx'[launch'[u].h].handle = 0
    BY <1>10, <1>11, <2>1, <2>2
  <2>8. DOMAIN mq' \subseteq DOMAIN ctx'
    BY <1>2, <1>10 DEF IInv, Linked
  <2> QED
    BY <2>4, <2>5, <2>6, <2>7, <2>8 DEF Linked, Alive
<1>21. Uses'
  <2>1. Calls'
    <3>1. \A u \in Thread : call[u].at # "ret" => call[u].h \in DOMAIN ctx
      BY DEF IInv, Uses, Calls, Alive
    <3> QED
      BY <1>2, <1>10, <1>12, <3>1 DEF IInv, Uses, Calls
  <2>2. Drops'
    BY <1>2, <1>3, <1>14 DEF IInv, Uses, Drops
  <2> QED
    BY <2>1, <2>2 DEF Uses
<1>22. Given'
  <2>1. ASSUME NEW i \in DOMAIN hs'.slot, hs'.slot[i] # Nil PROVE hs'.slot[i] \in DOMAIN ctx'
    <3> DEFINE c == hs'.slot[i]
    <3>1. i \in 0 .. hs'.slot_size - 1
      BY <1>8, <2>1 DEF Table
    <3>2. c \in Nat /\ H!Registered(hs', c)
      BY <1>8, <2>1, <3>1, TableSlots
    <3> DEFINE j == H!Hash(hs, c)
    <3> HIDE DEF c
    <3>3. CASE c = h
      BY <1>10, <3>3 DEF c
    <3>4. CASE c # h
      <4>1. H!Registered(hs, c)
        BY <1>8, <3>2, <3>4
      <4>2. j \in 0 .. hs.slot_size - 1 /\ hs.slot[j] = c
        BY <1>4, <3>2, <4>1, TableHash DEF H!Registered
      <4>3. j \in DOMAIN hs.slot
        BY <1>4, <4>2 DEF Table
      <4>4. c # Nil
        BY <2>1 DEF c
      <4>5. c \in DOMAIN ctx
        BY <4>2, <4>3, <4>4 DEF IInv, Given
      <4> QED
        BY <1>10, <4>5 DEF c
    <3> QED
      BY <3>3, <3>4
  <2>2. \A k \in DOMAIN ctx' : k < hs'.handle_index
    <3>1. \A k \in DOMAIN ctx : k \in Nat /\ k < hs.handle_index
      BY Constants DEF IInv, Given, Typed
    <3>2. hs.handle_index \in Nat
      BY <1>4 DEF Table
    <3> QED
      BY <1>7, <1>8, <1>10, <3>1, <3>2
  <2> QED
    BY <1>10, <2>1, <2>2 DEF IInv, Given
<1> QED
  BY <1>10, <1>11, <1>16, <1>17, <1>18, <1>19, <1>20, <1>21, <1>22 DEF IInv

(* What a launch has in hand. *)
LEMMA LaunchFacts ==
  ASSUME IInv, NEW t \in Thread, launch[t].at # "no"
  PROVE  LET h == launch[t].h IN
         /\ t \in Worker /\ worker[t].at = "call" /\ worker[t].q = Launcher /\ worker[t].nq = Nil
         /\ h \in Ctx /\ h # Launcher /\ h # Nil /\ h # 0
         /\ \A u \in Thread : launch[u].at # "no" => u = t
         /\ launch[t].at # "registered" =>
              /\ \A k \in DOMAIN ctx : Alive(k) => ctx[k].handle = k
              /\ HeldBy(t, h) /\ h \in DOMAIN mq /\ ~Listed(h)
         /\ launch[t].at = "init" => Alive(h)
<1> DEFINE h == launch[t].h
<1>1. /\ t \in Worker /\ worker[t].at = "call" /\ worker[t].q = Launcher
      /\ h \in Ctx /\ h # Launcher
  BY DEF IInv, Stack
<1>2. worker[t].nq = Nil
  BY <1>1 DEF IInv, Stack
<1>3. h # Nil /\ h # 0
  BY <1>1, Constants
<1>4. \A u \in Thread : launch[u].at # "no" => u = t
  BY <1>1, OneLaunch
<1>5. ASSUME launch[t].at # "registered"
      PROVE  /\ \A k \in DOMAIN ctx : Alive(k) => ctx[k].handle = k
             /\ HeldBy(t, h) /\ h \in DOMAIN mq /\ ~Listed(h)
  <2>1. \A u \in Thread : launch[u].at # "registered"
    BY <1>4, <1>5
  <2>2. \A u \in Thread : \A k : launch[u] # [at |-> "registered", h |-> k]
    BY <2>1
  <2>3. \A k \in DOMAIN ctx : Alive(k) => ctx[k].handle = k
    BY ZenonT(60), <2>2 DEF IInv, Linked
  <2>4. HeldBy(t, h)
    BY <1>5 DEF HeldBy, IInv, Typed, LaunchPlace
  <2>5. Marked(h) /\ ~Listed(h)
    BY <1>1, <2>4 DEF IInv, Once, OnceAt, Held
  <2> QED
    BY <2>3, <2>4, <2>5 DEF Marked
<1>6. ASSUME launch[t].at = "init" PROVE Alive(h)
  <2>1. LaunchUse(t, h)
    BY <1>6 DEF LaunchUse
  <2> QED
    BY <1>1, <2>1, InUse DEF IInv
<1> QED
  BY <1>1, <1>2, <1>3, <1>4, <1>5, <1>6

LEMMA init_beginStep ==
  ASSUME IInv, NEW t \in Thread, init_begin(t)
  PROVE  IInv'
<1> DEFINE h == launch[t].h
<1>1. launch[t].at = "registered"
  BY DEF init_begin
<1>2. /\ t \in Worker /\ worker[t].at = "call" /\ worker[t].q = Launcher /\ worker[t].nq = Nil
      /\ h \in Ctx /\ h # Launcher /\ h # Nil /\ h # 0
      /\ \A u \in Thread : launch[u].at # "no" => u = t
  BY <1>1, LaunchFacts
<1>3. h \in DOMAIN ctx /\ Alive(h) /\ ctx[h].handle = 0 /\ h \notin DOMAIN mq
  BY <1>1 DEF IInv, Linked, Alive
<1>4. ctx[h] \in [handle : Nat, ref : Nat]
  BY <1>3 DEF IInv, Typed, Alive
<1>5. /\ ctx' = [ctx EXCEPT ![h].handle = h]
      /\ mq' = [c \in DOMAIN mq \cup {h} |-> IF c = h THEN mq_create ELSE mq[c]]
      /\ launch' = [launch EXCEPT ![t].at = "init"]
      /\ hs' = hs /\ gq' = gq /\ worker' = worker /\ call' = call /\ sent' = sent /\ quit' = quit
  BY DEF init_begin
<1>6. /\ launch' \in [Thread -> [at : LaunchPlace, h : 0 .. MaxCtx]]
      /\ launch'[t].at = "init" /\ launch'[t].h = h
      /\ \A u \in Thread : u # t => launch'[u] = launch[u]
  BY SMTT(60), <1>5 DEF IInv, Typed, LaunchPlace
<1> HIDE DEF h
<1>7. /\ DOMAIN ctx' = DOMAIN ctx
      /\ ctx'[h] = [ctx[h] EXCEPT !.handle = h]
      /\ \A k \in DOMAIN ctx : k # h => ctx'[k] = ctx[k]
      /\ ctx' = [k \in DOMAIN ctx' |-> ctx'[k]]
  BY <1>3, <1>5 DEF IInv, Typed
<1>8. ctx'[h] \in [handle : Nat, ref : Nat] /\ ctx'[h].handle = h /\ ctx'[h].ref = ctx[h].ref
  BY <1>2, <1>4, <1>7, Constants
<1>9. ctx'[h] # Nil /\ ctx' \in [DOMAIN ctx' -> [handle : Nat, ref : Nat] \cup {Nil}]
  <2>1. \A k \in DOMAIN ctx : ctx'[k] \in [handle : Nat, ref : Nat] \cup {Nil}
    BY <1>7, <1>8 DEF IInv, Typed
  <2> QED
    BY <1>7, <1>8, <2>1, Constants
<1>10. \A k : Alive(k)' <=> Alive(k)
  BY <1>3, <1>7, <1>9 DEF Alive
<1>11. /\ DOMAIN mq' = DOMAIN mq \cup {h} /\ mq'[h] = mq_create
       /\ \A k \in DOMAIN mq : k # h /\ mq'[k] = mq[k]
       /\ mq' = [k \in DOMAIN mq' |-> mq'[k]]
  BY <1>3, <1>5
<1>12. /\ Ring(mq'[h], Msg) /\ Empty(mq'[h])
       /\ mq'[h].in_global = TRUE /\ mq'[h].release = FALSE
  <2>1. mq_create.in_global = TRUE /\ mq_create.release = FALSE
    BY DEF mq_create
  <2>2. Ring(mq_create, Msg) /\ Empty(mq_create)
    BY RingCreate
  <2> QED
    BY <1>11, <2>1, <2>2
<1>13. OnlyMoves(t)
  BY <1>5, <1>6 DEF OnlyMoves
<1>14. Typed'
  BY ZenonT(60), <1>2, <1>5, <1>6, <1>7, <1>9, <1>11, <1>12 DEF IInv, Typed
<1>15. Stack'
  BY <1>1, <1>2, <1>5, <1>6 DEF IInv, Stack
<1>16. Once'
  <2> SUFFICES ASSUME NEW k \in Ctx PROVE OnceAt(k)'
    BY <1>5 DEF IInv, Once, Distinct
  <2>1. OnceAt(k) /\ (Listed(k)' <=> Listed(k))
    BY <1>5 DEF IInv, Once, Listed
  <2>2. CASE k # h
    <3>1. (HeldBy(t, k)' <=> HeldBy(t, k)) /\ (Marked(k)' <=> Marked(k))
      BY <1>5, <1>6, <1>11, <2>2 DEF Marked, HeldBy, h
    <3>2. (k \in DOMAIN mq => mq[k].in_global \/ Empty(mq[k]))'
      BY <1>11, <2>1, <2>2 DEF OnceAt
    <3> QED
      BY <1>13, <2>1, <3>1, <3>2, OnceSame
  <2>3. CASE k = h
    <3>1. Marked(k)' /\ (k \in DOMAIN mq => mq[k].in_global \/ Empty(mq[k]))' /\ ~Marked(k)
      BY <1>3, <1>11, <1>12, <2>3 DEF Marked
    <3>2. HeldBy(t, k)'
      BY <1>6, <2>3 DEF HeldBy
    <3> QED
      BY <1>13, <2>1, <3>1, <3>2, OnceMade
  <2> QED
    BY <2>2, <2>3
<1>17. Refs'
  <2> SUFFICES ASSUME NEW k \in Ctx PROVE RefAt(k)'
    BY DEF Refs
  <2>1. Hands(t, k)' = Hands(t, k)
    BY <1>1, <1>5, <1>6 DEF Hands, Bit, CallUse, LaunchUse, WorkUse, h
  <2>2. H!Registered(hs, k)' <=> H!Registered(hs, k)
    BY <1>5
  <2>3. Users(k)' = Users(k)
    BY <1>13, <2>1, <2>2, UsersKept
  <2>4. Alive(k) => ctx'[k].ref = ctx[k].ref
    BY <1>7, <1>8 DEF Alive
  <2> QED
    BY <1>10, <2>3, <2>4 DEF RefAt, IInv, Refs
<1>18. Linked'
  <2>1. \A u \in Thread : launch'[u].at # "registered"
    BY <1>2, <1>6
  <2>2. \A k \in DOMAIN ctx : k # h /\ Alive(k) => ctx[k].handle = k
    <3>1. \A u \in Thread : \A k : launch[u] = [at |-> "registered", h |-> k] => k = h
      BY <1>2 DEF h
    <3> QED
      BY ZenonT(60), <3>1 DEF IInv, Linked
  <2>3. \A k \in DOMAIN ctx : Alive(k) => ctx'[k].handle = k /\ k # 0
    BY <1>2, <1>7, <1>8, <2>2, Constants DEF IInv, Typed
  <2>4. \A k \in DOMAIN ctx : Alive(k) => k \in DOMAIN mq' /\ ~mq'[k].release
    BY <1>11, <1>12, <2>2 DEF IInv, Linked
  <2>5. DOMAIN mq' \subseteq DOMAIN ctx'
    BY <1>3, <1>7, <1>11 DEF IInv, Linked
  <2> QED
    BY <1>7, <1>10, <2>1, <2>3, <2>4, <2>5 DEF Linked
<1>19. Uses'
  <2>1. Calls'
    <3>1. \A u \in Thread : call[u].at # "ret" => call[u].h \in DOMAIN ctx /\ call[u].h # h
      BY <1>2, <1>3 DEF IInv, Uses, Calls, Alive
    <3> QED
      BY <1>5, <1>7, <1>10, <3>1 DEF IInv, Uses, Calls
  <2>2. Drops'
    BY <1>2, <1>5, <1>6, <1>11 DEF IInv, Uses, Drops
  <2> QED
    BY <2>1, <2>2 DEF Uses
<1>20. Given'
  BY <1>5, <1>7 DEF IInv, Given
<1> QED
  BY <1>14, <1>15, <1>16, <1>17, <1>18, <1>19, <1>20 DEF IInv

LEMMA init_endStep ==
  ASSUME IInv, NEW t \in Thread, NEW how \in {"started", "failed"}, init_end(t, how)
  PROVE  IInv'
<1> DEFINE h == launch[t].h
<1>1. launch[t].at = "init" /\ Returned(t)
  BY DEF init_end
<1>2. /\ t \in Worker /\ worker[t].at = "call" /\ worker[t].q = Launcher /\ worker[t].nq = Nil
      /\ h \in Ctx /\ h # Launcher /\ h # Nil /\ h # 0
      /\ \A u \in Thread : launch[u].at # "no" => u = t
      /\ Alive(h) /\ ctx[h].handle = h
  BY <1>1, LaunchFacts DEF Alive
<1>3. /\ launch' = [launch EXCEPT ![t].at = how] /\ Unref(t, h)
      /\ hs' = hs /\ ctx' = ctx /\ mq' = mq /\ gq' = gq /\ worker' = worker
      /\ sent' = sent /\ quit' = quit
  BY DEF init_end
<1>4. /\ launch' \in [Thread -> [at : LaunchPlace, h : 0 .. MaxCtx]]
      /\ launch'[t].at = how /\ launch'[t].h = h
      /\ \A u \in Thread : u # t => launch'[u] = launch[u]
  BY SMTT(60), <1>3 DEF IInv, Typed, LaunchPlace
<1>5. /\ call' \in [Thread -> [at : CallPlace, h : 0 .. MaxCtx, msg : Msg \cup {Nil}]]
      /\ \A u \in Thread : u # t => call'[u] = call[u]
      /\ \A k : CallUse(t, k)' <=> k = h
      /\ \A k : ~CallUse(t, k)
      /\ Calls'
  BY <1>1, <1>2, <1>3, UnrefFacts
<1>6. OnlyMoves(t)
  BY <1>3, <1>4, <1>5 DEF OnlyMoves
<1>7. Typed'
  BY <1>3, <1>4, <1>5 DEF IInv, Typed
<1>8. Stack'
  BY <1>1, <1>2, <1>3, <1>4 DEF IInv, Stack
<1>9. Once'
  <2> SUFFICES ASSUME NEW k \in Ctx PROVE OnceAt(k)'
    BY <1>3 DEF IInv, Once, Distinct
  <2>1. OnceAt(k) /\ (Listed(k)' <=> Listed(k)) /\ (Marked(k)' <=> Marked(k))
    BY <1>3 DEF IInv, Once, Listed, Marked
  <2>2. HeldBy(t, k)' <=> HeldBy(t, k)
    BY <1>1, <1>3, <1>4 DEF HeldBy
  <2>3. (k \in DOMAIN mq => mq[k].in_global \/ Empty(mq[k]))'
    BY <1>3, <2>1 DEF OnceAt
  <2> QED
    BY <1>6, <2>1, <2>2, <2>3, OnceSame
<1>10. Refs'
  <2> SUFFICES ASSUME NEW k \in Ctx PROVE RefAt(k)'
    BY DEF Refs
  <2>1. (LaunchUse(t, k) <=> k = h) /\ ~LaunchUse(t, k)' /\ (WorkUse(t, k)' <=> WorkUse(t, k))
    BY <1>1, <1>3, <1>4 DEF LaunchUse, WorkUse
  <2>2. Hands(t, k)' = Hands(t, k)
    BY <1>5, <2>1 DEF Hands, Bit
  <2>3. H!Registered(hs, k)' <=> H!Registered(hs, k)
    BY <1>3
  <2> QED
    BY <1>3, <1>6, <2>2, <2>3, RefsOther DEF IInv
<1>11. Linked'
  <2>1. \A u \in Thread : launch'[u].at # "registered" /\ launch[u].at # "registered"
    BY <1>1, <1>2, <1>4
  <2> QED
    BY <1>3, <2>1 DEF IInv, Linked, Alive
<1>12. Uses'
  BY <1>1, <1>3, <1>4, <1>5 DEF IInv, Uses, Drops
<1>13. Given'
  BY <1>3 DEF IInv, Given
<1> QED
  BY <1>7, <1>8, <1>9, <1>10, <1>11, <1>12, <1>13 DEF IInv

(* A launch that is through, but for the queue, moves on. *)
LEMMA LaunchMoves ==
  ASSUME IInv, NEW t \in Thread, launch[t].at \in {"started", "failed", "release"},
         NEW r \in [at : LaunchPlace, h : 0 .. MaxCtx], launch' = [launch EXCEPT ![t] = r],
         r.at \in {"no", "release", "drop"}, r.at # "no" => r.h = launch[t].h,
         ctx' = ctx, mq' = mq, worker' = worker
  PROVE  /\ launch' \in [Thread -> [at : LaunchPlace, h : 0 .. MaxCtx]]
         /\ launch'[t] = r /\ \A u \in Thread : u # t => launch'[u] = launch[u]
         /\ \A k : ~LaunchUse(t, k) /\ ~LaunchUse(t, k)'
         /\ \A k : HeldBy(t, k)' <=> HeldBy(t, k) /\ (k = launch[t].h => r.at # "no")
         /\ Stack' /\ Linked'
<1> DEFINE h == launch[t].h
<1>1. /\ t \in Worker /\ worker[t].at = "call" /\ worker[t].q = Launcher /\ worker[t].nq = Nil
      /\ h \in Ctx /\ h # Launcher /\ h # Nil /\ h # 0
      /\ \A u \in Thread : launch[u].at # "no" => u = t
  BY LaunchFacts
<1>2. /\ launch' \in [Thread -> [at : LaunchPlace, h : 0 .. MaxCtx]]
      /\ launch'[t] = r /\ \A u \in Thread : u # t => launch'[u] = launch[u]
  BY DEF IInv, Typed
<1>3. \A k : ~LaunchUse(t, k) /\ ~LaunchUse(t, k)'
  BY <1>2 DEF LaunchUse
<1>4. ASSUME NEW k PROVE HeldBy(t, k)' <=> HeldBy(t, k) /\ (k = h => r.at # "no")
  BY <1>1, <1>2 DEF HeldBy
<1>5. Stack'
  BY <1>1, <1>2 DEF IInv, Stack
<1>6. Linked'
  <2>1. \A u \in Thread : launch'[u].at # "registered" /\ launch[u].at # "registered"
    BY <1>1, <1>2
  <2> QED
    BY <2>1 DEF IInv, Linked, Alive
<1> QED
  BY <1>2, <1>3, <1>4, <1>5, <1>6

LEMMA launch_startedStep ==
  ASSUME IInv, NEW t \in Thread, launch_started(t)
  PROVE  IInv'
<1> DEFINE h == launch[t].h
<1>1. /\ launch[t].at = "started"
      /\ gq' = Append(gq, h) /\ launch' = [launch EXCEPT ![t] = NoLaunch]
      /\ hs' = hs /\ ctx' = ctx /\ mq' = mq /\ worker' = worker /\ call' = call
      /\ sent' = sent /\ quit' = quit
  BY DEF launch_started
<1>2. NoLaunch \in [at : LaunchPlace, h : 0 .. MaxCtx] /\ NoLaunch.at = "no"
  BY Constants DEF NoLaunch, LaunchPlace
<1>3. h \in Ctx /\ HeldBy(t, h) /\ h \in DOMAIN mq /\ ~Listed(h)
  BY <1>1, LaunchFacts
<1>4. /\ launch' \in [Thread -> [at : LaunchPlace, h : 0 .. MaxCtx]]
      /\ launch'[t] = NoLaunch /\ \A u \in Thread : u # t => launch'[u] = launch[u]
      /\ \A k : ~LaunchUse(t, k) /\ ~LaunchUse(t, k)'
      /\ \A k : HeldBy(t, k)' <=> HeldBy(t, k) /\ k # h
      /\ Stack' /\ Linked'
  BY <1>1, <1>2, LaunchMoves
<1>5. /\ gq' \in Seq(Ctx) /\ Distinct'
      /\ \A k : Listed(k)' <=> k = h \/ Listed(k)
  BY <1>1, <1>3, ListAppend DEF IInv, Typed, Once
<1>6. OnlyMoves(t)
  BY <1>1, <1>4 DEF OnlyMoves
<1>7. Typed'
  BY <1>1, <1>4, <1>5 DEF IInv, Typed
<1>8. Once'
  <2> SUFFICES ASSUME NEW k \in Ctx PROVE OnceAt(k)'
    BY <1>5 DEF Once
  <2>1. OnceAt(k) /\ (Marked(k)' <=> Marked(k))
    BY <1>1 DEF IInv, Once, Marked
  <2>2. (k \in DOMAIN mq => mq[k].in_global \/ Empty(mq[k]))'
    BY <1>1, <2>1 DEF OnceAt
  <2>3. CASE k = h
    <3>1. HeldBy(t, k) /\ ~HeldBy(t, k)' /\ Listed(k)'
      BY <1>3, <1>4, <1>5, <2>3
    <3> QED
      BY <1>6, <2>1, <2>2, <3>1, OnceLinked
  <2>4. CASE k # h
    <3>1. (HeldBy(t, k)' <=> HeldBy(t, k)) /\ (Listed(k)' <=> Listed(k))
      BY <1>4, <1>5, <2>4
    <3> QED
      BY <1>6, <2>1, <2>2, <3>1, OnceSame
  <2> QED
    BY <2>3, <2>4
<1>9. Refs'
  <2> SUFFICES ASSUME NEW k \in Ctx PROVE RefAt(k)'
    BY DEF Refs
  <2>1. (CallUse(t, k)' <=> CallUse(t, k)) /\ (WorkUse(t, k)' <=> WorkUse(t, k))
    BY <1>1 DEF CallUse, WorkUse
  <2>2. Hands(t, k)' = Hands(t, k)
    BY <1>4, <2>1 DEF Hands, Bit
  <2>3. H!Registered(hs, k)' <=> H!Registered(hs, k)
    BY <1>1
  <2> QED
    BY <1>1, <1>6, <2>2, <2>3, RefsOther DEF IInv
<1>10. Uses'
  BY <1>1, <1>2, <1>4 DEF IInv, Uses, Calls, Drops, Alive
<1>11. Given'
  BY <1>1 DEF IInv, Given
<1> QED
  BY <1>4, <1>7, <1>8, <1>9, <1>10, <1>11 DEF IInv

LEMMA launch_failedStep ==
  ASSUME IInv, NEW t \in Thread, launch_failed(t)
  PROVE  IInv'
<1> DEFINE h == launch[t].h
           r == [launch[t] EXCEPT !.at = "release"]
<1>1. /\ launch[t].at = "failed" /\ Returned(t)
      /\ IF Found(h) THEN handle_retire(t, h) ELSE hs' = hs /\ call' = call
      /\ launch' = [launch EXCEPT ![t] = r]
      /\ ctx' = ctx /\ mq' = mq /\ gq' = gq /\ worker' = worker /\ sent' = sent /\ quit' = quit
  BY DEF launch_failed
<1>2. r \in [at : LaunchPlace, h : 0 .. MaxCtx] /\ r.at = "release" /\ r.h = h
  BY DEF IInv, Typed, LaunchPlace
<1> HIDE DEF r
<1>3. h \in Ctx
  BY <1>1, LaunchFacts
<1>4. /\ launch' \in [Thread -> [at : LaunchPlace, h : 0 .. MaxCtx]]
      /\ launch'[t] = r /\ \A u \in Thread : u # t => launch'[u] = launch[u]
      /\ \A k : ~LaunchUse(t, k) /\ ~LaunchUse(t, k)'
      /\ \A k : HeldBy(t, k)' <=> HeldBy(t, k)
      /\ Stack' /\ Linked'
  BY <1>1, <1>2, LaunchMoves
<1>5. /\ OnlyMoves(t) /\ Table(hs') /\ Given'
      /\ call' \in [Thread -> [at : CallPlace, h : 0 .. MaxCtx, msg : Msg \cup {Nil}]]
      /\ Refs' /\ Calls'
  <2>1. CASE Found(h)
    <3>1. handle_retire(t, h) /\ \A k : LaunchUse(t, k)' <=> LaunchUse(t, k)
      BY <1>1, <1>4, <2>1
    <3> QED
      BY <1>1, <1>3, <1>4, <3>1, RetireFacts
  <2>2. CASE ~Found(h)
    <3>1. hs' = hs /\ call' = call
      BY <1>1, <2>2
    <3>2. OnlyMoves(t)
      BY <1>1, <1>4, <3>1 DEF OnlyMoves
    <3>3. ASSUME NEW k \in Ctx PROVE RefAt(k)'
      <4>1. (CallUse(t, k)' <=> CallUse(t, k)) /\ (WorkUse(t, k)' <=> WorkUse(t, k))
        BY <1>1, <3>1 DEF CallUse, WorkUse
      <4>2. Hands(t, k)' = Hands(t, k)
        BY <1>4, <4>1 DEF Hands, Bit
      <4>3. H!Registered(hs, k)' <=> H!Registered(hs, k)
        BY <3>1
      <4> QED
        BY <1>1, <3>2, <4>2, <4>3, RefsOther DEF IInv
    <3>4. Given' /\ Calls' /\ Table(hs')
      BY <1>1, <3>1 DEF IInv, Typed, Given, Uses, Calls, Alive
    <3> QED
      BY <3>1, <3>2, <3>3, <3>4 DEF Refs, IInv, Typed
  <2> QED
    BY <2>1, <2>2
<1>6. Typed'
  BY <1>1, <1>4, <1>5 DEF IInv, Typed
<1>7. Once'
  <2> SUFFICES ASSUME NEW k \in Ctx PROVE OnceAt(k)'
    BY <1>1 DEF IInv, Once, Distinct
  <2>1. OnceAt(k) /\ (Marked(k)' <=> Marked(k)) /\ (Listed(k)' <=> Listed(k))
    BY <1>1 DEF IInv, Once, Marked, Listed
  <2>2. (k \in DOMAIN mq => mq[k].in_global \/ Empty(mq[k]))'
    BY <1>1, <2>1 DEF OnceAt
  <2> QED
    BY <1>4, <1>5, <2>1, <2>2, OnceSame
<1>8. Uses'
  BY <1>1, <1>2, <1>4, <1>5 DEF IInv, Uses, Drops
<1> QED
  BY <1>4, <1>5, <1>6, <1>7, <1>8 DEF IInv

LEMMA launch_releaseStep ==
  ASSUME IInv, NEW t \in Thread, launch_release(t)
  PROVE  IInv'
<1> DEFINE h == launch[t].h
           r == IF mq[h].release THEN [launch[t] EXCEPT !.at = "drop"] ELSE NoLaunch
<1>1. /\ launch[t].at = "release"
      /\ gq' = IF mq[h].release THEN gq ELSE Append(gq, h)
      /\ launch' = [launch EXCEPT ![t] = r]
      /\ hs' = hs /\ ctx' = ctx /\ mq' = mq /\ worker' = worker /\ call' = call
      /\ sent' = sent /\ quit' = quit
  BY DEF launch_release, mq_release
<1>2. /\ r \in [at : LaunchPlace, h : 0 .. MaxCtx]
      /\ mq[h].release => r.at = "drop" /\ r.h = h
      /\ ~mq[h].release => r.at = "no"
  BY SMTT(60), Constants DEF IInv, Typed, LaunchPlace, NoLaunch
<1> HIDE DEF r
<1>3. h \in Ctx /\ HeldBy(t, h) /\ h \in DOMAIN mq /\ ~Listed(h)
  BY <1>1, LaunchFacts
<1>4. /\ launch' \in [Thread -> [at : LaunchPlace, h : 0 .. MaxCtx]]
      /\ launch'[t] = r /\ \A u \in Thread : u # t => launch'[u] = launch[u]
      /\ \A k : ~LaunchUse(t, k) /\ ~LaunchUse(t, k)'
      /\ \A k : HeldBy(t, k)' <=> HeldBy(t, k) /\ (k = h => r.at # "no")
      /\ Stack' /\ Linked'
  BY <1>1, <1>2, LaunchMoves
<1>5. /\ gq' \in Seq(Ctx) /\ Distinct'
      /\ \A k : Listed(k)' <=> (k = h /\ ~mq[h].release) \/ Listed(k)
  <2>1. CASE mq[h].release
    BY <1>1, <2>1 DEF IInv, Typed, Once, Distinct, Listed
  <2>2. CASE ~mq[h].release
    BY <1>1, <1>3, <2>2, ListAppend DEF IInv, Typed, Once
  <2> QED
    BY <2>1, <2>2
<1>6. OnlyMoves(t)
  BY <1>1, <1>4 DEF OnlyMoves
<1>7. Typed'
  BY <1>1, <1>4, <1>5 DEF IInv, Typed
<1>8. Once'
  <2> SUFFICES ASSUME NEW k \in Ctx PROVE OnceAt(k)'
    BY <1>5 DEF Once
  <2>1. OnceAt(k) /\ (Marked(k)' <=> Marked(k))
    BY <1>1 DEF IInv, Once, Marked
  <2>2. (k \in DOMAIN mq => mq[k].in_global \/ Empty(mq[k]))'
    BY <1>1, <2>1 DEF OnceAt
  <2>3. CASE k = h /\ ~mq[h].release
    <3>1. HeldBy(t, k) /\ ~HeldBy(t, k)' /\ Listed(k)'
      BY <1>2, <1>3, <1>4, <1>5, <2>3
    <3> QED
      BY <1>6, <2>1, <2>2, <3>1, OnceLinked
  <2>4. CASE k # h \/ mq[h].release
    <3>1. (HeldBy(t, k)' <=> HeldBy(t, k)) /\ (Listed(k)' <=> Listed(k))
      BY <1>2, <1>4, <1>5, <2>4
    <3> QED
      BY <1>6, <2>1, <2>2, <3>1, OnceSame
  <2> QED
    BY <2>3, <2>4
<1>9. Refs'
  <2> SUFFICES ASSUME NEW k \in Ctx PROVE RefAt(k)'
    BY DEF Refs
  <2>1. (CallUse(t, k)' <=> CallUse(t, k)) /\ (WorkUse(t, k)' <=> WorkUse(t, k))
    BY <1>1 DEF CallUse, WorkUse
  <2>2. Hands(t, k)' = Hands(t, k)
    BY <1>4, <2>1 DEF Hands, Bit
  <2>3. H!Registered(hs, k)' <=> H!Registered(hs, k)
    BY <1>1
  <2> QED
    BY <1>1, <1>6, <2>2, <2>3, RefsOther DEF IInv
<1>10. Uses'
  BY <1>1, <1>2, <1>3, <1>4 DEF IInv, Uses, Calls, Drops, Alive
<1>11. Given'
  BY <1>1 DEF IInv, Given
<1> QED
  BY <1>4, <1>7, <1>8, <1>9, <1>10, <1>11 DEF IInv

-----------------------------------------------------------------------------
(* _drop_queue. *)

(* A queue that is dropped: its context is gone, and nobody else has it. *)
LEMMA DropFacts ==
  ASSUME IInv, NEW t \in Thread, Dropping(t) # 0
  PROVE  LET h == Dropping(t) IN
         /\ t \in Worker /\ h \in Ctx /\ HeldBy(t, h) /\ worker[t].nq = Nil
         /\ h \in DOMAIN mq /\ Ring(mq[h], Msg) /\ mq[h].release /\ ~Alive(h)
         /\ OnceAt(h) /\ ~Listed(h)
         /\ launch[t].at = "drop" => h = launch[t].h /\ worker[t].at = "call" /\ worker[t].q = Launcher
         /\ launch[t].at # "drop" => h = worker[t].q /\ worker[t].at = "drop" /\ launch[t].at = "no"
<1> DEFINE h == Dropping(t)
<1>1. CASE launch[t].at = "drop"
  <2>1. /\ t \in Worker /\ worker[t].at = "call" /\ worker[t].q = Launcher /\ worker[t].nq = Nil
        /\ launch[t].h \in Ctx /\ HeldBy(t, launch[t].h)
    BY <1>1, LaunchFacts
  <2>2. h = launch[t].h
    BY <1>1, <2>1 DEF Dropping
  <2>3. h \in DOMAIN mq /\ mq[h].release
    BY <1>1, <2>2 DEF IInv, Uses, Drops
  <2> QED
    BY <1>1, <2>1, <2>2, <2>3
       DEF IInv, Typed, Once, OnceAt, Held, Linked, Alive
<1>2. CASE launch[t].at # "drop"
  <2>1. t \in Worker /\ worker[t].at = "drop" /\ h = worker[t].q
    BY <1>2 DEF Dropping
  <2>2. h \in DOMAIN mq /\ mq[h].release /\ h \in Ctx
    BY <2>1 DEF IInv, Uses, Drops, Typed
  <2>3. worker[t].nq = Nil /\ launch[t].at = "no"
    BY <2>1 DEF IInv, Stack
  <2>4. HeldBy(t, h)
    BY <2>1 DEF HeldBy, Place
  <2> QED
    BY <1>2, <2>1, <2>2, <2>3, <2>4
       DEF IInv, Typed, Once, OnceAt, Held, Linked, Alive
<1> QED
  BY <1>1, <1>2

LEMMA drop_messageStep ==
  ASSUME IInv, NEW t \in Thread, drop_message(t)
  PROVE  IInv'
<1> DEFINE h == Dropping(t)
           m == mq_first(mq[h])
           p == mq_pop(mq[h])
<1>1. /\ h # 0 /\ Returned(t) /\ ~Empty(mq[h])
      /\ mq' = [mq EXCEPT ![h] = p]
      /\ IF m.src # 0 /\ Found(m.src)
         THEN Posts(t, m.src, [id |-> 0, src |-> h])
         ELSE ctx' = ctx /\ call' = call
      /\ hs' = hs /\ gq' = gq /\ worker' = worker /\ launch' = launch
      /\ sent' = sent /\ quit' = quit
  BY DEF drop_message
<1>2. h \in Ctx /\ h \in DOMAIN mq /\ Ring(mq[h], Msg) /\ mq[h].release /\ OnceAt(h)
  BY <1>1, DropFacts
<1>3. Ring(p, Msg) /\ SameFlags(p, mq[h]) /\ m \in Msg
  BY <1>1, <1>2, RingPop
<1> HIDE DEF h, m, p
<1>4. /\ DOMAIN mq' = DOMAIN mq /\ mq'[h] = p
      /\ \A k \in DOMAIN mq : k # h => mq'[k] = mq[k]
      /\ mq' = [k \in DOMAIN mq' |-> mq'[k]]
  BY <1>1, <1>2 DEF IInv, Typed
<1>5. mq[h].in_global
  BY <1>1, <1>2 DEF OnceAt
<1>6. p.in_global /\ p.release
  BY <1>2, <1>3, <1>5 DEF SameFlags
<1>7. /\ OnlyMoves(t)
      /\ call' \in [Thread -> [at : CallPlace, h : 0 .. MaxCtx, msg : Msg \cup {Nil}]]
      /\ DOMAIN ctx' = DOMAIN ctx
      /\ ctx' \in [DOMAIN ctx' -> [handle : Nat, ref : Nat] \cup {Nil}]
      /\ \A k : Alive(k)' <=> Alive(k)
      /\ \A k \in DOMAIN ctx : Alive(k) => ctx'[k].handle = ctx[k].handle
      /\ Refs' /\ Calls'
  <2>1. CASE m.src # 0 /\ Found(m.src)
    <3>1. m.src \in Ctx
      BY <1>3, <2>1, Constants DEF Msg, Ctx
    <3>2. [id |-> 0, src |-> h] \in Msg
      BY <1>2, Constants DEF Msg, Ctx
    <3>3. Posts(t, m.src, [id |-> 0, src |-> h])
      BY <1>1, <2>1
    <3> QED
      BY <1>1, <3>1, <3>2, <3>3, PostsFacts
  <2>2. CASE ~(m.src # 0 /\ Found(m.src))
    <3>1. ctx' = ctx /\ call' = call
      BY <1>1, <2>2
    <3>2. OnlyMoves(t)
      BY <1>1, <3>1 DEF OnlyMoves
    <3>3. ASSUME NEW k \in Ctx PROVE RefAt(k)'
      <4>1. Hands(t, k)' = Hands(t, k)
        BY <1>1, <3>1 DEF Hands, Bit, CallUse, LaunchUse, WorkUse
      <4>2. H!Registered(hs, k)' <=> H!Registered(hs, k)
        BY <1>1
      <4> QED
        BY <3>1, <3>2, <4>1, <4>2, RefsOther DEF IInv
    <3>4. Calls'
      BY <3>1 DEF IInv, Uses, Calls, Alive
    <3>5. \A k : Alive(k)' <=> Alive(k)
      BY <3>1 DEF Alive
    <3> QED
      BY <3>1, <3>2, <3>3, <3>4, <3>5 DEF Refs, IInv, Typed
  <2> QED
    BY <2>1, <2>2
<1>8. Typed'
  BY <1>1, <1>3, <1>4, <1>7 DEF IInv, Typed
<1>9. Stack' /\ Given'
  BY <1>1, <1>7 DEF IInv, Stack, Given
<1>10. Once'
  <2> SUFFICES ASSUME NEW k \in Ctx PROVE OnceAt(k)'
    BY <1>1 DEF IInv, Once, Distinct
  <2>1. OnceAt(k) /\ (Listed(k)' <=> Listed(k)) /\ (HeldBy(t, k)' <=> HeldBy(t, k))
    BY <1>1 DEF IInv, Once, Listed, HeldBy
  <2>2. Marked(k)' <=> Marked(k)
    BY <1>2, <1>4, <1>6 DEF Marked
  <2>3. (k \in DOMAIN mq => mq[k].in_global \/ Empty(mq[k]))'
    BY <1>4, <1>6, <2>1 DEF OnceAt
  <2> QED
    BY <1>7, <2>1, <2>2, <2>3, OnceSame
<1>11. Linked'
  <2>1. ~Alive(h)
    BY <1>1, DropFacts DEF h
  <2> QED
    BY SMTT(60), <1>1, <1>4, <1>7, <2>1 DEF IInv, Linked, Alive
<1>12. Drops'
  BY <1>1, <1>4, <1>6 DEF IInv, Uses, Drops
<1> QED
  BY <1>7, <1>8, <1>9, <1>10, <1>11, <1>12 DEF IInv, Uses

LEMMA drop_endStep ==
  ASSUME IInv, NEW t \in Thread, drop_end(t)
  PROVE  IInv'
<1> DEFINE h == Dropping(t)
<1>1. /\ h # 0
      /\ mq' = [k \in DOMAIN mq \ {h} |-> mq[k]]
      /\ IF launch[t].at = "drop"
         THEN launch' = [launch EXCEPT ![t] = NoLaunch] /\ worker' = worker
         ELSE worker' = [worker EXCEPT ![t].at = "next"] /\ launch' = launch
      /\ hs' = hs /\ ctx' = ctx /\ gq' = gq /\ call' = call /\ sent' = sent /\ quit' = quit
  BY DEF drop_end, Restrict
<1>2. /\ t \in Worker /\ h \in Ctx /\ HeldBy(t, h) /\ worker[t].nq = Nil
      /\ h \in DOMAIN mq /\ ~Alive(h) /\ OnceAt(h) /\ ~Listed(h)
      /\ launch[t].at = "drop" => h = launch[t].h /\ worker[t].at = "call" /\ worker[t].q = Launcher
      /\ launch[t].at # "drop" => h = worker[t].q /\ worker[t].at = "drop" /\ launch[t].at = "no"
  BY <1>1, DropFacts
<1> HIDE DEF h
<1>3. /\ DOMAIN mq' = DOMAIN mq \ {h}
      /\ \A k \in DOMAIN mq : k # h => mq'[k] = mq[k]
      /\ mq' = [k \in DOMAIN mq' |-> mq'[k]]
  BY <1>1
<1>4. h # Nil /\ NoLaunch \in [at : LaunchPlace, h : 0 .. MaxCtx] /\ NoLaunch.at = "no" /\ NoLaunch.h = 0
  BY <1>2, Constants DEF NoLaunch, LaunchPlace
(* The two places where a queue is dropped. *)
<1>5. /\ launch' \in [Thread -> [at : LaunchPlace, h : 0 .. MaxCtx]]
      /\ \A u \in Thread : u # t => launch'[u] = launch[u]
      /\ launch'[t].at = "no"
      /\ launch[t].at # "drop" => launch'[t] = launch[t]
  BY ZenonT(60), <1>1, <1>2, <1>4 DEF IInv, Typed
<1>6. /\ worker' = [w \in Worker |-> worker'[w]]
      /\ \A w \in Worker : w # t => worker'[w] = worker[w]
      /\ DOMAIN worker'[t] = {"at", "q", "nq", "left"}
      /\ worker'[t].q = worker[t].q /\ worker'[t].nq = worker[t].nq
      /\ worker'[t].at = IF launch[t].at = "drop" THEN worker[t].at ELSE "next"
  BY <1>1, <1>2 DEF IInv, Typed
<1>7. OnlyMoves(t)
  BY <1>1, <1>5, <1>6 DEF OnlyMoves
<1>8. Typed'
  <2>1. \A w \in Worker : /\ DOMAIN worker'[w] = {"at", "q", "nq", "left"}
                          /\ worker'[w].at \in Place
                          /\ worker'[w].q \in Ctx \cup {Nil} /\ worker'[w].nq \in Ctx \cup {Nil}
    BY <1>6 DEF IInv, Typed, Place
  <2> QED
    BY <1>1, <1>3, <1>5, <1>6, <2>1 DEF IInv, Typed
<1>9. Stack'
  BY <1>2, <1>5, <1>6 DEF IInv, Stack, Handling
<1>10. ASSUME NEW k PROVE HeldBy(t, k)' <=> HeldBy(t, k) /\ k # h
  <2>1. CASE launch[t].at = "drop"
    <3>1. worker'[t] = worker[t] /\ h # Launcher
      BY <1>1, <1>2, <2>1 DEF IInv, Stack
    <3> QED
      BY <1>2, <1>4, <1>5, <2>1, <3>1 DEF HeldBy
  <2>2. CASE launch[t].at # "drop"
    BY <1>2, <1>4, <1>5, <1>6, <2>2 DEF HeldBy, Place
  <2> QED
    BY <2>1, <2>2
<1>11. Once'
  <2> SUFFICES ASSUME NEW k \in Ctx PROVE OnceAt(k)'
    BY <1>1 DEF IInv, Once, Distinct
  <2>1. OnceAt(k) /\ (Listed(k)' <=> Listed(k))
    BY <1>1 DEF IInv, Once, Listed
  <2>2. (k \in DOMAIN mq => mq[k].in_global \/ Empty(mq[k]))'
    BY <1>3, <2>1 DEF OnceAt
  <2>3. CASE k = h
    <3>1. HeldBy(t, k) /\ ~HeldBy(t, k)' /\ ~Marked(k)'
      BY <1>2, <1>3, <1>10, <2>3 DEF Marked
    <3> QED
      BY <1>7, <2>1, <2>2, <3>1, OnceLeft
  <2>4. CASE k # h
    <3>1. (HeldBy(t, k)' <=> HeldBy(t, k)) /\ (Marked(k)' <=> Marked(k))
      BY <1>3, <1>10, <2>4 DEF Marked
    <3> QED
      BY <1>7, <2>1, <2>2, <3>1, OnceSame
  <2> QED
    BY <2>3, <2>4
<1>12. Refs'
  <2> SUFFICES ASSUME NEW k \in Ctx PROVE RefAt(k)'
    BY DEF Refs
  <2>1. /\ CallUse(t, k)' <=> CallUse(t, k)
        /\ ~LaunchUse(t, k) /\ ~LaunchUse(t, k)'
    BY <1>1, <1>2, <1>5 DEF CallUse, LaunchUse
  <2>2. WorkUse(t, k)' <=> WorkUse(t, k)
    BY <1>2, <1>6 DEF WorkUse
  <2>3. Hands(t, k)' = Hands(t, k)
    BY <2>1, <2>2 DEF Hands, Bit
  <2>4. H!Registered(hs, k)' <=> H!Registered(hs, k)
    BY <1>1
  <2> QED
    BY <1>1, <1>7, <2>3, <2>4, RefsOther DEF IInv
<1>13. Linked'
  <2>1. \A u \in Thread : launch'[u].at = "registered" => u # t
    BY <1>5
  <2>2. launch[t].at # "registered"
    BY <1>2
  <2>3. \A k : \A u \in Thread : launch'[u] = [at |-> "registered", h |-> k]
                                 <=> launch[u] = [at |-> "registered", h |-> k]
    BY <1>5, <2>2
  <2> QED
    BY <1>1, <1>2, <1>3, <1>5, <2>1, <2>3 DEF IInv, Linked, Alive
<1>14. Uses'
  <2>1. ASSUME NEW u \in Thread, u # t, launch[u].at = "drop" PROVE launch[u].h # h
    <3>1. HeldBy(u, launch[u].h)
      BY <2>1 DEF HeldBy
    <3> QED
      BY <1>2, <2>1, <3>1 DEF OnceAt
  <2>2. ASSUME NEW w \in Worker, w # t, worker[w].at = "drop" PROVE worker[w].q # h
    <3>1. HeldBy(w, worker[w].q) /\ w \in Thread
      BY <2>2, Constants DEF HeldBy, Place
    <3> QED
      BY <1>2, <2>2, <3>1 DEF OnceAt
  <2>3. \A u \in Thread : launch'[u].at = "drop" => u # t
    BY <1>5
  <2>4. \A w \in Worker : worker'[w].at = "drop" => w # t
    BY <1>2, <1>6
  <2>5. Drops'
    BY <1>3, <1>5, <1>6, <2>1, <2>2, <2>3, <2>4 DEF IInv, Uses, Drops
  <2>6. Calls'
    BY <1>1 DEF IInv, Uses, Calls, Alive
  <2> QED
    BY <2>5, <2>6 DEF Uses
<1>15. Given'
  BY <1>1 DEF IInv, Given
<1> QED
  BY <1>8, <1>9, <1>11, <1>12, <1>13, <1>14, <1>15 DEF IInv

-----------------------------------------------------------------------------
(* thread_worker. *)

(* The record of a worker. *)
WorkerType(r) ==
  /\ DOMAIN r = {"at", "q", "nq", "left"} /\ r.at \in Place
  /\ r.q \in Ctx \cup {Nil} /\ r.nq \in Ctx \cup {Nil}

(* What a worker's record must satisfy, as Stack says. *)
WorkerStack(r) ==
  /\ IF r.at = "back" THEN r.nq \notin {Nil, r.q} ELSE r.nq = Nil
  /\ r.at \in Handling => r.q # Nil
  /\ r.at \in {"tosleep", "asleep"} => r.q = Nil

(* Workers that keep what they hold and use. *)
LEMMA WorkersQuiet ==
  ASSUME IInv, hs' = hs, ctx' = ctx, mq' = mq, gq' = gq, launch' = launch, call' = call,
         sent' = sent, quit' \in BOOLEAN,
         worker' = [w \in Worker |-> worker'[w]], \A w \in Worker : WorkerType(worker'[w]),
         \A w \in Worker : WorkerStack(worker'[w]),
         \A t \in Thread : launch[t].at # "no" => worker'[t] = worker[t],
         \A w \in Worker : worker'[w].at = "drop" =>
            worker'[w].q \in DOMAIN mq /\ mq[worker'[w].q].release,
         \A w \in Worker : \A k \in Ctx : (HeldBy(w, k)' <=> HeldBy(w, k)) /\ (WorkUse(w, k)' <=> WorkUse(w, k))
  PROVE  IInv'
<1>1. Typed'
  BY DEF IInv, Typed, WorkerType
<1>2. Stack'
  BY DEF IInv, Stack, WorkerStack
<1>3. \A t \in Thread : \A k \in Ctx :
        (HeldBy(t, k)' <=> HeldBy(t, k)) /\ (WorkUse(t, k)' <=> WorkUse(t, k))
  <2> TAKE t \in Thread
  <2> TAKE k \in Ctx
  <2>1. CASE t \in Worker
    BY <2>1
  <2>2. CASE t \notin Worker
    BY <2>2 DEF HeldBy, WorkUse
  <2> QED
    BY <2>1, <2>2
<1>4. Once'
  BY <1>3 DEF IInv, Once, OnceAt, Distinct, Listed, Held, Marked
<1>5. Refs'
  <2> SUFFICES ASSUME NEW k \in Ctx PROVE RefAt(k)'
    BY DEF Refs
  <2>1. {w \in Worker : worker'[w].q = k /\ worker'[w].at \in {"first", "more", "call", "yield", "back"}}
          = {w \in Worker : worker[w].q = k /\ worker[w].at \in {"first", "more", "call", "yield", "back"}}
    BY <1>3, Constants DEF WorkUse
  <2>2. Users(k)' = Users(k)
    BY <2>1 DEF Users
  <2> QED
    BY <2>2 DEF IInv, Refs, RefAt, Alive
<1>6. Linked' /\ Uses' /\ Given'
  BY DEF IInv, Linked, Uses, Calls, Drops, Alive, Given
<1> QED
  BY <1>1, <1>2, <1>4, <1>5, <1>6 DEF IInv

(* The same for one worker. *)
LEMMA WorkerQuiet ==
  ASSUME IInv, NEW w \in Worker, launch[w].at = "no", NEW r, WorkerType(r), WorkerStack(r),
         worker' = [worker EXCEPT ![w] = r],
         hs' = hs, ctx' = ctx, mq' = mq, gq' = gq, launch' = launch, call' = call,
         sent' = sent, quit' = quit,
         r.at = "drop" => r.q \in DOMAIN mq /\ mq[r.q].release,
         \A k \in Ctx : (HeldBy(w, k)' <=> HeldBy(w, k)) /\ (WorkUse(w, k)' <=> WorkUse(w, k))
  PROVE  IInv'
<1>1. /\ worker' = [v \in Worker |-> worker'[v]] /\ worker'[w] = r
      /\ \A v \in Worker : v # w => worker'[v] = worker[v]
  BY DEF IInv, Typed
<1>2. \A v \in Worker : WorkerType(worker[v]) /\ WorkerStack(worker[v])
  BY DEF IInv, Typed, Stack, WorkerType, WorkerStack
<1>3. \A v \in Worker : WorkerType(worker'[v]) /\ WorkerStack(worker'[v])
  BY <1>1, <1>2
<1>4. \A t \in Thread : launch[t].at # "no" => worker'[t] = worker[t]
  BY <1>1 DEF IInv, Stack
<1>5. \A v \in Worker : worker'[v].at = "drop" => worker'[v].q \in DOMAIN mq /\ mq[worker'[v].q].release
  BY <1>1 DEF IInv, Uses, Drops
<1>6. \A v \in Worker : \A k \in Ctx : (HeldBy(v, k)' <=> HeldBy(v, k)) /\ (WorkUse(v, k)' <=> WorkUse(v, k))
  <2> TAKE v \in Worker
  <2> TAKE k \in Ctx
  <2>1. CASE v = w
    BY <2>1
  <2>2. CASE v # w
    BY <1>1, <2>2 DEF HeldBy, WorkUse
  <2> QED
    BY <2>1, <2>2
<1>7. quit' \in BOOLEAN
  BY DEF IInv, Typed
<1> QED
  BY <1>1, <1>3, <1>4, <1>5, <1>6, <1>7, WorkersQuiet

(* The queue in the hands of a worker. *)
LEMMA WorkerFacts ==
  ASSUME IInv, NEW w \in Worker, worker[w].q # Nil,
         worker[w].at \in Place \ {"next", "tosleep", "asleep"}
  PROVE  LET h == worker[w].q IN
         /\ h \in Ctx /\ HeldBy(w, h) /\ ~Listed(h) /\ OnceAt(h)
         /\ h \in DOMAIN mq /\ Ring(mq[h], Msg)
         /\ worker[w].at \in {"first", "more", "call", "yield", "back"} =>
              /\ WorkUse(w, h) /\ h \in DOMAIN ctx /\ Alive(h) /\ ctx[h].handle = h
              /\ ~mq[h].release /\ mq[h].in_global
<1> DEFINE h == worker[w].q
<1>1. h \in Ctx /\ w \in Thread
  BY Constants DEF IInv, Typed
<1>2. HeldBy(w, h)
  BY DEF HeldBy
<1>3. OnceAt(h) /\ ~Listed(h) /\ Marked(h)
  BY <1>1, <1>2 DEF IInv, Once, OnceAt, Held
<1>4. h \in DOMAIN mq /\ Ring(mq[h], Msg)
  BY <1>3 DEF Marked, IInv, Typed
<1>5. ASSUME worker[w].at \in {"first", "more", "call", "yield", "back"}
      PROVE  /\ WorkUse(w, h) /\ h \in DOMAIN ctx /\ Alive(h) /\ ctx[h].handle = h
             /\ ~mq[h].release /\ mq[h].in_global
  <2>1. WorkUse(w, h)
    BY <1>5 DEF WorkUse
  <2>2. Alive(h)
    BY <1>1, <2>1, InUse DEF IInv
  <2>3. h \in DOMAIN ctx
    BY <2>2 DEF Alive
  <2>4. ctx[h].handle = h
    BY <1>4, <2>2, <2>3 DEF IInv, Linked
  <2>5. ~mq[h].release
    BY <2>2, <2>3, <2>4 DEF IInv, Linked
  <2> QED
    BY <1>3, <2>1, <2>2, <2>3, <2>4, <2>5 DEF Marked
<1> QED
  BY <1>1, <1>2, <1>3, <1>4, <1>5

LEMMA ReturnStep ==
  ASSUME IInv, NEW w \in Worker, Return(w)
  PROVE  IInv'
<1> DEFINE r == [worker[w] EXCEPT !.at = IF worker[w].left > 0 THEN "more" ELSE "yield"]
<1>1. /\ worker[w].at = "call" /\ launch[w].at = "no" /\ worker' = [worker EXCEPT ![w] = r]
      /\ hs' = hs /\ ctx' = ctx /\ mq' = mq /\ gq' = gq /\ launch' = launch /\ call' = call
      /\ sent' = sent /\ quit' = quit
  BY DEF Return, At
<1>2. DOMAIN worker[w] = {"at", "q", "nq", "left"} /\ WorkerType(worker[w]) /\ WorkerStack(worker[w])
  BY DEF IInv, Typed, Stack, WorkerType, WorkerStack
<1>3. /\ DOMAIN r = {"at", "q", "nq", "left"} /\ r.at \in {"more", "yield"}
      /\ r.q = worker[w].q /\ r.nq = worker[w].nq
  BY <1>2
<1> HIDE DEF r
<1>4. WorkerType(r) /\ WorkerStack(r)
  BY <1>1, <1>2, <1>3 DEF WorkerType, WorkerStack, Place, Handling
<1>5. worker'[w] = r
  BY <1>1 DEF IInv, Typed
<1>6. \A k \in Ctx : (HeldBy(w, k)' <=> HeldBy(w, k)) /\ (WorkUse(w, k)' <=> WorkUse(w, k))
  BY <1>1, <1>3, <1>5 DEF HeldBy, WorkUse, Place
<1> QED
  BY <1>1, <1>3, <1>4, <1>6, WorkerQuiet

LEMMA SleepStep ==
  ASSUME IInv, NEW w \in Worker, Sleep(w) \/ Wakeup(w)
  PROVE  IInv'
<1> DEFINE at == IF Sleep(w) /\ ~quit THEN "asleep" ELSE "loop"
           r == [worker[w] EXCEPT !.at = at]
<1>1. /\ worker[w].at \in {"tosleep", "asleep"}
      /\ worker' = [worker EXCEPT ![w] = r]
      /\ hs' = hs /\ ctx' = ctx /\ mq' = mq /\ gq' = gq /\ launch' = launch /\ call' = call
      /\ sent' = sent /\ quit' = quit
  <2>1. CASE Sleep(w)
    BY <2>1 DEF Sleep, At
  <2>2. CASE Wakeup(w) /\ ~Sleep(w)
    BY <2>2 DEF Wakeup
  <2> QED
    BY <2>1, <2>2
<1>2. at \in {"asleep", "loop"}
  OBVIOUS
<1> HIDE DEF at
<1>3. launch[w].at = "no"
  BY <1>1, Constants DEF IInv, Stack
<1>4. DOMAIN worker[w] = {"at", "q", "nq", "left"} /\ WorkerType(worker[w]) /\ WorkerStack(worker[w])
  BY DEF IInv, Typed, Stack, WorkerType, WorkerStack
<1>5. /\ DOMAIN r = {"at", "q", "nq", "left"} /\ r.at = at
      /\ r.q = worker[w].q /\ r.nq = worker[w].nq
  BY <1>4
<1> HIDE DEF r
<1>6. r.q = Nil /\ r.nq = Nil /\ WorkerType(r) /\ WorkerStack(r)
  BY <1>1, <1>2, <1>4, <1>5 DEF WorkerType, WorkerStack, Place, Handling
<1>7. worker'[w] = r
  BY <1>1 DEF IInv, Typed
<1>8. \A k \in Ctx : (HeldBy(w, k)' <=> HeldBy(w, k)) /\ (WorkUse(w, k)' <=> WorkUse(w, k))
  BY <1>1, <1>5, <1>6, <1>7, Constants DEF HeldBy, WorkUse
<1> QED
  BY <1>1, <1>2, <1>3, <1>5, <1>6, <1>8, WorkerQuiet

LEMMA AbortStep ==
  ASSUME IInv, Abort
  PROVE  IInv'
<1>1. /\ worker' = [w \in Worker |->
                      IF worker[w].at = "asleep" THEN [worker[w] EXCEPT !.at = "loop"] ELSE worker[w]]
      /\ hs' = hs /\ ctx' = ctx /\ mq' = mq /\ gq' = gq /\ launch' = launch /\ call' = call
      /\ sent' = sent /\ quit' \in BOOLEAN
  BY DEF Abort
<1>2. worker' = [w \in Worker |-> worker'[w]]
  BY <1>1
<1>3. ASSUME NEW w \in Worker
      PROVE  /\ WorkerType(worker'[w]) /\ WorkerStack(worker'[w])
             /\ worker'[w].at = "drop" => worker'[w].q \in DOMAIN mq /\ mq[worker'[w].q].release
             /\ \A k \in Ctx : (HeldBy(w, k)' <=> HeldBy(w, k)) /\ (WorkUse(w, k)' <=> WorkUse(w, k))
  <2>1. WorkerType(worker[w]) /\ WorkerStack(worker[w])
    BY DEF IInv, Typed, Stack, WorkerType, WorkerStack
  <2>2. CASE worker[w].at # "asleep"
    <3>1. worker'[w] = worker[w]
      BY <1>1, <2>2
    <3> QED
      BY <1>1, <2>1, <3>1 DEF HeldBy, WorkUse, IInv, Uses, Drops
  <2>3. CASE worker[w].at = "asleep"
    <3>1. /\ worker'[w].at = "loop" /\ worker'[w].q = worker[w].q /\ worker'[w].nq = worker[w].nq
          /\ DOMAIN worker'[w] = {"at", "q", "nq", "left"}
      BY <1>1, <2>1, <2>3 DEF WorkerType
    <3>2. worker[w].q = Nil /\ worker[w].nq = Nil
      BY <2>1, <2>3 DEF WorkerStack
    <3>3. \A k \in Ctx : (HeldBy(w, k)' <=> HeldBy(w, k)) /\ (WorkUse(w, k)' <=> WorkUse(w, k))
      BY <1>1, <2>3, <3>1, <3>2, Constants DEF HeldBy, WorkUse
    <3> QED
      BY <2>1, <3>1, <3>2, <3>3 DEF WorkerType, WorkerStack, Place, Handling
  <2> QED
    BY <2>2, <2>3
<1>4. \A t \in Thread : launch[t].at # "no" => worker'[t] = worker[t]
  BY <1>1 DEF IInv, Stack
<1> QED
  BY <1>1, <1>2, <1>3, <1>4, WorkersQuiet

(* One worker moves: what that means for its record. *)
LEMMA WorkerMoves ==
  ASSUME IInv, NEW w \in Worker, launch[w].at = "no", NEW r, WorkerType(r), WorkerStack(r),
         worker' = [worker EXCEPT ![w] = r], launch' = launch
  PROVE  /\ worker'[w] = r /\ \A v \in Worker : v # w => worker'[v] = worker[v]
         /\ worker' = [v \in Worker |-> worker'[v]]
         /\ \A v \in Worker : WorkerType(worker'[v])
         /\ Stack'
<1>1. /\ worker' = [v \in Worker |-> worker'[v]] /\ worker'[w] = r
      /\ \A v \in Worker : v # w => worker'[v] = worker[v]
  BY DEF IInv, Typed
<1>2. \A v \in Worker : WorkerType(worker[v]) /\ WorkerStack(worker[v])
  BY DEF IInv, Typed, Stack, WorkerType, WorkerStack
<1>3. \A v \in Worker : WorkerType(worker'[v]) /\ WorkerStack(worker'[v])
  BY <1>1, <1>2
<1>4. Stack'
  BY <1>1, <1>3 DEF IInv, Stack, WorkerStack
<1> QED
  BY <1>1, <1>3, <1>4

(* skynet_globalmq_pop. *)
LEMMA GlobalPopStep ==
  ASSUME IInv, NEW w \in Worker, launch[w].at = "no", NEW at \in {"grab", "loop"},
         globalmq_pop(w, at, "tosleep"),
         \A k \in Ctx : ~HeldBy(w, k) /\ ~WorkUse(w, k),
         hs' = hs, ctx' = ctx, mq' = mq, launch' = launch, call' = call, sent' = sent, quit' = quit
  PROVE  IInv'
<1>1. CASE gq = << >>
  <2> DEFINE r == Holds("tosleep", Nil)
  <2>1. worker' = [worker EXCEPT ![w] = r] /\ gq' = gq
    BY <1>1 DEF globalmq_pop
  <2>2. r.at = "tosleep" /\ r.q = Nil /\ r.nq = Nil /\ DOMAIN r = {"at", "q", "nq", "left"}
    BY DEF Holds
  <2> HIDE DEF r
  <2>3. WorkerType(r) /\ WorkerStack(r)
    BY <2>2 DEF WorkerType, WorkerStack, Place, Handling
  <2>4. worker'[w] = r
    BY <2>1 DEF IInv, Typed
  <2>5. \A k \in Ctx : ~HeldBy(w, k)' /\ ~WorkUse(w, k)'
    BY <2>2, <2>4, Constants DEF HeldBy, WorkUse
  <2> QED
    BY <2>1, <2>2, <2>3, <2>5, WorkerQuiet
<1>2. CASE gq # << >>
  <2> DEFINE h == Head(gq)
             r == Holds(at, h)
  <2>1. worker' = [worker EXCEPT ![w] = r] /\ gq' = Tail(gq)
    BY <1>2 DEF globalmq_pop
  <2>2. r.at = at /\ r.q = h /\ r.nq = Nil /\ DOMAIN r = {"at", "q", "nq", "left"}
    BY DEF Holds
  <2>3. /\ gq' \in Seq(Ctx) /\ h \in Ctx /\ Listed(h) /\ Distinct'
        /\ \A k : Listed(k)' <=> k # h /\ Listed(k)
    BY <1>2, <2>1, ListTail DEF IInv, Typed, Once
  <2> HIDE DEF h, r
  <2>4. WorkerType(r) /\ WorkerStack(r)
    BY <2>2, <2>3, Constants DEF WorkerType, WorkerStack, Place, Handling
  <2>5. /\ worker'[w] = r /\ \A v \in Worker : v # w => worker'[v] = worker[v]
        /\ worker' = [v \in Worker |-> worker'[v]]
        /\ \A v \in Worker : WorkerType(worker'[v])
        /\ Stack'
    BY <2>1, <2>4, WorkerMoves
  <2>6. OnlyMoves(w) /\ w \in Thread
    BY <2>5, Constants DEF OnlyMoves
  <2>7. Typed'
    BY <2>3, <2>5 DEF IInv, Typed, WorkerType
  <2>8. Once'
    <3> SUFFICES ASSUME NEW k \in Ctx PROVE OnceAt(k)'
      BY <2>3 DEF Once
    <3>1. OnceAt(k) /\ (Marked(k)' <=> Marked(k)) /\ ~HeldBy(w, k)
      BY DEF IInv, Once, Marked
    <3>2. (k \in DOMAIN mq => mq[k].in_global \/ Empty(mq[k]))'
      BY <3>1 DEF OnceAt
    <3>3. CASE k = h
      <4>1. Listed(k) /\ ~Listed(k)' /\ HeldBy(w, k)'
        BY <2>2, <2>3, <2>5, <3>3 DEF HeldBy, Place
      <4> QED
        BY <2>6, <3>1, <3>2, <4>1, OnceTaken
    <3>4. CASE k # h
      <4>1. (Listed(k)' <=> Listed(k)) /\ ~HeldBy(w, k)'
        BY <2>2, <2>3, <2>5, <3>1, <3>4, Constants DEF HeldBy
      <4> QED
        BY <2>6, <3>1, <3>2, <4>1, OnceSame
    <3> QED
      BY <3>3, <3>4
  <2>9. Refs'
    <3> SUFFICES ASSUME NEW k \in Ctx PROVE RefAt(k)'
      BY DEF Refs
    <3>1. ~WorkUse(w, k)' /\ ~WorkUse(w, k)
      BY <2>2, <2>5 DEF WorkUse
    <3>2. Hands(w, k)' = Hands(w, k)
      BY <3>1 DEF Hands, Bit, CallUse, LaunchUse
    <3>3. H!Registered(hs, k)' <=> H!Registered(hs, k)
      OBVIOUS
    <3> QED
      BY <2>6, <3>2, <3>3, RefsOther DEF IInv
  <2>10. Linked' /\ Given'
    BY DEF IInv, Linked, Given, Alive
  <2>11. Uses'
    BY <2>2, <2>5 DEF IInv, Uses, Calls, Drops, Alive
  <2> QED
    BY <2>5, <2>7, <2>8, <2>9, <2>10, <2>11 DEF IInv
<1> QED
  BY <1>1, <1>2

LEMMA NextQueueStep ==
  ASSUME IInv, NEW w \in Worker, NextQueue(w)
  PROVE  IInv'
<1>1. /\ worker[w].at = "next" /\ launch[w].at = "no" /\ globalmq_pop(w, "loop", "tosleep")
      /\ hs' = hs /\ ctx' = ctx /\ mq' = mq /\ launch' = launch /\ call' = call
      /\ sent' = sent /\ quit' = quit
  BY DEF NextQueue, At
<1>2. worker[w].nq = Nil
  BY <1>1 DEF IInv, Stack
<1>3. \A k \in Ctx : ~HeldBy(w, k) /\ ~WorkUse(w, k)
  BY <1>1, <1>2, Constants DEF HeldBy, WorkUse
<1> QED
  BY <1>1, <1>3, GlobalPopStep

LEMMA LoopStep ==
  ASSUME IInv, NEW w \in Worker, Loop(w)
  PROVE  IInv'
<1>1. /\ worker[w].at = "loop" /\ launch[w].at = "no"
      /\ hs' = hs /\ ctx' = ctx /\ mq' = mq /\ launch' = launch /\ call' = call
      /\ sent' = sent /\ quit' = quit
  BY DEF Loop, At
<1>2. CASE worker[w].q = Nil /\ globalmq_pop(w, "grab", "tosleep")
  <2>1. worker[w].nq = Nil
    BY <1>1 DEF IInv, Stack
  <2>2. \A k \in Ctx : ~HeldBy(w, k) /\ ~WorkUse(w, k)
    BY <1>1, <1>2, <2>1, Constants DEF HeldBy, WorkUse
  <2> QED
    BY <1>1, <1>2, <2>2, GlobalPopStep
<1>3. CASE worker' = [worker EXCEPT ![w].at = "exit"] /\ gq' = gq
  <2> DEFINE r == [worker[w] EXCEPT !.at = "exit"]
  <2>1. worker' = [worker EXCEPT ![w] = r]
    BY <1>3
  <2>2. WorkerType(worker[w]) /\ WorkerStack(worker[w]) /\ DOMAIN worker[w] = {"at", "q", "nq", "left"}
    BY DEF IInv, Typed, Stack, WorkerType, WorkerStack
  <2>3. /\ DOMAIN r = {"at", "q", "nq", "left"} /\ r.at = "exit"
        /\ r.q = worker[w].q /\ r.nq = worker[w].nq
    BY <2>2
  <2> HIDE DEF r
  <2>4. WorkerType(r) /\ WorkerStack(r)
    BY <1>1, <2>2, <2>3 DEF WorkerType, WorkerStack, Place, Handling
  <2>5. worker'[w] = r
    BY <2>1 DEF IInv, Typed
  <2>6. \A k \in Ctx : (HeldBy(w, k)' <=> HeldBy(w, k)) /\ (WorkUse(w, k)' <=> WorkUse(w, k))
    BY <1>1, <2>3, <2>5 DEF HeldBy, WorkUse, Place
  <2> QED
    BY <1>1, <1>3, <2>1, <2>3, <2>4, <2>6, WorkerQuiet
<1> QED
  BY <1>2, <1>3 DEF Loop

LEMMA GrabStep ==
  ASSUME IInv, NEW w \in Worker, Grab(w)
  PROVE  IInv'
<1> DEFINE h == worker[w].q
           at == IF Found(h) THEN "first" ELSE "release"
           r == [worker[w] EXCEPT !.at = at]
<1>1. /\ worker[w].at \in {"grab", "loop"} /\ launch[w].at = "no"
      /\ worker[w].at = "loop" => h # Nil
      /\ IF Found(h) THEN grab(h) ELSE ctx' = ctx
      /\ worker' = [worker EXCEPT ![w] = r]
      /\ hs' = hs /\ mq' = mq /\ gq' = gq /\ launch' = launch /\ call' = call
      /\ sent' = sent /\ quit' = quit
  <2>1. CASE Found(h)
    BY <2>1 DEF Grab, At
  <2>2. CASE ~Found(h)
    BY <2>2 DEF Grab, At
  <2> QED
    BY <2>1, <2>2
<1>2. h # Nil
  BY <1>1 DEF IInv, Stack, Handling
<1>3. h \in Ctx /\ HeldBy(w, h) /\ OnceAt(h) /\ w \in Thread
  BY <1>1, <1>2, WorkerFacts, Constants DEF Place
<1>4. WorkerType(worker[w]) /\ WorkerStack(worker[w]) /\ DOMAIN worker[w] = {"at", "q", "nq", "left"}
  BY DEF IInv, Typed, Stack, WorkerType, WorkerStack
<1>5. /\ DOMAIN r = {"at", "q", "nq", "left"} /\ r.at = at
      /\ r.q = h /\ r.nq = worker[w].nq
  BY <1>4
<1>6. at \in {"first", "release"}
  OBVIOUS
<1> HIDE DEF r
<1>7. WorkerType(r) /\ WorkerStack(r)
  BY <1>1, <1>2, <1>4, <1>5, <1>6 DEF WorkerType, WorkerStack, Place, Handling
<1>8. worker'[w] = r
  BY <1>1 DEF IInv, Typed
<1>9. \A k \in Ctx : HeldBy(w, k)' <=> HeldBy(w, k)
  BY <1>1, <1>5, <1>6, <1>8 DEF HeldBy, Place
<1>10. CASE ~Found(h)
  <2>1. at = "release"
    BY <1>10
  <2>2. \A k \in Ctx : WorkUse(w, k)' <=> WorkUse(w, k)
    BY <1>1, <1>5, <1>8, <2>1 DEF WorkUse
  <2>3. ctx' = ctx
    BY <1>1, <1>10
  <2> QED
    BY <1>1, <1>5, <1>7, <1>9, <2>1, <2>2, <2>3, WorkerQuiet
<1>11. CASE Found(h)
  <2>1. at = "first" /\ grab(h)
    BY <1>1, <1>11
  <2>2. /\ worker'[w] = r /\ \A v \in Worker : v # w => worker'[v] = worker[v]
        /\ worker' = [v \in Worker |-> worker'[v]]
        /\ \A v \in Worker : WorkerType(worker'[v])
        /\ Stack'
    BY <1>1, <1>7, WorkerMoves
  <2>3. /\ Alive(h) /\ h \in DOMAIN ctx /\ ctx[h].ref = Users(h) /\ ctx[h].ref > 0
    BY <1>3, <1>11, FoundFacts
  <2>4. /\ DOMAIN ctx' = DOMAIN ctx
        /\ ctx' \in [DOMAIN ctx' -> [handle : Nat, ref : Nat] \cup {Nil}]
        /\ ctx'[h].handle = h /\ ctx'[h].ref = ctx[h].ref + 1
        /\ \A k \in DOMAIN ctx : k # h => ctx'[k] = ctx[k]
        /\ \A k : Alive(k)' <=> Alive(k)
        /\ \A k \in DOMAIN ctx : Alive(k) => ctx'[k].handle = ctx[k].handle
    BY <1>3, <1>11, <2>1, GrabFacts
  <2>5. \A k \in Ctx : (WorkUse(w, k)' <=> k = h) /\ ~WorkUse(w, k)
    BY <1>1, <1>5, <1>8, <2>1 DEF WorkUse
  <2>6. OnlyMoves(w)
    BY <1>1, <2>2 DEF OnlyMoves
  <2>7. Typed'
    BY <1>1, <2>2, <2>4 DEF IInv, Typed, WorkerType
  <2>8. Once'
    <3> SUFFICES ASSUME NEW k \in Ctx PROVE OnceAt(k)'
      BY <1>1 DEF IInv, Once, Distinct
    <3>1. OnceAt(k) /\ (Marked(k)' <=> Marked(k)) /\ (Listed(k)' <=> Listed(k))
      BY <1>1 DEF IInv, Once, Marked, Listed
    <3>2. (k \in DOMAIN mq => mq[k].in_global \/ Empty(mq[k]))'
      BY <1>1, <3>1 DEF OnceAt
    <3> QED
      BY <1>3, <1>9, <2>6, <3>1, <3>2, OnceSame
  <2>9. Refs'
    <3> SUFFICES ASSUME NEW k \in Ctx PROVE RefAt(k)'
      BY DEF Refs
    <3>1. H!Registered(hs, k)' <=> H!Registered(hs, k)
      BY <1>1
    <3>2. (CallUse(w, k)' <=> CallUse(w, k)) /\ (LaunchUse(w, k)' <=> LaunchUse(w, k))
      BY <1>1 DEF CallUse, LaunchUse
    <3>3. CASE k # h
      <4>1. Hands(w, k)' = Hands(w, k)
        BY <2>5, <3>2, <3>3 DEF Hands, Bit
      <4>2. (k \in DOMAIN ctx' <=> k \in DOMAIN ctx) /\ ctx'[k] = ctx[k]
        BY <2>1, <2>4, <3>3 DEF grab
      <4> QED
        BY <1>3, <2>6, <3>1, <4>1, <4>2, RefsOther DEF IInv
    <3>4. CASE k = h
      <4>1. Hands(w, k)' = Hands(w, k) + 1
        BY <2>5, <3>2, <3>4 DEF Hands, Bit
      <4>2. /\ Users(k)' + Bit(H!Registered(hs, k)) + Hands(w, k)
                 = Users(k) + Bit(H!Registered(hs, k))' + Hands(w, k)'
            /\ Users(k)' \in Nat
        BY <1>3, <2>6, UsersStep
      <4>3. Bit(H!Registered(hs, k))' = Bit(H!Registered(hs, k)) /\ Bit(H!Registered(hs, k)) \in Nat
        BY <3>1 DEF Bit
      <4>4. Hands(w, k)' \in Nat /\ Hands(w, k) \in Nat /\ Users(k) \in Nat
        BY <1>3, UsersNat DEF Hands, Bit
      <4>5. Users(k)' = Users(k) + 1
        BY <4>1, <4>2, <4>3, <4>4
      <4> QED
        BY <2>3, <2>4, <3>4, <4>5 DEF RefAt
    <3> QED
      BY <3>3, <3>4
  <2>10. Linked'
    BY <1>1, <2>4 DEF IInv, Linked, Alive
  <2>11. Uses'
    <3>1. \A u \in Thread : call[u].at # "ret" => call[u].h \in DOMAIN ctx
      BY DEF IInv, Uses, Calls, Alive
    <3>2. \A u \in Thread : call[u].at = "delete" => call[u].h # h
      BY <2>3 DEF IInv, Uses, Calls
    <3>3. Calls'
      BY <1>1, <2>4, <3>1, <3>2 DEF IInv, Uses, Calls
    <3>4. Drops'
      BY <1>1, <1>5, <2>1, <2>2 DEF IInv, Uses, Drops
    <3> QED
      BY <3>3, <3>4 DEF Uses
  <2>12. Given'
    BY <1>1, <2>4 DEF IInv, Given
  <2> QED
    BY <2>2, <2>7, <2>8, <2>9, <2>10, <2>11, <2>12 DEF IInv
<1> QED
  BY <1>10, <1>11

LEMMA ReleaseStep ==
  ASSUME IInv, NEW w \in Worker, Release(w)
  PROVE  IInv'
<1> DEFINE h == worker[w].q
           at == IF mq[h].release THEN "drop" ELSE "next"
           r == [worker[w] EXCEPT !.at = at]
<1>1. /\ worker[w].at = "release" /\ launch[w].at = "no"
      /\ gq' = IF mq[h].release THEN gq ELSE Append(gq, h)
      /\ worker' = [worker EXCEPT ![w] = r]
      /\ hs' = hs /\ ctx' = ctx /\ mq' = mq /\ launch' = launch /\ call' = call
      /\ sent' = sent /\ quit' = quit
  BY DEF Release, At, mq_release, AfterRelease
<1>2. h # Nil /\ worker[w].nq = Nil
  BY <1>1 DEF IInv, Stack, Handling
<1>3. h \in Ctx /\ HeldBy(w, h) /\ ~Listed(h) /\ OnceAt(h) /\ h \in DOMAIN mq /\ w \in Thread
  BY <1>1, <1>2, WorkerFacts, Constants DEF Place
<1>4. WorkerType(worker[w]) /\ WorkerStack(worker[w]) /\ DOMAIN worker[w] = {"at", "q", "nq", "left"}
  BY DEF IInv, Typed, Stack, WorkerType, WorkerStack
<1>5. DOMAIN r = {"at", "q", "nq", "left"} /\ r.at = at /\ r.q = h /\ r.nq = Nil
  BY <1>2, <1>4
<1>6. at \in {"drop", "next"}
  OBVIOUS
<1> HIDE DEF r
<1>7. WorkerType(r) /\ WorkerStack(r)
  BY <1>2, <1>4, <1>5, <1>6 DEF WorkerType, WorkerStack, Place, Handling
<1>8. /\ worker'[w] = r /\ \A v \in Worker : v # w => worker'[v] = worker[v]
      /\ worker' = [v \in Worker |-> worker'[v]]
      /\ \A v \in Worker : WorkerType(worker'[v])
      /\ Stack'
  BY <1>1, <1>7, WorkerMoves
<1>9. \A k \in Ctx : ~WorkUse(w, k)' /\ ~WorkUse(w, k)
  BY <1>1, <1>5, <1>6, <1>8 DEF WorkUse
<1>10. CASE mq[h].release
  <2>1. at = "drop" /\ gq' = gq
    BY <1>1, <1>10
  <2>2. \A k \in Ctx : HeldBy(w, k)' <=> HeldBy(w, k)
    BY <1>1, <1>2, <1>5, <1>8, <2>1, Constants DEF HeldBy, Place
  <2> QED
    BY <1>1, <1>3, <1>5, <1>7, <1>9, <1>10, <2>1, <2>2, WorkerQuiet
<1>11. CASE ~mq[h].release
  <2>1. at = "next" /\ gq' = Append(gq, h)
    BY <1>1, <1>11
  <2>2. \A k \in Ctx : ~HeldBy(w, k)' /\ (k # h => ~HeldBy(w, k))
    BY <1>1, <1>2, <1>5, <1>8, <2>1, Constants DEF HeldBy
  <2>3. /\ gq' \in Seq(Ctx) /\ Distinct'
        /\ \A k : Listed(k)' <=> k = h \/ Listed(k)
    BY <1>3, <2>1, ListAppend DEF IInv, Typed, Once
  <2>4. OnlyMoves(w)
    BY <1>1, <1>8 DEF OnlyMoves
  <2>5. Typed'
    BY <1>1, <1>8, <2>3 DEF IInv, Typed, WorkerType
  <2>6. Once'
    <3> SUFFICES ASSUME NEW k \in Ctx PROVE OnceAt(k)'
      BY <2>3 DEF Once
    <3>1. OnceAt(k) /\ (Marked(k)' <=> Marked(k))
      BY <1>1 DEF IInv, Once, Marked
    <3>2. (k \in DOMAIN mq => mq[k].in_global \/ Empty(mq[k]))'
      BY <1>1, <3>1 DEF OnceAt
    <3>3. CASE k = h
      <4>1. HeldBy(w, k) /\ ~HeldBy(w, k)' /\ Listed(k)'
        BY <1>3, <2>2, <2>3, <3>3
      <4> QED
        BY <1>3, <2>4, <3>1, <3>2, <4>1, OnceLinked
    <3>4. CASE k # h
      <4>1. (HeldBy(w, k)' <=> HeldBy(w, k)) /\ (Listed(k)' <=> Listed(k))
        BY <2>2, <2>3, <3>4
      <4> QED
        BY <1>3, <2>4, <3>1, <3>2, <4>1, OnceSame
    <3> QED
      BY <3>3, <3>4
  <2>7. Refs'
    <3> SUFFICES ASSUME NEW k \in Ctx PROVE RefAt(k)'
      BY DEF Refs
    <3>1. (CallUse(w, k)' <=> CallUse(w, k)) /\ (LaunchUse(w, k)' <=> LaunchUse(w, k))
      BY <1>1 DEF CallUse, LaunchUse
    <3>2. Hands(w, k)' = Hands(w, k)
      BY <1>9, <3>1 DEF Hands, Bit
    <3>3. H!Registered(hs, k)' <=> H!Registered(hs, k)
      BY <1>1
    <3> QED
      BY <1>1, <1>3, <2>4, <3>2, <3>3, RefsOther DEF IInv
  <2>8. Linked' /\ Given'
    BY <1>1 DEF IInv, Linked, Given, Alive
  <2>9. Uses'
    BY <1>1, <1>5, <1>8, <2>1 DEF IInv, Uses, Calls, Drops, Alive
  <2> QED
    BY <1>8, <2>5, <2>6, <2>7, <2>8, <2>9 DEF IInv
<1> QED
  BY <1>10, <1>11

(* The reference of a worker becomes one that is given back. *)
LEMMA WorkerUnref ==
  ASSUME IInv, NEW w \in Worker, worker[w].at \in {"first", "more", "call", "yield", "back"},
         Returned(w), Unref(w, worker[w].q), ctx' = ctx, hs' = hs, launch' = launch,
         \A v \in Worker : v # w => worker'[v] = worker[v],
         worker'[w].at \in {"next", "loop"}
  PROVE  /\ OnlyMoves(w)
         /\ call' \in [Thread -> [at : CallPlace, h : 0 .. MaxCtx, msg : Msg \cup {Nil}]]
         /\ Refs' /\ Calls'
<1> DEFINE h == worker[w].q
<1>1. h # Nil
  BY DEF IInv, Stack, Handling
<1>2. h \in Ctx /\ Alive(h) /\ ctx[h].handle = h /\ w \in Thread
  BY <1>1, WorkerFacts, Constants DEF Place
<1>3. /\ call' \in [Thread -> [at : CallPlace, h : 0 .. MaxCtx, msg : Msg \cup {Nil}]]
      /\ \A u \in Thread : u # w => call'[u] = call[u]
      /\ \A k : CallUse(w, k)' <=> k = h
      /\ \A k : ~CallUse(w, k)
      /\ Calls'
  BY <1>2, UnrefFacts
<1>4. OnlyMoves(w)
  BY <1>3 DEF OnlyMoves
<1>5. Refs'
  <2> SUFFICES ASSUME NEW k \in Ctx PROVE RefAt(k)'
    BY DEF Refs
  <2>1. (WorkUse(w, k) <=> k = h) /\ ~WorkUse(w, k)' /\ (LaunchUse(w, k)' <=> LaunchUse(w, k))
    BY DEF LaunchUse, WorkUse
  <2>2. Hands(w, k)' = Hands(w, k)
    BY <1>3, <2>1 DEF Hands, Bit
  <2>3. H!Registered(hs, k)' <=> H!Registered(hs, k)
    OBVIOUS
  <2> QED
    BY <1>2, <1>4, <2>2, <2>3, RefsOther DEF IInv
<1> QED
  BY <1>3, <1>4, <1>5

LEMMA PopStep ==
  ASSUME IInv, NEW w \in Worker, Pop(w)
  PROVE  IInv'
<1> DEFINE h == worker[w].q
<1>1. /\ worker[w].at \in {"first", "more"} /\ launch[w].at = "no" /\ Returned(w)
      /\ hs' = hs /\ ctx' = ctx /\ gq' = gq /\ launch' = launch /\ sent' = sent /\ quit' = quit
  BY DEF Pop, At
<1>2. h # Nil /\ worker[w].nq = Nil
  BY <1>1 DEF IInv, Stack, Handling
<1>3. /\ h \in Ctx /\ HeldBy(w, h) /\ ~Listed(h) /\ OnceAt(h)
      /\ h \in DOMAIN mq /\ Ring(mq[h], Msg) /\ ~mq[h].release /\ mq[h].in_global /\ w \in Thread
  BY <1>1, <1>2, WorkerFacts, Constants DEF Place
<1>4. WorkerType(worker[w]) /\ WorkerStack(worker[w]) /\ DOMAIN worker[w] = {"at", "q", "nq", "left"}
  BY DEF IInv, Typed, Stack, WorkerType, WorkerStack
<1>5. \A k \in Ctx : k # h => ~HeldBy(w, k)
  BY <1>1, <1>2, Constants DEF HeldBy
<1>6. CASE Empty(mq[h])
  <2> DEFINE r == Holds("next", Nil)
             q == mq[h]
             p == [q EXCEPT !.in_global = FALSE]
  <2>1. mq' = [mq EXCEPT ![h] = p] /\ worker' = [worker EXCEPT ![w] = r] /\ Unref(w, h)
    BY <1>6 DEF Pop
  <2>2. r.at = "next" /\ r.q = Nil /\ r.nq = Nil /\ DOMAIN r = {"at", "q", "nq", "left"}
    BY DEF Holds
  <2>3. Ring(p, Msg) /\ p.in_global = FALSE /\ p.release = q.release /\ (Empty(p) <=> Empty(q))
    <3>1. Ring(q, Msg) /\ FALSE \in BOOLEAN
      BY <1>3
    <3> HIDE DEF q
    <3> QED
      BY ZenonT(60), <3>1, RingFlags
  <2> HIDE DEF r, p
  <2>4. Ring(p, Msg) /\ ~p.in_global /\ ~p.release /\ Empty(p)
    BY <1>3, <1>6, <2>3
  <2>5. /\ DOMAIN mq' = DOMAIN mq /\ mq'[h] = p
        /\ \A k \in DOMAIN mq : k # h => mq'[k] = mq[k]
        /\ mq' = [k \in DOMAIN mq' |-> mq'[k]]
    BY <1>3, <2>1 DEF IInv, Typed
  <2>6. WorkerType(r) /\ WorkerStack(r)
    BY <2>2 DEF WorkerType, WorkerStack, Place, Handling
  <2>7. /\ worker'[w] = r /\ \A v \in Worker : v # w => worker'[v] = worker[v]
        /\ worker' = [v \in Worker |-> worker'[v]]
        /\ \A v \in Worker : WorkerType(worker'[v])
        /\ Stack'
    BY <1>1, <2>1, <2>6, WorkerMoves
  <2>8. /\ OnlyMoves(w)
        /\ call' \in [Thread -> [at : CallPlace, h : 0 .. MaxCtx, msg : Msg \cup {Nil}]]
        /\ Refs' /\ Calls'
    BY <1>1, <2>1, <2>2, <2>7, WorkerUnref
  <2>9. Typed'
    BY <1>1, <2>4, <2>5, <2>7, <2>8 DEF IInv, Typed, WorkerType
  <2>10. \A k \in Ctx : ~HeldBy(w, k)'
    BY <1>1, <2>2, <2>7, Constants DEF HeldBy
  <2>11. Once'
    <3> SUFFICES ASSUME NEW k \in Ctx PROVE OnceAt(k)'
      BY <1>1 DEF IInv, Once, Distinct
    <3>1. OnceAt(k) /\ (Listed(k)' <=> Listed(k))
      BY <1>1 DEF IInv, Once, Listed
    <3>2. (k \in DOMAIN mq => mq[k].in_global \/ Empty(mq[k]))'
      BY <2>4, <2>5, <3>1 DEF OnceAt
    <3>3. CASE k = h
      <4>1. HeldBy(w, k) /\ ~HeldBy(w, k)' /\ ~Marked(k)'
        BY <1>3, <2>4, <2>5, <2>10, <3>3 DEF Marked
      <4> QED
        BY <1>3, <2>8, <3>1, <3>2, <4>1, OnceLeft
    <3>4. CASE k # h
      <4>1. (HeldBy(w, k)' <=> HeldBy(w, k)) /\ (Marked(k)' <=> Marked(k))
        BY <1>5, <2>5, <2>10, <3>4 DEF Marked
      <4> QED
        BY <1>3, <2>8, <3>1, <3>2, <4>1, OnceSame
    <3> QED
      BY <3>3, <3>4
  <2>12. Linked' /\ Given'
    BY <1>1, <2>4, <2>5 DEF IInv, Linked, Given, Alive
  <2>13. Drops'
    BY <1>1, <1>3, <2>2, <2>5, <2>7 DEF IInv, Uses, Drops
  <2> QED
    BY <2>7, <2>8, <2>9, <2>11, <2>12, <2>13 DEF IInv, Uses
<1>7. CASE ~Empty(mq[h])
  <2> DEFINE p == mq_pop(mq[h])
             r == [worker[w] EXCEPT !.at = "call", !.left = Left(w, mq'[h])]
  <2>1. mq' = [mq EXCEPT ![h] = p] /\ worker' = [worker EXCEPT ![w] = r] /\ call' = call
    BY <1>7 DEF Pop
  <2>2. DOMAIN r = {"at", "q", "nq", "left"} /\ r.at = "call" /\ r.q = h /\ r.nq = Nil
    BY <1>2, <1>4
  <2>3. Ring(p, Msg) /\ SameFlags(p, mq[h])
    BY <1>3, <1>7, RingPop
  <2> HIDE DEF r, p
  <2>4. p.in_global /\ ~p.release
    BY <1>3, <2>3 DEF SameFlags
  <2>5. /\ DOMAIN mq' = DOMAIN mq /\ mq'[h] = p
        /\ \A k \in DOMAIN mq : k # h => mq'[k] = mq[k]
        /\ mq' = [k \in DOMAIN mq' |-> mq'[k]]
    BY <1>3, <2>1 DEF IInv, Typed
  <2>6. WorkerType(r) /\ WorkerStack(r)
    BY <1>2, <1>4, <2>2 DEF WorkerType, WorkerStack, Place, Handling
  <2>7. /\ worker'[w] = r /\ \A v \in Worker : v # w => worker'[v] = worker[v]
        /\ worker' = [v \in Worker |-> worker'[v]]
        /\ \A v \in Worker : WorkerType(worker'[v])
        /\ Stack'
    BY <1>1, <2>1, <2>6, WorkerMoves
  <2>8. OnlyMoves(w)
    BY <1>1, <2>1, <2>7 DEF OnlyMoves
  <2>9. Typed'
    BY <1>1, <2>1, <2>3, <2>5, <2>7 DEF IInv, Typed, WorkerType
  <2>10. Once'
    <3> SUFFICES ASSUME NEW k \in Ctx PROVE OnceAt(k)'
      BY <1>1 DEF IInv, Once, Distinct
    <3>1. OnceAt(k) /\ (Listed(k)' <=> Listed(k))
      BY <1>1 DEF IInv, Once, Listed
    <3>2. (k \in DOMAIN mq => mq[k].in_global \/ Empty(mq[k]))'
      BY <2>4, <2>5, <3>1 DEF OnceAt
    <3>3. HeldBy(w, k)' <=> HeldBy(w, k)
      BY <1>1, <1>2, <2>2, <2>7 DEF HeldBy, Place
    <3>4. Marked(k)' <=> Marked(k)
      BY <1>3, <2>4, <2>5 DEF Marked
    <3> QED
      BY <1>3, <2>8, <3>1, <3>2, <3>3, <3>4, OnceSame
  <2>11. Refs'
    <3> SUFFICES ASSUME NEW k \in Ctx PROVE RefAt(k)'
      BY DEF Refs
    <3>1. Hands(w, k)' = Hands(w, k)
      BY <1>1, <2>1, <2>2, <2>7 DEF Hands, Bit, CallUse, LaunchUse, WorkUse
    <3>2. H!Registered(hs, k)' <=> H!Registered(hs, k)
      BY <1>1
    <3> QED
      BY <1>1, <1>3, <2>8, <3>1, <3>2, RefsOther DEF IInv
  <2>12. Linked' /\ Given'
    BY <1>1, <2>4, <2>5 DEF IInv, Linked, Given, Alive
  <2>13. Uses'
    BY <1>1, <1>3, <2>1, <2>2, <2>5, <2>7 DEF IInv, Uses, Calls, Drops, Alive
  <2> QED
    BY <2>7, <2>9, <2>10, <2>11, <2>12, <2>13 DEF IInv
<1> QED
  BY <1>6, <1>7

LEMMA YieldStep ==
  ASSUME IInv, NEW w \in Worker, Yield(w)
  PROVE  IInv'
<1> DEFINE h == worker[w].q
<1>1. /\ worker[w].at = "yield" /\ launch[w].at = "no" /\ Returned(w)
      /\ hs' = hs /\ ctx' = ctx /\ mq' = mq /\ launch' = launch /\ sent' = sent /\ quit' = quit
  BY DEF Yield, At
<1>2. h # Nil /\ worker[w].nq = Nil
  BY <1>1 DEF IInv, Stack, Handling
<1>3. h \in Ctx /\ HeldBy(w, h) /\ ~Listed(h) /\ OnceAt(h) /\ w \in Thread
  BY <1>1, <1>2, WorkerFacts, Constants DEF Place
<1>4. WorkerType(worker[w]) /\ WorkerStack(worker[w]) /\ DOMAIN worker[w] = {"at", "q", "nq", "left"}
  BY DEF IInv, Typed, Stack, WorkerType, WorkerStack
<1>5. ASSUME NEW k \in Ctx
      PROVE  OnceAt(k) /\ (Marked(k)' <=> Marked(k))
             /\ (k \in DOMAIN mq => mq[k].in_global \/ Empty(mq[k]))'
  BY <1>1 DEF IInv, Once, Marked, OnceAt
<1>6. CASE gq = << >>
  <2> DEFINE r == [worker[w] EXCEPT !.at = "loop"]
  <2>1. worker' = [worker EXCEPT ![w] = r] /\ Unref(w, h) /\ gq' = gq
    BY <1>6 DEF Yield
  <2>2. DOMAIN r = {"at", "q", "nq", "left"} /\ r.at = "loop" /\ r.q = h /\ r.nq = Nil
    BY <1>2, <1>4
  <2> HIDE DEF r
  <2>3. WorkerType(r) /\ WorkerStack(r)
    BY <1>2, <1>4, <2>2 DEF WorkerType, WorkerStack, Place, Handling
  <2>4. /\ worker'[w] = r /\ \A v \in Worker : v # w => worker'[v] = worker[v]
        /\ worker' = [v \in Worker |-> worker'[v]]
        /\ \A v \in Worker : WorkerType(worker'[v])
        /\ Stack'
    BY <1>1, <2>1, <2>3, WorkerMoves
  <2>5. /\ OnlyMoves(w)
        /\ call' \in [Thread -> [at : CallPlace, h : 0 .. MaxCtx, msg : Msg \cup {Nil}]]
        /\ Refs' /\ Calls'
    BY <1>1, <2>1, <2>2, <2>4, WorkerUnref
  <2>6. Typed'
    BY ZenonT(60), <1>1, <2>1, <2>4, <2>5 DEF IInv, Typed, WorkerType
  <2>7. Once'
    <3> SUFFICES ASSUME NEW k \in Ctx PROVE OnceAt(k)'
      BY <2>1 DEF IInv, Once, Distinct
    <3>1. Listed(k)' <=> Listed(k)
      BY <2>1 DEF Listed
    <3>2. HeldBy(w, k)' <=> HeldBy(w, k)
      BY <1>1, <1>2, <2>2, <2>4 DEF HeldBy, Place
    <3> QED
      BY <1>3, <1>5, <2>5, <3>1, <3>2, OnceSame
  <2>8. Linked' /\ Given'
    BY <1>1 DEF IInv, Linked, Given, Alive
  <2>9. Drops'
    BY <1>1, <2>2, <2>4 DEF IInv, Uses, Drops
  <2> QED
    BY <2>4, <2>5, <2>6, <2>7, <2>8, <2>9 DEF IInv, Uses
<1>7. CASE gq # << >>
  <2> DEFINE n == Head(gq)
             r == [worker[w] EXCEPT !.at = "back", !.nq = n]
  <2>1. worker' = [worker EXCEPT ![w] = r] /\ gq' = Tail(gq) /\ call' = call
    BY <1>7 DEF Yield
  <2>2. DOMAIN r = {"at", "q", "nq", "left"} /\ r.at = "back" /\ r.q = h /\ r.nq = n
    BY <1>4
  <2>3. /\ gq' \in Seq(Ctx) /\ n \in Ctx /\ Listed(n) /\ Distinct'
        /\ \A k : Listed(k)' <=> k # n /\ Listed(k)
    BY <1>7, <2>1, ListTail DEF IInv, Typed, Once
  <2> HIDE DEF n, r
  <2>4. n # h /\ n # Nil
    BY <1>3, <2>3, Constants
  <2>5. WorkerType(r) /\ WorkerStack(r)
    BY <1>2, <1>4, <2>2, <2>3, <2>4 DEF WorkerType, WorkerStack, Place, Handling
  <2>6. /\ worker'[w] = r /\ \A v \in Worker : v # w => worker'[v] = worker[v]
        /\ worker' = [v \in Worker |-> worker'[v]]
        /\ \A v \in Worker : WorkerType(worker'[v])
        /\ Stack'
    BY <1>1, <2>1, <2>5, WorkerMoves
  <2>7. OnlyMoves(w)
    BY <1>1, <2>1, <2>6 DEF OnlyMoves
  <2>8. Typed'
    BY ZenonT(60), <1>1, <2>1, <2>3, <2>6 DEF IInv, Typed, WorkerType
  <2>9. ASSUME NEW k \in Ctx PROVE HeldBy(w, k)' <=> HeldBy(w, k) \/ k = n
    <3>1. HeldBy(w, k)' <=> k = h \/ k = n
      BY <1>1, <2>2, <2>6 DEF HeldBy, Place
    <3>2. HeldBy(w, k) <=> k = h
      BY <1>1, <1>2, <1>3, Constants DEF HeldBy
    <3> QED
      BY <3>1, <3>2
  <2>10. Once'
    <3> SUFFICES ASSUME NEW k \in Ctx PROVE OnceAt(k)'
      BY <2>3 DEF Once
    <3>1. CASE k = n
      <4>1. Listed(k) /\ ~Listed(k)' /\ HeldBy(w, k)'
        BY <2>3, <2>9, <3>1
      <4> QED
        BY <1>3, <1>5, <2>7, <4>1, OnceTaken
    <3>2. CASE k # n
      <4>1. (Listed(k)' <=> Listed(k)) /\ (HeldBy(w, k)' <=> HeldBy(w, k))
        BY <2>3, <2>9, <3>2
      <4> QED
        BY <1>3, <1>5, <2>7, <4>1, OnceSame
    <3> QED
      BY <3>1, <3>2
  <2>11. Refs'
    <3> SUFFICES ASSUME NEW k \in Ctx PROVE RefAt(k)'
      BY DEF Refs
    <3>1. Hands(w, k)' = Hands(w, k)
      BY <1>1, <2>1, <2>2, <2>6 DEF Hands, Bit, CallUse, LaunchUse, WorkUse
    <3>2. H!Registered(hs, k)' <=> H!Registered(hs, k)
      BY <1>1
    <3> QED
      BY <1>1, <1>3, <2>7, <3>1, <3>2, RefsOther DEF IInv
  <2>12. Linked' /\ Given'
    BY <1>1 DEF IInv, Linked, Given, Alive
  <2>13. Uses'
    BY <1>1, <2>1, <2>2, <2>6 DEF IInv, Uses, Calls, Drops, Alive
  <2> QED
    BY <2>6, <2>8, <2>10, <2>11, <2>12, <2>13 DEF IInv
<1> QED
  BY <1>6, <1>7

LEMMA PushBackStep ==
  ASSUME IInv, NEW w \in Worker, PushBack(w)
  PROVE  IInv'
<1> DEFINE h == worker[w].q
           n == worker[w].nq
           r == Holds("loop", n)
<1>1. /\ worker[w].at = "back" /\ launch[w].at = "no" /\ Returned(w)
      /\ gq' = Append(gq, h) /\ worker' = [worker EXCEPT ![w] = r] /\ Unref(w, h)
      /\ hs' = hs /\ ctx' = ctx /\ mq' = mq /\ launch' = launch /\ sent' = sent /\ quit' = quit
  BY DEF PushBack, At
<1>2. h # Nil /\ n # Nil /\ n # h /\ n \in Ctx
  BY <1>1 DEF IInv, Stack, Handling, Typed
<1>3. h \in Ctx /\ HeldBy(w, h) /\ ~Listed(h) /\ OnceAt(h) /\ w \in Thread
  BY <1>1, <1>2, WorkerFacts, Constants DEF Place
<1>4. DOMAIN r = {"at", "q", "nq", "left"} /\ r.at = "loop" /\ r.q = n /\ r.nq = Nil
  BY DEF Holds
<1> HIDE DEF r
<1>5. WorkerType(r) /\ WorkerStack(r)
  BY <1>2, <1>4 DEF WorkerType, WorkerStack, Place, Handling
<1>6. /\ worker'[w] = r /\ \A v \in Worker : v # w => worker'[v] = worker[v]
      /\ worker' = [v \in Worker |-> worker'[v]]
      /\ \A v \in Worker : WorkerType(worker'[v])
      /\ Stack'
  BY <1>1, <1>5, WorkerMoves
<1>7. /\ OnlyMoves(w)
      /\ call' \in [Thread -> [at : CallPlace, h : 0 .. MaxCtx, msg : Msg \cup {Nil}]]
      /\ Refs' /\ Calls'
  BY <1>1, <1>4, <1>6, WorkerUnref
<1>8. /\ gq' \in Seq(Ctx) /\ Distinct'
      /\ \A k : Listed(k)' <=> k = h \/ Listed(k)
  BY <1>1, <1>3, ListAppend DEF IInv, Typed, Once
<1>9. Typed'
  BY ZenonT(60), <1>1, <1>6, <1>7, <1>8 DEF IInv, Typed, WorkerType
<1>10. ASSUME NEW k \in Ctx PROVE (HeldBy(w, k)' <=> k = n) /\ (HeldBy(w, k) <=> k = n \/ k = h)
  BY <1>1, <1>4, <1>6, Constants DEF HeldBy, Place
<1>11. Once'
  <2> SUFFICES ASSUME NEW k \in Ctx PROVE OnceAt(k)'
    BY <1>8 DEF Once
  <2>1. /\ OnceAt(k) /\ (Marked(k)' <=> Marked(k))
        /\ (k \in DOMAIN mq => mq[k].in_global \/ Empty(mq[k]))'
    BY <1>1 DEF IInv, Once, Marked, OnceAt
  <2>2. CASE k = h
    <3>1. HeldBy(w, k) /\ ~HeldBy(w, k)' /\ Listed(k)'
      BY <1>2, <1>3, <1>8, <1>10, <2>2
    <3> QED
      BY <1>3, <1>7, <2>1, <3>1, OnceLinked
  <2>3. CASE k # h
    <3>1. (Listed(k)' <=> Listed(k)) /\ (HeldBy(w, k)' <=> HeldBy(w, k))
      BY <1>8, <1>10, <2>3
    <3> QED
      BY <1>3, <1>7, <2>1, <3>1, OnceSame
  <2> QED
    BY <2>2, <2>3
<1>12. Linked' /\ Given'
  BY <1>1 DEF IInv, Linked, Given, Alive
<1>13. Drops'
  BY <1>1, <1>4, <1>6 DEF IInv, Uses, Drops
<1> QED
  BY <1>6, <1>7, <1>9, <1>11, <1>12, <1>13 DEF IInv, Uses

-----------------------------------------------------------------------------
(* The invariant holds. *)

(* The queue with the requests that came during the bootstrap. *)
LEMMA WaitingRing ==
  /\ Ring(Waiting, Msg) /\ Waiting.in_global = TRUE /\ Waiting.release = FALSE
  /\ Content(Waiting) \in Seq(Msg)
<1> DEFINE D == DefaultQueueSize
           s == [i \in 1 .. Backlog |-> [id |-> i, src |-> 0]]
<1>1. D \in Nat /\ D > 1 /\ Backlog \in Nat /\ Backlog < D /\ Backlog <= MaxMsg
      /\ MaxMsg \in Nat /\ MaxCtx \in Nat
  BY QueueSizeAssumption, RuntimeAssumption
<1>2. s \in Seq(Msg) /\ Len(s) = Backlog /\ \A i \in 1 .. Backlog : s[i] = [id |-> i, src |-> 0]
  <2>1. \A i \in 1 .. Backlog : [id |-> i, src |-> 0] \in Msg
    BY <1>1 DEF Msg
  <2>2. s \in [1 .. Backlog -> Msg]
    BY <2>1
  <2> QED
    BY <1>1, <2>2
<1>3. (1 + Backlog) % D = Wrap(1 + Backlog, D)
  <2> DEFINE b == 1 + Backlog
  <2>1. D \in Nat \ {0} /\ b \in 0 .. 2 * D - 1
    BY <1>1
  <2> HIDE DEF b, D
  <2>2. b % D = Wrap(b, D)
    BY <2>1, ModOnce
  <2> QED
    BY <2>2 DEF b
<1>4. /\ Waiting.cap = D /\ Waiting.head = 1 /\ Waiting.tail = Wrap(1 + Backlog, D)
      /\ Waiting.queue = [i \in 0 .. D - 1 |-> IF i \in 1 .. Backlog THEN [id |-> i, src |-> 0] ELSE Nil]
      /\ Waiting.in_global = TRUE /\ Waiting.release = FALSE
      /\ DOMAIN Waiting = {"cap", "head", "tail", "queue", "in_global", "release"}
  BY <1>3 DEF Waiting, mq_create
<1> HIDE DEF s, D
<1>5. Wrap(1 + Backlog, D) \in 0 .. D - 1 /\ 1 \in 0 .. D - 1
  BY <1>1 DEF Wrap
<1>6. Frame(Waiting, Msg)
  <2>1. \A i \in 0 .. D - 1 : Waiting.queue[i] \in Msg \cup {Nil}
    BY <1>1, <1>4 DEF Msg
  <2>2. Waiting.queue \in [0 .. D - 1 -> Msg \cup {Nil}]
    BY <1>4, <2>1
  <2>3. D \in Nat \ {0}
    BY <1>1
  <2>4. Waiting.cap \in Nat \ {0} /\ Waiting.head \in 0 .. D - 1 /\ Waiting.tail \in 0 .. D - 1
    BY <1>4, <1>5, <2>3
  <2> QED
    BY <1>4, <2>2, <2>4, Zenon DEF Frame
<1>7. mq_length(Waiting) = Backlog
  BY <1>1, <1>4 DEF mq_length, Wrap
<1>8. Spells(Waiting, s)
  <2>1. ASSUME NEW k \in 0 .. Backlog - 1
        PROVE  Waiting.queue[Wrap(1 + k, D)] = s[k + 1]
    <3>1. Wrap(1 + k, D) = k + 1 /\ k + 1 \in 1 .. Backlog /\ k + 1 \in 0 .. D - 1
      BY <1>1 DEF Wrap
    <3> QED
      BY <1>2, <1>4, <3>1
  <2> QED
    BY <1>4, <1>7, <2>1 DEF Spells
<1>9. Ring(Waiting, Msg) /\ Content(Waiting) = s
  BY <1>2, <1>6, <1>7, <1>8, RingIntro
<1> QED
  BY <1>2, <1>4, <1>9

LEMMA InitInv ==
  ASSUME Init
  PROVE  IInv
<1>1. /\ hs = H!handle_register(H!handle_init)
      /\ ctx = [h \in {Launcher} |-> [handle |-> h, ref |-> 1]]
      /\ mq = [h \in {Launcher} |-> Waiting]
      /\ gq = <<Launcher>>
      /\ worker = [w \in Worker |-> Holds("loop", Nil)]
      /\ launch = [t \in Thread |-> NoLaunch]
      /\ call = [t \in Thread |-> Free]
      /\ sent = Backlog /\ quit = FALSE
  BY DEF Init
(* The table has the launcher and nothing else. *)
<1>2. /\ Table(hs) /\ hs.handle_index = 2
      /\ \A k \in Nat : H!Registered(hs, k) <=> k = 1
  <2> DEFINE s == H!handle_init
             n == DefaultSlotSize
  <2>1. n \in Nat \ {0}
    BY Constants
  <2>2. /\ DOMAIN s = {"handle_index", "slot_size", "slot"}
        /\ s.handle_index = 1 /\ s.slot_size = n /\ s.slot = [i \in 0 .. n - 1 |-> Nil]
    BY DEF H!handle_init
  <2> HIDE DEF s, n
  <2>3. Table(s)
    BY <2>1, <2>2 DEF Table
  <2>4. \A k \in Nat : ~H!Registered(s, k) /\ s.slot[H!Hash(s, k)] = Nil
    <3> TAKE k \in Nat
    <3>1. H!Hash(s, k) \in 0 .. n - 1
      BY <2>2, <2>3, TableHash
    <3>2. k # Nil
      BY Constants
    <3> QED
      BY <2>2, <3>1, <3>2 DEF H!Registered
  <2>5. 1 \in H!Candidates(s)
    <3>1. 1 \in s.handle_index .. s.handle_index + s.slot_size - 1
      BY <2>1, <2>2
    <3> QED
      BY <2>4, <3>1 DEF H!Candidates
  <2>6. ~H!Full(s)
    BY <2>5 DEF H!Full
  <2>7. H!Given(s) = 1
    <3>1. H!Given(s) \in Nat /\ H!Given(s) >= 1 /\ H!Given(s) <= 1
      BY <2>2, <2>3, <2>5, <2>6, TableGiven
    <3> QED
      BY <3>1
  <2> QED
    BY <1>1, <2>3, <2>4, <2>6, <2>7, TableRegister DEF s
<1>3. /\ DOMAIN ctx = {1} /\ ctx[1] = [handle |-> 1, ref |-> 1]
      /\ DOMAIN mq = {1} /\ mq[1] = Waiting /\ Launcher = 1
  BY <1>1 DEF Launcher
<1>4. /\ Ring(Waiting, Msg) /\ Waiting.in_global = TRUE /\ Waiting.release = FALSE
  BY WaitingRing
<1>5. \A w \in Worker : /\ DOMAIN worker[w] = {"at", "q", "nq", "left"} /\ worker[w].at = "loop"
                        /\ worker[w].q = Nil /\ worker[w].nq = Nil
  BY <1>1 DEF Holds
<1>6. \A t \in Thread : launch[t].at = "no" /\ call[t].at = "ret"
  BY <1>1 DEF NoLaunch, Free
<1>7. gq \in Seq(Ctx) /\ DOMAIN gq = {1} /\ gq[1] = 1
  BY <1>1, <1>3, Constants
<1>8. Typed
  <2>1. ctx \in [DOMAIN ctx -> [handle : Nat, ref : Nat] \cup {Nil}]
    BY <1>1, <1>3
  <2>2. launch \in [Thread -> [at : LaunchPlace, h : 0 .. MaxCtx]]
    BY <1>1, Constants DEF NoLaunch, LaunchPlace
  <2>3. call \in [Thread -> [at : CallPlace, h : 0 .. MaxCtx, msg : Msg \cup {Nil}]]
    BY <1>1, Constants DEF Free, CallPlace
  <2>4. sent \in 0 .. MaxMsg /\ quit \in BOOLEAN
    BY <1>1, RuntimeAssumption
  <2>5. 1 \in Ctx
    BY <1>3, Constants
  <2>6. worker = [w \in Worker |-> worker[w]] /\ mq = [h \in DOMAIN mq |-> mq[h]]
    BY <1>1
  <2>7. "loop" \in Place
    BY DEF Place
  <2> QED
    BY <1>2, <1>3, <1>4, <1>5, <1>7, <2>1, <2>2, <2>3, <2>4, <2>5, <2>6, <2>7 DEF Typed
<1>9. Stack
  BY <1>5, <1>6 DEF Stack, Handling
<1>10. Once
  <2>1. Distinct
    BY <1>7 DEF Distinct
  <2>2. \A h \in Ctx : \A t \in Thread : ~HeldBy(t, h)
    BY <1>5, <1>6, Constants DEF HeldBy
  <2>3. \A h : Listed(h) <=> h = 1
    BY <1>7 DEF Listed
  <2>4. \A h : Marked(h) <=> h = 1
    BY <1>3, <1>4 DEF Marked
  <2>5. \A h \in DOMAIN mq : mq[h].in_global
    BY <1>3, <1>4
  <2> QED
    BY <2>1, <2>2, <2>3, <2>4, <2>5 DEF Once, OnceAt, Held
<1>11. Refs
  <2> SUFFICES ASSUME NEW h \in Ctx PROVE RefAt(h)
    BY DEF Refs
  <2>1. Callers(h) = {} /\ Launchers(h) = {} /\ Workers(h) = {}
    BY <1>5, <1>6, Constants DEF Callers, Launchers, Workers, CallUse, LaunchUse, WorkUse
  <2>2. Users(h) = Bit(h = 1)
    <3>1. Bit(H!Registered(hs, h)) = Bit(h = 1) /\ Bit(h = 1) \in Nat
      BY <1>2, Constants DEF Bit
    <3>2. Cardinality({}) = 0
      BY FS_EmptySet
    <3> QED
      BY <2>1, <3>1, <3>2, UsersSum
  <2>3. ctx[1].ref = 1 /\ ctx[1] \in [handle : Nat, ref : Nat]
    BY <1>3
  <2>4. Alive(h) <=> h = 1
    BY <1>3, <2>3, Constants DEF Alive
  <2> QED
    BY <2>2, <2>3, <2>4 DEF RefAt, Bit
<1>12. Linked
  <2>1. ctx[1].handle = 1
    BY <1>3
  <2> QED
    BY <1>3, <1>4, <1>6, <2>1 DEF Linked
<1>13. Uses
  BY <1>5, <1>6 DEF Uses, Calls, Drops
<1>14. Given
  <2>1. ASSUME NEW i \in DOMAIN hs.slot, hs.slot[i] # Nil PROVE hs.slot[i] \in DOMAIN ctx
    <3>1. i \in 0 .. hs.slot_size - 1
      BY <1>2, <2>1 DEF Table
    <3>2. hs.slot[i] \in Nat /\ H!Registered(hs, hs.slot[i])
      BY <1>2, <2>1, <3>1, TableSlots
    <3>3. hs.slot[i] = 1
      BY <1>2, <3>2
    <3> QED
      BY <1>3, <3>3
  <2> QED
    BY <1>2, <1>3, <2>1 DEF Given
<1> QED
  BY <1>8, <1>9, <1>10, <1>11, <1>12, <1>13, <1>14 DEF IInv

LEMMA NextInv ==
  ASSUME IInv, [Next]_vars
  PROVE  IInv'
<1>1. CASE UNCHANGED vars
  <2>1. /\ hs' = hs /\ ctx' = ctx /\ mq' = mq /\ gq' = gq /\ worker' = worker /\ launch' = launch
        /\ call' = call /\ sent' = sent /\ quit' = quit
    BY <1>1 DEF vars
  <2>2. Typed'
    BY <2>1 DEF IInv, Typed
  <2>3. Stack' /\ Linked' /\ Uses' /\ Given'
    BY <2>1 DEF IInv, Stack, Linked, Uses, Calls, Drops, Alive, Given
  <2>4. Once'
    BY <2>1 DEF IInv, Once, OnceAt, Distinct, Listed, Held, HeldBy, Marked
  <2>5. Refs'
    <3>1. \A h : Users(h)' = Users(h)
      BY <2>1 DEF Users
    <3> QED
      BY <2>1, <3>1 DEF IInv, Refs, RefAt, Alive
  <2> QED
    BY <2>2, <2>3, <2>4, <2>5 DEF IInv
<1>2. ASSUME NEW t \in Thread, Step(t) \/ context_new(t) PROVE IInv'
  BY <1>2, context_pushStep, context_releaseStep, delete_contextStep, init_beginStep,
     init_endStep, launch_startedStep, launch_failedStep, launch_releaseStep,
     drop_messageStep, drop_endStep, context_newStep
     DEF Step, CallStep, LaunchStep
<1>3. ASSUME NEW t \in Thread, NEW h \in Ctx, Send(t, h) \/ Kill(t, h) PROVE IInv'
  BY <1>3, SendStep, KillStep
<1>4. ASSUME NEW w \in Worker, WorkerStep(w) \/ Wakeup(w) PROVE IInv'
  BY <1>4, LoopStep, GrabStep, ReleaseStep, NextQueueStep, PopStep, ReturnStep, YieldStep,
     PushBackStep, SleepStep
     DEF WorkerStep
<1>5. CASE Abort
  BY <1>5, AbortStep
<1> QED
  BY <1>1, <1>2, <1>3, <1>4, <1>5 DEF Next

LEMMA RuntimeIInv == Spec => []IInv
<1>1. Init => IInv
  BY InitInv
<1>2. IInv /\ [Next]_vars => IInv'
  BY NextInv
<1> QED
  BY <1>1, <1>2, PTL DEF Spec

-----------------------------------------------------------------------------
(* The properties of the runtime. *)

(* The places of a queue are counted. *)
LEMMA PlacesCount ==
  ASSUME IInv, NEW h \in Ctx
  PROVE  Places(h) = Bit(Marked(h))
<1> DEFINE A == {i \in DOMAIN gq : gq[i] = h}
           B == {t \in Thread : HeldBy(t, h)}
<1>1. Places(h) = Cardinality(A) + Cardinality(B)
  BY DEF Places
<1>2. OnceAt(h) /\ Distinct
  BY DEF IInv, Once
<1>3. Cardinality({}) = 0 /\ \A x : Cardinality({x}) = 1
  BY FS_EmptySet, FS_Singleton
<1>4. ~Listed(h) => A = {}
  BY DEF Listed
<1>5. ~Held(h) => B = {}
  BY DEF Held
<1>6. CASE Listed(h)
  <2>1. PICK i \in DOMAIN gq : gq[i] = h
    BY <1>6 DEF Listed
  <2>2. A = {i}
    BY <1>2, <2>1 DEF Distinct
  <2>3. B = {} /\ Marked(h)
    BY <1>2, <1>5, <1>6 DEF OnceAt
  <2> HIDE DEF A, B
  <2>4. Cardinality(A) = 1 /\ Cardinality(B) = 0
    BY <1>3, <2>2, <2>3
  <2> QED
    BY <1>1, <2>3, <2>4 DEF Bit
<1>7. CASE Held(h)
  <2>1. PICK t \in Thread : HeldBy(t, h)
    BY <1>7 DEF Held
  <2>2. B = {t}
    BY <1>2, <2>1 DEF OnceAt
  <2>3. A = {} /\ Marked(h)
    BY <1>2, <1>4, <1>7 DEF OnceAt
  <2> HIDE DEF A, B
  <2>4. Cardinality(A) = 0 /\ Cardinality(B) = 1
    BY <1>3, <2>2, <2>3
  <2> QED
    BY <1>1, <2>3, <2>4 DEF Bit
<1>8. CASE ~Listed(h) /\ ~Held(h)
  <2>1. A = {} /\ B = {} /\ ~Marked(h)
    BY <1>2, <1>4, <1>5, <1>8 DEF OnceAt
  <2> HIDE DEF A, B
  <2> QED
    BY <1>1, <1>3, <2>1 DEF Bit
<1> QED
  BY <1>6, <1>7, <1>8

(* Whatever the threads do, a queue that has anything to do is in the global *)
(* list or in the hands of one thread, once: no two workers run the          *)
(* callbacks of one service at a time, and no queue is forgotten.            *)
THEOREM RuntimeQueueOnce == Spec => []QueueOnce
<1>1. IInv => QueueOnce
  <2> SUFFICES ASSUME IInv, NEW h \in DOMAIN mq
               PROVE  /\ Places(h) = IF mq[h].in_global \/ mq[h].release THEN 1 ELSE 0
                      /\ ~mq[h].in_global => Empty(mq[h])
    BY DEF QueueOnce
  <2>1. h \in Ctx /\ OnceAt(h)
    BY DEF IInv, Typed, Once
  <2>2. Places(h) = Bit(Marked(h))
    BY <2>1, PlacesCount
  <2> QED
    BY <2>1, <2>2 DEF Marked, Bit, OnceAt
<1> QED
  BY <1>1, RuntimeIInv, PTL

(* A context has exactly as many references as the handle table, the calls,  *)
(* the launches and the workers that use it, it is freed with the last of    *)
(* them, and no queue is freed while anyone holds it or the context lives.   *)
THEOREM RuntimeRefsExact == Spec => []RefsExact
<1>1. IInv => RefsExact
  <2> SUFFICES ASSUME IInv PROVE RefsExact
    OBVIOUS
  <2>1. \A h \in DOMAIN ctx : ctx[h] \in [handle : 0 .. MaxCtx, ref : Nat] \cup {Nil}
    <3> TAKE h \in DOMAIN ctx
    <3>1. CASE ctx[h] = Nil
      BY <3>1
    <3>2. CASE ctx[h] # Nil
      <4>1. ctx[h] \in [handle : Nat, ref : Nat] /\ h \in Ctx
        BY <3>2 DEF IInv, Typed
      <4>2. ctx[h].handle \in {0, h}
        BY <3>2 DEF IInv, Linked, Alive
      <4>3. ctx[h].handle \in 0 .. MaxCtx
        BY <4>1, <4>2, Constants DEF Ctx
      <4> QED
        BY <4>1, <4>3
    <3> QED
      BY <3>1, <3>2
  <2>2. \A h \in DOMAIN mq :
          /\ mq[h].head \in 0 .. mq[h].cap - 1 /\ mq[h].tail \in 0 .. mq[h].cap - 1
          /\ \A m \in Range(Content(mq[h])) : m \in Msg
    <3> TAKE h \in DOMAIN mq
    <3> DEFINE q == mq[h]
    <3>1. Ring(q, Msg)
      BY DEF IInv, Typed
    <3> HIDE DEF q
    <3>2. q.head \in 0 .. q.cap - 1 /\ q.tail \in 0 .. q.cap - 1
      BY <3>1 DEF Ring, Frame
    <3>3. Content(q) \in Seq(Msg)
      BY <3>1, RingContent
    <3>4. \A m \in Range(Content(q)) : m \in Msg
      BY <3>3 DEF Range
    <3> QED
      BY <3>2, <3>4 DEF q
  <2>3. TypeOK
    BY <2>1, <2>2 DEF TypeOK, IInv, Typed
  <2>4. ASSUME NEW h \in Ctx
        PROVE  /\ Alive(h) => ctx[h].ref = Users(h)
               /\ ~Alive(h) => Users(h) = 0
               /\ Alive(h) /\ ctx[h].handle = h => h \in DOMAIN mq /\ ~mq[h].release
               /\ Places(h) > 0 => h \in DOMAIN mq
    <3>1. Places(h) = Bit(Marked(h))
      BY PlacesCount
    <3>2. Places(h) > 0 => Marked(h)
      BY <3>1 DEF Bit
    <3>3. Alive(h) => h \in DOMAIN ctx
      BY DEF Alive
    <3> QED
      BY <3>2, <3>3 DEF IInv, Refs, RefAt, Linked, Marked
  <2> QED
    BY <2>3, <2>4 DEF RefsExact
<1> QED
  BY <1>1, RuntimeIInv, PTL

(* The table finds every registered context under its handle, whenever it    *)
(* has grown and whichever contexts have come and gone.                      *)
THEOREM RuntimeFindable == Spec => []Findable
<1>1. IInv => Findable
  <2> SUFFICES ASSUME IInv, NEW i \in DOMAIN hs.slot, hs.slot[i] # Nil
               PROVE  H!Hash(hs, hs.slot[i]) = i
    BY DEF Findable
  <2>1. Table(hs)
    BY DEF IInv, Typed
  <2>2. i \in 0 .. hs.slot_size - 1
    BY <2>1 DEF Table
  <2> QED
    BY <2>1, <2>2, TableSlots
<1> QED
  BY <1>1, RuntimeIInv, PTL

-----------------------------------------------------------------------------
(* The runtime implements Mailbox. *)

Life(h) ==
  IF h \notin DOMAIN ctx THEN "none"
  ELSE IF ctx[h] = Nil THEN "gone"
  ELSE IF ctx[h].handle = 0 THEN "none" ELSE "up"

Box(h) == IF h \in DOMAIN mq THEN Content(mq[h]) ELSE << >>

(* Thread t runs a callback, or the init function, of h. *)
BusyBy(t, h) ==
  \/ launch[t].at = "init" /\ launch[t].h = h
  \/ t \in Worker /\ worker[t].at = "call" /\ worker[t].q = h

LEMMA BusyThread ==
  ASSUME Typed, NEW h
  PROVE  Busy(h) <=> \E t \in Thread : BusyBy(t, h)
<1>1. \A t \in Thread : launch[t] = [at |-> "init", h |-> h] <=> launch[t].at = "init" /\ launch[t].h = h
  BY DEF Typed
<1> QED
  BY <1>1, Constants DEF Busy, BusyBy

(* Only the thread that holds a queue runs its service. *)
LEMMA BusyStep ==
  ASSUME IInv, IInv', NEW t \in Thread, OnlyMoves(t), NEW h \in Ctx
  PROVE  /\ (BusyBy(t, h)' <=> BusyBy(t, h)) => (Busy(h)' <=> Busy(h))
         /\ BusyBy(t, h) => Busy(h)
         /\ BusyBy(t, h)' => Busy(h)'
         /\ HeldBy(t, h) /\ ~BusyBy(t, h) => ~Busy(h)
         /\ HeldBy(t, h) /\ ~BusyBy(t, h)' => ~Busy(h)'
<1>1. Busy(h) <=> \E u \in Thread : BusyBy(u, h)
  BY BusyThread DEF IInv
<1>2. Busy(h)' <=> \E u \in Thread : BusyBy(u, h)'
  <2>1. \A u \in Thread : launch'[u] = [at |-> "init", h |-> h]
                          <=> launch'[u].at = "init" /\ launch'[u].h = h
    BY DEF IInv, Typed
  <2> QED
    BY <2>1, Constants DEF Busy, BusyBy
<1>3. \A u \in Thread : u # t => (BusyBy(u, h)' <=> BusyBy(u, h))
  BY DEF OnlyMoves, BusyBy
<1>4. \A u \in Thread : BusyBy(u, h) => HeldBy(u, h)
  BY DEF BusyBy, HeldBy, Place
<1>5. HeldBy(t, h) => \A u \in Thread : u # t => ~BusyBy(u, h)
  BY <1>4 DEF IInv, Once, OnceAt
<1> QED
  BY <1>1, <1>2, <1>3, <1>5

(* What Mailbox sees of h does not change. *)
Same(h) == Life(h)' = Life(h) /\ (Busy(h)' <=> Busy(h)) /\ Box(h)' = Box(h)

LEMMA MailboxStutters ==
  ASSUME \A h \in Ctx : Same(h)
  PROVE  UNCHANGED M!vars
<1>1. \A h \in Ctx : Life(h)' = Life(h) /\ (Busy(h)' = Busy(h)) /\ Box(h)' = Box(h)
  <2> TAKE h \in Ctx
  <2>1. Life(h)' = Life(h) /\ (Busy(h)' <=> Busy(h)) /\ Box(h)' = Box(h)
    BY DEF Same
  <2>2. Busy(h) \in BOOLEAN /\ Busy(h)' \in BOOLEAN
    BY DEF Busy
  <2> QED
    BY <2>1, <2>2
<1>2. [h \in Ctx |-> Life(h)'] = [h \in Ctx |-> Life(h)]
  BY <1>1
<1>3. [h \in Ctx |-> Busy(h)'] = [h \in Ctx |-> Busy(h)]
  BY <1>1
<1>4. [h \in Ctx |-> Box(h)'] = [h \in Ctx |-> Box(h)]
  BY <1>1
<1> QED
  BY <1>2, <1>3, <1>4 DEF M!vars, Life, Box

(* Only s changes: the variables of Mailbox. *)
LEMMA MailboxAt ==
  ASSUME NEW s \in Ctx, \A h \in Ctx : h # s => Same(h)
  PROVE  /\ [h \in Ctx |-> Life(h)'] = [[h \in Ctx |-> Life(h)] EXCEPT ![s] = Life(s)']
         /\ [h \in Ctx |-> Busy(h)'] = [[h \in Ctx |-> Busy(h)] EXCEPT ![s] = Busy(s)']
         /\ [h \in Ctx |-> Box(h)'] = [[h \in Ctx |-> Box(h)] EXCEPT ![s] = Box(s)']
         /\ Life(s)' = Life(s) => [h \in Ctx |-> Life(h)'] = [h \in Ctx |-> Life(h)]
         /\ Busy(s)' = Busy(s) => [h \in Ctx |-> Busy(h)'] = [h \in Ctx |-> Busy(h)]
         /\ Box(s)' = Box(s) => [h \in Ctx |-> Box(h)'] = [h \in Ctx |-> Box(h)]
         /\ [h \in Ctx |-> Life(h)][s] = Life(s)
         /\ [h \in Ctx |-> Busy(h)][s] = Busy(s)
         /\ [h \in Ctx |-> Box(h)][s] = Box(s)
         /\ Busy(s) \in BOOLEAN /\ Busy(s)' \in BOOLEAN
<1>1. \A h \in Ctx : Busy(h) \in BOOLEAN /\ Busy(h)' \in BOOLEAN
  BY DEF Busy
<1>2. \A h \in Ctx : h # s => Life(h)' = Life(h) /\ Busy(h)' = Busy(h) /\ Box(h)' = Box(h)
  BY <1>1 DEF Same
<1> QED
  BY <1>1, <1>2

LEMMA MailboxStarts ==
  ASSUME NEW s \in Ctx, \A h \in Ctx : h # s => Same(h),
         Life(s) = "none", Life(s)' = "up", Busy(s)', Box(s)' = Box(s)
  PROVE  M!Next
<1>1. Busy(s)' = TRUE
  BY MailboxAt
<1>2. M!Start(s)
  BY <1>1, MailboxAt DEF M!Start, Life, Box
<1> QED
  BY <1>2 DEF M!Next

LEMMA MailboxPosts ==
  ASSUME NEW s \in Ctx, \A h \in Ctx : h # s => Same(h), NEW m \in Msg,
         Life(s) = "up", Life(s)' = Life(s), Busy(s)' <=> Busy(s), Box(s)' = Append(Box(s), m)
  PROVE  M!Next
<1>1. Busy(s)' = Busy(s)
  BY MailboxAt
<1>2. M!Post(s, m)
  BY <1>1, MailboxAt DEF M!Post, Life, Box
<1> QED
  BY <1>2 DEF M!Next

LEMMA MailboxTakes ==
  ASSUME NEW s \in Ctx, \A h \in Ctx : h # s => Same(h),
         Life(s) = "up", Life(s)' = Life(s), ~Busy(s), Busy(s)',
         Box(s) # << >>, Box(s)' = Tail(Box(s))
  PROVE  M!Next
<1>1. Busy(s)' = TRUE
  BY MailboxAt
<1>2. M!Take(s)
  BY <1>1, MailboxAt DEF M!Take, Life, Box
<1> QED
  BY <1>2 DEF M!Next

LEMMA MailboxFinishes ==
  ASSUME NEW s \in Ctx, \A h \in Ctx : h # s => Same(h),
         Life(s)' = Life(s), Busy(s), ~Busy(s)', Box(s)' = Box(s)
  PROVE  M!Next
<1>1. Busy(s)' = FALSE
  BY MailboxAt
<1>2. M!Finish(s)
  BY <1>1, MailboxAt DEF M!Finish, Life, Box
<1> QED
  BY <1>2 DEF M!Next

LEMMA MailboxEnds ==
  ASSUME NEW s \in Ctx, \A h \in Ctx : h # s => Same(h),
         Life(s) = "up", Life(s)' = "gone", ~Busy(s), ~Busy(s)', Box(s)' = Box(s)
  PROVE  M!Next
<1>1. Busy(s)' = Busy(s)
  BY MailboxAt
<1>2. M!End(s)
  BY <1>1, MailboxAt DEF M!End, Life, Box
<1> QED
  BY <1>2 DEF M!Next

LEMMA MailboxDrops ==
  ASSUME NEW s \in Ctx, \A h \in Ctx : h # s => Same(h),
         Life(s) = "gone", Life(s)' = Life(s), Busy(s)' <=> Busy(s),
         Box(s) # << >>, Box(s)' = Tail(Box(s))
  PROVE  M!Next
<1>1. Busy(s)' = Busy(s)
  BY MailboxAt
<1>2. M!Drop(s)
  BY <1>1, MailboxAt DEF M!Drop, Life, Box
<1> QED
  BY <1>2 DEF M!Next

(* A step of t leaves the other threads where they are. *)
LEMMA StepMoves ==
  ASSUME IInv, NEW t \in Thread,
         \/ Step(t) \/ context_new(t) \/ \E h \in Ctx : Send(t, h) \/ Kill(t, h)
         \/ t \in Worker /\ (WorkerStep(t) \/ Wakeup(t))
  PROVE  OnlyMoves(t)
<1>1. /\ call = [u \in Thread |-> call[u]] /\ launch = [u \in Thread |-> launch[u]]
      /\ worker = [w \in Worker |-> worker[w]]
  BY DEF IInv, Typed
<1>2. CASE CallStep(t)
  BY <1>1, <1>2 DEF CallStep, context_push, context_release, delete_context, Unref, OnlyMoves
<1>3. CASE LaunchStep(t)
  BY <1>1, <1>3 DEF LaunchStep, init_begin, init_end, launch_started, launch_failed, launch_release,
                    handle_retire, Unref, OnlyMoves
<1>4. CASE drop_message(t) \/ drop_end(t)
  BY <1>1, <1>4 DEF drop_message, drop_end, Posts, OnlyMoves
<1>5. CASE context_new(t)
  BY <1>1, <1>5 DEF context_new, OnlyMoves
<1>6. CASE \E h \in Ctx : Send(t, h) \/ Kill(t, h)
  BY <1>1, <1>6 DEF Send, Kill, Posts, handle_retire, Unref, OnlyMoves
<1>7. CASE t \in Worker /\ (Loop(t) \/ Grab(t) \/ Release(t) \/ NextQueue(t))
  BY <1>1, <1>7 DEF Loop, Grab, Release, NextQueue, globalmq_pop, OnlyMoves
<1>8. CASE t \in Worker /\ (Pop(t) \/ Return(t) \/ Yield(t) \/ PushBack(t) \/ Sleep(t) \/ Wakeup(t))
  BY <1>1, <1>8 DEF Pop, Return, Yield, PushBack, Sleep, Wakeup, Unref, OnlyMoves
<1> QED
  BY <1>2, <1>3, <1>4, <1>5, <1>6, <1>7, <1>8 DEF Step, WorkerStep

LEMMA LifeSame ==
  ASSUME NEW h, h \in DOMAIN ctx' <=> h \in DOMAIN ctx,
         h \in DOMAIN ctx => /\ ctx'[h] = Nil <=> ctx[h] = Nil
                             /\ ctx[h] # Nil => ctx'[h].handle = ctx[h].handle
  PROVE  Life(h)' = Life(h)
  BY DEF Life

LEMMA BoxSame ==
  ASSUME NEW h, h \in DOMAIN mq' <=> h \in DOMAIN mq, h \in DOMAIN mq => mq'[h] = mq[h]
  PROVE  Box(h)' = Box(h)
  BY DEF Box

LEMMA LifeUp ==
  ASSUME NEW h, Alive(h), ctx[h].handle = h, h # 0
  PROVE  Life(h) = "up"
  BY DEF Alive, Life

(* A post, and the end of a service. *)
LEMMA CallServes ==
  ASSUME IInv, IInv', NEW t \in Thread, CallStep(t)
  PROVE  [M!Next]_(M!vars)
<1> DEFINE h == call[t].h
<1>1. OnlyMoves(t)
  BY StepMoves DEF Step
<1>2. call[t].at # "ret" /\ launch' = launch /\ worker' = worker
  BY DEF CallStep, context_push, context_release, delete_context
<1>3. /\ h \in Ctx /\ h \in DOMAIN ctx /\ Alive(h) /\ ctx[h].handle = h /\ h # 0
      /\ ctx[h] \in [handle : Nat, ref : Nat]
      /\ h \in DOMAIN mq /\ Ring(mq[h], Msg)
  BY <1>2, CallFacts
<1>4. Life(h) = "up"
  BY <1>3, LifeUp
<1>5. \A k \in Ctx : Busy(k)' <=> Busy(k)
  <2> TAKE k \in Ctx
  <2>1. BusyBy(t, k)' <=> BusyBy(t, k)
    BY <1>2 DEF BusyBy
  <2> QED
    BY <1>1, <2>1, BusyStep
<1>6. CASE context_push(t)
  <2> DEFINE m == call[t].msg
             q == mq[h]
             p == mq_push(q, m)
             r == [p EXCEPT !.in_global = TRUE]
  <2>1. m \in Msg
    BY <1>6 DEF context_push, IInv, Uses, Calls
  <2>2. ctx' = ctx /\ mq' = [mq EXCEPT ![h] = r]
    BY <1>6 DEF context_push
  <2>3. Ring(p, Msg) /\ Content(p) = Append(Content(q), m)
    <3>1. Ring(q, Msg)
      BY <1>3
    <3> HIDE DEF q, m
    <3> QED
      BY <2>1, <3>1, RingPush
  <2>4. Content(r) = Content(p)
    <3> HIDE DEF p
    <3>1. TRUE \in BOOLEAN
      OBVIOUS
    <3> QED
      BY <2>3, <3>1, RingFlags
  <2> HIDE DEF r, p
  <2>5. /\ DOMAIN mq' = DOMAIN mq /\ mq'[h] = r
        /\ \A k \in DOMAIN mq : k # h => mq'[k] = mq[k]
    BY <1>3, <2>2 DEF IInv, Typed
  <2>6. \A k \in Ctx : Life(k)' = Life(k)
    BY <2>2 DEF Life
  <2>7. \A k \in Ctx : k # h => Box(k)' = Box(k)
    BY <2>5, BoxSame
  <2>8. ASSUME NEW k \in Ctx, k = h PROVE Box(k)' = Append(Box(k), m)
    BY <1>3, <2>3, <2>4, <2>5, <2>8 DEF Box
  <2>9. \A k \in Ctx : k = h => M!Next
    <3> TAKE k \in Ctx
    <3> HAVE k = h
    <3>1. \A j \in Ctx : j # k => Same(j)
      BY <1>5, <2>6, <2>7 DEF Same
    <3>2. Life(k) = "up" /\ Life(k)' = Life(k) /\ (Busy(k)' <=> Busy(k)) /\ Box(k)' = Append(Box(k), m)
      BY <1>4, <1>5, <2>6, <2>8
    <3> HIDE DEF m
    <3> QED
      BY <2>1, <3>1, <3>2, MailboxPosts
  <2> QED
    BY <1>3, <2>9
<1>7. CASE context_release(t)
  <2>1. ctx' = [ctx EXCEPT ![h].ref = ctx[h].ref - 1] /\ mq' = mq
    BY <1>7 DEF context_release
  <2>2. /\ DOMAIN ctx' = DOMAIN ctx
        /\ ctx'[h] = [ctx[h] EXCEPT !.ref = ctx[h].ref - 1]
        /\ \A k \in DOMAIN ctx : k # h => ctx'[k] = ctx[k]
    BY <1>3, <2>1 DEF IInv, Typed
  <2>3. ctx'[h].handle = ctx[h].handle
    BY <1>3, <2>2
  <2>4. ctx'[h] # Nil
    <3>1. h \in DOMAIN ctx' /\ ctx' \in [DOMAIN ctx' -> [handle : Nat, ref : Nat] \cup {Nil}]
      BY <1>3, <2>2 DEF IInv, Typed
    <3>2. ctx[h].ref - 1 \in Nat
      <4>1. CallUse(t, h)
        BY <1>7 DEF CallUse, context_release
      <4>2. ctx[h].ref > 0
        BY <1>3, <4>1, InUse DEF IInv
      <4> QED
        BY <1>3, <4>2
    <3>3. ctx'[h] \in [handle : Nat, ref : Nat]
      BY <1>3, <2>2, <3>2
    <3> QED
      BY <3>3, Constants
  <2>5. \A k \in Ctx : Life(k)' = Life(k)
    <3> TAKE k \in Ctx
    <3>1. /\ k \in DOMAIN ctx' <=> k \in DOMAIN ctx
          /\ k \in DOMAIN ctx => /\ ctx'[k] = Nil <=> ctx[k] = Nil
                                 /\ ctx[k] # Nil => ctx'[k].handle = ctx[k].handle
      BY <1>3, <2>2, <2>3, <2>4 DEF Alive
    <3> QED
      BY <3>1, LifeSame
  <2>6. \A k \in Ctx : Same(k)
    BY <1>5, <2>1, <2>5 DEF Same, Box
  <2> QED
    BY <2>6, MailboxStutters
<1>8. CASE delete_context(t)
  <2> DEFINE q == mq[h]
             r == [q EXCEPT !.release = TRUE]
  <2>1. ctx' = [ctx EXCEPT ![h] = Nil] /\ mq' = [mq EXCEPT ![h] = r] /\ call[t].at = "delete"
    BY <1>8 DEF delete_context
  <2>2. Content(r) = Content(q)
    <3>1. Ring(q, Msg) /\ TRUE \in BOOLEAN
      BY <1>3
    <3> HIDE DEF q
    <3> QED
      BY <3>1, RingFlags
  <2> HIDE DEF r
  <2>3. /\ DOMAIN mq' = DOMAIN mq /\ mq'[h] = r
        /\ \A k \in DOMAIN mq : k # h => mq'[k] = mq[k]
    BY <1>3, <2>1 DEF IInv, Typed
  <2>4. /\ DOMAIN ctx' = DOMAIN ctx /\ ctx'[h] = Nil
        /\ \A k \in DOMAIN ctx : k # h => ctx'[k] = ctx[k]
    BY <1>3, <2>1 DEF IInv, Typed
  <2>5. Users(h) = 0
    BY <1>3, <2>1 DEF IInv, Uses, Calls, Refs, RefAt
  <2>6. ~Busy(h)
    <3> SUFFICES ASSUME Busy(h) PROVE FALSE
      OBVIOUS
    <3>1. PICK u \in Thread : BusyBy(u, h)
      BY BusyThread DEF IInv
    <3>2. LaunchUse(u, h) \/ WorkUse(u, h)
      BY <3>1 DEF BusyBy, LaunchUse, WorkUse
    <3> QED
      BY <1>3, <2>5, <3>2, InUse DEF IInv
  <2>7. \A k \in Ctx : Box(k)' = Box(k)
    <3> TAKE k \in Ctx
    <3>1. CASE k = h
      BY <1>3, <2>2, <2>3, <3>1 DEF Box
    <3>2. CASE k # h
      BY <2>3, <3>2, BoxSame
    <3> QED
      BY <3>1, <3>2
  <2>8. \A k \in Ctx : k # h => Life(k)' = Life(k)
    BY <2>4 DEF Life
  <2>9. \A k \in Ctx : k = h => M!Next
    <3> TAKE k \in Ctx
    <3> HAVE k = h
    <3>1. \A j \in Ctx : j # k => Same(j)
      BY <1>5, <2>7, <2>8 DEF Same
    <3>2. Life(k)' = "gone"
      BY <1>3, <2>4 DEF Life
    <3>3. Life(k) = "up" /\ ~Busy(k) /\ ~Busy(k)' /\ Box(k)' = Box(k)
      BY <1>4, <1>5, <2>6, <2>7
    <3> QED
      BY <3>1, <3>2, <3>3, MailboxEnds
  <2> QED
    BY <1>3, <2>9
<1> QED
  BY <1>6, <1>7, <1>8 DEF CallStep

(* A launch: the init function begins and ends. *)
LEMMA LaunchServes ==
  ASSUME IInv, IInv', NEW t \in Thread, LaunchStep(t)
  PROVE  [M!Next]_(M!vars)
<1> DEFINE h == launch[t].h
<1>1. OnlyMoves(t)
  BY StepMoves DEF Step
<1>2. launch[t].at # "no" /\ worker' = worker
  BY DEF LaunchStep, init_begin, init_end, launch_started, launch_failed, launch_release
<1>3. /\ t \in Worker /\ worker[t].at = "call" /\ worker[t].q = Launcher
      /\ h \in Ctx /\ h # Launcher /\ h # 0
      /\ launch[t].at # "registered" => HeldBy(t, h)
  BY <1>2, LaunchFacts
<1>4. launch = [u \in Thread |-> launch[u]] /\ DOMAIN launch[t] = {"at", "h"}
  BY DEF IInv, Typed
<1>5. CASE init_begin(t)
  <2>1. /\ launch[t].at = "registered" /\ launch'[t].at = "init" /\ launch'[t].h = h
        /\ ctx' = [ctx EXCEPT ![h].handle = h]
        /\ mq' = [c \in DOMAIN mq \cup {h} |-> IF c = h THEN mq_create ELSE mq[c]]
    BY <1>4, <1>5 DEF init_begin
  <2> HIDE DEF h
  <2>2. h \in DOMAIN ctx /\ Alive(h) /\ ctx[h].handle = 0 /\ h \notin DOMAIN mq
    BY <2>1 DEF IInv, Linked, Alive, h
  <2>3. ctx[h] \in [handle : Nat, ref : Nat]
    BY <2>2 DEF IInv, Typed, Alive
  <2>4. /\ DOMAIN ctx' = DOMAIN ctx /\ ctx'[h] = [ctx[h] EXCEPT !.handle = h]
        /\ \A k \in DOMAIN ctx : k # h => ctx'[k] = ctx[k]
    BY <2>1, <2>2 DEF IInv, Typed
  <2>5. ctx'[h] \in [handle : Nat, ref : Nat] /\ ctx'[h].handle = h
    BY <1>3, <2>3, <2>4, Constants
  <2>6. ctx'[h] # Nil
    BY <2>5, Constants
  <2>7. \A k \in Ctx : Box(k)' = Box(k)
    <3>1. /\ DOMAIN mq' = DOMAIN mq \cup {h} /\ mq'[h] = mq_create
          /\ \A k \in DOMAIN mq : k # h /\ mq'[k] = mq[k]
      BY <2>1, <2>2
    <3>2. Content(mq_create) = << >>
      BY RingCreate
    <3> QED
      BY <2>2, <3>1, <3>2 DEF Box
  <2>8. \A k \in Ctx : k # h => Same(k)
    <3> TAKE k \in Ctx
    <3> HAVE k # h
    <3>1. Life(k)' = Life(k)
      BY <2>4 DEF Life
    <3>2. BusyBy(t, k)' <=> BusyBy(t, k)
      BY <1>2, <2>1 DEF BusyBy, h
    <3> QED
      BY <1>1, <2>7, <3>1, <3>2, BusyStep DEF Same
  <2>9. \A k \in Ctx : k = h => M!Next
    <3> TAKE k \in Ctx
    <3> HAVE k = h
    <3>1. \A j \in Ctx : j # k => Same(j)
      BY <2>8
    <3>2. Life(k) = "none"
      BY <2>2 DEF Life, Alive
    <3>3. Life(k)' = "up"
      BY <1>3, <2>2, <2>4, <2>5, <2>6 DEF Life
    <3>4. BusyBy(t, k)'
      BY <2>1 DEF BusyBy
    <3>5. Busy(k)' /\ Box(k)' = Box(k)
      BY <1>1, <2>7, <3>4, BusyStep
    <3> QED
      BY <3>1, <3>2, <3>3, <3>5, MailboxStarts
  <2> QED
    BY <1>3, <2>9
<1>6. ASSUME init_end(t, "started") \/ init_end(t, "failed") PROVE M!Next
  <2>1. launch[t].at = "init" /\ launch'[t].at # "init" /\ ctx' = ctx /\ mq' = mq
    BY <1>4, <1>6 DEF init_end
  <2>2. \A k \in Ctx : Life(k)' = Life(k) /\ Box(k)' = Box(k)
    BY <2>1 DEF Life, Box
  <2>3. \A k \in Ctx : k # h => Same(k)
    <3> TAKE k \in Ctx
    <3> HAVE k # h
    <3>1. BusyBy(t, k)' <=> BusyBy(t, k)
      BY <1>2, <2>1 DEF BusyBy
    <3> QED
      BY <1>1, <2>2, <3>1, BusyStep DEF Same
  <2>4. \A k \in Ctx : k = h => M!Next
    <3> TAKE k \in Ctx
    <3> HAVE k = h
    <3>1. \A j \in Ctx : j # k => Same(j)
      BY <2>3
    <3>2. BusyBy(t, k) /\ ~BusyBy(t, k)' /\ HeldBy(t, k)
      BY <1>2, <1>3, <2>1 DEF BusyBy
    <3>3. Busy(k) /\ ~Busy(k)'
      BY <1>1, <3>2, BusyStep
    <3> QED
      BY <2>2, <3>1, <3>3, MailboxFinishes
  <2> QED
    BY <1>3, <2>4
<1>7. CASE launch_started(t) \/ launch_failed(t) \/ launch_release(t)
  <2>1. ctx' = ctx /\ mq' = mq /\ launch[t].at # "init" /\ launch'[t].at # "init"
    BY <1>4, <1>7 DEF launch_started, launch_failed, launch_release, NoLaunch
  <2>2. \A k \in Ctx : Same(k)
    <3> TAKE k \in Ctx
    <3>1. Life(k)' = Life(k) /\ Box(k)' = Box(k)
      BY <2>1 DEF Life, Box
    <3>2. BusyBy(t, k)' <=> BusyBy(t, k)
      BY <1>2, <2>1 DEF BusyBy
    <3> QED
      BY <1>1, <3>1, <3>2, BusyStep DEF Same
  <2> QED
    BY <2>2, MailboxStutters
<1> QED
  BY <1>5, <1>6, <1>7 DEF LaunchStep

(* Messages of a service that is gone are dropped in their order. *)
LEMMA DropServes ==
  ASSUME IInv, IInv', NEW t \in Thread, drop_message(t) \/ drop_end(t)
  PROVE  [M!Next]_(M!vars)
<1> DEFINE h == Dropping(t)
           q == mq[h]
<1>1. OnlyMoves(t)
  BY StepMoves DEF Step
<1>2. h # 0 /\ Returned(t)
  BY DEF drop_message, drop_end
<1>3. /\ t \in Worker /\ h \in Ctx /\ h \in DOMAIN mq /\ Ring(q, Msg) /\ ~Alive(h)
      /\ launch[t].at = "drop" => worker[t].at = "call" /\ worker[t].q = Launcher
      /\ launch[t].at # "drop" => worker[t].at = "drop" /\ launch[t].at = "no"
  BY <1>2, DropFacts
<1>4. Life(h) = "gone"
  BY <1>3 DEF Life, Alive, IInv, Linked
<1>5. CASE drop_message(t)
  <2> DEFINE p == mq_pop(q)
             m == mq_first(q)
  <2>1. /\ mq' = [mq EXCEPT ![h] = p] /\ ~Empty(q)
        /\ IF m.src # 0 /\ Found(m.src) THEN Posts(t, m.src, [id |-> 0, src |-> h]) ELSE ctx' = ctx
        /\ hs' = hs /\ worker' = worker /\ launch' = launch
    BY <1>5 DEF drop_message
  <2>2. Content(q) # << >> /\ Content(p) = Tail(Content(q)) /\ m \in Msg
    <3> HIDE DEF q
    <3> QED
      BY <1>3, <2>1, RingPop
  <2> HIDE DEF h, m, p
  <2>3. \A k \in Ctx : Life(k)' = Life(k)
    <3>1. CASE m.src # 0 /\ Found(m.src)
      <4>1. m.src \in Ctx
        BY <2>2, <3>1, Constants DEF Msg, Ctx
      <4>2. [id |-> 0, src |-> h] \in Msg
        BY <1>3, Constants DEF Msg, Ctx
      <4>3. Posts(t, m.src, [id |-> 0, src |-> h])
        BY <2>1, <3>1
      <4>4. /\ DOMAIN ctx' = DOMAIN ctx /\ \A k : Alive(k)' <=> Alive(k)
            /\ \A k \in DOMAIN ctx : Alive(k) => ctx'[k].handle = ctx[k].handle
        BY <1>2, <2>1, <4>1, <4>2, <4>3, PostsFacts
      <4> QED
        BY <4>4 DEF Life, Alive
    <3>2. CASE ~(m.src # 0 /\ Found(m.src))
      BY <2>1, <3>2 DEF Life
    <3> QED
      BY <3>1, <3>2
  <2>4. \A k \in Ctx : Busy(k)' <=> Busy(k)
    <3> TAKE k \in Ctx
    <3>1. BusyBy(t, k)' <=> BusyBy(t, k)
      BY <2>1 DEF BusyBy
    <3> QED
      BY <1>1, <3>1, BusyStep
  <2>5. /\ DOMAIN mq' = DOMAIN mq /\ mq'[h] = p
        /\ \A k \in DOMAIN mq : k # h => mq'[k] = mq[k]
    BY <1>3, <2>1 DEF IInv, Typed
  <2>6. \A k \in Ctx : k = h => M!Next
    <3> TAKE k \in Ctx
    <3> HAVE k = h
    <3>1. \A j \in Ctx : j # k => Same(j)
      BY <2>3, <2>4, <2>5, BoxSame DEF Same
    <3>2. Box(k) = Content(q)
      BY <1>3 DEF Box
    <3>3. Box(k)' = Content(p)
      BY <1>3, <2>5 DEF Box
    <3>4. Life(k) = "gone" /\ Life(k)' = Life(k) /\ (Busy(k)' <=> Busy(k))
      BY <1>4, <2>3, <2>4
    <3>5. Box(k) # << >> /\ Box(k)' = Tail(Box(k))
      BY <2>2, <3>2, <3>3
    <3> QED
      BY <3>1, <3>4, <3>5, MailboxDrops
  <2> QED
    BY <1>3, <2>6
<1>6. CASE drop_end(t)
  <2>1. /\ Empty(q) /\ mq' = [k \in DOMAIN mq \ {h} |-> mq[k]] /\ ctx' = ctx
        /\ IF launch[t].at = "drop"
           THEN launch' = [launch EXCEPT ![t] = NoLaunch] /\ worker' = worker
           ELSE worker' = [worker EXCEPT ![t].at = "next"] /\ launch' = launch
    BY <1>6 DEF drop_end, Restrict
  <2>2. Content(q) = << >>
    <3> HIDE DEF q
    <3>1. Content(q) \in Seq(Msg) /\ Len(Content(q)) = 0
      BY <1>3, <2>1, RingContent, RingLength
    <3> QED
      BY <3>1, EmptySeq
  <2>3. \A k \in Ctx : Box(k)' = Box(k)
    <3> TAKE k \in Ctx
    <3> HIDE DEF h
    <3>1. CASE k = h
      BY <1>3, <2>1, <2>2, <3>1 DEF Box
    <3>2. CASE k # h
      BY <2>1, <3>2 DEF Box
    <3> QED
      BY <3>1, <3>2
  <2>4. \A k \in Ctx : Busy(k)' <=> Busy(k)
    <3> TAKE k \in Ctx
    <3>1. BusyBy(t, k)' <=> BusyBy(t, k)
      <4>1. CASE launch[t].at = "drop"
        <5>1. launch'[t] = NoLaunch /\ worker' = worker
          BY <2>1, <4>1 DEF IInv, Typed
        <5>2. launch'[t].at = "no"
          BY <5>1 DEF NoLaunch
        <5> QED
          BY <4>1, <5>1, <5>2 DEF BusyBy
      <4>2. CASE launch[t].at # "drop"
        <5>1. launch' = launch /\ worker'[t].at = "next" /\ worker[t].at = "drop"
          BY <1>3, <2>1, <4>2 DEF IInv, Typed
        <5> QED
          BY <5>1 DEF BusyBy
      <4> QED
        BY <4>1, <4>2
    <3> QED
      BY <1>1, <3>1, BusyStep
  <2>5. \A k \in Ctx : Same(k)
    BY <2>1, <2>3, <2>4 DEF Same, Life
  <2> QED
    BY <2>5, MailboxStutters
<1> QED
  BY <1>5, <1>6

(* Callbacks send, kill and launch: Mailbox sees that later. *)
LEMMA RunServes ==
  ASSUME IInv, IInv', NEW t \in Thread,
         context_new(t) \/ \E h \in Ctx : Send(t, h) \/ Kill(t, h)
  PROVE  [M!Next]_(M!vars)
<1>1. OnlyMoves(t)
  BY StepMoves
<1>2. mq' = mq /\ worker' = worker
  BY DEF context_new, Send, Kill
<1>3. launch'[t].at = "init" <=> launch[t].at = "init"
  BY DEF context_new, Send, Kill, IInv, Typed
<1>4. launch[t].at = "init" => launch'[t] = launch[t]
  BY DEF context_new, Send, Kill
<1>5. \A k \in Ctx : Life(k)' = Life(k)
  <2>1. CASE context_new(t)
    <3>1. /\ \A k \in DOMAIN ctx : k \in DOMAIN ctx' /\ ctx'[k] = ctx[k]
          /\ \A k \in DOMAIN ctx' : k \notin DOMAIN ctx => ctx'[k] # Nil /\ ctx'[k].handle = 0
      BY <2>1, context_newStep
    <3> QED
      BY <3>1 DEF Life
  <2>2. ASSUME NEW h \in Ctx, Kill(t, h) PROVE \A k \in Ctx : Life(k)' = Life(k)
    BY <2>2 DEF Kill, Life
  <2>3. ASSUME NEW h \in Ctx, Send(t, h) PROVE \A k \in Ctx : Life(k)' = Life(k)
    <3> DEFINE m == [id |-> sent', src |-> Source(t)]
    <3>1. /\ Posts(t, h, m) /\ Returned(t) /\ hs' = hs /\ worker' = worker /\ launch' = launch
          /\ Running(t)
      BY <2>3 DEF Send, Running
    <3>2. sent' \in 0 .. MaxMsg
      BY DEF IInv, Typed
    <3>3. m \in Msg
      BY <3>1, <3>2, SourceType DEF Msg
    <3> HIDE DEF m
    <3>4. /\ DOMAIN ctx' = DOMAIN ctx /\ \A k : Alive(k)' <=> Alive(k)
          /\ \A k \in DOMAIN ctx : Alive(k) => ctx'[k].handle = ctx[k].handle
      BY <3>1, <3>3, PostsFacts
    <3> QED
      BY <3>4 DEF Life, Alive
  <2> QED
    BY <2>1, <2>2, <2>3
<1>6. \A k \in Ctx : Same(k)
  <2> TAKE k \in Ctx
  <2>1. BusyBy(t, k)' <=> BusyBy(t, k)
    BY <1>2, <1>3, <1>4 DEF BusyBy
  <2>2. Box(k)' = Box(k)
    BY <1>2 DEF Box
  <2> QED
    BY <1>1, <1>5, <2>1, <2>2, BusyStep DEF Same
<1> QED
  BY <1>6, MailboxStutters

(* A worker takes a message and its callback returns; the rest of its loop   *)
(* does not show.                                                            *)
LEMMA QuietServes ==
  ASSUME IInv, IInv', NEW w \in Worker, OnlyMoves(w), launch' = launch,
         worker[w].at # "call", worker'[w].at # "call",
         \A k \in Ctx : Life(k)' = Life(k) /\ Box(k)' = Box(k)
  PROVE  UNCHANGED M!vars
<1>1. \A k \in Ctx : Same(k)
  <2> TAKE k \in Ctx
  <2>1. BusyBy(w, k)' <=> BusyBy(w, k)
    BY DEF BusyBy
  <2>2. w \in Thread
    BY Constants
  <2> QED
    BY <2>1, <2>2, BusyStep DEF Same
<1> QED
  BY <1>1, MailboxStutters

LEMMA GrabServes ==
  ASSUME IInv, IInv', NEW w \in Worker, OnlyMoves(w), Grab(w)
  PROVE  UNCHANGED M!vars
<1> DEFINE h == worker[w].q
<1>1. /\ launch' = launch /\ mq' = mq /\ worker[w].at \in {"grab", "loop"}
      /\ worker[w].at = "loop" => h # Nil
      /\ worker' = [worker EXCEPT ![w].at = IF Found(h) THEN "first" ELSE "release"]
      /\ IF Found(h) THEN grab(h) ELSE ctx' = ctx
  BY DEF Grab, At
<1>2. h # Nil
  BY <1>1 DEF IInv, Stack, Handling
<1>3. h \in Ctx /\ w \in Thread
  BY <1>2, Constants DEF IInv, Typed
<1>4. worker'[w].at \in {"first", "release"}
  BY <1>1 DEF IInv, Typed
<1>5. \A k \in Ctx : Life(k)' = Life(k)
  <2> HIDE DEF h
  <2>1. CASE Found(h)
    <3>1. grab(h) /\ Thread # {}
      BY <1>1, <1>3, <2>1
    <3>2. /\ DOMAIN ctx' = DOMAIN ctx /\ \A k : Alive(k)' <=> Alive(k)
          /\ \A k \in DOMAIN ctx : Alive(k) => ctx'[k].handle = ctx[k].handle
      BY <1>3, <2>1, <3>1, GrabFacts
    <3> QED
      BY <3>2 DEF Life, Alive
  <2>2. CASE ~Found(h)
    BY <1>1, <2>2 DEF Life
  <2> QED
    BY <2>1, <2>2
<1>6. \A k \in Ctx : Box(k)' = Box(k)
  BY <1>1 DEF Box
<1> QED
  BY <1>1, <1>4, <1>5, <1>6, QuietServes

LEMMA PopServes ==
  ASSUME IInv, IInv', NEW w \in Worker, OnlyMoves(w), Pop(w)
  PROVE  [M!Next]_(M!vars)
<1> DEFINE h == worker[w].q
           q == mq[h]
<1>1. /\ launch' = launch /\ ctx' = ctx /\ worker[w].at \in {"first", "more"}
      /\ launch[w].at = "no"
  BY DEF Pop, At
<1>2. h # Nil /\ worker[w].at \in Place \ {"next", "tosleep", "asleep"} /\ w \in Thread
  BY <1>1, Constants DEF IInv, Stack, Handling, Place
<1>3. /\ h \in Ctx /\ HeldBy(w, h) /\ h \in DOMAIN mq /\ Ring(q, Msg)
      /\ Alive(h) /\ ctx[h].handle = h /\ h # 0
  <2>1. h \in Ctx /\ HeldBy(w, h) /\ h \in DOMAIN mq /\ Ring(q, Msg) /\ Alive(h) /\ ctx[h].handle = h
    BY <1>1, <1>2, WorkerFacts
  <2> QED
    BY <2>1, Constants
<1>4. \A k \in Ctx : Life(k)' = Life(k)
  BY <1>1 DEF Life
<1>5. CASE Empty(q)
  <2> DEFINE r == [q EXCEPT !.in_global = FALSE]
  <2>1. mq' = [mq EXCEPT ![h] = r] /\ worker' = [worker EXCEPT ![w] = Holds("next", Nil)]
    BY <1>5 DEF Pop
  <2>2. Content(r) = Content(q)
    <3>1. FALSE \in BOOLEAN
      OBVIOUS
    <3> HIDE DEF q
    <3> QED
      BY ZenonT(60), <1>3, <3>1, RingFlags
  <2> HIDE DEF r
  <2>3. /\ DOMAIN mq' = DOMAIN mq /\ mq'[h] = r
        /\ \A k \in DOMAIN mq : k # h => mq'[k] = mq[k]
    BY <1>3, <2>1 DEF IInv, Typed
  <2>4. \A k \in Ctx : Box(k)' = Box(k)
    <3> TAKE k \in Ctx
    <3>1. CASE k = h
      BY <1>3, <2>2, <2>3, <3>1 DEF Box
    <3>2. CASE k # h
      BY <2>3, <3>2, BoxSame
    <3> QED
      BY <3>1, <3>2
  <2>5. worker'[w].at = "next"
    BY <2>1 DEF IInv, Typed, Holds
  <2> QED
    BY <1>1, <1>4, <2>4, <2>5, QuietServes
<1>6. CASE ~Empty(q)
  <2> DEFINE p == mq_pop(q)
  <2>1. mq' = [mq EXCEPT ![h] = p]
    BY <1>6 DEF Pop
  <2>2. worker'[w].at = "call" /\ worker'[w].q = h
    <3>1. worker' = [worker EXCEPT ![w].at = "call", ![w].left = Left(w, mq'[h])]
      BY <1>6 DEF Pop
    <3> QED
      BY ZenonT(60), <3>1 DEF IInv, Typed
  <2>3. Content(q) # << >> /\ Content(p) = Tail(Content(q))
    <3> HIDE DEF q
    <3> QED
      BY <1>3, <1>6, RingPop
  <2> HIDE DEF p
  <2>4. /\ DOMAIN mq' = DOMAIN mq /\ mq'[h] = p
        /\ \A k \in DOMAIN mq : k # h => mq'[k] = mq[k]
    BY <1>3, <2>1 DEF IInv, Typed
  <2>5. \A k \in Ctx : k # h => Same(k)
    <3> TAKE k \in Ctx
    <3> HAVE k # h
    <3>1. BusyBy(w, k)' <=> BusyBy(w, k)
      BY <1>1, <2>2 DEF BusyBy
    <3>2. Box(k)' = Box(k)
      BY <2>4, BoxSame
    <3> QED
      BY <1>2, <1>4, <3>1, <3>2, BusyStep DEF Same
  <2>6. \A k \in Ctx : k = h => M!Next
    <3> TAKE k \in Ctx
    <3> HAVE k = h
    <3>1. \A j \in Ctx : j # k => Same(j)
      BY <2>5
    <3>2. Life(k) = "up" /\ Life(k)' = Life(k)
      BY <1>3, <1>4, LifeUp
    <3>3. ~Busy(k) /\ Busy(k)'
      <4>1. HeldBy(w, k) /\ ~BusyBy(w, k)
        BY <1>1, <1>3 DEF BusyBy
      <4>2. BusyBy(w, k)'
        BY <2>2 DEF BusyBy
      <4> QED
        BY <1>2, <4>1, <4>2, BusyStep
    <3>4. Box(k) # << >> /\ Box(k)' = Tail(Box(k))
      BY <1>3, <2>3, <2>4 DEF Box
    <3> QED
      BY <3>1, <3>2, <3>3, <3>4, MailboxTakes
  <2> QED
    BY <1>3, <2>6
<1> QED
  BY <1>5, <1>6

LEMMA ReturnServes ==
  ASSUME IInv, IInv', NEW w \in Worker, OnlyMoves(w), Return(w)
  PROVE  M!Next
<1> DEFINE h == worker[w].q
<1>1. /\ launch' = launch /\ ctx' = ctx /\ mq' = mq /\ worker[w].at = "call" /\ launch[w].at = "no"
      /\ worker' = [worker EXCEPT ![w].at = IF worker[w].left > 0 THEN "more" ELSE "yield"]
  BY DEF Return, At
<1>2. h # Nil /\ worker[w].at \in Place \ {"next", "tosleep", "asleep"} /\ w \in Thread
  BY <1>1, Constants DEF IInv, Stack, Handling, Place
<1>3. h \in Ctx /\ HeldBy(w, h)
  BY <1>2, WorkerFacts
<1>4. \A k \in Ctx : Life(k)' = Life(k) /\ Box(k)' = Box(k)
  BY <1>1 DEF Life, Box
<1>5. worker'[w].at # "call"
  BY <1>1 DEF IInv, Typed
<1>6. \A k \in Ctx : k # h => Same(k)
  <2> TAKE k \in Ctx
  <2> HAVE k # h
  <2>1. BusyBy(w, k)' <=> BusyBy(w, k)
    BY <1>1, <1>5 DEF BusyBy
  <2> QED
    BY <1>2, <1>4, <2>1, BusyStep DEF Same
<1>7. \A k \in Ctx : k = h => M!Next
  <2> TAKE k \in Ctx
  <2> HAVE k = h
  <2>1. HeldBy(w, k) /\ BusyBy(w, k) /\ ~BusyBy(w, k)'
    BY <1>1, <1>3, <1>5 DEF BusyBy
  <2>2. Busy(k) /\ ~Busy(k)'
    BY <1>2, <2>1, BusyStep
  <2>3. \A j \in Ctx : j # k => Same(j)
    BY <1>6
  <2> QED
    BY <1>4, <2>2, <2>3, MailboxFinishes
<1> QED
  BY <1>3, <1>7

LEMMA WorkerServes ==
  ASSUME IInv, IInv', NEW w \in Worker, WorkerStep(w) \/ Wakeup(w)
  PROVE  [M!Next]_(M!vars)
<1>1. OnlyMoves(w)
  BY StepMoves, Constants
<1>2. CASE \/ Loop(w) \/ Release(w) \/ NextQueue(w) \/ Yield(w) \/ PushBack(w) \/ Sleep(w) \/ Wakeup(w)
  <2>1. ctx' = ctx /\ mq' = mq /\ launch' = launch
    BY <1>2 DEF Loop, Release, NextQueue, Yield, PushBack, Sleep, Wakeup
  <2>2. worker[w].at # "call"
    BY <1>2 DEF Loop, Release, NextQueue, Yield, PushBack, Sleep, Wakeup, At
  <2>3. worker'[w].at # "call"
    <3>1. w \in DOMAIN worker /\ "at" \in DOMAIN worker[w]
      BY DEF IInv, Typed
    <3>2. CASE Loop(w) \/ NextQueue(w)
      BY <3>1, <3>2 DEF Loop, NextQueue, globalmq_pop, Holds
    <3>3. CASE Release(w) \/ Yield(w)
      BY <3>1, <3>3 DEF Release, Yield, AfterRelease, IInv, Typed
    <3>4. CASE PushBack(w) \/ Sleep(w) \/ Wakeup(w)
      BY <3>1, <3>4 DEF PushBack, Sleep, Wakeup, Holds
    <3> QED
      BY <1>2, <3>2, <3>3, <3>4
  <2>4. \A k \in Ctx : Life(k)' = Life(k) /\ Box(k)' = Box(k)
    BY <2>1 DEF Life, Box
  <2> QED
    BY <1>1, <2>1, <2>2, <2>3, <2>4, QuietServes
<1>3. CASE Grab(w)
  BY <1>1, <1>3, GrabServes
<1>4. CASE Pop(w)
  BY <1>1, <1>4, PopServes
<1>5. CASE Return(w)
  BY <1>1, <1>5, ReturnServes
<1> QED
  BY <1>2, <1>3, <1>4, <1>5 DEF WorkerStep

LEMMA AbortServes ==
  ASSUME IInv, Abort
  PROVE  UNCHANGED M!vars
<1>1. ctx' = ctx /\ mq' = mq /\ launch' = launch
  BY DEF Abort
<1>2. \A w \in Worker : /\ worker'[w].at = "call" <=> worker[w].at = "call"
                        /\ worker'[w].q = worker[w].q
  BY DEF Abort, IInv, Typed
<1>3. \A k \in Ctx : Same(k)
  BY <1>1, <1>2 DEF Same, Life, Box, Busy
<1> QED
  BY <1>3, MailboxStutters

LEMMA InitServes ==
  ASSUME Init
  PROVE  M!Init
<1>1. IInv
  BY InitInv
<1>2. \A h \in Ctx : Life(h) \in {"none", "up"}
  <2>1. \A h \in DOMAIN ctx : ctx[h] # Nil
    BY RuntimeAssumption DEF Init, Launcher
  <2> QED
    BY <2>1 DEF Life
<1>3. \A h \in Ctx : Busy(h) = FALSE
  <2>1. \A t \in Thread : launch[t].at # "init"
    BY DEF Init, NoLaunch
  <2>2. \A w \in Worker : worker[w].at # "call"
    BY DEF Init, Holds
  <2> QED
    BY <2>1, <2>2 DEF Busy
<1>4. \A h \in Ctx : Box(h) \in Seq(Msg)
  <2> TAKE h \in Ctx
  <2>1. CASE h \in DOMAIN mq
    <3> DEFINE q == mq[h]
    <3>1. Ring(q, Msg)
      BY <1>1, <2>1 DEF IInv, Typed
    <3>2. Content(q) \in Seq(Msg)
      <4> HIDE DEF q
      <4> QED
        BY <3>1, RingContent
    <3> QED
      BY <2>1, <3>2 DEF Box
  <2>2. CASE h \notin DOMAIN mq
    BY <2>2 DEF Box
  <2> QED
    BY <2>1, <2>2
<1>5. [h \in Ctx |-> Life(h)] \in [Ctx -> {"none", "up"}]
  BY <1>2
<1>6. [h \in Ctx |-> Busy(h)] = [h \in Ctx |-> FALSE]
  BY <1>3
<1>7. [h \in Ctx |-> Box(h)] \in [Ctx -> Seq(Msg)]
  BY <1>4
<1> QED
  BY <1>5, <1>6, <1>7 DEF M!Init, Life, Box

LEMMA StepServes ==
  ASSUME IInv, IInv', [Next]_vars
  PROVE  [M!Next]_(M!vars)
<1>1. CASE \E t \in Thread : Step(t)
  BY <1>1, CallServes, LaunchServes, DropServes DEF Step
<1>2. CASE \E t \in Thread : context_new(t) \/ \E h \in Ctx : Send(t, h) \/ Kill(t, h)
  BY <1>2, RunServes
<1>3. CASE \E w \in Worker : WorkerStep(w) \/ Wakeup(w)
  BY <1>3, WorkerServes
<1>4. CASE Abort
  BY <1>4, AbortServes
<1>5. CASE UNCHANGED vars
  <2>1. \A k \in Ctx : Same(k)
    BY <1>5 DEF vars, Same, Life, Box, Busy
  <2> QED
    BY <2>1, MailboxStutters
<1> QED
  BY <1>1, <1>2, <1>3, <1>4, <1>5 DEF Next

(* The threads keep the promises of Mailbox whatever their number and        *)
(* however their critical sections interleave: a service runs one callback   *)
(* at a time and sees its messages in the order of posting, it ends between  *)
(* two callbacks, and only then is the rest of its queue dropped.            *)
THEOREM RuntimeServes == Spec => Serves
<1>1. Init => M!Init
  BY InitServes
<1>2. IInv /\ IInv' /\ [Next]_vars => [M!Next]_(M!vars)
  BY StepServes
<1> QED
  BY <1>1, <1>2, RuntimeIInv, PTL DEF Spec, Serves, M!Spec
=============================================================================
