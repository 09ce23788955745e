------------------------- MODULE PoolClientsProofs -------------------------
(***************************************************************************)
(* OnePlace, Bounded and AgentListed of PoolClients, for any number of     *)
(* pools, callers and agents, any maxnum and either value of recyremove.   *)
(***************************************************************************)
EXTENDS PoolClients, SequenceTheorems, TLAPS

\* Every agent in use was born: newservice cannot hand out an address twice.
Born ==
  /\ \A p \in Pool : Idle(p) \subseteq born
  /\ Held \subseteq born
  /\ dead \subseteq born

\* While init_pool runs nothing is taken, so the pool is what it has made.
Filling ==
  \A p \in Pool : started[p] < MaxNum =>
    /\ Len(pool[p]) = started[p]
    /\ \A w \in Caller : held[w] = Nil /\ making[w] = Nil

\* The lists name agents that were born, and each living agent is in one list.
ListedOnce(a) == \E p \in Pool : \A q \in Pool : a \in agentlist[q] <=> q = p
Living == (UNION {Idle(p) : p \in Pool}) \cup Held
Listing ==
  /\ \A p \in Pool : agentlist[p] \subseteq born
  /\ \A a \in Living : ListedOnce(a)

IInv == TypeOK /\ OnePlace /\ Born /\ Filling /\ Bounded /\ Listing

-----------------------------------------------------------------------------
\* table.remove(pool)
LEMMA FrontFacts ==
  ASSUME NEW S, NEW s \in Seq(S), s # <<>>
  PROVE  /\ Front(s) \in Seq(S) /\ Len(Front(s)) = Len(s) - 1
         /\ \A i \in 1..(Len(s) - 1) : Front(s)[i] = s[i]
         /\ Len(s) \in Nat \ {0} /\ Last(s) = s[Len(s)] /\ Last(s) \in S
<1> DEFINE n == Len(s)
           f == SubSeq(s, 1, n - 1)
<1>1. n \in Nat \ {0}
  BY EmptySeq
<1>2. Front(s) = f /\ Last(s) = s[n]
  BY DEF Front, Last
<1>3. \A i \in 1..n : s[i] \in S
  BY ElementOfSeq
<1> HIDE DEF n
<1>4. 1 \in Int /\ n - 1 \in Int /\ n \in 1..n /\ \A i \in 1..(n - 1) : s[i] \in S
  BY <1>1, <1>3
<1>5. /\ f \in Seq(S)
      /\ Len(f) = IF 1 <= n - 1 THEN n - 1 - 1 + 1 ELSE 0
      /\ \A i \in 1..(n - 1 - 1 + 1) : f[i] = s[1 + i - 1]
  BY <1>4, SubSeqProperties
<1> HIDE DEF f
<1>6. Len(f) = n - 1 /\ \A i \in 1..(n - 1) : f[i] = s[i]
  BY <1>1, <1>5
<1> QED
  BY <1>1, <1>2, <1>3, <1>4, <1>5, <1>6 DEF n

\* table.insert(pool, 1, agent)
LEMMA InsertFacts ==
  ASSUME NEW S, NEW s \in Seq(S), NEW a \in S
  PROVE  /\ <<a>> \o s \in Seq(S) /\ Len(<<a>> \o s) = Len(s) + 1
         /\ (<<a>> \o s)[1] = a
         /\ \A i \in 2..(Len(s) + 1) : (<<a>> \o s)[i] = s[i - 1]
  BY ConcatProperties

\* table.insert(pool, agent)
LEMMA AppendFacts ==
  ASSUME NEW S, NEW s \in Seq(S), NEW a \in S
  PROVE  /\ Append(s, a) \in Seq(S) /\ Len(Append(s, a)) = Len(s) + 1
         /\ Append(s, a)[Len(s) + 1] = a
         /\ \A i \in 1..Len(s) : Append(s, a)[i] = s[i]
  BY AppendProperties

-----------------------------------------------------------------------------
\* A new agent goes into the list of the pool that makes it, and no other.
LEMMA NewListed ==
  ASSUME IInv, NEW p \in Pool, NEW a \in Agent, a \notin born, born' = born \cup {a},
         agentlist' = [agentlist EXCEPT ![p] = @ \cup {a}], Living' \subseteq Living \cup {a}
  PROVE  Listing'
<1>1. agentlist \in [Pool -> SUBSET Agent] /\ \A q \in Pool : a \notin agentlist[q]
  BY DEF IInv, TypeOK, PoolType, Listing
<1>2. \A q \in Pool : agentlist'[q] = IF q = p THEN agentlist[q] \cup {a} ELSE agentlist[q]
  BY <1>1
<1>3. ListedOnce(a)'
  BY <1>1, <1>2 DEF ListedOnce
<1>4. \A b \in Living : b # a => ListedOnce(b)'
  BY <1>2 DEF IInv, Listing, ListedOnce
<1>5. \A q \in Pool : agentlist'[q] \subseteq born'
  BY <1>2 DEF IInv, Listing
<1> QED
  BY <1>3, <1>4, <1>5 DEF Listing

\* The invariant holds before init_pool.
LEMMA InitIInv == Init => IInv
<1> SUFFICES ASSUME Init PROVE IInv
  OBVIOUS
<1> USE PoolConstants
<1>1. TypeOK
  BY DEF Init, PoolInit, TypeOK, PoolType
<1>2. \A p \in Pool : Len(pool[p]) = 0 /\ Idle(p) = {}
  BY DEF Init, PoolInit, Idle
<1>3. Held = {} /\ dead = {}
  BY DEF Init, PoolInit, Held
<1>4. OnePlace
  BY <1>2, <1>3 DEF OnePlace, Init
<1>5. Listing
  BY <1>2, <1>3 DEF Listing, Living, Init, PoolInit
<1> QED
  BY <1>1, <1>2, <1>3, <1>4, <1>5 DEF IInv, Born, Filling, Bounded, Init, PoolInit

\* Get moves the last idle agent to its caller.
LEMMA GetIInv ==
  ASSUME IInv, NEW w \in Caller, NEW p \in Pool, Get(w, p)
  PROVE  IInv'
<1> USE PoolConstants
<1> PICK a \in Agent : get(p, a) /\ held' = [held EXCEPT ![w] = a]
  BY DEF Get
<1>0. pool \in [Pool -> Seq(Agent)] /\ held \in [Caller -> Agent \cup {Nil}] /\ held[w] = Nil
  BY DEF IInv, TypeOK, PoolType, Get
<1> DEFINE n == Len(pool[p])
<1>1. /\ pool'[p] \in Seq(Agent) /\ Len(pool'[p]) = n - 1
      /\ \A i \in 1..(n - 1) : pool'[p][i] = pool[p][i]
      /\ n \in Nat \ {0} /\ a = pool[p][n]
  BY <1>0, FrontFacts DEF get
<1>2. \A q \in Pool : q # p => pool'[q] = pool[q]
  BY <1>0 DEF get
<1>3. \A q \in Pool : \A i \in 1..Len(pool'[q]) :
        i \in 1..Len(pool[q]) /\ pool'[q][i] = pool[q][i] /\ pool'[q][i] # a
  <2> SUFFICES ASSUME NEW q \in Pool, NEW i \in 1..Len(pool'[q])
               PROVE i \in 1..Len(pool[q]) /\ pool'[q][i] = pool[q][i] /\ pool'[q][i] # a
    OBVIOUS
  <2>1. CASE q = p
    <3>1. i \in 1..(n - 1) /\ i \in 1..n /\ n \in 1..n /\ i # n
      BY <1>1, <2>1
    <3>2. pool[p][i] = pool[p][n] => i = n
      BY <3>1 DEF IInv, OnePlace
    <3> QED
      BY <1>1, <2>1, <3>1, <3>2
  <2>2. CASE q # p
    <3>1. n \in 1..n
      BY <1>1
    <3> QED
      BY <1>1, <1>2, <2>2, <3>1 DEF IInv, OnePlace
  <2> QED
    BY <2>1, <2>2
<1>4. \A q \in Pool : Idle(q)' \subseteq Idle(q) /\ a \notin Idle(q)'
  BY <1>3 DEF Idle
<1>5. a \in Idle(p) /\ a # Nil
  BY <1>1 DEF Idle
<1>6. Held' = Held \cup {a} /\ \A v \in Caller : v # w => held'[v] = held[v] /\ held[v] # a
  BY <1>0, <1>5 DEF Held, IInv, OnePlace
<1>7. TypeOK'
  BY <1>0, <1>1, <1>2 DEF IInv, TypeOK, PoolType, get
<1>8. OnePlace'
  <2>1. \A q, r \in Pool : \A i \in 1..Len(pool'[q]), j \in 1..Len(pool'[r]) :
          pool'[q][i] = pool'[r][j] => q = r /\ i = j
    BY <1>3 DEF IInv, OnePlace
  <2>2. \A v, u \in Caller : held'[v] = held'[u] /\ held'[v] # Nil => v = u
    BY <1>0, <1>6 DEF IInv, OnePlace
  <2>3. \A q \in Pool : Idle(q)' \cap Held' = {}
    BY <1>4, <1>6 DEF IInv, OnePlace
  <2>4. \A b \in dead' : b \notin Held' /\ \A q \in Pool : b \notin Idle(q)'
    BY <1>4, <1>5, <1>6 DEF IInv, OnePlace, get
  <2> QED
    BY <2>1, <2>2, <2>3, <2>4 DEF OnePlace
<1>9. Born'
  BY <1>4, <1>5, <1>6 DEF IInv, Born, get
<1>10. Filling'
  BY DEF IInv, TypeOK, PoolType, Filling, Get, Ready, get
<1>11. Bounded'
  BY <1>0, <1>1, <1>2 DEF IInv, Bounded
<1>12. Listing'
  <2>1. Living' \subseteq Living
    BY <1>4, <1>5, <1>6 DEF Living
  <2> QED
    BY <2>1 DEF IInv, Listing, ListedOnce, get
<1> QED
  BY <1>7, <1>8, <1>9, <1>10, <1>11, <1>12 DEF IInv

\* What Recycle takes away from its caller, and what is left to the others.
LEMMA Released ==
  ASSUME IInv, NEW w \in Caller, NEW p \in Pool, Recycle(w, p)
  PROVE  /\ held[w] \in Agent /\ held[w] \in Held /\ held[w] \in born
         /\ held' \in [Caller -> Agent \cup {Nil}]
         /\ Held' = Held \ {held[w]}
         /\ \A v, u \in Caller : held'[v] = held'[u] /\ held'[v] # Nil => v = u
         /\ \A q \in Pool : held[w] \notin Idle(q)
         /\ started[p] = MaxNum /\ \A q \in Pool : started[q] = MaxNum
<1> USE PoolConstants
<1>1. held \in [Caller -> Agent \cup {Nil}] /\ held' = [held EXCEPT ![w] = Nil] /\ held[w] # Nil
  BY DEF IInv, TypeOK, Recycle
<1>2. held[w] \in Agent /\ held[w] \in Held
  BY <1>1 DEF Held
<1>3. Held' = Held \ {held[w]}
  BY <1>1 DEF Held, IInv, OnePlace
<1>4. \A q \in Pool : held[w] \notin Idle(q)
  BY <1>2 DEF IInv, OnePlace
<1>5. \A q \in Pool : started[q] = MaxNum
  BY <1>1 DEF IInv, TypeOK, PoolType, Filling
<1> QED
  BY <1>1, <1>2, <1>3, <1>4, <1>5 DEF IInv, OnePlace, Born

\* Recycle moves the agent of its caller to the front of a pool, or kills it.
LEMMA RecycleIInv ==
  ASSUME IInv, NEW w \in Caller, NEW p \in Pool, Recycle(w, p)
  PROVE  IInv'
<1> USE PoolConstants
<1> DEFINE a == held[w]
           n == Len(pool[p])
<1>0. /\ a \in Agent /\ a \in Held /\ a \in born
      /\ held' \in [Caller -> Agent \cup {Nil}]
      /\ Held' = Held \ {a}
      /\ \A v, u \in Caller : held'[v] = held'[u] /\ held'[v] # Nil => v = u
      /\ \A q \in Pool : a \notin Idle(q)
      /\ \A q \in Pool : started[q] = MaxNum
  BY Released
<1>1. pool \in [Pool -> Seq(Agent)] /\ recycle(p, a)
  BY DEF IInv, TypeOK, PoolType, Recycle
<1>2. n \in Nat
  BY <1>1, LenProperties
<1>3. started' = started /\ making' = making /\ born' = born
  BY <1>1 DEF recycle
<1>4. Filling'
  BY <1>0, <1>3 DEF Filling
<1>5. CASE Full(p)
  <2>1. pool' = pool /\ dead' = dead \cup {a} /\ agentlist' = [agentlist EXCEPT ![p] = @ \ {a}]
    BY <1>1, <1>5 DEF recycle
  <2>2. \A q \in Pool : Idle(q)' = Idle(q)
    BY <2>1 DEF Idle
  <2>3. TypeOK'
    BY <1>0, <1>3, <2>1 DEF IInv, TypeOK, PoolType
  <2>4. OnePlace'
    BY <1>0, <2>1, <2>2 DEF IInv, OnePlace
  <2>5. Born'
    BY <1>0, <1>3, <2>1, <2>2 DEF IInv, Born
  <2>6. Bounded'
    BY <2>1 DEF IInv, Bounded
  <2>7. Listing'
    <3>1. Living' \subseteq Living \ {a}
      BY <1>0, <2>2 DEF Living
    <3>2. \A q \in Pool : \A b : b # a => (b \in agentlist'[q] <=> b \in agentlist[q])
      BY <2>1 DEF IInv, TypeOK, PoolType
    <3>3. \A q \in Pool : agentlist'[q] \subseteq agentlist[q]
      BY <2>1 DEF IInv, TypeOK, PoolType
    <3> HIDE DEF a
    <3>4. \A b \in Living' : ListedOnce(b)'
      BY <3>1, <3>2 DEF IInv, Listing, ListedOnce
    <3> QED
      BY <1>3, <3>3, <3>4 DEF IInv, Listing
  <2> QED
    BY <1>4, <2>3, <2>4, <2>5, <2>6, <2>7 DEF IInv
<1>6. CASE ~Full(p)
  <2>1. pool' = [pool EXCEPT ![p] = <<a>> \o @] /\ dead' = dead /\ agentlist' = agentlist
    BY <1>1, <1>6 DEF recycle
  <2>2. /\ pool'[p] \in Seq(Agent) /\ Len(pool'[p]) = n + 1
        /\ pool'[p][1] = a
        /\ \A i \in 2..(n + 1) : pool'[p][i] = pool[p][i - 1]
    <3>1. pool[p] \in Seq(Agent) /\ pool'[p] = <<a>> \o pool[p]
      BY <1>1, <2>1
    <3> HIDE DEF a
    <3> QED
      BY <1>0, <3>1, InsertFacts
  <2>3. \A q \in Pool : q # p => pool'[q] = pool[q]
    BY <1>1, <2>1
  <2> HIDE DEF n
  <2>4. \A i \in 1..Len(pool'[p]) : i = 1 \/ (i - 1 \in 1..n /\ pool'[p][i] = pool[p][i - 1])
    <3> SUFFICES ASSUME NEW i \in 1..(n + 1), i # 1
                 PROVE  i - 1 \in 1..n /\ pool'[p][i] = pool[p][i - 1]
      BY <2>2
    <3>1. i \in 2..(n + 1) /\ i - 1 \in 1..n
      BY <1>2
    <3> QED
      BY <2>2, <3>1
  <2>5. \A q \in Pool : Idle(q)' \subseteq Idle(q) \cup {a} /\ (q # p => Idle(q)' = Idle(q))
    <3>1. Idle(p)' \subseteq Idle(p) \cup {a}
      BY <2>2, <2>4 DEF Idle, n
    <3> QED
      BY <2>3, <3>1 DEF Idle
  <2>6. \A q \in Pool : \A i \in 1..Len(pool[q]) : pool[q][i] # a
    BY <1>0 DEF Idle
  <2>7. TypeOK'
    BY <1>0, <1>1, <1>3, <2>1, <2>2, <2>3 DEF IInv, TypeOK, PoolType
  <2>8. \A q, r \in Pool : \A i \in 1..Len(pool'[q]), j \in 1..Len(pool'[r]) :
          pool'[q][i] = pool'[r][j] => q = r /\ i = j
    <3> SUFFICES ASSUME NEW q \in Pool, NEW r \in Pool,
                        NEW i \in 1..Len(pool'[q]), NEW j \in 1..Len(pool'[r]),
                        pool'[q][i] = pool'[r][j]
                 PROVE  q = r /\ i = j
      OBVIOUS
    <3>0. i \in Int /\ j \in Int
      OBVIOUS
    <3>1. CASE q = p /\ r = p
      <4>1. CASE i = 1
        BY <3>1, <4>1, <2>2, <2>4, <2>6 DEF n
      <4>2. CASE i # 1 /\ j = 1
        BY <3>1, <4>2, <2>2, <2>4, <2>6 DEF n
      <4>3. CASE i # 1 /\ j # 1
        <5>1. i - 1 \in 1..n /\ j - 1 \in 1..n /\ pool[p][i - 1] = pool[p][j - 1]
          BY <3>1, <4>3, <2>4
        <5>2. i - 1 = j - 1
          BY <5>1 DEF IInv, OnePlace, n
        <5> QED
          BY <3>0, <3>1, <5>2
      <4> QED
        BY <4>1, <4>2, <4>3
    <3>2. CASE q = p /\ r # p
      <4>1. j \in 1..Len(pool[r]) /\ pool'[r][j] = pool[r][j]
        BY <2>3, <3>2
      <4>2. i # 1
        BY <2>2, <2>6, <3>2, <4>1
      <4>3. i - 1 \in 1..n /\ pool[p][i - 1] = pool[r][j]
        BY <2>4, <3>2, <4>1, <4>2
      <4> QED
        BY <3>2, <4>1, <4>3 DEF IInv, OnePlace, n
    <3>3. CASE q # p /\ r = p
      <4>1. i \in 1..Len(pool[q]) /\ pool'[q][i] = pool[q][i]
        BY <2>3, <3>3
      <4>2. j # 1
        BY <2>2, <2>6, <3>3, <4>1
      <4>3. j - 1 \in 1..n /\ pool[p][j - 1] = pool[q][i]
        BY <2>4, <3>3, <4>1, <4>2
      <4> QED
        BY <3>3, <4>1, <4>3 DEF IInv, OnePlace, n
    <3>4. CASE q # p /\ r # p
      BY <2>3, <3>4 DEF IInv, OnePlace
    <3> QED
      BY <3>1, <3>2, <3>3, <3>4
  <2>9. OnePlace'
    <3>1. \A q \in Pool : Idle(q)' \cap Held' = {}
      BY <1>0, <2>5 DEF IInv, OnePlace
    <3>2. \A b \in dead' : b \notin Held' /\ \A q \in Pool : b \notin Idle(q)'
      BY <1>0, <2>1, <2>5 DEF IInv, OnePlace
    <3> QED
      BY <1>0, <2>8, <3>1, <3>2 DEF OnePlace
  <2>10. Born'
    BY <1>0, <1>3, <2>1, <2>5 DEF IInv, Born
  <2>11. Bounded'
    <3>1. RecyRemove => n < MaxNum
      BY <1>2, <1>6 DEF Full, n
    <3>2. RecyRemove => Len(pool'[p]) <= MaxNum
      BY <1>2, <2>2, <3>1
    <3> QED
      BY <2>3, <3>2 DEF IInv, Bounded
  <2>12. Listing'
    <3>1. Living' \subseteq Living
      BY <1>0, <2>5 DEF Living
    <3> QED
      BY <1>3, <2>1, <3>1 DEF IInv, Listing, ListedOnce
  <2> QED
    BY <1>4, <2>7, <2>9, <2>10, <2>11, <2>12 DEF IInv
<1> QED
  BY <1>5, <1>6

\* init_pool puts a new agent behind the ones it has made.
LEMMA StartIInv ==
  ASSUME IInv, NEW p \in Pool, StartPool(p)
  PROVE  IInv'
<1> USE PoolConstants
<1> PICK a \in Agent : init_pool(p, a) /\ held' = held
  BY DEF StartPool
<1> DEFINE n == Len(pool[p])
<1>0. /\ pool \in [Pool -> Seq(Agent)] /\ a \notin born /\ started \in [Pool -> 0..MaxNum]
      /\ started[p] < MaxNum /\ n = started[p]
  BY DEF IInv, TypeOK, PoolType, init_pool, Filling
<1>1. n \in Nat
  BY <1>0, LenProperties
<1>2. /\ pool'[p] \in Seq(Agent) /\ Len(pool'[p]) = n + 1
      /\ pool'[p][n + 1] = a
      /\ \A i \in 1..n : pool'[p][i] = pool[p][i]
  <2>1. pool[p] \in Seq(Agent) /\ pool'[p] = Append(pool[p], a)
    BY <1>0 DEF init_pool
  <2> QED
    BY <2>1, AppendFacts
<1>3. \A q \in Pool : q # p => pool'[q] = pool[q]
  BY <1>0 DEF init_pool
<1>4. started'[p] = n + 1 /\ \A q \in Pool : q # p => started'[q] = started[q]
  BY <1>0 DEF init_pool
<1> HIDE DEF n
<1>5. \A i \in 1..Len(pool'[p]) : i = n + 1 \/ (i \in 1..n /\ pool'[p][i] = pool[p][i])
  <2> SUFFICES ASSUME NEW i \in 1..(n + 1), i # n + 1
               PROVE  i \in 1..n /\ pool'[p][i] = pool[p][i]
    BY <1>2
  <2>1. i \in 1..n
    BY <1>1
  <2> QED
    BY <1>2, <2>1
<1>6. \A q \in Pool : Idle(q)' \subseteq Idle(q) \cup {a}
  <2>1. Idle(p)' \subseteq Idle(p) \cup {a}
    BY <1>2, <1>5 DEF Idle, n
  <2> QED
    BY <1>3, <2>1 DEF Idle
<1>7. \A q \in Pool : \A i \in 1..Len(pool[q]) : pool[q][i] # a
  BY <1>0 DEF IInv, Born, Idle
<1>8. Held' = Held /\ a \notin Held /\ dead' = dead /\ a \notin dead
  BY <1>0 DEF IInv, Born, Held, init_pool
<1>9. TypeOK'
  <2>1. started' \in [Pool -> 0..MaxNum]
    BY <1>0 DEF init_pool
  <2>2. pool' \in [Pool -> Seq(Agent)]
    BY <1>0, <1>2 DEF init_pool
  <2> QED
    BY <2>1, <2>2 DEF IInv, TypeOK, PoolType, init_pool
<1>10. \A q, r \in Pool : \A i \in 1..Len(pool'[q]), j \in 1..Len(pool'[r]) :
          pool'[q][i] = pool'[r][j] => q = r /\ i = j
  <2> SUFFICES ASSUME NEW q \in Pool, NEW r \in Pool,
                      NEW i \in 1..Len(pool'[q]), NEW j \in 1..Len(pool'[r]),
                      pool'[q][i] = pool'[r][j]
               PROVE  q = r /\ i = j
    OBVIOUS
  <2>1. (i \in 1..Len(pool[q]) /\ pool'[q][i] = pool[q][i] /\ pool'[q][i] # a)
        \/ (q = p /\ i = n + 1 /\ pool'[q][i] = a)
    BY ZenonT(60), <1>2, <1>3, <1>5, <1>7 DEF n
  <2>2. (j \in 1..Len(pool[r]) /\ pool'[r][j] = pool[r][j] /\ pool'[r][j] # a)
        \/ (r = p /\ j = n + 1 /\ pool'[r][j] = a)
    BY <1>2, <1>3, <1>5, <1>7 DEF n
  <2> QED
    BY <2>1, <2>2 DEF IInv, OnePlace
<1>11. OnePlace'
  <2>1. \A q \in Pool : Idle(q)' \cap Held' = {}
    BY <1>6, <1>8 DEF IInv, OnePlace
  <2>2. \A b \in dead' : b \notin Held' /\ \A q \in Pool : b \notin Idle(q)'
    BY <1>6, <1>8 DEF IInv, OnePlace
  <2>3. \A w, v \in Caller : held'[w] = held'[v] /\ held'[w] # Nil => w = v
    BY DEF IInv, OnePlace
  <2> QED
    BY <1>10, <2>1, <2>2, <2>3 DEF OnePlace
<1>12. Born'
  BY <1>6, <1>8 DEF IInv, Born, init_pool
<1>13. Filling'
  <2>1. \A w \in Caller : held'[w] = Nil /\ making'[w] = Nil
    BY <1>0 DEF IInv, Filling, init_pool
  <2> QED
    BY <1>2, <1>3, <1>4, <2>1 DEF IInv, Filling
<1>14. Bounded'
  <2>1. Len(pool'[p]) <= MaxNum
    BY <1>0, <1>1, <1>2
  <2> QED
    BY <1>3, <2>1 DEF IInv, Bounded
<1>15. Listing'
  <2>1. Living' \subseteq Living \cup {a}
    BY <1>6, <1>8 DEF Living
  <2>2. a \notin born /\ born' = born \cup {a} /\ agentlist' = [agentlist EXCEPT ![p] = @ \cup {a}]
    BY <1>0 DEF init_pool
  <2> QED
    BY <2>1, <2>2, NewListed
<1> QED
  BY <1>9, <1>11, <1>12, <1>13, <1>14, <1>15 DEF IInv

\* newservice hands a new agent to the caller that waited for it.
LEMMA NewServiceIInv ==
  ASSUME IInv, NEW w \in Caller, NewService(w)
  PROVE  IInv'
<1> USE PoolConstants
<1> PICK a \in Agent : newservice(w, a) /\ held' = [held EXCEPT ![w] = a]
  BY DEF NewService
<1>0. /\ held \in [Caller -> Agent \cup {Nil}] /\ a \notin born /\ making[w] # Nil
      /\ pool' = pool /\ dead' = dead /\ started' = started /\ born' = born \cup {a}
  BY DEF IInv, TypeOK, newservice
<1>1. making[w] \in Pool /\ \A q \in Pool : started[q] = MaxNum
  BY <1>0 DEF IInv, TypeOK, PoolType, Filling
<1>2. a \notin Held /\ a \notin dead /\ \A q \in Pool : a \notin Idle(q)
  BY <1>0 DEF IInv, Born
<1>3. Held' \subseteq Held \cup {a} /\ \A q \in Pool : Idle(q)' = Idle(q)
  BY <1>0 DEF Held, Idle
<1>4. \A v \in Caller : held[v] # a
  BY <1>2 DEF Held
<1>5. TypeOK'
  BY <1>0, <1>1 DEF IInv, TypeOK, PoolType, newservice
<1>6. OnePlace'
  <2>1. \A v, u \in Caller : held'[v] = held'[u] /\ held'[v] # Nil => v = u
    BY <1>0, <1>4 DEF IInv, OnePlace
  <2>2. \A q \in Pool : Idle(q)' \cap Held' = {}
    BY <1>2, <1>3 DEF IInv, OnePlace
  <2>3. \A b \in dead' : b \notin Held' /\ \A q \in Pool : b \notin Idle(q)'
    BY <1>0, <1>2, <1>3 DEF IInv, OnePlace
  <2>4. \A q, r \in Pool : \A i \in 1..Len(pool'[q]), j \in 1..Len(pool'[r]) :
          pool'[q][i] = pool'[r][j] => q = r /\ i = j
    BY <1>0 DEF IInv, OnePlace
  <2> QED
    BY <2>1, <2>2, <2>3, <2>4 DEF OnePlace
<1>7. Born'
  BY <1>0, <1>3 DEF IInv, Born
<1>8. Filling' /\ Bounded'
  BY <1>0, <1>1 DEF IInv, Filling, Bounded
<1>9. Listing'
  <2>1. Living' \subseteq Living \cup {a}
    BY <1>3 DEF Living
  <2>2. agentlist' = [agentlist EXCEPT ![making[w]] = @ \cup {a}]
    BY DEF newservice
  <2> QED
    BY <1>0, <1>1, <2>1, <2>2, NewListed
<1> QED
  BY <1>5, <1>6, <1>7, <1>8, <1>9 DEF IInv

\* A caller that has to wait for newservice changes nothing else.
LEMMA GetNewIInv ==
  ASSUME IInv, NEW w \in Caller, NEW p \in Pool, GetNew(w, p)
  PROVE  IInv'
<1> USE PoolConstants
<1>1. /\ pool' = pool /\ held' = held /\ born' = born /\ dead' = dead
      /\ started' = started /\ making' = [making EXCEPT ![w] = p] /\ agentlist' = agentlist
  BY DEF GetNew, get_new
<1>2. \A q \in Pool : started[q] = MaxNum
  BY DEF GetNew, Ready
<1>3. Held' = Held /\ \A q \in Pool : Idle(q)' = Idle(q)
  BY <1>1 DEF Held, Idle
<1>4. TypeOK'
  BY <1>1 DEF IInv, TypeOK, PoolType
<1>5. OnePlace'
  BY <1>1, <1>3 DEF IInv, OnePlace
<1>6. Born' /\ Filling' /\ Bounded' /\ Listing'
  BY <1>1, <1>2, <1>3 DEF IInv, Born, Filling, Bounded, Listing, ListedOnce, Living
<1> QED
  BY <1>4, <1>5, <1>6 DEF IInv

\* Every step keeps the invariant.
LEMMA StepIInv == IInv /\ [Next]_vars => IInv'
<1> SUFFICES ASSUME IInv, [Next]_vars PROVE IInv'
  OBVIOUS
<1>1. ASSUME UNCHANGED vars PROVE IInv'
  <2>1. /\ pool' = pool /\ held' = held /\ born' = born /\ dead' = dead
        /\ started' = started /\ making' = making /\ agentlist' = agentlist
    BY <1>1 DEF vars, poolVars
  <2>2. Held' = Held /\ \A q \in Pool : Idle(q)' = Idle(q)
    BY <2>1 DEF Held, Idle
  <2> QED
    <3>1. Living' = Living
      BY <2>2 DEF Living
    <3>2. Listing'
      BY <2>1, <3>1 DEF IInv, Listing, ListedOnce
    <3>3. TypeOK' /\ OnePlace' /\ Born' /\ Filling' /\ Bounded'
      BY <2>1, <2>2 DEF IInv, TypeOK, PoolType, OnePlace, Born, Filling, Bounded
    <3> QED
      BY <3>2, <3>3 DEF IInv
<1> QED
  BY <1>1, StartIInv, GetIInv, GetNewIInv, RecycleIInv, NewServiceIInv DEF Next

\* An agent is never in two places and a killed one in none, whatever the
\* number of pools and whichever of them get and recycle go to.
THEOREM PoolOnePlace == Spec => []OnePlace
<1>1. IInv => OnePlace
  BY DEF IInv
<1> QED
  BY <1>1, InitIInv, StepIInv, PTL DEF Spec

\* CMD.recycle with recyremove keeps every pool within maxnum.
THEOREM PoolBounded == Spec => []Bounded
<1>1. IInv => Bounded
  BY DEF IInv
<1> QED
  BY <1>1, InitIInv, StepIInv, PTL DEF Spec

\* A living agent is in the agentlist of one pool, whichever pool holds it: the
\* one that made it keeps it, recycle in another one only moves or kills it.
THEOREM PoolAgentListed == Spec => []AgentListed
<1>1. IInv => AgentListed
  BY DEF IInv, AgentListed, Listing, ListedOnce, Living
<1> QED
  BY <1>1, InitIInv, StepIInv, PTL DEF Spec
=============================================================================
