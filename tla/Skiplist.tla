------------------------------ MODULE Skiplist ------------------------------
(* skiplist.c, lua-skiplist.c and zset.lua: the ranking list.  The pointers  *)
(* are functions from the node and the level: forward, with the span it      *)
(* jumps over, and backward.  A node is known by its member, which zset.lua  *)
(* keeps unique; members are numbers in the order of compareslObj.           *)
EXTENDS Integers, FiniteSets

CONSTANTS
  Member,     \* a set of positive numbers
  Score,      \* a set of numbers
  MaxLevel,   \* SKIPLIST_MAXLEVEL, 32 in the code
  Nil

ASSUME SkiplistAssumption ==
  /\ Member \subseteq Nat \ {0} /\ IsFiniteSet(Member)
  /\ Score \subseteq Int
  /\ MaxLevel \in Nat \ {0}

Header == 0
Node == Member \cup {Header}
Level == 0 .. MaxLevel - 1

VARIABLES
  sl,     \* the skip list
  tbl     \* zset.tbl: the score of every member, or Nil

vars == <<sl, tbl>>

slCreate ==
  [level |-> 1, length |-> 0, tail |-> Nil,
   score |-> [m \in Member |-> Nil],
   forward |-> [x \in Node |-> [i \in Level |-> Nil]],
   span |-> [x \in Node |-> [i \in Level |-> 0]],
   backward |-> [m \in Member |-> Nil]]

Init == sl = slCreate /\ tbl = [m \in Member |-> Nil]

-----------------------------------------------------------------------------
(* The search all operations share: from the highest level of the header go  *)
(* forward while Goes(next node, its rank), then down.  The result is where  *)
(* each level was left, and the rank of that node.                           *)
Descend(s, Goes(_, _)) ==
  LET Pos == Node \X (0 .. s.length)
      Walk(i, start) ==
        LET go[p \in Pos] ==
              LET z == s.forward[p[1]][i]
                  r == p[2] + s.span[p[1]][i]
              IN  IF z # Nil /\ Goes(z, r) THEN go[<<z, r>>] ELSE p
        IN  go[start]
      path[i \in 0 .. s.level] ==
        IF i = s.level THEN <<Header, 0>> ELSE Walk(i, path[i + 1])
  IN  path

(* The order of the list: by score, then by compareslObj. *)
Before(s, z, score, m) == s.score[z] < score \/ (s.score[z] = score /\ z < m)

(* A level that is new leads from the header past all nodes. *)
(* The bug of new levels that start with an empty span. *)
NewSpan_zero(s) == 0
NewSpan(s) == s.length

(* slInsert, with the level that slRandomLevel has drawn. *)
slInsert(s, score, m, height) ==
  LET path == Descend(s, LAMBDA z, r : Before(s, z, score, m))
      Update(i) == IF i < s.level THEN path[i][1] ELSE Header
      Steps(i) == path[0][2] - IF i < s.level THEN path[i][2] ELSE 0
      OldSpan(i) == IF i < s.level THEN s.span[Update(i)][i] ELSE NewSpan(s)
      top == IF height > s.level THEN height ELSE s.level
      next == s.forward[Update(0)][0]
  IN  [level |-> top, length |-> s.length + 1,
       tail |-> IF next = Nil THEN m ELSE s.tail,
       score |-> [s.score EXCEPT ![m] = score],
       forward |-> [x \in Node |-> [i \in Level |->
         IF i >= height THEN s.forward[x][i]
         ELSE IF x = m THEN s.forward[Update(i)][i]
         ELSE IF x = Update(i) THEN m ELSE s.forward[x][i]]],
       span |-> [x \in Node |-> [i \in Level |->
         IF i >= top THEN s.span[x][i]
         ELSE IF i >= height THEN s.span[x][i] + (IF x = Update(i) THEN 1 ELSE 0)
         ELSE IF x = m THEN OldSpan(i) - Steps(i)
         ELSE IF x = Update(i) THEN Steps(i) + 1 ELSE s.span[x][i]]],
       backward |-> [x \in Member |->
         IF x = m THEN (IF Update(0) = Header THEN Nil ELSE Update(0))
         ELSE IF x = next THEN m ELSE s.backward[x]]]

(* The span of y once x, its successor or a node it jumps over, is gone. *)
SpanWithout(s, y, x, i) ==
  s.span[y][i] + (IF s.forward[y][i] = x THEN s.span[x][i] ELSE 0) - 1

TailWithout(s, x) == IF s.forward[x][0] = Nil THEN s.backward[x] ELSE s.tail

(* The levels above the highest one in use are dropped, all but the first. *)
LevelLeft(s, forward) ==
  LET used == {i \in 0 .. s.level - 1 : forward[Header][i] # Nil} \cup {0}
  IN  (CHOOSE i \in used : \A k \in used : k <= i) + 1

(* slDeleteNode: unlink x at every level; path is the way to it. *)
slDeleteNode(s, x, path) ==
  LET OnPath(y, i) == i < s.level /\ y = path[i][1]
      forward == [y \in Node |-> [i \in Level |->
                    IF y = x THEN Nil
                    ELSE IF OnPath(y, i) /\ s.forward[y][i] = x THEN s.forward[x][i]
                    ELSE s.forward[y][i]]]
  IN  [level |-> LevelLeft(s, forward), length |-> s.length - 1,
       tail |-> TailWithout(s, x),
       score |-> [s.score EXCEPT ![x] = Nil],
       forward |-> forward,
       span |-> [y \in Node |-> [i \in Level |->
                   IF y = x THEN 0
                   ELSE IF OnPath(y, i) THEN SpanWithout(s, y, x, i) ELSE s.span[y][i]]],
       backward |-> [y \in Member |->
                       IF y = x THEN Nil
                       ELSE IF y = s.forward[x][0] THEN s.backward[x] ELSE s.backward[y]]]

(* slDelete: nothing changes if the pair is not found. *)
slDelete(s, score, m) ==
  LET path == Descend(s, LAMBDA z, r : Before(s, z, score, m))
      x    == s.forward[path[0][1]][0]
  IN  IF x = m /\ s.score[m] = score THEN slDeleteNode(s, x, path) ELSE s

ShortOf(r, start) == r < start

(* slDeleteByRank: the nodes from rank start on are unlinked one after the   *)
(* other with the path of the first, which stays right: nothing before it    *)
(* moves.  The result has the list and the members handed to the callback.   *)
slDeleteByRank(s, start, end) ==
  LET path == Descend(s, LAMBDA z, r : ShortOf(r, start))
      first == path[0][2] + 1
      del[k \in first .. s.length + 1] ==
        IF k = first THEN [list |-> s, gone |-> {}]
        ELSE LET d == del[k - 1]
                 x == d.list.forward[path[0][1]][0]
             IN  IF x = Nil \/ k - 1 > end THEN d
                 ELSE [list |-> slDeleteNode(d.list, x, path), gone |-> d.gone \cup {x}]
  IN  del[s.length + 1]

-----------------------------------------------------------------------------
(* Queries. *)

(* slGetRank: the search stops at the first level that is left at m. *)
slGetRank(s, score, m) ==
  LET path == Descend(s, LAMBDA z, r : Before(s, z, score, m) \/ (s.score[z] = score /\ z = m))
      hits == {i \in 0 .. s.level - 1 : path[i][1] = m}
  IN  IF hits = {} THEN 0 ELSE path[CHOOSE i \in hits : \A k \in hits : k <= i][2]

(* The bug of a search that may go one rank too far. *)
slGetNodeByRank_far(s, rank) ==
  LET path == Descend(s, LAMBDA z, r : r <= rank + 1)
  IN  IF rank = 0 \/ rank > s.length \/ path[0][2] # rank THEN Nil ELSE path[0][1]
slGetNodeByRank(s, rank) ==
  LET path == Descend(s, LAMBDA z, r : r <= rank)
      hits == {i \in 0 .. s.level - 1 : path[i][2] = rank}
  IN  IF rank = 0 \/ rank > s.length \/ hits = {} THEN Nil
      ELSE path[CHOOSE i \in hits : \A k \in hits : k <= i][1]

slIsInRange(s, min, max) ==
  /\ min <= max
  /\ s.tail # Nil /\ s.score[s.tail] >= min
  /\ s.forward[Header][0] # Nil /\ s.score[s.forward[Header][0]] <= max

(* The first node from min on: when the range lies in a gap between two      *)
(* scores it is a node beyond max, and _get_score_range stops at it.         *)
slFirstInRange(s, min, max) ==
  IF ~slIsInRange(s, min, max) THEN Nil
  ELSE s.forward[Descend(s, LAMBDA z, r : s.score[z] < min)[0][1]][0]

(* The bug of stopping before the nodes whose score is max. *)
slLastInRange_below(s, min, max) ==
  IF ~slIsInRange(s, min, max) THEN Nil
  ELSE LET x == Descend(s, LAMBDA z, r : s.score[z] < max)[0][1]
       IN  IF x = Header THEN Nil ELSE x
slLastInRange(s, min, max) ==
  IF ~slIsInRange(s, min, max) THEN Nil
  ELSE Descend(s, LAMBDA z, r : s.score[z] <= max)[0][1]

(* The nodes from x on, following a pointer while Stays(node) and at most n. *)
Follow(s, x, Link(_), Stays(_), n) ==
  LET more[k \in 0 .. n] ==
        IF k = 0 THEN [at |-> x, seq |-> << >>]
        ELSE LET p == more[k - 1] IN
             IF p.at = Nil \/ ~Stays(p.at) THEN [p EXCEPT !.at = Nil]
             ELSE [at |-> Link(p.at), seq |-> [i \in 1 .. k |-> IF i < k THEN p.seq[i] ELSE p.at]]
  IN  more[n].seq

get_rank_range(s, r1, r2) ==
  IF r1 <= r2
  THEN Follow(s, slGetNodeByRank(s, r1), LAMBDA y : s.forward[y][0], LAMBDA y : TRUE, r2 - r1 + 1)
  ELSE Follow(s, slGetNodeByRank(s, r1), LAMBDA y : s.backward[y], LAMBDA y : TRUE, r1 - r2 + 1)

get_score_range(s, s1, s2) ==
  IF s1 <= s2
  THEN Follow(s, slFirstInRange(s, s1, s2), LAMBDA y : s.forward[y][0],
              LAMBDA y : s.score[y] <= s2, s.length)
  ELSE Follow(s, slLastInRange(s, s2, s1), LAMBDA y : s.backward[y],
              LAMBDA y : s.score[y] >= s2, s.length)

-----------------------------------------------------------------------------
(* zset.lua *)

add(m, score, height) ==
  /\ tbl[m] # score
  /\ tbl' = [tbl EXCEPT ![m] = score]
  /\ LET s == IF tbl[m] = Nil THEN sl ELSE slDelete(sl, tbl[m], m)
     IN  sl' = slInsert(s, score, m, height)

rem(m) ==
  /\ tbl[m] # Nil
  /\ tbl' = [tbl EXCEPT ![m] = Nil]
  /\ sl' = slDelete(sl, tbl[m], m)

(* What limit(n) and rev_limit(n) delete: _delete_by_rank with the ranks     *)
(* from which on nothing is to stay.  For rev_limit the larger rank comes    *)
(* first; _delete_by_rank exchanges the two.                                 *)
(* The bug of starting at the rank behind the first that goes. *)
BeyondLimit_late(n) == slDeleteByRank(sl, n + 2, sl.length)
BeyondLimit(n) == slDeleteByRank(sl, n + 1, sl.length)

reverse_rank(r) == sl.length - r + 1
BeyondRevLimit(n) == slDeleteByRank(sl, reverse_rank(sl.length), reverse_rank(n + 1))

(* The callback takes the members that are gone out of the table. *)
TblWithout(gone) == [m \in Member |-> IF m \in gone THEN Nil ELSE tbl[m]]
delete_by_rank(d) == sl' = d.list /\ tbl' = TblWithout(d.gone)

limit(n) == sl.length > n /\ delete_by_rank(BeyondLimit(n))
rev_limit(n) == sl.length > n /\ delete_by_rank(BeyondRevLimit(n))

Next ==
  \/ \E m \in Member, score \in Score, h \in 1 .. MaxLevel : add(m, score, h)
  \/ \E m \in Member : rem(m)
  \/ \E n \in 0 .. Cardinality(Member) - 1 : limit(n) \/ rev_limit(n)

Spec == Init /\ [][Next]_vars

-----------------------------------------------------------------------------
R == INSTANCE RankedSet

(* The height of a node is the number of levels whose chains reach it. *)
OnLevel(i) == {m \in Member : \E x \in Node : sl.forward[x][i] = m}

RankOf(x) == IF x = Header THEN 0 ELSE R!Rank(tbl, x)

(* The levels: the lowest links all members and each other a part of the one *)
(* below it; the level in the header is the highest in use.                  *)
TypeOK ==
  /\ sl.length = R!Count(tbl) /\ sl.score = tbl
  /\ OnLevel(0) = R!Present(tbl)
  /\ \A i \in Level : i > 0 => OnLevel(i) \subseteq OnLevel(i - 1)
  /\ sl.level \in 1 .. MaxLevel
  /\ \A i \in Level : OnLevel(i) = {} <=> (i >= sl.level \/ sl.length = 0)

(* Each level is in the order of the set, and every span is the distance in  *)
(* ranks to the next node of the level or to the end, after any sequence of  *)
(* insertions and deletions that raise, lower and raise the level again.     *)
SpansExact ==
  \A i \in 0 .. sl.level - 1 : \A x \in OnLevel(i) \cup {Header} :
    LET later == {m \in OnLevel(i) : RankOf(m) > RankOf(x)}
        next  == CHOOSE m \in later : \A k \in later : RankOf(m) <= RankOf(k)
    IN  /\ sl.forward[x][i] = IF later = {} THEN Nil ELSE next
        /\ sl.span[x][i] = (IF later = {} THEN sl.length ELSE RankOf(next)) - RankOf(x)

(* backward and tail mirror the lowest level. *)
BackLinks ==
  /\ \A m \in R!Present(tbl) :
       sl.backward[m] = IF RankOf(m) = 1 THEN Nil ELSE R!AtRank(tbl, RankOf(m) - 1)
  /\ sl.tail = IF sl.length = 0 THEN Nil ELSE R!AtRank(tbl, sl.length)

(* The list is well formed: its levels hold what they should, spans count,   *)
(* and it can be walked back from its tail (slInsert, slDeleteNode).         *)
WellLinked == TypeOK /\ SpansExact /\ BackLinks

(* Ranks, and ranges of ranks up and down, are those of the set: the search  *)
(* by spans never goes astray.                                               *)
RanksExact ==
  /\ \A m \in R!Present(tbl) : slGetRank(sl, tbl[m], m) = R!Rank(tbl, m)
  /\ \A a, b \in 1 .. sl.length + 1 : get_rank_range(sl, a, b) = R!Range(tbl, a, b)

(* Ranges of scores up and down are those of the set, ranges that lie in a   *)
(* gap between two scores too, where slFirstInRange returns a node beyond.   *)
ScoresExact ==
  LET Asked == Score \cup {s + 1 : s \in Score}
  IN  \A a, b \in Asked : get_score_range(sl, a, b) = R!ByScore(tbl, a, b)

(* Every operation does to the set what RankedSet says of that operation and *)
(* that argument: what is beyond limit(n) are all but the n members of the   *)
(* lowest ranks, beyond rev_limit(n) all but the n of the highest, however   *)
(* the ranks to delete are counted, and a step of limit(n) that deletes is   *)
(* Limit(n), never Limit(n + 1) or RevLimit(n).                              *)
KeepsTheRightOnes ==
  /\ R!Spec
  /\ [](\A n \in 0 .. sl.length - 1 :
          /\ TblWithout(BeyondLimit(n).gone) = R!First(tbl, n)
          /\ TblWithout(BeyondRevLimit(n).gone) = R!Last(tbl, n))
  /\ [][sl'.length < sl.length =>
          \A n \in 0 .. sl.length - 1 :
            (limit(n) => R!Limit(n)) /\ (rev_limit(n) => R!RevLimit(n))]_vars
=============================================================================
