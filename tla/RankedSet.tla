------------------------------ MODULE RankedSet ------------------------------
(* A set of members with scores, ordered by score and among equals by        *)
(* member: what zset.lua offers, with no skip list.                          *)
EXTENDS Integers, FiniteSets

CONSTANTS Member, Score, Nil

VARIABLE tbl    \* tbl[m]: the score of m, or Nil

Present(t) == {m \in Member : t[m] # Nil}
Count(t) == Cardinality(Present(t))

Precedes(t, a, b) == t[a] < t[b] \/ (t[a] = t[b] /\ a < b)

(* Ranks start from 1. *)
Rank(t, m) == Cardinality({k \in Present(t) : k = m \/ Precedes(t, k, m)})
AtRank(t, r) == CHOOSE m \in Present(t) : Rank(t, m) = r

(* The members of ranks a to b, or downwards from a to b. *)
Range(t, a, b) ==
  IF a <= b
  THEN [i \in 1 .. (IF b <= Count(t) THEN b ELSE Count(t)) - a + 1 |-> AtRank(t, a + i - 1)]
  ELSE IF a > Count(t) THEN << >>
  ELSE [i \in 1 .. a - b + 1 |-> AtRank(t, a - i + 1)]

(* The members with scores from a to b, or downwards from a to b. *)
ByScore(t, a, b) ==
  LET lo == IF a <= b THEN a ELSE b
      hi == IF a <= b THEN b ELSE a
      below == Cardinality({m \in Present(t) : t[m] < lo})
      upto  == Cardinality({m \in Present(t) : t[m] <= hi})
  IN  [i \in 1 .. upto - below |-> AtRank(t, IF a <= b THEN below + i ELSE upto - i + 1)]

Init == tbl = [m \in Member |-> Nil]

Add(m, s) == tbl' = [tbl EXCEPT ![m] = s]
Rem(m) == tbl' = [tbl EXCEPT ![m] = Nil]

Kept(t, Stays(_)) == [m \in Member |-> IF t[m] # Nil /\ Stays(Rank(t, m)) THEN t[m] ELSE Nil]
First(t, n) == Kept(t, LAMBDA r : r <= n)
Last(t, n) == Kept(t, LAMBDA r : r > Count(t) - n)

Limit(n) == tbl' = First(tbl, n)
RevLimit(n) == tbl' = Last(tbl, n)

Next ==
  \/ \E m \in Member : Rem(m) \/ \E s \in Score : Add(m, s)
  \/ \E n \in 0 .. Cardinality(Member) : Limit(n) \/ RevLimit(n)

Spec == Init /\ [][Next]_tbl
=============================================================================
