--------------------------- MODULE MCPoolClients ---------------------------
(* PoolClients for TLC.                                                    *)
EXTENDS PoolClients, TLC

Sym == Permutations(Agent) \cup Permutations(Caller) \cup Permutations(Pool)
=============================================================================
