CONSTANTS
  Pool = {p1, p2}
  Agent = {a1, a2, a3, a4, a5, a6}
  Caller = {w1, w2, w3}
  Nil = Nil
  MaxNum = 1
  RecyRemove = TRUE
SPECIFICATION Spec
SYMMETRY Sym
CHECK_DEADLOCK FALSE
INVARIANTS OnePlace Bounded AgentListed
