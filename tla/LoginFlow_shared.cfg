CONSTANTS
  f1 = f1
  f2 = f2
  f3 = f3
  u1 = u1
  u2 = u2
  t1 = t1
  t2 = t2
  t3 = t3
  Fd = {f1, f2, f3}
  Uid = {u1, u2}
  Agent = {a1, a2}
  Nil = Nil
  LoginTask = {t1, t2, t3}
  CloseTask = {h1}
  MaxClient = 3
  MaxNum = 2
  RecyRemove = TRUE
  Plans <- Kicked
  Patient = {f1, f2, f3}
  DbMayFail = FALSE
SPECIFICATION Spec
SYMMETRY Sym
CHECK_DEADLOCK FALSE
INVARIANT AgentExclusive
