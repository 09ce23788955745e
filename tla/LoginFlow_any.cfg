CONSTANTS
  f1 = f1
  f2 = f2
  f3 = f3
  u1 = u1
  u2 = u2
  t1 = t1
  t2 = t2
  t3 = t3
  Fd = {f1, f2}
  Uid = {u1}
  Agent = {a1, a2, a3}
  Nil = Nil
  LoginTask = {t1, t2}
  CloseTask = {h1}
  MaxClient = 2
  MaxNum = 1
  RecyRemove = TRUE
  Plans <- Impatient
  Patient = {}
  DbMayFail = TRUE
SPECIFICATION Spec
SYMMETRY Sym
CHECK_DEADLOCK FALSE
PROPERTY GateRefined
