CONSTANTS
  f1 = f1
  f2 = f2
  f3 = f3
  u1 = u1
  u2 = u2
  t1 = t1
  t2 = t2
  t3 = t3
  Fd = {f1, f2}
  Uid = {u1, u2}
  Agent = {a1, a2}
  Nil = Nil
  LoginTask = {t1, t2, t3}
  CloseTask = {h1, h2}
  MaxClient = 2
  MaxNum = 1
  RecyRemove = TRUE
  Plans <- LeaveOrRelogin
  Patient = {f1, f2}
  DbMayFail = FALSE
SPECIFICATION FairSpec
CHECK_DEADLOCK FALSE
INVARIANTS AgentExclusive RecordMeansLogin AtRest
PROPERTIES KeyGuardsLogout LoginEnds GoneIsOffline
