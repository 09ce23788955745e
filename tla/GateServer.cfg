CONSTANTS
  Fd = {f1, f2}
  Uid = {u1}
  Agent = {a1}
  Key = {k1}
  Nil = Nil
  Task = {t1, t2}
  MaxClient = 1
SPECIFICATION FairSpec
CHECK_DEADLOCK FALSE
INVARIANTS TypeOK CountExact Routable
PROPERTY ShutIsForgotten
