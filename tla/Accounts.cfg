CONSTANTS
  Account = {x1, x2}
  Password = {w1, w2}
  Task = {t1, t2}
  Base = 0
  MaxUid = 3
  MaxRestart = 2
SPECIFICATION FairSpec
CHECK_DEADLOCK FALSE
INVARIANT TypeOK
PROPERTIES UidUnique AccountLoads
