CONSTANTS
  f1 = f1
  f2 = f2
  Fd = {f1, f2}
  Clients <- KeepOrBreakLimits
  Hash <- SameList
  LongFrom = 3
  EndLen = 2
  HeaderSize = 5
  MaxPackSize = 6
  QueueSize = 2
  HashSize = 1
SPECIFICATION Spec
CHECK_DEADLOCK FALSE
INVARIANTS TypeOK PacketsExact
PROPERTY CloseReported
