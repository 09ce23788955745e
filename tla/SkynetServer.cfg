CONSTANTS
  w1 = w1
  w2 = w2
  Nil = Nil
  Worker = {w1, w2}
  Weight <- OneAndAll
  Outside = {timer}
  MaxCtx = 2
  MaxMsg = 4
  Backlog = 3
  DefaultQueueSize = 4
  DefaultSlotSize = 1
SPECIFICATION FairSpec
CHECK_DEADLOCK FALSE
INVARIANTS QueueOnce RefsExact Findable
PROPERTIES Serves EveryMessageTaken AllLeave
