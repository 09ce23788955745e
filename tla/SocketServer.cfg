CONSTANTS
  agent = agent
  gate = gate
  Service = {agent, gate}
  MaxSocket = 1
  MaxConn = 2
  MaxSend = 2
  Size = 2
  MaxSending = 1
  Closer <- GateCloses
  Priority <- AgentLow
SPECIFICATION FairSpec
CHECK_DEADLOCK FALSE
INVARIANTS  SendingExact  CloserFlushed
PROPERTIES MessageOut PeerGoneTold
