CONSTANTS
  agent = agent
  gate = gate
  Service = {agent, gate}
  MaxSocket = 1
  MaxConn = 1
  MaxSend = 2
  Size = 2
  MaxSending = 1
  Closer <- OnlyClose
  Priority <- AllHigh
SPECIFICATION FairSpec
CHECK_DEADLOCK FALSE
PROPERTY CloseEnds
