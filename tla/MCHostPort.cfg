\* A short flow of priority 1 and a long one of priority 3, and control
\* packets of a flow in the other direction, in a queue for one data packet
\* and a control packet.
SPECIFICATION Spec
CONSTANTS
  f1 = f1
  f2 = f2
  p1 = p1
  Flows <- TwoFlows
  Size <- Sizes
  TokenInitial = 2
  Peers <- OnePeer
  QueueTypes = {"droptail", "pfabric", "probdrop"}
  LimitBytes = 3
  DataBytes = 2
  MaxTokens = 2
  MaxControl = 1
  NoPacket = NoPacket
INVARIANTS
  TypeOK
  OneDataPacket
  EachPacketOnce
PROPERTY
  TokensSpent
\* Every packet within the bounds may have been sent.
CHECK_DEADLOCK FALSE
