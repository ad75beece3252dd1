\* One flow of exactly small_flow_thre packets.
SPECIFICATION FairSpec
CONSTANTS
  f1 = f1
  f2 = f2
  Flows <- OneFlow
  Size <- OneSize
  SmallFlowThre = 2
  TempCap = 1
  Lossy <- OneLossy
PROPERTY
  EveryFlowCompletes
\* The flow may be over.
CHECK_DEADLOCK FALSE
