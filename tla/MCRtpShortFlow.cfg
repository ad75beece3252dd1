\* Two flows share temp_pkt_buffer, which holds one packet; all that one
\* of them sends may be lost, of the other tokens and data.
SPECIFICATION FairSpec
CONSTANTS
  f1 = f1
  f2 = f2
  Flows <- TwoFlows
  Size <- TwoSizes
  SmallFlowThre = 3
  TempCap = 1
  Lossy <- TwoLossy
INVARIANTS
  AckedIsDelivered
  CountedOnce
  TimersMatchRecord
PROPERTY
  EveryFlowCompletes
\* All flows may be over.
CHECK_DEADLOCK FALSE
