\* Two iterations an epoch: as many as there are receivers.
SPECIFICATION Spec
CONSTANTS
  f1 = f1
  f2 = f2
  f3 = f3
  s1 = s1
  s2 = s2
  r1 = r1
  r2 = r2
  Flows <- ThreeFlows
  Src <- Sources
  Dst <- Sinks
  IterLimit = 2
  MaxMsgs = 1
  NoHost = NoHost
  NoFlow = NoFlow
INVARIANTS
  MatchAgreed
  ClaimIsSettled
  TakenBackWasAccepted
  CalmEpochMatches
\* All flows may be over.
CHECK_DEADLOCK FALSE
