\* One long flow whose packets of an earlier round arrive late.
SPECIFICATION Spec
CONSTANTS
  l1 = l1
  l2 = l2
  l3 = l3
  s1 = s1
  a = a
  b = b
  null = null
  Flows <- OneLong
  Size <- OneSize
  Src <- OneSource
  TokenInitial = 1
  TokenWindow = 3
  MaxTokens = 3
  NrtsGap = 0
  MaxTokenCount = 5
  MaxRound = 2
  MaxFlows = 1
  MaxInFlight = 3
  MaxLists = 1
  NoSrc <- null
  NoFlow <- null
PROPERTY
  WakeupAtFinish
\* All tokens and grants within the bounds may have been used.
CHECK_DEADLOCK FALSE
