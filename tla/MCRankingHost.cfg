\* Any two of three long flows, two of them of one source, and a short one.
SPECIFICATION Spec
CONSTANTS
  l1 = l1
  l2 = l2
  l3 = l3
  s1 = s1
  a = a
  b = b
  null = null
  Flows <- FourFlows
  Size <- Sizes
  Src <- TwoSources
  TokenInitial = 1
  TokenWindow = 1
  MaxTokens = 2
  NrtsGap = 1
  MaxTokenCount = 3
  MaxRound = 2
  MaxFlows = 2
  MaxInFlight = 2
  MaxLists = 1
  NoSrc <- null
  NoFlow <- null
SYMMETRY Alike
INVARIANTS
  NoAssertFails
  OneGrant
  NeverSilent
  ShortFlowsServed
PROPERTY
  ReturnedOrForgotten
\* All tokens and grants within the bounds may have been used.
CHECK_DEADLOCK FALSE
