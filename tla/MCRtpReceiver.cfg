\* Two flows from two sources, or one flow over two rounds of redundancy
\* control, in batches of two tokens; rte_ring_count of the hash table may be
\* anything; control packets may be lost.
SPECIFICATION Spec
CONSTANTS
  f1 = f1
  f2 = f2
  f3 = f3
  null = null
  Flows <- AllFlows
  Size <- Sizes
  Src <- Sources
  BatchTokens = 2
  GrantTokens = {3}
  NrtsGap = 1
  RingCountZero = {TRUE, FALSE}
  LosesControl = TRUE
  Together <- TwoOrOne
  MaxTokenCount <- TokenCounts
  NoFlow <- null
INVARIANTS
  TypeOK
  NoExit
  TokensUnderGrant
  TokenSeqsIssuedOnce
  FullRoundBeforeRdCtrl
  NeverSilent
PROPERTY
  OneGrantAtATime
\* All tokens within the bound may have been sent.
CHECK_DEADLOCK FALSE
