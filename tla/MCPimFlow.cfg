\* Data packets and ACKs are lost.
SPECIFICATION FlowSpec
CONSTANTS
  large = large
  short = short
  a = a
  b = b
  Flows <- TwoFlows
  Size <- Sizes
  Src <- OneSource
  Dst <- OneSink
  SmallFlow = 1
  Window = 1
  Lossy = {"data", "ack"}
  MaxItems <- InFlight
  NoHost = NoHost
INVARIANTS
  AckedIsReceived
  NeverSilent
  FullRoundBeforeRest
\* Both flows may be over.
CHECK_DEADLOCK FALSE
