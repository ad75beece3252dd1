\* A long and a short flow between the same hosts; every kind of
\* packet is dropped.
SPECIFICATION Spec
CONSTANTS
  long = long
  short = short
  a = a
  b = b
  Flows <- TwoFlows
  Size <- Sizes
  Src <- OneSource
  Dst <- OneSink
  Initial = 1
  Window = 1
  Lossy = {"RTS", "TOKEN", "DATA", "ACK"}
  MaxItems = 2
INVARIANTS
  AckedIsReceived
  ReceiverAwake
  SenderAwake
  FullRoundBeforeRdCtrl
\* Both flows may be over.
CHECK_DEADLOCK FALSE
