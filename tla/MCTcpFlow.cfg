\* Three packets; a window that does not cover them at first, then does.
SPECIFICATION FairSpec
CONSTANTS
  Size = 3
  InitialCwnd = 2
  MaxCwnd = 3
INVARIANTS
  TypeOK
  AckedIsReceived
  RecvTillIsFirstHole
  TimerUntilFinished
PROPERTY
  FlowFinishes
\* The flow may be over.
CHECK_DEADLOCK FALSE
