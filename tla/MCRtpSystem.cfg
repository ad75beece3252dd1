\* Two receivers compete for two senders, with flows of three sizes.
SPECIFICATION Spec
CONSTANTS
  Hosts <- FourHosts
  Sizes = {1, 2, 3}
  MaxQueue = 3
  Senders = {0, 3}
  Receivers = {1, 2}
  Backlog <- ThreeSizes
  MaxListsrc = 1
INVARIANTS
  ReceiverExclusive
  SenderExclusive
PROPERTIES
  SmallestFirst
  EachHasOneGrant
