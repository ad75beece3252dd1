\* Two receivers compete for two senders.
SPECIFICATION Spec
CONSTANTS
  Hosts <- FourHosts
  Sizes = {1}
  MaxQueue = 2
  Senders = {0, 3}
  Receivers = {1, 2}
  Backlog <- OneSize
  MaxListsrc = 1
PROPERTY
  NrtsFreesBusyPair
