\* A node and its device: changes, evictions, lost answers, sockets and readings.
CONSTANTS
  node = node
  device = device
  Order <- MCOrder
  Topic <- MCTopic
  Parents <- MCParents
  GiveUpAfter = 2
  OrphanTries = 1
  Bounds <- MCBounds
  None = None
SPECIFICATION FairSpec
INVARIANTS TypeOK NothingForgotten
PROPERTIES KeepsLevel
CHECK_DEADLOCK FALSE
