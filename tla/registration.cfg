\* A node and its receiver, two registries, one of them with two names.
CONSTANTS
  node = node
  receiver = receiver
  one = one
  two = two
  Order <- MCOrder
  Changing = {receiver}
  Names = {1, 2, 3}
  Server <- MCServer
  MaxFailoverChain = 2
  QueueLimit = 1
  MaxVersion = 2
  MaxTroubles = 2
  None = None
SPECIFICATION FairSpec
INVARIANTS TypeOK ShutdownLeavesNothing
PROPERTIES RegistersInTheEnd
CHECK_DEADLOCK FALSE
