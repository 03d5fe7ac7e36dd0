\* A subscription with a rate and one without, two sockets, two resources.
CONSTANTS
  Subs = {s, r}
  Rated = {r}
  MaxSocks = 2
  Ids = {a, b}
  Chunk = 1
  Bounds <- MCBounds
  None = None
SPECIFICATION FairSpec
INVARIANTS TypeOK NothingMissed SocketsAreHeld
PROPERTIES NeverGoesBack WritesEnd
CHECK_DEADLOCK FALSE
