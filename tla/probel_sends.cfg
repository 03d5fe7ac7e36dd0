\* A collecting and a plain call, two attempts each, two frames from the peer.
CONSTANTS
  Calls = {c1, c2}
  Collects = {c1}
  MaxAttempts = 2
  MaxFrames = 2
  None = None
SPECIFICATION Spec
CHECK_DEADLOCK FALSE
INVARIANTS TypeOK NoOrphanedSend NothingSwallowed StreamsAreComplete StreamsKeepTheirOrder
