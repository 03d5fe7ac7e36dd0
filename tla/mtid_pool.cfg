\* More callers than ids, every context may end, one teardown.
CONSTANTS
  Callers = {c1, c2, c3}
  Mtids = {1, 2}
  Cancellable = {c1, c2, c3}
  Nil = Nil
SPECIFICATION PoolFairSpec
INVARIANTS PoolTypeOK
PROPERTIES ImplementsLoans WaitersAreServed TeardownReleasesWaiters
