\* Two calls and the prober, whose id the pool has too, with timeouts, losses and a close.
CONSTANTS
  Calls = {c1, c2}
  Probes = {p1}
  Mtids = {1, 2, 3}
  ProbeMtid = 3
  Impatient = {c1, p1}
  None = None
SPECIFICATION Spec
CHECK_DEADLOCK FALSE
INVARIANTS TypeOK WaitersReachable MixupsNeedAnAbandonedCall RepliesBeatHangUps DeadSessionDrains
