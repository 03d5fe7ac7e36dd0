\* The operator disconnects while the loop is between two attempts.
CONSTANTS
  Keys = {k1}
  MaxSessions = 2
  None = None
SPECIFICATION Spec
CHECK_DEADLOCK FALSE
INVARIANT DisconnectIsFinal
