\* Two keys over three sessions: two losses, each reconnection replayed.
CONSTANTS
  Keys = {k1, k2}
  MaxSessions = 3
  None = None
SPECIFICATION FairSpec
CHECK_DEADLOCK FALSE
INVARIANTS TypeOK SubscriptionsSurvive LiveSessionsAreGuarded
PROPERTIES OperationsReturn LostSessionsAreReplaced
