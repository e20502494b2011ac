SPECIFICATION Spec
CONSTANTS
  InitialMaxRequestID <- LimitOf2
  ServerSetupMax = 2
  EarlyCalls = TRUE
  IdBound = 2
  MaxBlockedCalls = 1
  Namespaces = {0, 1}
  NamespaceCalls = {"announce", "subscribeAnnouncements", "trackStatus", "accept", "unsubscribeAnnouncements", "closeSession"}
  Askers = {1}
  MaxAnswers = 2
INVARIANTS DeathHasCause
CHECK_DEADLOCK FALSE
