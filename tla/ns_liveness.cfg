SPECIFICATION FairSpec
CONSTANTS
  InitialMaxRequestID <- LimitOf4
  ServerSetupMax = 4
  EarlyCalls = FALSE
  IdBound = 3
  MaxBlockedCalls = 0
  Namespaces = {1}
  NamespaceCalls = {"announce", "subscribeAnnouncements", "accept", "reject", "unannounce"}
  Askers = {0}
  MaxAnswers = 1
PROPERTIES NamespaceCallsReturn
CHECK_DEADLOCK FALSE
