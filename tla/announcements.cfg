SPECIFICATION Spec
CONSTANTS
  InitialMaxRequestID <- LimitOf4
  ServerSetupMax = 4
  EarlyCalls = FALSE
  IdBound = 3
  MaxBlockedCalls = 0
  Namespaces = {1}
  NamespaceCalls = {"announce", "trackStatus", "cancel", "accept", "unannounce", "announceCancel"}
  Askers = {0}
  MaxAnswers = 2
INVARIANTS TypeOK ReturnsTellTheTruth AnnouncementAgreement DeathHasCause
CHECK_DEADLOCK FALSE
