SPECIFICATION Spec
CONSTANTS
  InitialMaxRequestID <- LowServerLimit
  ServerSetupMax = 4
  EarlyCalls = TRUE
  IdBound = 3
  MaxBlockedCalls = 1
  AppCalls = {"subscribe", "fetch", "badNamespace", "accept", "closeSession"}
  Requesters = {0, 1}
  MaxTrackCalls = 0
INVARIANTS AtMostOneAnswer DeathHasCause
PROPERTIES NeverReused KeepsPromise
CHECK_DEADLOCK FALSE
