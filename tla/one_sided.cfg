SPECIFICATION FairSpec
CONSTANTS
  InitialMaxRequestID <- LimitFour
  ServerSetupMax = 4
  EarlyCalls = FALSE
  IdBound = 3
  MaxBlockedCalls = 0
  AppCalls = {"subscribe", "fetch", "cancel", "close", "update", "accept", "reject", "closeWithError", "closeUnanswered"}
  Requesters = {0}
  MaxTrackCalls = 1
INVARIANTS TypeOK QuiescentAgreement DeathHasCause
PROPERTIES CallsReturn CloseTakesEffect KeepsPromise
CHECK_DEADLOCK FALSE
