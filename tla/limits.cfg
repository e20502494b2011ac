SPECIFICATION FairSpec
CONSTANTS
  InitialMaxRequestID <- SmallLimits
  ServerSetupMax = 2
  EarlyCalls = FALSE
  IdBound = 9
  MaxBlockedCalls = 1
  AppCalls = {"subscribe", "reject"}
  Requesters = {0, 1}
  MaxTrackCalls = 0
INVARIANTS RequestsWithinLimit GrantsNeverShrink OnlySmallLimitsBlock
PROPERTIES LimitIsRaised BlockedForGood
CHECK_DEADLOCK FALSE
