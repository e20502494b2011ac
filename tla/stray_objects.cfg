SPECIFICATION DataSpec
CONSTANTS
  w1 = w1
  w2 = w2
  InitialMaxRequestID <- LimitEight
  ServerSetupMax = 8
  EarlyCalls = FALSE
  IdBound = 3
  MaxBlockedCalls = 0
  AppCalls = {"subscribe", "accept"}
  Requesters = {0}
  MaxTrackCalls = 0
  Writers <- OneWriter
  BufferSize = 1
  MaxStreams = 1
  MaxObjects = 1
  MaxDatagrams = 0
INVARIANTS ObjectsReachTheirTrack
CHECK_DEADLOCK FALSE
