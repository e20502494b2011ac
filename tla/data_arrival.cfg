SPECIFICATION FairDataSpec
CONSTANTS
  w1 = w1
  w2 = w2
  InitialMaxRequestID <- LimitEight
  ServerSetupMax = 8
  EarlyCalls = FALSE
  IdBound = 1
  MaxBlockedCalls = 0
  AppCalls = {"subscribe", "fetch", "accept", "closeWithError", "closeSession"}
  Requesters = {0}
  MaxTrackCalls = 0
  Writers <- OneWriter
  BufferSize = 1
  MaxStreams = 1
  MaxObjects = 1
  MaxDatagrams = 1
INVARIANTS SettledDatagramsAreSafe
PROPERTIES SettledObjectsArrive
CHECK_DEADLOCK FALSE
