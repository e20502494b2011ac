SPECIFICATION DataSpec
CONSTANTS
  w1 = w1
  w2 = w2
  InitialMaxRequestID <- LimitEight
  ServerSetupMax = 8
  EarlyCalls = FALSE
  IdBound = 1
  MaxBlockedCalls = 0
  AppCalls = {"subscribe", "fetch", "accept", "closeWithError"}
  Requesters = {0}
  MaxTrackCalls = 0
  Writers <- TwoWriters
  BufferSize = 1
  MaxStreams = 2
  MaxObjects = 2
  MaxDatagrams = 0
SYMMETRY WriterSymmetry
INVARIANTS DataTypeOK StreamOrder OneFetchStream StreamCount
CHECK_DEADLOCK FALSE
