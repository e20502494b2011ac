SPECIFICATION FairSpec
CONSTANTS
  SupportedVersions <- FourAndTwo
  Protocols = {"quic", "webtransport"}
  PathPositions = {0, 1, 2}
  HandlerCalls = {"return", "close", "request"}
  Events = {"loss", "datagram", "close"}
INVARIANTS TypeOK AgreedSetup
PROPERTIES RunReturns CloseReturns CallsReturn ReadersEndTogether
CHECK_DEADLOCK FALSE
