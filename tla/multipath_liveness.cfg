SPECIFICATION FairSpec
CONSTANTS
  s1 = s1
  s2 = s2
  PathOrder <- WiFiAndLTE
  Senders <- OneSender
  MaxSelections = 1
  Events = {"wrongTrack", "close"}
PROPERTIES SendsReturn CloseEnds
CHECK_DEADLOCK FALSE
