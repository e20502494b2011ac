SPECIFICATION Spec
CONSTANTS
  s1 = s1
  s2 = s2
  PathOrder <- WiFiAndLTE
  Senders <- TwoSenders
  MaxSelections = 2
  Events = {"loss"}
SYMMETRY SenderSymmetry
INVARIANTS TypeOK ReadyPathsStaySelectable GiveUpHasCause Accounts
PROPERTIES TakesTurns
CHECK_DEADLOCK FALSE
