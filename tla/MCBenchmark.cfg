SPECIFICATION LiveSpec
CONSTANTS
  MaxClients = 4
  MaxMsgs = 2
  MaxConnections = 3
  MaxBreaks = 1
CHECK_DEADLOCK FALSE
INVARIANTS
  AllReadyBeforeTraffic
  AllMeasured
  RejectedOnlyBeyondLimit
PROPERTIES
  Ends
