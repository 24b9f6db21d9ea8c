CONSTANTS
  Client = {c1, c2, c3}
  MaxConnections = 1
  Capacity = 1
  Wrap = 8
  MaxResets = 1
SPECIFICATION FairSpec
PROPERTIES
  PendingServed
  StopEndsRun
  TimeoutsEnforcedWhenBusy
CHECK_DEADLOCK FALSE
