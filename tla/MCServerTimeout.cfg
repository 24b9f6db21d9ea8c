CONSTANTS
  Client = {c1, c2}
  MaxConnections = 1
  Capacity = 1
  Wrap = 8
  MaxResets = 1
SPECIFICATION FairSpec
PROPERTY
  HandshakeTimeoutEnforced
CHECK_DEADLOCK FALSE
