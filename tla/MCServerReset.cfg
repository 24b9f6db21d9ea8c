CONSTANTS
  Client = {c1, c2, c3}
  MaxConnections = 2
  Capacity = 2
  Wrap = 8
  MaxResets = 2
SPECIFICATION Spec
PROPERTY
  RejectsOnlyWhenFull
CHECK_DEADLOCK FALSE
