CONSTANTS
  Client = {c1, c2, c3, c4}
  MaxConnections = 3
  Capacity = 3
  Wrap = 8
  MaxResets = 1
SPECIFICATION Spec
SYMMETRY ClientSymmetry
INVARIANTS
  TypeOK
  EventsReachOwner
  ConnectionsExact
  NothingClosedPolled
  CounterExact
PROPERTIES
  RejectsOnlyWhenFull
CHECK_DEADLOCK FALSE
