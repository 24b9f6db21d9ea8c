SPECIFICATION Spec
CONSTANTS
  Client = {a, b, c}
  MaxMessages = 2
SYMMETRY Symmetry
CHECK_DEADLOCK FALSE
INVARIANTS
  ListIsInService
  AudienceReached
