CONSTANTS
  RxCapacity = 4
  TxCapacity = 8
  PeekLen = 3
  ResponseLen = 2
  Request <- MCRequest
  Frame <- MCFrame
  SendLen = {4}
  PeerWaits = FALSE
  MaxItems = 3
  MaxCalls = 3
SPECIFICATION Spec
INVARIANTS
  TypeOK
  PausedCanDrain
  ReentryBounded
  ClosedIffReleased
  ErrorMeansClosing
  CloseFrameIsLast
PROPERTIES
  StateOnlyAdvances
  KeepsContract
