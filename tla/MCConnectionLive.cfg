CONSTANTS
  RxCapacity = 4
  TxCapacity = 8
  PeekLen = 3
  ResponseLen = 2
  Request <- MCLongRequest
  Frame <- MCOddFrame
  SendLen = {4}
  PeerWaits = TRUE
  MaxItems = 3
  MaxCalls = 1
SPECIFICATION ReadingSpec
INVARIANTS
  NoFrameLeftBehind
PROPERTIES
  DeadPeerRemoved
  BackpressureEnds
  FramesConsumed
