CONSTANTS
  MaxSlots = 3
  User = {u1, u2}
  Capacity = 3
  Value = {x, y}
  Place = {p, q}
  Half = 4
  OpCodes = 2
  LongLen = 3
  MaskLen = 4
  TextOp = 1
  Key <- MCKey
  Xor <- MCXor
  PayloadLen = {0, 1, 2, 4, 5, 63, 64}
  RxCap = 12
  TxCap = 10
  CloseOp = 0
  CloseCode = 10
  MaxFrames = 3
  BlockLen = 64
  CountLen = 8
  Text <- MCText
  TextByte = {0, 97, 155, 255}
  MaxText = 7
SPECIFICATION Spec
INVARIANTS
  PoolExact
  HeldByOne
  VectorIsSequence
  FlagsMatchObjects
  CleanupsRunOnce
  FramesSurviveSplitting
  EchoAccepted
  HashesPaddedMessage
  DecodeUndoesEncode
CHECK_DEADLOCK FALSE
