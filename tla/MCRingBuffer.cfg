CONSTANTS
  Capacity = 4
  Byte = {0, 1}
  Chunk <- MCChunk
  Count <- MCCount
SPECIFICATION Spec
INVARIANTS
  TypeOK
  IndicesAgree
  IovecsPartition
PROPERTY
  ImplementsQueue
