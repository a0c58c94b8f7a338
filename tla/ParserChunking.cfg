CONSTANTS
  Streams <- AllStreams
  ByteXor <- BitXor
SPECIFICATION Spec
INVARIANTS
  TypeOK
  FramesInOrder
  ErrorOnlyAtViolation
  HeldBackOnlyAtEmptyHeader
  BufferKeptOnlyInHeader
PROPERTIES
  DeliversEveryFrame
CHECK_DEADLOCK FALSE
