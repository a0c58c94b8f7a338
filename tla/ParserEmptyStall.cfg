CONSTANTS
  Streams <- MixedStreams
  ByteXor <- BitXor
SPECIFICATION Spec
INVARIANTS
  NothingHeldBack
CHECK_DEADLOCK FALSE
