CONSTANTS
  Streams <- UnmaskedStreams
  ByteXor <- BitXor
SPECIFICATION Spec
INVARIANTS
  NoFabricatedFrame
CHECK_DEADLOCK FALSE
