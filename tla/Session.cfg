CONSTANTS
  Streams <- MeantStreams
  ByteXor <- BitXor
  IsText <- Utf8
  ControlLimit = 125
  Interrupts <- Anything
  MaxInterrupts = 1
SPECIFICATION Spec
INVARIANTS
  TypeOK
  PingsAnswered
PROPERTIES
  ImplementsMessages
  DeliversEveryMessage
CHECK_DEADLOCK FALSE
