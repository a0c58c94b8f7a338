CONSTANTS
  Clients <- EveryEnding
  IsText <- Utf8
  ControlLimit = 4
  Interrupts <- Anything
  MaxInterrupts = 2
SPECIFICATION Spec
INVARIANTS
  TypeOK
  MessagesInOrder
  CloseCodeEchoed
  BlamesOnlyViolations
  EndsAtViolation
PROPERTIES
  LateOnlyFromLastBuffer
  DeliversEveryMessage
CHECK_DEADLOCK FALSE
