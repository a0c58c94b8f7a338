CONSTANTS
  Tick = 2
  AnswerTime = 17
SPECIFICATION Spec
INVARIANTS
  TypeOK
  AskedBeforeGivenUp
  AnsweringClientKept
  ClosedInTime
CHECK_DEADLOCK FALSE
PROPERTIES
  SilentClientClosed
