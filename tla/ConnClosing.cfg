CONSTANTS
  Reader = reader
  Timer = timer
  CallbackQueue = queue
  Apps = {}
  AppCalls <- AllCalls
  Inbound <- AllFrames
  HasTimer = TRUE
  ServiceKeeps = TRUE
  MaxCalls = 1
SPECIFICATION Spec
INVARIANTS
  TypeOK
  WireFramesWhole
  CloseCommandFirst
  ClosingNeverReenters
CHECK_DEADLOCK FALSE
