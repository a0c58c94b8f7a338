CONSTANTS
  Reader = reader
  Timer = timer
  CallbackQueue = queue
  Apps = {}
  AppCalls <- NoCalls
  Inbound <- Silence
  HasTimer = TRUE
  ServiceKeeps = TRUE
  MaxCalls = 1
SPECIFICATION Spec
INVARIANTS
  DisconnectedAtMostOnce
CHECK_DEADLOCK FALSE
