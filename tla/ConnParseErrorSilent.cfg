CONSTANTS
  Reader = reader
  Timer = timer
  CallbackQueue = queue
  Apps = {}
  AppCalls <- NoCalls
  Inbound <- Garbage
  HasTimer = FALSE
  ServiceKeeps = TRUE
  MaxCalls = 0
SPECIFICATION Spec
PROPERTIES
  DisconnectReported
CHECK_DEADLOCK FALSE
