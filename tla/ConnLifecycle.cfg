CONSTANTS
  Reader = reader
  Timer = timer
  CallbackQueue = queue
  Apps = {app1}
  AppCalls <- ReportedCalls
  Inbound <- Orderly
  HasTimer = FALSE
  ServiceKeeps = TRUE
  MaxCalls = 1
SPECIFICATION Spec
INVARIANTS
  DisconnectedOncePerEnder
PROPERTIES
  CallsReturn
  DisconnectReported
CHECK_DEADLOCK FALSE
