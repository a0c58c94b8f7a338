CONSTANTS
  Names = {chat, news}
  Services = {s1, s2}
  NoService = NoService
  Requests <- AsRegistered
SPECIFICATION Spec
INVARIANTS
  CapsInsensitive
CHECK_DEADLOCK FALSE
