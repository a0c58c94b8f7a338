CONSTANTS
  Names = {chat, news}
  Services = {s1, s2}
  NoService = NoService
  Requests <- LowerCase
SPECIFICATION Spec
INVARIANTS
  TypeOK
PROPERTIES
  ReachesTheRegistered
CHECK_DEADLOCK FALSE
