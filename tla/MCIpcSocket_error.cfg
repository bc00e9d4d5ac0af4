SPECIFICATION Spec
CONSTANTS
  s1 = s1
  s2 = s2
  s3 = s3
  NoSocket = NoSocket
  Sockets <- MCSockets
  ConnectsOn <- MCStartAndErrors
  ProgramListens = FALSE
  MaxReconnects = 2
CHECK_DEADLOCK FALSE
INVARIANTS
  SocketErrorsAreHandled
