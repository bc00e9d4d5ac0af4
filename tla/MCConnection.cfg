SPECIFICATION ConnectionSpec
CONSTANTS
  s1 = s1
  s2 = s2
  s3 = s3
  v1 = v1
  v2 = v2
  NoSocket = NoSocket
  Sockets <- MCSockets
  ConnectsOn <- MCStartAndErrors
  ProgramListens = TRUE
  MaxReconnects = 1
  NoServer = NoServer
  Servers <- MCServers
  Peers <- MCSockets
  ListensOn <- MCServesAgain
  ServerGuarded = TRUE
  MaxHalves = 2
INVARIANTS
  ConnectionTypeOK
  OneAttempt
  ConnectedSocketIsServed
  NeverSilentlyIdle
  ErrorsAreHandled
  PacketsAreOfOneConnection
  PeersAreReportedWithTheirServer
  NeverSilentlyDeaf
PROPERTIES
  AnnouncesReconnections
  IsServedAgain
