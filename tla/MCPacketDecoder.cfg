SPECIFICATION Spec
CONSTANTS
  ReduceThreshold = 3
  NoLen = NoLen
  Packets <- MCPacketsAndForeign
  MaxPackets = 3
  ChunkSizes <- MCCoarseChunkSizes
  ListenersThrow = TRUE
CHECK_DEADLOCK FALSE
INVARIANTS
  TypeOK
  DeliversWhatWasSent
  DeliversAtOnce
  BatchesWhatWasDelivered
  DeadBytesAreBounded
