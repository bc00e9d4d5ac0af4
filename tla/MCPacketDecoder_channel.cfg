SPECIFICATION Spec
CONSTANTS
  ReduceThreshold = 3
  NoLen = NoLen
  Packets <- MCPackets
  MaxPackets = 2
  ChunkSizes <- MCChunkSizes
  ListenersThrow = FALSE
CHECK_DEADLOCK FALSE
PROPERTIES
  ImplementsChannel
