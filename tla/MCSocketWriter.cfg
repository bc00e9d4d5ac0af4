SPECIFICATION Spec
CONSTANTS
  ReduceThreshold = 1
  NoLen = NoLen
  Data <- MCData
  BufferSize = 24
  MaxPackets = 4
  MaxContexts = 2
INVARIANTS
  TypeOK
  WritesFrames
  SendsWholePackets
  NothingIsHeldBack
  HeldBackBelowSize
