SPECIFICATION Spec
CONSTANTS
  ReduceThreshold = 1
  NoLen = NoLen
  MaxUInt32 = 3
  AllValues <- MCAllValues
  MaxNesting = 2
  p1 = p1
  p2 = p2
  P <- MCP
  Values <- MCValues
  Cuts <- MCCuts
SYMMETRY Symmetry
INVARIANTS
  TypeOK
  KeepsItsBytes
  ParseGivesTheValue
  PartsAgreeWithParse
  BytelengthIsThePacketSize
