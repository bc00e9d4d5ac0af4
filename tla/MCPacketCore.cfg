SPECIFICATION Spec
CONSTANTS
  ReduceThreshold = 1
  NoLen = NoLen
  MaxUInt32 = 3
  AllValues <- MCAllValues
  MaxNesting = 3
  Values <- MCValues
  MaxValues = 2
  Cuts <- MCCuts
CHECK_DEADLOCK FALSE
INVARIANTS
  TypeOK
  
  HeaderIsTheOneInTheBytes
