SPECIFICATION Spec
CONSTANTS
  ReduceThreshold = 2
  NoLen = NoLen
  Lens <- MCLens
  Widths <- MCWidths
  ChunkSizes <- MCChunkSizes
  MaxBytes = 5
  MaxSaved = 2
  Habits = {"array_buffer_mid_buffer"}
CHECK_DEADLOCK FALSE
PROPERTIES
  ReadsTheNextBytes
