SPECIFICATION Spec
CONSTANTS
  ReduceThreshold = 2
  NoLen = NoLen
  Lens <- MCLens
  Widths <- MCWidths
  ChunkSizes <- MCChunkSizes
  MaxBytes = 5
  MaxSaved = 2
  Habits = {"seek_at_end"}
CHECK_DEADLOCK FALSE
INVARIANTS
  NeverThrows
