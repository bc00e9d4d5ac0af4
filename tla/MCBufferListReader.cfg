SPECIFICATION Spec
CONSTANTS
  ReduceThreshold = 2
  NoLen = NoLen
  Lens <- MCLens
  Widths <- MCWidths
  ChunkSizes <- MCChunkSizes
  MaxBytes = 5
  MaxSaved = 2
  Habits = {}
INVARIANTS
  TypeOK
  HoldsTheStream
  CursorAgrees
  SavedPlacesAgree
  SeekWalksToTheByte
  MergesWhatIsNeeded
  ListReadsPieceByPiece
PROPERTIES
  ImplementsStream
