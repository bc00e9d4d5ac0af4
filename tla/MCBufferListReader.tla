------------------------- MODULE MCBufferListReader -------------------------
(* Small values for the reader: reads of every width against every cut of  *)
(* the stream into buffers, a merge threshold the stream crosses.          *)
EXTENDS BufferListLoops

MCLens == {-1, 1, 3}
MCWidths == {1, 2, 4}
MCChunkSizes == {1, 2, 3}
=============================================================================
