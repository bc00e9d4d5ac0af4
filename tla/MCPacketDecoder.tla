--------------------------- MODULE MCPacketDecoder ---------------------------
(* Packets of a fixed size, of a dynamic size, and one that is not valid.  *)
EXTENDS PacketDecoder

P(type, contentSize) == [type |-> type, contentSize |-> contentSize]

MCPackets == {P("BooleanTrue", 0), P("PositiveInteger", 4), P("String", 0), P("Buffer", 3)}
MCPacketsAndForeign == {P("Null", 0), P("String", 2), P(Foreign, 1)}
MCChunkSizes == {1, 2, 5, 9}
MCCoarseChunkSizes == {1, 4, 9}
=============================================================================
