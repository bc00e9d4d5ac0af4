--------------------------- MODULE MCPacketBuffer ---------------------------
(* A packet in one block, two in several buffers, an array with all of     *)
(* these in it, one with an ArrayBuffer, and a value that is not written.  *)
EXTENDS PacketBuffer

CONSTANTS p1, p2

MCP == {p1, p2}
Symmetry == Permutations(MCP)

Null == Value("null", 0, "empty")
Two == Value("number", 2, "integer")
Str == Value("string", 2, "ab")

MCValues ==
  {Null, Value("buffer", 0, "empty"),
   ArrayOf(<<Str, ArrayOf(<<Two>>), Null>>),
   ArrayOf(<<Value("typed", 1, "Uint8Array"), Null>>),
   Value("symbol", 0, "symbol")}
MCAllValues ==
  MCValues \cup {Undefined, Two, Str, ArrayOf(<<Two>>), Value("typed", 1, "Uint8Array")}
MCCuts == {3, 8, 21}

(* The values satisfy what the theorems about them suppose.                *)
ASSUME ElementsAssumption == ElementsHavePackets
=============================================================================
