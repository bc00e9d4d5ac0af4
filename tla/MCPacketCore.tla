---------------------------- MODULE MCPacketCore ----------------------------
(* A value for every way to write one, the numbers on both sides of the    *)
(* largest integer, arrays in an array, and what is given no packet.       *)
EXTENDS PacketCore

Numbers == {Value("number", n, "integer") : n \in {-4, -3, 0, 3, 4}}
             \cup {Value("number", 0, "fraction")}
Singletons == {Value(is, 0, "empty") : is \in {"null", "undefined", "true", "false"}}
Texts == {Value("string", 0, "empty"), Value("string", 2, "ab"),
          Value("buffer", 0, "empty"), Value("object", 5, "{a:1}"),
          Value("date", 7, "instant")}
ArrayBuffers == {Value("arraybuffer", 0, "empty"), Value("arraybuffer", 3, "bytes"),
                 Value("typed", 3, "Uint8Array"), Value("typed", 8, "Float64Array")}

Inner == ArrayOf(<<Value("string", 2, "ab"), ArrayOf(<<>>)>>)
Arrays == {ArrayOf(<<>>),
           ArrayOf(<<Value("number", -3, "integer"), Inner, Value("true", 0, "empty")>>),
           ArrayOf(<<Value("null", 0, "empty"), Value("arraybuffer", 3, "bytes")>>)}
Unwritable == {Value("symbol", 0, "symbol"), Value("typed", 4, "Float32Array")}

MCValues == Numbers \cup Singletons \cup Texts \cup ArrayBuffers \cup Arrays
              \cup Unwritable
MCAllValues == MCValues \cup {Undefined, Inner}
MCCuts == {1, 2, 5, 7, 11, 16}

(* The values satisfy what the theorems about them suppose.                *)
ASSUME ElementsAssumption == ElementsHavePackets
=============================================================================
