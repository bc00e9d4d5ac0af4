--------------------------- MODULE MCSocketWriter ---------------------------
(* One datum of every way to write: a block, a buffer, and two contents.   *)
EXTENDS SocketWriter

MCData == {Flat("Null", 0), Flat("Double", 0), Flat("Buffer", 3),
           Flat("ArrayBufferWithSize", 2),
           [type |-> "ArrayWithSize", size |-> 0,
            elements |-> <<Flat("PositiveInteger", 0), Flat("String", 2),
                           Flat("ArrayBufferWithSize", 1)>>]}
=============================================================================
