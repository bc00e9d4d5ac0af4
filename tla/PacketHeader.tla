---------------------------- MODULE PacketHeader ----------------------------
(***************************************************************************)
(* The frame of a packet and class IpcPacketHeader: two bytes of type, for *)
(* a type of dynamic size four bytes of content size, the content, and one *)
(* byte of footer that no reader looks at.                                 *)
(*                                                                         *)
(* What the bytes say is kept beside them: a packet put on a stream is a   *)
(* record of its type, its content size and the position where it starts.  *)
(***************************************************************************)
EXTENDS Readers

FooterLength == 1
FixedHeaderSize == 2
ContentFieldSize == 4
DynamicHeaderSize == FixedHeaderSize + ContentFieldSize

DoubleContentSize == 8
IntegerContentSize == 4
ZeroContentSize == 0

DoubleTypes == {"Date", "Double"}
IntegerTypes == {"NegativeInteger", "PositiveInteger"}
EmptyTypes == {"BooleanTrue", "BooleanFalse", "Null", "Undefined"}
DynamicTypes == {"ObjectSTRINGIFY", "String", "Buffer", "ArrayWithSize",
                 "ArrayBufferWithSize"}

ValidTypes == DoubleTypes \cup IntegerTypes \cup EmptyTypes \cup DynamicTypes

(* Two bytes that are the header of no type DeclareHeader knows. *)
Foreign == "Foreign"

(***************************************************************************)
(* Headers                                                                 *)
(***************************************************************************)
InvalidRawHeader == [type |-> "NotValid", headerSize |-> -1, contentSize |-> -1]

RawHeader(type, headerSize, contentSize) ==
  [type |-> type, headerSize |-> headerSize, contentSize |-> contentSize]

(* A partial header is declared as the invalid one. *)
DeclareHeader(type, contentSize) ==
  CASE type \in DoubleTypes ->
         RawHeader(type, FixedHeaderSize, DoubleContentSize)
    [] type \in IntegerTypes ->
         RawHeader(type, FixedHeaderSize, IntegerContentSize)
    [] type \in EmptyTypes ->
         RawHeader(type, FixedHeaderSize, ZeroContentSize)
    [] type \in DynamicTypes ->
         RawHeader(type, DynamicHeaderSize, contentSize)
    [] OTHER -> InvalidRawHeader

IsNotValid(header) == header.type = "NotValid"

PacketSize(header) == header.contentSize + (header.headerSize + FooterLength)

(***************************************************************************)
(* Packets on a stream                                                     *)
(***************************************************************************)

(* The bytes a packet takes; foreign bytes come framed as a fixed packet.  *)
WireSize(packet) ==
  IF packet.type = Foreign
  THEN FixedHeaderSize + packet.contentSize + FooterLength
  ELSE PacketSize(DeclareHeader(packet.type, packet.contentSize))

EndOf(packet) == packet.start + WireSize(packet)

(* What two bytes read at a position say: the header of the packet that    *)
(* starts there, also in the content of another. Other bytes are the       *)
(* header of none.                                                         *)
Garbage == [type |-> Foreign, contentSize |-> 0, start |-> 0]

PacketAt(sent, position) ==
  IF \E k \in 1 .. Len(sent) : sent[k].start = position
  THEN sent[CHOOSE k \in 1 .. Len(sent) : sent[k].start = position]
  ELSE Garbage

(***************************************************************************)
(* ReadHeader: the header at the cursor, and the reader it leaves, its     *)
(* cursor after the header fields it could read.                           *)
(***************************************************************************)
(* As a bug: a partial header keeps its type.                              *)
PartialOfItsOwn(r) == [header |-> RawHeader("PartialHeader", -1, -1), reader |-> r]

Partial(r) == [header |-> DeclareHeader("PartialHeader", -1), reader |-> r]

(* As a bug: the packet has to be followed by another byte.                *)
CompleteWithMore(r, header) ==
  IF AtEOF(r, header.contentSize + FooterLength + 1)
  THEN Partial(r)
  ELSE [header |-> header, reader |-> r]

Complete(r, header) ==
  IF AtEOF(r, header.contentSize + FooterLength)
  THEN Partial(r)
  ELSE [header |-> header, reader |-> r]

ReadHeader(r, sent) ==
  LET packet == PacketAt(sent, NumberOut(r, FixedHeaderSize).lo)
      typed == NumberBy(r, FixedHeaderSize)
      header == DeclareHeader(packet.type, -1)
  IN CASE AtEOF(r, FixedHeaderSize) -> Partial(r)
       [] ~AtEOF(r, FixedHeaderSize) /\ IsNotValid(header) ->
            [header |-> header, reader |-> typed]
       [] /\ ~AtEOF(r, FixedHeaderSize)
          /\ header.headerSize = DynamicHeaderSize ->
            IF AtEOF(typed, ContentFieldSize)
            THEN Partial(typed)
            ELSE Complete(NumberBy(typed, ContentFieldSize),
                          [header EXCEPT !.contentSize = packet.contentSize])
       [] OTHER -> Complete(typed, header)
=============================================================================
