---------------------------- MODULE SocketWriter ----------------------------
(***************************************************************************)
(* A program that serializes packets into one of the socket writers.       *)
(* Serializing a packet is one call that nothing interrupts; the program   *)
(* may put calls of its own to pushContext and popContext around several.  *)
(*                                                                         *)
(* What is serialized here is data of the packet types, with their sizes,  *)
(* and arrays of these; PacketCodec has arrays in arrays and which type a  *)
(* value gets.                                                             *)
(***************************************************************************)
EXTENDS PacketWriter

CONSTANTS
  Data,        (* what the program serializes                                *)
  BufferSize,  (* of BufferedSocketWriter                                    *)
  MaxPackets,  (* bound on the packets                                       *)
  MaxContexts  (* bound on the contexts the program opens in one another     *)

Flat(type, size) == [type |-> type, size |-> size, elements |-> <<>>]

ASSUME WriterAssumption ==
  /\ \A data \in Data :
       /\ data.type \in ValidTypes
       /\ data.size \in Nat
       /\ data.elements \in Seq([type : ValidTypes \ {"ArrayWithSize"}, size : Nat,
                                 elements : {<<>>}])
  /\ BufferSize \in Nat
  /\ MaxPackets \in Nat
  /\ MaxContexts \in Nat

VARIABLES
  writer,    (* the writer and, as `socket`, the buffers socket.write got    *)
  depth,     (* how many contexts the program has open                       *)
  written,   (* ghost: what was serialized and not reset                     *)
  waiting    (* ghost: how many of the last of these are in _buffers         *)

vars == <<writer, depth, written, waiting>>

(***************************************************************************)
(* Data written as the packet of its type                                  *)
(***************************************************************************)
WriteFlat(w, data) ==
  CASE data.type \in BufferTypes -> WriteDynamicBuffer(w, data.type, data.size, data)
    [] data.type = "ArrayBufferWithSize" -> WriteArrayBuffer(w, 0, data.size, data)
    [] OTHER -> WriteFixedContent(w, data.type, data)

WriteElements(w, elements) == FoldLeft(WriteFlat, w, elements)

WriteArray(w, data) ==
  WriteDynamicContent(w, data.type,
    WriteElements(NewArrayContent(Len(data.elements)), data.elements))

WriteData(w, data) ==
  IF data.type = "ArrayWithSize" THEN WriteArray(w, data) ELSE WriteFlat(w, data)

(***************************************************************************)
(* The program                                                             *)
(***************************************************************************)
Init ==
  /\ \E class \in SocketWriters : writer = NewWriter(class, BufferSize)
  /\ depth = 0
  /\ written = <<>>
  /\ waiting = 0

CountWaiting(n) == waiting' = IF writer'.buffers = <<>> THEN 0 ELSE n

SerializePacket(data) ==
  /\ Len(written) < MaxPackets
  /\ writer' = WriteData(writer, data)
  /\ written' = Append(written, data)
  /\ CountWaiting(waiting + 1)
  /\ UNCHANGED depth

OpenContext ==
  /\ depth < MaxContexts
  /\ depth' = depth + 1
  /\ writer' = PushContext(writer)
  /\ UNCHANGED <<written, waiting>>

CloseContext ==
  /\ depth > 0
  /\ depth' = depth - 1
  /\ writer' = PopContext(writer)
  /\ CountWaiting(waiting)
  /\ UNCHANGED written

LookAtBuffer ==
  /\ writer' = MergeBuffers(writer)
  /\ UNCHANGED <<depth, written, waiting>>

Reset ==
  /\ writer' = ResetWriter(writer)
  /\ written' = SubSeq(written, 1, Len(written) - waiting)
  /\ waiting' = 0
  /\ UNCHANGED depth

Next ==
  \/ \E data \in Data : SerializePacket(data)
  \/ OpenContext
  \/ CloseContext
  \/ LookAtBuffer
  \/ Reset

Spec == Init /\ [][Next]_vars

(***************************************************************************)
(* What the other end expects                                              *)
(***************************************************************************)
Framed(data, content) ==
  LET dynamic == DeclareHeader(data.type, -1).headerSize = DynamicHeaderSize
  IN <<TypeField(data.type)>>
       \o (IF dynamic THEN <<SizeField(Total(content))>> ELSE <<>>)
       \o content \o <<Footer>>

FlatContent(data) ==
  CASE data.type \notin DynamicTypes ->
         <<Content(DeclareHeader(data.type, -1).contentSize, data)>>
    [] data.type = "ArrayBufferWithSize" ->
         <<ShortCodeField(0), Content(data.size, data)>>
    [] OTHER -> <<Content(data.size, data)>>

FlatFrame(data) == Framed(data, FlatContent(data))

Frame(data) ==
  IF data.type = "ArrayWithSize"
  THEN Framed(data, <<CountField(Len(data.elements))>>
                      \o FlattenSeq([k \in 1 .. Len(data.elements) |->
                                      FlatFrame(data.elements[k])]))
  ELSE FlatFrame(data)

Frames(packets) == FlattenSeq([k \in 1 .. Len(packets) |-> Frame(packets[k])])

(***************************************************************************)
(* Properties                                                              *)
(***************************************************************************)

(* Every variable has its type. *)
TypeOK ==
  /\ writer.class \in SocketWriters
  /\ writer.bufferSize = BufferSize
  /\ writer.length \in Nat
  /\ writer.context \in Nat
  /\ depth \in 0 .. MaxContexts
  /\ written \in Seq(Data)
  /\ waiting \in 0 .. MaxPackets

(* What is on the socket, then what waits, are the frames of the packets   *)
(* in order, with the sizes the other end expects: each class keeps them,  *)
(* the size of a content is known before it is written, and no context,    *)
(* merge or reset tears a frame.                                           *)
WritesFrames ==
  FlattenSeq(writer.socket \o writer.buffers) = Frames(written)

(* Whatever made a writer write to its socket, the other end is not left   *)
(* with part of a packet.                                                  *)
SendsWholePackets ==
  FlattenSeq(writer.socket) = Frames(SubSeq(written, 1, Len(written) - waiting))

(* A packet serialized outside of any context, or whose contexts are all   *)
(* closed, is on the socket: it does not wait for the packets of a size.   *)
(* (popContext; the documentation of BufferedSocketWriter says otherwise,  *)
(* which is WritesAtSize)                                                  *)
NothingIsHeldBack == depth = 0 => writer.buffers = <<>>

(* In a context BufferedSocketWriter holds back less than its size.        *)
HeldBackBelowSize ==
  Length(writer.buffers) < BufferSize \/ writer.buffers = <<>>

(* "Write packets when reaching a size" (README.md): BufferedSocketWriter  *)
(* writes nothing to the socket that has not reached its size.             *)
WritesAtSize ==
  [][writer.class = "BufferedSocketWriter" /\ writer'.socket # writer.socket =>
       Length(SubSeq(writer'.socket, Len(writer.socket) + 1, Len(writer'.socket)))
         >= BufferSize]_vars
=============================================================================
