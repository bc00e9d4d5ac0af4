---------------------------- MODULE PacketWriter ----------------------------
(***************************************************************************)
(* Class IpcPacketWriter: how a packet of each type is written, field by   *)
(* field. What a content says is given by who writes it.                   *)
(***************************************************************************)
EXTENDS PacketHeader, Writers

(* The types whose content is one buffer of the data. *)
BufferTypes == {"String", "Buffer", "ObjectSTRINGIFY"}

TypeField(type) == Field("type", FixedHeaderSize, type)
SizeField(contentSize) == Field("contentSize", ContentFieldSize, contentSize)
Content(size, says) == Field("content", size, says)
Footer == Field("footer", FooterLength, "footer")

ShortCodeSize == 1
ShortCodeField(shortCode) == Field("shortCode", ShortCodeSize, shortCode)
CountSize == 4
CountField(count) == Field("count", CountSize, count)

FixedContentSize(type) ==
  CASE type \in DoubleTypes -> DoubleContentSize
    [] type \in IntegerTypes -> IntegerContentSize
    [] OTHER -> ZeroContentSize

(* Header, content and footer in one block. *)
WriteFixedContent(w, type, says) ==
  LET block == <<TypeField(type), Content(FixedContentSize(type), says), Footer>>
  IN PopContext(WriteBuffer(PushContext(w), block))

WriteHeader(w, type, contentSize) ==
  WriteBuffer(WriteBuffer(w, <<TypeField(type)>>), <<SizeField(contentSize)>>)

WriteDynamicBuffer(w, type, size, says) ==
  LET headed == WriteHeader(PushContext(w), type, size)
      filled == WriteBuffer(headed, <<Content(size, says)>>)
  IN PopContext(WriteBuffer(filled, <<Footer>>))

(* The content has been written into a BufferListWriter, whose length is   *)
(* its size.                                                               *)
WriteDynamicContent(w, type, content) ==
  LET headed == WriteHeader(PushContext(w), type, content.length)
  IN PopContext(WriteBuffer(Write(headed, content), <<Footer>>))

WriteArrayBuffer(w, shortCode, size, says) ==
  LET coded == WriteBuffer(NewBufferListWriter, <<ShortCodeField(shortCode)>>)
  IN WriteDynamicContent(w, "ArrayBufferWithSize",
                         WriteBuffer(coded, <<Content(size, says)>>))

(* A content that begins with a count, for the elements to follow. *)
NewArrayContent(count) == WriteBuffer(NewBufferListWriter, <<CountField(count)>>)
=============================================================================
