----------------------------- MODULE PacketCodec -----------------------------
(***************************************************************************)
(* IpcPacketWriter.write and IpcPacketReader: from a value of JavaScript   *)
(* to the fields of its packet and back, arrays in arrays included, and    *)
(* IpcPacketWriterSize, which computes the size of a packet on its own.    *)
(*                                                                         *)
(* Values hold values. What the code does by calling itself for what is in *)
(* an array is done here level by level: a function of the values nested   *)
(* at most so deep is made of the one for the level below.                 *)
(***************************************************************************)
EXTENDS PacketWriter

CONSTANTS
  MaxUInt32,  (* the largest number writeUInt32 takes, scaled down           *)
  AllValues,  (* what is written, and what is in the arrays among it         *)
  MaxNesting  (* bound on how deep arrays are in one another                 *)

(***************************************************************************)
(* Values: what the value is, a number (its own, or its size in bytes),    *)
(* what tells it from others of that size, and the elements of an array.   *)
(***************************************************************************)
Value(is, n, of) == [is |-> is, n |-> n, of |-> of, elements |-> <<>>]
ArrayOf(elements) ==
  [is |-> "array", n |-> Len(elements), of |-> "elements", elements |-> elements]

(* The values in which arrays are at most so deep. *)
NestedIn[depth \in 0 .. MaxNesting] ==
  {v \in AllValues :
     \A k \in DOMAIN v.elements : depth > 0 /\ v.elements[k] \in NestedIn[depth - 1]}

Undefined == Value("undefined", 0, "empty")

ASSUME CodecAssumption ==
  /\ MaxUInt32 \in Nat
  /\ MaxNesting \in Nat
  /\ Undefined \in AllValues
  /\ \A v \in AllValues :
       IF v.is = "array"
       THEN v.elements \in Seq(AllValues) /\ v = ArrayOf(v.elements)
       ELSE /\ v = Value(v.is, v.n, v.of)
            /\ v.n \in (IF v.is = "number" THEN Int ELSE Nat)
  /\ AllValues = NestedIn[MaxNesting]

(* MapArrayBufferToShortCodes: Float32Array is under another name.         *)
ShortCodes ==
  [Uint8Array |-> 1, Uint8ClampedArray |-> 2, Uint16Array |-> 3,
   Uint32Array |-> 4, Int8Array |-> 5, Int16Array |-> 6, Int32Array |-> 8,
   BigInt64Array |-> 9, BigUint64Array |-> 10,
   BigUint64Float32ArrayArray |-> 11, Float64Array |-> 12]

(* MapShortCodeToArrayBuffer: the class made of the bytes.                 *)
ConstructorOf(shortCode) ==
  IF shortCode = 11 THEN "Float32Array"
  ELSE CHOOSE name \in DOMAIN ShortCodes : ShortCodes[name] = shortCode

(***************************************************************************)
(* Writing                                                                 *)
(***************************************************************************)
NoPacket == "NoPacket"

Magnitude(n) == IF n < 0 THEN -n ELSE n

(* As a bug: the bound is one too high.                                    *)
NumberTypeOneTooHigh(v) ==
  IF v.of # "integer" \/ Magnitude(v.n) > MaxUInt32 + 1 THEN "Double"
  ELSE IF v.n < 0 THEN "NegativeInteger" ELSE "PositiveInteger"

(* _writeNumber: an integer of 32 bits, without its sign, or a double.     *)
NumberType(v) ==
  IF v.of # "integer" \/ Magnitude(v.n) > MaxUInt32 THEN "Double"
  ELSE IF v.n < 0 THEN "NegativeInteger" ELSE "PositiveInteger"

(* write: typeof and instanceof decide; the rest is written as nothing.    *)
TypeOfKind ==
  [null |-> "Null", undefined |-> "Undefined", true |-> "BooleanTrue",
   false |-> "BooleanFalse", string |-> "String", buffer |-> "Buffer",
   array |-> "ArrayWithSize", date |-> "Date", object |-> "ObjectSTRINGIFY",
   arraybuffer |-> "ArrayBufferWithSize"]

PacketType(v) ==
  CASE v.is = "number" -> NumberType(v)
    [] v.is = "typed" /\ v.of \in DOMAIN ShortCodes -> "ArrayBufferWithSize"
    [] v.is \in DOMAIN TypeOfKind -> TypeOfKind[v.is]
    [] OTHER -> NoPacket

(* A value of a kind that has but one, and one of no bytes, is told from    *)
(* no other; the bytes of an ArrayBuffer are told from others by how many  *)
(* they are; and no class has the name that stands for Float32Array.       *)
ASSUME ValuesAssumption ==
  \A v \in AllValues :
    /\ PacketType(v) \in EmptyTypes => v = Value(v.is, 0, "empty")
    /\ PacketType(v) \in BufferTypes /\ v.n = 0 => v = Value(v.is, 0, "empty")
    /\ v.is = "arraybuffer" => v.of = (IF v.n = 0 THEN "empty" ELSE "bytes")
    /\ v.is = "typed" => v.of # "BigUint64Float32ArrayArray"

(* What an array counts is written: a symbol or a function in it would be  *)
(* counted, and what is behind the array be read for it.                   *)
ElementsHavePackets ==
  \A v \in AllValues : \A k \in DOMAIN v.elements : PacketType(v.elements[k]) # NoPacket

(* What a content says. *)
Text(n, of) == [n |-> n, of |-> of]

TextOf(v) ==
  CASE PacketType(v) \in IntegerTypes ->
         Text(Magnitude(v.n) % (MaxUInt32 + 1), v.of)
    [] v.is \in {"typed", "arraybuffer"} -> Text(v.n, "bytes")
    [] OTHER -> Text(v.n, v.of)

(* An ArrayBuffer is among the contents of the packet. *)
HoldingNested[depth \in 0 .. MaxNesting] ==
  LET inner == IF depth = 0 THEN {} ELSE HoldingNested[depth - 1]
  IN {v \in AllValues :
        \/ PacketType(v) = "ArrayBufferWithSize"
        \/ \E k \in DOMAIN v.elements : v.elements[k] \in inner}

HoldingArrayBuffer == HoldingNested[MaxNesting]

HoldsArrayBuffer(v) == v \in HoldingArrayBuffer

(* write; `content` is the writer with the content of v if it is an array. *)
WriteWith(w, v, content) ==
  LET type == PacketType(v)
  IN CASE type = NoPacket -> w
       [] type = "ArrayWithSize" -> WriteDynamicContent(w, type, content)
       [] type = "ArrayBufferWithSize" ->
            WriteArrayBuffer(w, IF v.is = "typed" THEN ShortCodes[v.of] ELSE 0,
                             v.n, TextOf(v))
       [] type \in BufferTypes -> WriteDynamicBuffer(w, type, v.n, TextOf(v))
       [] OTHER -> WriteFixedContent(w, type, TextOf(v))

(* _writeArray: the count, and the elements one after another.             *)
ContentWith(contents, v) ==
  FoldLeft(LAMBDA content, element : WriteWith(content, element, contents[element]),
           NewArrayContent(Len(v.elements)), v.elements)

ContentsNested[depth \in 0 .. MaxNesting] ==
  IF depth = 0 THEN [v \in AllValues |-> NewArrayContent(0)]
  ELSE LET inner == ContentsNested[depth - 1]
       IN [v \in AllValues |-> ContentWith(inner, v)]

Contents == ContentsNested[MaxNesting]

WriteValue(w, v) == WriteWith(w, v, Contents[v])

Written(values) == FoldLeft(WriteValue, NewBufferListWriter, values).buffers

(* As a bug: the footer counts as content.                                 *)
HeaderWrittenWithFooter(header, v) ==
  LET type == PacketType(v)
      buffers == Written(<<v>>)
  IN CASE type = NoPacket -> header
       [] type \in DynamicTypes ->
            RawHeader(type, DynamicHeaderSize, buffers[2][1].says)
       [] OTHER -> RawHeader(type, FixedHeaderSize, Total(buffers[1]) - FixedHeaderSize)

(* The header that the callback of write is told, if it is called at all.  *)
HeaderWritten(header, v) ==
  LET type == PacketType(v)
      buffers == Written(<<v>>)
  IN CASE type = NoPacket -> header
       [] type \in DynamicTypes ->
            RawHeader(type, DynamicHeaderSize, buffers[2][1].says)
       [] OTHER ->
            RawHeader(type, FixedHeaderSize,
                      Total(buffers[1]) - FixedHeaderSize - FooterLength)

(* IpcPacketWriterSize into a BufferWriterSize: a second way to the size.  *)
BytelengthWith(content, v) ==
  LET type == PacketType(v)
      dynamic == FixedHeaderSize + ContentFieldSize + FooterLength
  IN CASE type = NoPacket -> 0
       [] type = "ArrayWithSize" -> dynamic + content
       [] type = "ArrayBufferWithSize" -> dynamic + ShortCodeSize + v.n
       [] type \in BufferTypes -> dynamic + v.n
       [] OTHER -> FixedHeaderSize + FixedContentSize(type) + FooterLength

(* As a bug: the count of an array is forgotten.                           *)
ElementsBytelength(contents, v) ==
  FoldLeft(LAMBDA sum, element : sum + BytelengthWith(contents[element], element),
           0, v.elements)

ContentBytelength(contents, v) ==
  FoldLeft(LAMBDA sum, element : sum + BytelengthWith(contents[element], element),
           CountSize, v.elements)

BytelengthsNested[depth \in 0 .. MaxNesting] ==
  IF depth = 0 THEN [v \in AllValues |-> CountSize]
  ELSE LET inner == BytelengthsNested[depth - 1]
       IN [v \in AllValues |-> ContentBytelength(inner, v)]

ContentBytelengths == BytelengthsNested[MaxNesting]

Bytelength(v) == BytelengthWith(ContentBytelengths[v], v)

(***************************************************************************)
(* Memory: the fields that were written, each with its place               *)
(***************************************************************************)
PlaceOf(fields, k) ==
  LET lo == Total(SubSeq(fields, 1, k - 1))
  IN [lo |-> lo, hi |-> lo + fields[k].size]

(* The buffers of a writer as intervals. *)
Places(buffers) ==
  [k \in DOMAIN buffers |->
     [lo |-> Length(SubSeq(buffers, 1, k - 1)), hi |-> Length(SubSeq(buffers, 1, k))]]

(* What the field k says to who takes it for the first of a packet.        *)
HeaderAt(fields, k) ==
  IF fields[k].name = "type"
  THEN [type |-> fields[k].says, start |-> PlaceOf(fields, k).lo,
        contentSize |-> IF fields[k + 1].name = "contentSize"
                        THEN fields[k + 1].says ELSE 0]
  ELSE [Garbage EXCEPT !.start = PlaceOf(fields, k).lo]

MemoryOfFields(fields) ==
  [says |-> [k \in DOMAIN fields |->
               [place |-> PlaceOf(fields, k), says |-> fields[k].says]],
   headers |-> [k \in DOMAIN fields |-> HeaderAt(fields, k)]]

Memory(values) == MemoryOfFields(FlattenSeq(Written(values)))

(* What bytes say that are not those of one field. A read out of the bytes *)
(* there are, which throws, comes to this as well.                         *)
NoText == Text(0, "garbage")
EmptyText == Text(0, "empty")

Says(memory, bytes) ==
  IF \E k \in DOMAIN memory.says : memory.says[k].place = bytes
  THEN memory.says[CHOOSE k \in DOMAIN memory.says : memory.says[k].place = bytes].says
  ELSE NoText

(***************************************************************************)
(* Reading: the value read, and the reader it leaves                       *)
(***************************************************************************)
Gives(value, reader) == [value |-> value, reader |-> reader]

KindOfType ==
  [String |-> "string", Buffer |-> "buffer", ObjectSTRINGIFY |-> "object",
   Date |-> "date", Double |-> "number", PositiveInteger |-> "number",
   BooleanTrue |-> "true", BooleanFalse |-> "false", Null |-> "null",
   Undefined |-> "undefined"]

ValueSaid(type, text) == Value(KindOfType[type], text.n, text.of)

ReadArrayBuffer(r, memory, contentSize) ==
  LET shortCode == Says(memory, NumberOut(r, ShortCodeSize))
      coded == NumberBy(r, ShortCodeSize)
      size == contentSize - ShortCodeSize
      text == IF size = 0 THEN EmptyText
              ELSE Says(memory, ArrayBufferOut(coded, size))
  IN Gives(IF shortCode = 0 THEN Value("arraybuffer", size, text.of)
           ELSE IF text.of = "garbage" THEN Value("typed", size, text.of)
           ELSE Value("typed", size, ConstructorOf(shortCode)),
           ArrayBufferBy(coded, size))

CountOut(r, memory) == Says(memory, NumberOut(r, CountSize))

(* An array of count elements, one after another; `inner` reads one of     *)
(* them, from a reader.                                                    *)
WithElement(array, read) ==
  Gives(ArrayOf(Append(array.value.elements, read.value)), read.reader)

ReadElements(r, inner, count) ==
  FoldLeft(LAMBDA array, k : WithElement(array, inner[array.reader]),
           Gives(ArrayOf(<<>>), r), [k \in 1 .. count |-> k])

ReadContent(r, memory, inner, type, contentSize) ==
  CASE type \in BufferTypes ->
         Gives(ValueSaid(type, IF contentSize = 0 THEN EmptyText
                               ELSE Says(memory, BytesOut(r, contentSize))),
               BytesBy(r, contentSize))
    [] type = "NegativeInteger" ->
         LET text == Says(memory, NumberOut(r, IntegerContentSize))
         IN Gives(Value("number", -text.n, text.of), NumberBy(r, IntegerContentSize))
    [] type = "PositiveInteger" ->
         Gives(ValueSaid(type, Says(memory, NumberOut(r, IntegerContentSize))),
               NumberBy(r, IntegerContentSize))
    [] type \in DoubleTypes ->
         Gives(ValueSaid(type, Says(memory, NumberOut(r, DoubleContentSize))),
               NumberBy(r, DoubleContentSize))
    [] type \in EmptyTypes -> Gives(ValueSaid(type, EmptyText), r)
    [] type = "ArrayWithSize" ->
         ReadElements(NumberBy(r, CountSize), inner, CountOut(r, memory))
    [] type = "ArrayBufferWithSize" -> ReadArrayBuffer(r, memory, contentSize)
    [] OTHER -> Gives(Undefined, r)

BehindFooter(read) == Gives(read.value, SkipBy(read.reader, FooterLength))

ReadBehind(read, memory, inner) ==
  IF read.header.contentSize >= 0
  THEN BehindFooter(ReadContent(read.reader, memory, inner, read.header.type,
                                read.header.contentSize))
  ELSE Gives(Undefined, read.reader)

(* read and _read: a packet, header and footer included, for every reader. *)
Reading(memory) ==
  LET nested[depth \in 0 .. MaxNesting + 1] ==
        [r \in AnyReader |->
           IF depth = 0 THEN Gives(Undefined, r)
           ELSE ReadBehind(ReadHeader(r, memory.headers), memory, nested[depth - 1])]
  IN nested[MaxNesting + 1]

ReadValue(r, memory) == Reading(memory)[r]

(***************************************************************************)
(* Reading part of an array                                                *)
(***************************************************************************)
Passed(passed, reader) == [passed |-> passed, reader |-> reader]

(* As a bug: only the content is skipped.                                  *)
PassToFooter(read) ==
  IF read.header.contentSize >= 0
  THEN Passed(TRUE, SkipBy(read.reader, read.header.contentSize))
  ELSE Passed(FALSE, read.reader)

Pass(read) ==
  IF read.header.contentSize >= 0
  THEN Passed(TRUE, SkipBy(read.reader, read.header.contentSize + FooterLength))
  ELSE Passed(FALSE, read.reader)

ByPass(r, memory) == Pass(ReadHeader(r, memory.headers))

ByPassMany(r, memory, count) ==
  FoldLeft(LAMBDA done, k : IF done.passed THEN ByPass(done.reader, memory) ELSE done,
           Passed(TRUE, r), [k \in 1 .. count |-> k])

ElementBehind(passed, memory) ==
  IF passed.passed THEN ReadValue(passed.reader, memory)
                   ELSE Gives(Undefined, passed.reader)

ReadArrayAt(r, memory, index) ==
  IF index >= CountOut(r, memory)
  THEN Gives(Undefined, NumberBy(r, CountSize))
  ELSE ElementBehind(ByPassMany(NumberBy(r, CountSize), memory, index), memory)

(* The exception of new Array(end) with a negative end. *)
RangeError == Value("RangeError", 0, "thrown")

(* The bounds as the code counts them: NoLen is one that is not given.     *)
StartOf(start, argsLen) ==
  CASE start = NoLen -> 0
    [] start # NoLen /\ start < 0 -> argsLen + start
    [] OTHER -> start

EndOfSlice(end, argsLen) ==
  CASE end = NoLen -> argsLen
    [] end # NoLen /\ end < 0 -> argsLen + end
    [] OTHER -> IF end < argsLen THEN end ELSE argsLen

ElementsBehind(passed, memory, count) ==
  IF passed.passed THEN ReadElements(passed.reader, Reading(memory), count)
                   ELSE Gives(Undefined, passed.reader)

ReadBetween(counted, memory, argsLen, start, end) ==
  LET skipped == IF start > 0 THEN start ELSE 0
  IN CASE start >= argsLen \/ end <= start -> Gives(ArrayOf(<<>>), counted)
       [] start < argsLen /\ end > start /\ end < skipped -> Gives(RangeError, counted)
       [] OTHER -> ElementsBehind(ByPassMany(counted, memory, skipped), memory,
                                  end - skipped)

SliceCounted(counted, memory, argsLen, start, end) ==
  ReadBetween(counted, memory, argsLen, StartOf(start, argsLen), EndOfSlice(end, argsLen))

ReadArraySlice(r, memory, start, end) ==
  SliceCounted(NumberBy(r, CountSize), memory, CountOut(r, memory), start, end)
=============================================================================
