------------------------- MODULE SocketWriter_proofs -------------------------
(***************************************************************************)
(* The safety of the socket writers, for any packets, any buffer size and  *)
(* any contexts in one another: what is on the socket is whole frames, and *)
(* what waits is the rest.                                                 *)
(***************************************************************************)
EXTENDS SocketWriter, Buffers_proofs

(***************************************************************************)
(* Writers                                                                 *)
(***************************************************************************)

(* What a field says: a type, a number, what the footer says, or what the  *)
(* program serializes.                                                     *)
Elements == [type : ValidTypes \ {"ArrayWithSize"}, size : Nat, elements : {<<>>}]
Says == ValidTypes \cup Int \cup {"footer"} \cup Data \cup Elements
Names == {"type", "contentSize", "content", "footer", "shortCode", "count"}
Fields == [name : Names, size : Nat, says : Says]
Buffers == Seq(Seq(Fields))

Writer == [class : {"BufferListWriter"} \cup SocketWriters, bufferSize : Nat,
           buffers : Buffers, length : Nat, context : Int, socket : Buffers]

(* A writer that knows the length of what it keeps; SocketWriter keeps     *)
(* nothing.                                                                *)
Counts(w) ==
  /\ w \in Writer
  /\ w.length = Total(FlattenSeq(w.buffers))
  /\ w.class = "SocketWriter" => w.buffers = <<>>

(* The same writer with the fields after what it wrote before.             *)
Appended(w, x, fields) ==
  /\ Counts(x)
  /\ x.class = w.class
  /\ x.bufferSize = w.bufferSize
  /\ x.context = w.context
  /\ IF w.class = "SocketWriter"
     THEN /\ x.buffers = w.buffers
          /\ FlattenSeq(x.socket) = FlattenSeq(w.socket) \o fields
     ELSE /\ x.socket = w.socket
          /\ x.buffers # <<>>
          /\ FlattenSeq(x.buffers) = FlattenSeq(w.buffers) \o fields

(* A packet is put between pushContext and popContext.                     *)
Written(w, x, fields) ==
  \E y : Appended(PushContext(w), y, fields) /\ x = PopContext(y)

(* A field has a size.                                                     *)
LEMMA SizedFields == \A x \in Fields : x.size \in Nat
BY DEF Fields

(* appendBuffers keeps the length of what it appends. *)
LEMMA AppendBuffersAppends ==
  ASSUME NEW w, Counts(w), NEW buffers \in Buffers, buffers # <<>>,
         NEW n, n = Total(FlattenSeq(buffers))
  PROVE  Appended(w, AppendBuffers(w, buffers, n), FlattenSeq(buffers))
<1> DEFINE x == AppendBuffers(w, buffers, n)
<1>1. /\ w \in Writer
      /\ w.length = Total(FlattenSeq(w.buffers))
      /\ w.class = "SocketWriter" => w.buffers = <<>>
  BY DEF Counts
<1>2. w.buffers \in Buffers /\ w.socket \in Buffers /\ w.length \in Nat
  BY <1>1 DEF Writer
<1>3. <<>> \in Seq(Fields)  OBVIOUS
<1>4. FlattenSeq(buffers) \in Seq(Fields) /\ FlattenSeq(w.buffers) \in Seq(Fields)
  BY <1>2, <1>3, FlattenAppend DEF Buffers
<1>5. n \in Nat  BY <1>4, SizedFields, TotalIsNat
<1>6. w.buffers \o buffers \in Buffers /\ w.socket \o buffers \in Buffers
  BY <1>2 DEF Buffers
<1>7. /\ FlattenSeq(w.buffers \o buffers) = FlattenSeq(w.buffers) \o FlattenSeq(buffers)
      /\ FlattenSeq(w.socket \o buffers) = FlattenSeq(w.socket) \o FlattenSeq(buffers)
  BY <1>2, FlattenConcat DEF Buffers
<1>8. CASE w.class = "SocketWriter"
  <2>1. x = [w EXCEPT !.socket = @ \o buffers]
    BY <1>8 DEF AppendBuffers, SendBuffers
  <2>2. x \in Writer  BY <1>1, <1>6, <2>1 DEF Writer
  <2>3. /\ x.class = w.class /\ x.bufferSize = w.bufferSize /\ x.context = w.context
        /\ x.buffers = w.buffers /\ x.length = w.length /\ x.socket = w.socket \o buffers
    BY <1>1, <2>1 DEF Writer
  <2> QED  BY <1>1, <1>7, <1>8, <2>2, <2>3 DEF Appended, Counts
<1>9. CASE w.class # "SocketWriter"
  <2>1. x = [w EXCEPT !.buffers = @ \o buffers, !.length = @ + n]
    BY <1>9 DEF AppendBuffers
  <2>2. x \in Writer
    <3>1. w.length + n \in Nat  BY <1>2, <1>5
    <3> QED  BY <1>1, <1>6, <2>1, <3>1 DEF Writer
  <2>3. /\ x.class = w.class /\ x.bufferSize = w.bufferSize /\ x.context = w.context
        /\ x.buffers = w.buffers \o buffers /\ x.length = w.length + n
        /\ x.socket = w.socket
    BY <1>1, <2>1 DEF Writer
  <2>4. x.length = Total(FlattenSeq(x.buffers))
    <3>1. Total(FlattenSeq(w.buffers) \o FlattenSeq(buffers))
            = Total(FlattenSeq(w.buffers)) + Total(FlattenSeq(buffers))
      BY <1>4, SizedFields, TotalConcat
    <3> QED  BY <1>1, <1>7, <2>3, <3>1
  <2>5. x.buffers # <<>>
    <3>1. Len(w.buffers \o buffers) = Len(w.buffers) + Len(buffers) /\ Len(buffers) # 0
          /\ Len(w.buffers) \in Nat /\ Len(buffers) \in Nat
      BY <1>2 DEF Buffers
    <3>2. Len(w.buffers \o buffers) # 0  BY <3>1
    <3> QED  BY <2>3, <3>2
  <2> QED  BY <1>7, <1>9, <2>2, <2>3, <2>4, <2>5 DEF Appended, Counts
<1> QED  BY <1>8, <1>9

(* writeBuffer and the like append one buffer.                             *)
LEMMA WriteBufferAppends ==
  ASSUME NEW w, Counts(w), NEW fields \in Seq(Fields)
  PROVE  Appended(w, WriteBuffer(w, fields), fields)
<1>1. <<fields>> \in Buffers /\ <<fields>> # <<>>  BY DEF Buffers
<1>2. FlattenSeq(<<fields>>) = fields  BY FlattenOne
<1>3. Appended(w, AppendBuffers(w, <<fields>>, Total(fields)), FlattenSeq(<<fields>>))
  BY <1>1, <1>2, AppendBuffersAppends
<1> QED  BY <1>2, <1>3 DEF WriteBuffer

(* A writer of a content is put into another with the length it kept.      *)
LEMMA WriteAppends ==
  ASSUME NEW w, Counts(w), NEW content, Counts(content), content.buffers # <<>>
  PROVE  Appended(w, Write(w, content), FlattenSeq(content.buffers))
<1>1. content.buffers \in Buffers /\ content.length = Total(FlattenSeq(content.buffers))
  BY DEF Counts, Writer
<1> QED  BY <1>1, AppendBuffersAppends DEF Write

(* What is appended to what was appended. *)
LEMMA AppendedTwice ==
  ASSUME NEW w, Counts(w), NEW x, NEW y, NEW f \in Seq(Fields), NEW g \in Seq(Fields),
         Appended(w, x, f), Appended(x, y, g)
  PROVE  Appended(w, y, f \o g)
<1>1. <<>> \in Seq(Fields)  OBVIOUS
<1>2. w.buffers \in Buffers /\ w.socket \in Buffers  BY DEF Counts, Writer
<1>3. FlattenSeq(w.buffers) \in Seq(Fields) /\ FlattenSeq(w.socket) \in Seq(Fields)
  BY <1>1, <1>2, FlattenAppend DEF Buffers
<1>4. /\ (FlattenSeq(w.buffers) \o f) \o g = FlattenSeq(w.buffers) \o (f \o g)
      /\ (FlattenSeq(w.socket) \o f) \o g = FlattenSeq(w.socket) \o (f \o g)
  BY <1>3, SMTT(30)
<1>5. CASE w.class = "SocketWriter"
  BY <1>4, <1>5 DEF Appended
<1>6. CASE w.class # "SocketWriter"
  BY <1>4, <1>6 DEF Appended
<1> QED  BY <1>5, <1>6

(* A writer that was appended to knows its length.                         *)
LEMMA AppendedCounts ==
  ASSUME NEW w, NEW x, NEW f, Appended(w, x, f)
  PROVE  Counts(x)
BY DEF Appended

(* pushContext changes the context only. *)
LEMMA PushCounts ==
  ASSUME NEW w, Counts(w)
  PROVE  LET x == PushContext(w)
         IN /\ Counts(x)
            /\ x.class = w.class /\ x.bufferSize = w.bufferSize
            /\ x.buffers = w.buffers /\ x.length = w.length /\ x.socket = w.socket
            /\ x.context = IF w.class = "BufferedSocketWriter" THEN w.context + 1
                           ELSE w.context
<1> DEFINE x == PushContext(w)
<1>1. w \in Writer  BY DEF Counts
<1>2. CASE w.class = "BufferedSocketWriter"
  <2>1. x = [w EXCEPT !.context = @ + 1]  BY <1>2 DEF PushContext
  <2>2. w.context + 1 \in Int  BY <1>1 DEF Writer
  <2>3. x \in Writer  BY <1>1, <2>1, <2>2 DEF Writer
  <2>4. /\ x.class = w.class /\ x.bufferSize = w.bufferSize
        /\ x.buffers = w.buffers /\ x.length = w.length /\ x.socket = w.socket
        /\ x.context = w.context + 1
    BY <1>1, <2>1 DEF Writer
  <2>5. Counts(x)
    <3> HIDE DEF x
    <3> QED  BY <1>2, <2>3, <2>4 DEF Counts
  <2> QED  BY <1>2, <2>4, <2>5
<1>3. CASE w.class # "BufferedSocketWriter"
  BY <1>3 DEF PushContext
<1> QED  BY <1>2, <1>3

(* flushBuffer hands over all that waits, in order. *)
LEMMA FlushCounts ==
  ASSUME NEW w, Counts(w)
  PROVE  LET x == FlushBuffer(w)
         IN /\ Counts(x)
            /\ x.class = w.class /\ x.bufferSize = w.bufferSize
            /\ x.context = w.context
            /\ x.buffers = <<>> /\ x.length = 0
            /\ x.socket = w.socket \o w.buffers
<1> DEFINE x == FlushBuffer(w)
<1>1. w \in Writer /\ w.buffers \in Buffers /\ w.socket \in Buffers
  BY DEF Counts, Writer
<1>2. w.socket \o w.buffers \in Buffers /\ <<>> \in Buffers  BY <1>1 DEF Buffers
<1>3. x = [[w EXCEPT !.socket = @ \o w.buffers] EXCEPT !.buffers = <<>>, !.length = 0]
  BY DEF FlushBuffer, SendBuffers
<1> HIDE DEF x
<1>4. x \in Writer  BY <1>1, <1>2, <1>3 DEF Writer
<1>5. /\ x.class = w.class /\ x.bufferSize = w.bufferSize /\ x.context = w.context
      /\ x.buffers = <<>> /\ x.length = 0 /\ x.socket = w.socket \o w.buffers
  BY <1>1, <1>3 DEF Writer
<1>6. Counts(x)  BY <1>4, <1>5, FlattenNothing, TotalNothing DEF Counts
<1> QED  BY <1>5, <1>6 DEF x

(* popContext keeps the order of the fields, and hands over all that waits *)
(* or nothing: DelayedSocketWriter all, BufferedSocketWriter all when the  *)
(* outermost context closes or the size is reached.                        *)
LEMMA PopCounts ==
  ASSUME NEW w, Counts(w), w.class \in SocketWriters
  PROVE  LET x == PopContext(w)
         IN /\ Counts(x)
            /\ x.class = w.class /\ x.bufferSize = w.bufferSize
            /\ x.context = IF w.class = "BufferedSocketWriter" THEN w.context - 1
                           ELSE w.context
            /\ FlattenSeq(x.socket) \o FlattenSeq(x.buffers)
                 = FlattenSeq(w.socket) \o FlattenSeq(w.buffers)
            /\ x.buffers = <<>> \/ (x.buffers = w.buffers /\ x.socket = w.socket)
            /\ w.class = "DelayedSocketWriter" => x.buffers = <<>>
            /\ w.class = "BufferedSocketWriter" =>
                 x.buffers = <<>> \/ (x.context # 0 /\ x.length < x.bufferSize)
<1> DEFINE x == PopContext(w)
<1>1. w \in Writer  BY DEF Counts
<1>2. ASSUME NEW v, Counts(v)
      PROVE  LET z == FlushBuffer(v)
             IN FlattenSeq(z.socket) \o FlattenSeq(z.buffers)
                  = FlattenSeq(v.socket) \o FlattenSeq(v.buffers)
  <2> DEFINE z == FlushBuffer(v)
  <2>1. v.buffers \in Buffers /\ v.socket \in Buffers  BY <1>2 DEF Counts, Writer
  <2>2. z.buffers = <<>> /\ z.socket = v.socket \o v.buffers  BY <1>2, FlushCounts
  <2> HIDE DEF z
  <2>3. FlattenSeq(z.socket) = FlattenSeq(v.socket) \o FlattenSeq(v.buffers)
    BY <2>1, <2>2, FlattenConcat DEF Buffers
  <2>4. FlattenSeq(z.socket) \in Seq(Fields)
    <3>1. v.socket \o v.buffers \in Buffers /\ <<>> \in Seq(Fields)  BY <2>1 DEF Buffers
    <3> QED  BY <2>2, <3>1, FlattenAppend DEF Buffers
  <2>5. FlattenSeq(z.socket) \o <<>> = FlattenSeq(z.socket)  BY <2>4
  <2>6. FlattenSeq(z.socket) \o FlattenSeq(z.buffers)
          = FlattenSeq(v.socket) \o FlattenSeq(v.buffers)
    BY <2>2, <2>3, <2>5, FlattenNothing
  <2> QED  BY <2>6 DEF z
<1>3. CASE w.class = "SocketWriter"
  <2>1. x = w  BY <1>3 DEF PopContext
  <2> QED  BY <1>3, <2>1
<1>4. CASE w.class = "DelayedSocketWriter"
  <2>1. PopContext(w) = FlushBuffer(w)  BY <1>4 DEF PopContext
  <2> QED  BY <1>2, <1>4, <2>1, FlushCounts
<1>5. CASE w.class = "BufferedSocketWriter"
  <2> DEFINE v == [w EXCEPT !.context = @ - 1]
  <2>1. PopContext(w) = PopBuffered(v)  BY <1>5 DEF PopContext
  <2>2. w.context - 1 \in Int  BY <1>1 DEF Writer
  <2>3. v \in Writer  BY <1>1, <2>2 DEF Writer
  <2>4. /\ v.class = w.class /\ v.bufferSize = w.bufferSize
        /\ v.buffers = w.buffers /\ v.length = w.length /\ v.socket = w.socket
        /\ v.context = w.context - 1
    BY <1>1 DEF Writer
  <2> HIDE DEF v
  <2>5. Counts(v)  BY <1>5, <2>3, <2>4 DEF Counts
  <2>6. CASE v.context = 0 \/ v.length >= v.bufferSize
    <3>1. PopContext(w) = FlushBuffer(v)  BY <2>1, <2>6 DEF PopBuffered
    <3> QED  BY <1>2, <1>5, <2>4, <2>5, <3>1, FlushCounts
  <2>7. CASE ~(v.context = 0 \/ v.length >= v.bufferSize)
    <3>1. PopContext(w) = v  BY <2>1, <2>7 DEF PopBuffered
    <3>2. v.length < v.bufferSize  BY <2>3, <2>7 DEF Writer
    <3> QED  BY <1>5, <2>4, <2>5, <2>7, <3>1, <3>2
  <2> QED  BY <2>6, <2>7
<1> QED  BY <1>3, <1>4, <1>5 DEF SocketWriters

(***************************************************************************)
(* Packets                                                                 *)
(***************************************************************************)

(* What the frame of a flat datum may be asked of.                         *)
IsFlat(d) == d.type \in ValidTypes \ {"ArrayWithSize"} /\ d.size \in Nat /\ d \in Says

(* Everything that is written is a field.                                  *)
LEMMA FieldsTyped ==
  /\ \A type \in ValidTypes : <<TypeField(type)>> \in Seq(Fields)
  /\ \A n \in Nat : <<SizeField(n)>> \in Seq(Fields)
  /\ \A n \in Nat : <<CountField(n)>> \in Seq(Fields)
  /\ \A n \in Nat, d \in Says : <<Content(n, d)>> \in Seq(Fields)
  /\ <<Footer>> \in Seq(Fields)
  /\ <<ShortCodeField(0)>> \in Seq(Fields)
<1>1. \A name \in Names, n \in Nat, says \in Says :
        Field(name, n, says) \in Fields /\ <<Field(name, n, says)>> \in Seq(Fields)
  BY DEF Field, Fields
<1>2. /\ \A type \in ValidTypes : type \in Says
      /\ \A n \in Nat : n \in Says
      /\ "footer" \in Says /\ 0 \in Says
      /\ FixedHeaderSize \in Nat /\ ContentFieldSize \in Nat /\ CountSize \in Nat
      /\ FooterLength \in Nat /\ ShortCodeSize \in Nat
  BY DEF Says, FixedHeaderSize, ContentFieldSize, CountSize, FooterLength, ShortCodeSize
<1>0. {"type", "contentSize", "content", "footer", "shortCode", "count"} \subseteq Names
  BY DEF Names
<1>3. \A type \in ValidTypes : <<TypeField(type)>> \in Seq(Fields)
  BY <1>0, <1>1, <1>2 DEF TypeField
<1>4. \A n \in Nat : <<SizeField(n)>> \in Seq(Fields) /\ <<CountField(n)>> \in Seq(Fields)
  BY <1>0, <1>1, <1>2 DEF SizeField, CountField
<1>5. \A n \in Nat, d \in Says : <<Content(n, d)>> \in Seq(Fields)
  BY <1>0, <1>1 DEF Content
<1>6. <<Footer>> \in Seq(Fields) /\ <<ShortCodeField(0)>> \in Seq(Fields)
  BY <1>0, <1>1, <1>2 DEF Footer, ShortCodeField
<1> QED  BY <1>3, <1>4, <1>5, <1>6

(* A header is declared with the size of the content FixedContentSize has. *)
LEMMA Declares ==
  ASSUME NEW type \in ValidTypes
  PROVE  /\ DeclareHeader(type, -1).headerSize = DynamicHeaderSize <=> type \in DynamicTypes
         /\ type \notin DynamicTypes =>
              /\ DeclareHeader(type, -1).contentSize = FixedContentSize(type)
              /\ FixedContentSize(type) \in Nat
BY DEF ValidTypes, DeclareHeader, RawHeader, FixedContentSize, DynamicHeaderSize,
       FixedHeaderSize, ContentFieldSize, DoubleTypes, IntegerTypes, EmptyTypes,
       DynamicTypes, DoubleContentSize, IntegerContentSize, ZeroContentSize

(* The frame of a packet of dynamic size.                                  *)
DynamicFrame(type, content) ==
  <<TypeField(type)>> \o <<SizeField(Total(content))>> \o content \o <<Footer>>

(* Three fields, the list between the first two of them empty.             *)
LEMMA ThreeInOne ==
  ASSUME NEW a, NEW b, NEW c
  PROVE  <<a>> \o <<>> \o <<b>> \o <<c>> = <<a, b, c>>
<1> DEFINE T == {a, b, c}
<1>0. a \in T /\ b \in T /\ c \in T  OBVIOUS
<1> HIDE DEF T
<1>1. /\ <<a>> \in Seq(T) /\ <<b>> \in Seq(T) /\ <<c>> \in Seq(T)
      /\ <<a, b>> \in Seq(T) /\ <<a, b, c>> \in Seq(T)
  BY <1>0
<1>2. <<a>> \o <<>> = <<a>>  BY <1>1
<1>3. <<a>> \o <<b>> = <<a, b>>
  <2> DEFINE ab == <<a>> \o <<b>>
  <2>1. ab \in Seq(T) /\ Len(ab) = 2 /\ \A i \in 1 .. 2 : ab[i] = <<a, b>>[i]
    BY <1>1
  <2> QED  BY <1>1, <2>1, SeqEqual
<1>4. <<a, b>> \o <<c>> = <<a, b, c>>
  <2> DEFINE abc == <<a, b>> \o <<c>>
  <2>1. abc \in Seq(T) /\ Len(abc) = 3 /\ \A i \in 1 .. 3 : abc[i] = <<a, b, c>>[i]
    BY <1>1
  <2> QED  BY <1>1, <2>1, SeqEqual
<1> QED  BY <1>2, <1>3, <1>4, Zenon

(* The frame of a flat datum, for each way to write one.                   *)
LEMMA FrameShapes ==
  ASSUME NEW d, IsFlat(d)
  PROVE  /\ d.type \notin DynamicTypes =>
              FlatFrame(d) = <<TypeField(d.type),
                               Content(FixedContentSize(d.type), d), Footer>>
         /\ d.type \in BufferTypes =>
              FlatFrame(d) = DynamicFrame(d.type, <<Content(d.size, d)>>)
         /\ d.type = "ArrayBufferWithSize" =>
              FlatFrame(d) = DynamicFrame(d.type, <<ShortCodeField(0)>> \o <<Content(d.size, d)>>)
<1>1. d.type \in ValidTypes  BY DEF IsFlat
<1>2. /\ DeclareHeader(d.type, -1).headerSize = DynamicHeaderSize <=> d.type \in DynamicTypes
      /\ d.type \notin DynamicTypes =>
           DeclareHeader(d.type, -1).contentSize = FixedContentSize(d.type)
  BY <1>1, Declares
<1>3. CASE d.type \notin DynamicTypes
  <2>1. d.type \notin BufferTypes /\ d.type # "ArrayBufferWithSize"
    BY <1>3 DEF DynamicTypes, BufferTypes
  <2>2. FlatContent(d) = <<Content(FixedContentSize(d.type), d)>>
    BY <1>2, <1>3, <2>1 DEF FlatContent
  <2>3. FlatFrame(d) = <<TypeField(d.type)>> \o <<>>
                         \o <<Content(FixedContentSize(d.type), d)>> \o <<Footer>>
    BY <1>2, <1>3, <2>2 DEF FlatFrame, Framed
  <2>4. FlatFrame(d) = <<TypeField(d.type), Content(FixedContentSize(d.type), d), Footer>>
    BY <2>3, ThreeInOne
  <2> QED  BY <1>3, <2>1, <2>3, <2>4
<1>4. CASE d.type \in BufferTypes
  <2>1. d.type \in DynamicTypes /\ d.type # "ArrayBufferWithSize"
    BY <1>4 DEF DynamicTypes, BufferTypes
  <2>2. FlatContent(d) = <<Content(d.size, d)>>  BY <2>1 DEF FlatContent
  <2> QED  BY <1>2, <2>1, <2>2 DEF FlatFrame, Framed, DynamicFrame
<1>5. CASE d.type = "ArrayBufferWithSize"
  <2>1. d.type \in DynamicTypes /\ d.type \notin BufferTypes
    BY <1>5 DEF DynamicTypes, BufferTypes
  <2>2. FlatContent(d) = <<ShortCodeField(0), Content(d.size, d)>>
    BY <1>5, <2>1 DEF FlatContent
  <2>3. <<ShortCodeField(0), Content(d.size, d)>>
          = <<ShortCodeField(0)>> \o <<Content(d.size, d)>>
    OBVIOUS
  <2> QED  BY <1>2, <1>5, <2>1, <2>2, <2>3 DEF FlatFrame, Framed, DynamicFrame
<1> QED
  <2>1. d.type \in DynamicTypes => d.type \in BufferTypes \/ d.type = "ArrayBufferWithSize"
    BY DEF IsFlat, DynamicTypes, BufferTypes
  <2> QED  BY <2>1, <1>3, <1>4, <1>5

(* A frame is fields. *)
LEMMA FlatFrameTyped ==
  ASSUME NEW d, IsFlat(d)
  PROVE  FlatFrame(d) \in Seq(Fields)
<1>1. d.type \in ValidTypes /\ d.size \in Nat /\ d \in Says  BY DEF IsFlat
<1>2. /\ <<TypeField(d.type)>> \in Seq(Fields) /\ <<Footer>> \in Seq(Fields)
      /\ <<Content(d.size, d)>> \in Seq(Fields) /\ <<ShortCodeField(0)>> \in Seq(Fields)
  BY <1>1, FieldsTyped
<1>3. ASSUME NEW c \in Seq(Fields) PROVE DynamicFrame(d.type, c) \in Seq(Fields)
  <2>1. Total(c) \in Nat  BY SizedFields, TotalIsNat
  <2>2. <<SizeField(Total(c))>> \in Seq(Fields)  BY <2>1, FieldsTyped
  <2> QED  BY <1>2, <2>2 DEF DynamicFrame
<1>4. CASE d.type \notin DynamicTypes
  <2>1. <<Content(FixedContentSize(d.type), d)>> \in Seq(Fields)
    BY <1>1, <1>4, Declares, FieldsTyped
  <2>2. FlatFrame(d) = <<TypeField(d.type), Content(FixedContentSize(d.type), d), Footer>>
    BY <1>4, FrameShapes
  <2>3. TypeField(d.type) \in Fields /\ Footer \in Fields
        /\ Content(FixedContentSize(d.type), d) \in Fields
    BY <1>2, <2>1
  <2> QED  BY <2>2, <2>3
<1>5. CASE d.type \in BufferTypes
  BY <1>2, <1>3, <1>5, FrameShapes
<1>6. CASE d.type = "ArrayBufferWithSize"
  <2>1. <<ShortCodeField(0)>> \o <<Content(d.size, d)>> \in Seq(Fields)  BY <1>2
  <2>2. FlatFrame(d) = DynamicFrame(d.type, <<ShortCodeField(0)>> \o <<Content(d.size, d)>>)
    BY <1>6, FrameShapes
  <2> QED  BY <1>3, <2>1, <2>2
<1> QED
  <2>1. d.type \in DynamicTypes => d.type \in BufferTypes \/ d.type = "ArrayBufferWithSize"
    BY DEF IsFlat, DynamicTypes, BufferTypes
  <2> QED  BY <2>1, <1>4, <1>5, <1>6

(* A packet of fixed size is one buffer. *)
LEMMA FixedWritten ==
  ASSUME NEW w, Counts(w), NEW d, IsFlat(d), d.type \notin DynamicTypes
  PROVE  Written(w, WriteFixedContent(w, d.type, d), FlatFrame(d))
<1> DEFINE block == <<TypeField(d.type), Content(FixedContentSize(d.type), d), Footer>>
<1>1. FlatFrame(d) = block /\ block \in Seq(Fields)  BY FrameShapes, FlatFrameTyped
<1>2. Counts(PushContext(w))  BY PushCounts
<1>3. Appended(PushContext(w), WriteBuffer(PushContext(w), block), block)
  BY <1>1, <1>2, WriteBufferAppends
<1>4. WriteFixedContent(w, d.type, d) = PopContext(WriteBuffer(PushContext(w), block))
  BY DEF WriteFixedContent
<1> QED  BY <1>1, <1>3, <1>4 DEF Written

(* A header of dynamic size is two buffers.                                *)
LEMMA HeaderWritten ==
  ASSUME NEW w, Counts(w), NEW type \in ValidTypes, NEW n \in Nat
  PROVE  Appended(w, WriteHeader(w, type, n), <<TypeField(type)>> \o <<SizeField(n)>>)
<1> DEFINE x == WriteBuffer(w, <<TypeField(type)>>)
<1>1. <<TypeField(type)>> \in Seq(Fields) /\ <<SizeField(n)>> \in Seq(Fields)
  BY FieldsTyped
<1>2. Appended(w, x, <<TypeField(type)>>)  BY <1>1, WriteBufferAppends
<1>3. Counts(x)  BY <1>2, AppendedCounts
<1> HIDE DEF x
<1>4. Appended(x, WriteBuffer(x, <<SizeField(n)>>), <<SizeField(n)>>)
  BY <1>1, <1>3, WriteBufferAppends
<1>5. Appended(w, WriteBuffer(x, <<SizeField(n)>>), <<TypeField(type)>> \o <<SizeField(n)>>)
  BY <1>1, <1>2, <1>4, AppendedTwice
<1> QED  BY <1>5 DEF x, WriteHeader

(* A frame of dynamic size whose content is written in any way. *)
LEMMA FramedWritten ==
  ASSUME NEW w, Counts(w), NEW type \in ValidTypes, NEW c \in Seq(Fields),
         NEW filled, Appended(WriteHeader(PushContext(w), type, Total(c)), filled, c)
  PROVE  Written(w, PopContext(WriteBuffer(filled, <<Footer>>)), DynamicFrame(type, c))
<1> DEFINE p == PushContext(w)
           headed == WriteHeader(p, type, Total(c))
           header == <<TypeField(type)>> \o <<SizeField(Total(c))>>
           y == WriteBuffer(filled, <<Footer>>)
<1>1. Counts(p)  BY PushCounts
<1>2. Total(c) \in Nat  BY SizedFields, TotalIsNat
<1>3. /\ <<Footer>> \in Seq(Fields)
      /\ <<TypeField(type)>> \in Seq(Fields) /\ <<SizeField(Total(c))>> \in Seq(Fields)
  BY <1>2, FieldsTyped
<1>4. header \in Seq(Fields)  BY <1>3
<1> HIDE DEF p
<1>5. Appended(p, headed, header)  BY <1>1, <1>2, HeaderWritten
<1>6. Appended(headed, filled, c)  BY DEF p
<1> HIDE DEF header, headed
<1>7. Appended(p, filled, header \o c)  BY <1>1, <1>4, <1>5, <1>6, AppendedTwice
<1>8. Counts(filled)  BY <1>7, AppendedCounts
<1>9. Appended(filled, y, <<Footer>>)  BY <1>3, <1>8, WriteBufferAppends
<1>10. header \o c \in Seq(Fields)  BY <1>4
<1> HIDE DEF y
<1>11. Appended(p, y, (header \o c) \o <<Footer>>)
  BY <1>1, <1>3, <1>7, <1>9, <1>10, AppendedTwice
<1>12. (header \o c) \o <<Footer>> = DynamicFrame(type, c)  BY DEF header, DynamicFrame
<1> QED  BY <1>11, <1>12 DEF Written, p, y

(* A content of one buffer. *)
LEMMA BufferWritten ==
  ASSUME NEW w, Counts(w), NEW d, IsFlat(d), d.type \in BufferTypes
  PROVE  Written(w, WriteDynamicBuffer(w, d.type, d.size, d), FlatFrame(d))
<1> DEFINE c == <<Content(d.size, d)>>
           headed == WriteHeader(PushContext(w), d.type, d.size)
           filled == WriteBuffer(headed, c)
<1>1. d.type \in ValidTypes /\ d.size \in Nat /\ d \in Says  BY DEF IsFlat
<1>2. c \in Seq(Fields)  BY <1>1, FieldsTyped
<1>3. Total(c) = d.size
  <2>1. Content(d.size, d) \in Fields  BY <1>2
  <2>2. Total(c) = Content(d.size, d).size  BY <2>1, SizedFields, TotalOne
  <2> QED  BY <2>2 DEF Content, Field
<1>4. Counts(PushContext(w))  BY PushCounts
<1>5. Counts(headed)  BY <1>1, <1>4, HeaderWritten, AppendedCounts
<1> HIDE DEF c
<1>6. Appended(headed, filled, c)  BY <1>2, <1>5, WriteBufferAppends
<1>7. Appended(WriteHeader(PushContext(w), d.type, Total(c)), filled, c)
  BY <1>3, <1>6
<1> HIDE DEF filled
<1>8. Written(w, PopContext(WriteBuffer(filled, <<Footer>>)), DynamicFrame(d.type, c))
  BY <1>1, <1>2, <1>7, FramedWritten
<1>9. FlatFrame(d) = DynamicFrame(d.type, c)  BY FrameShapes DEF c
<1> QED  BY <1>8, <1>9 DEF WriteDynamicBuffer, filled, c

(* A content that was written into a BufferListWriter. *)
LEMMA ContentWritten ==
  ASSUME NEW w, Counts(w), NEW type \in ValidTypes,
         NEW content, Counts(content), content.buffers # <<>>,
         NEW c, c = FlattenSeq(content.buffers)
  PROVE  /\ c \in Seq(Fields)
         /\ Written(w, WriteDynamicContent(w, type, content), DynamicFrame(type, c))
<1> DEFINE headed == WriteHeader(PushContext(w), type, Total(c))
           filled == Write(headed, content)
<1>1. content.length = Total(c) /\ content.buffers \in Buffers
  BY DEF Counts, Writer
<1>2. c \in Seq(Fields)
  <2>1. <<>> \in Seq(Fields)  OBVIOUS
  <2> QED  BY <1>1, <2>1, FlattenAppend DEF Buffers
<1>3. Total(c) \in Nat  BY <1>2, SizedFields, TotalIsNat
<1>4. Counts(PushContext(w))  BY PushCounts
<1>5. Counts(headed)  BY <1>3, <1>4, HeaderWritten, AppendedCounts
<1>6. Appended(headed, filled, c)  BY <1>5, WriteAppends
<1> HIDE DEF filled
<1>7. Written(w, PopContext(WriteBuffer(filled, <<Footer>>)), DynamicFrame(type, c))
  BY <1>2, <1>6, FramedWritten
<1> QED  BY <1>1, <1>2, <1>7 DEF WriteDynamicContent, filled

(* A packet put into a BufferListWriter is appended to it.                 *)
LEMMA ListWritten ==
  ASSUME NEW w, Counts(w), w.class = "BufferListWriter", NEW x, NEW f, Written(w, x, f)
  PROVE  Appended(w, x, f) /\ x.class = "BufferListWriter"
<1>1. PICK y : Appended(PushContext(w), y, f) /\ x = PopContext(y)  BY DEF Written
<1>2. PushContext(w) = w  BY DEF PushContext
<1>3. y.class = "BufferListWriter"  BY <1>1, <1>2 DEF Appended
<1>4. PopContext(y) = y  BY <1>3 DEF PopContext
<1> QED  BY <1>1, <1>2, <1>3, <1>4

(* A new BufferListWriter has nothing, and knows it.                       *)
LEMMA NewListCounts ==
  Counts(NewBufferListWriter) /\ NewBufferListWriter.class = "BufferListWriter"
    /\ NewBufferListWriter.buffers = <<>>
<1> DEFINE w == NewBufferListWriter
<1>1. w = [class |-> "BufferListWriter", bufferSize |-> 0, buffers |-> <<>>, length |-> 0,
           context |-> 0, socket |-> <<>>]
  BY DEF NewBufferListWriter, NewWriter
<1> HIDE DEF w
<1>2. <<>> \in Buffers  BY DEF Buffers
<1>3. w \in Writer  BY <1>1, <1>2 DEF Writer
<1>4. w.class = "BufferListWriter" /\ w.buffers = <<>> /\ w.length = 0  BY <1>1
<1>5. Counts(w)  BY <1>3, <1>4, FlattenNothing, TotalNothing DEF Counts
<1> QED  BY <1>4, <1>5 DEF w

(* What a BufferListWriter has after its first buffer.                     *)
LEMMA FirstBuffer ==
  ASSUME NEW fields \in Seq(Fields)
  PROVE  LET x == WriteBuffer(NewBufferListWriter, fields)
         IN /\ Counts(x) /\ x.class = "BufferListWriter" /\ x.buffers # <<>>
            /\ FlattenSeq(x.buffers) = fields
<1> DEFINE w == NewBufferListWriter
           x == WriteBuffer(w, fields)
<1>1. Counts(w) /\ w.class = "BufferListWriter" /\ w.buffers = <<>>  BY NewListCounts
<1> HIDE DEF w
<1>2. Appended(w, x, fields)  BY <1>1, WriteBufferAppends
<1> HIDE DEF x
<1>3. /\ Counts(x) /\ x.class = "BufferListWriter" /\ x.buffers # <<>>
      /\ FlattenSeq(x.buffers) = FlattenSeq(w.buffers) \o fields
  BY <1>1, <1>2 DEF Appended
<1>4. FlattenSeq(w.buffers) \o fields = fields
  <2>1. FlattenSeq(w.buffers) = <<>>  BY <1>1, FlattenNothing
  <2>2. <<>> \o fields = fields  OBVIOUS
  <2> QED  BY <2>1, <2>2
<1> QED  BY <1>3, <1>4 DEF x, w

(* A content of two buffers, the first a code of the second.               *)
LEMMA ArrayBufferWritten ==
  ASSUME NEW w, Counts(w), NEW d, IsFlat(d), d.type = "ArrayBufferWithSize"
  PROVE  Written(w, WriteArrayBuffer(w, 0, d.size, d), FlatFrame(d))
<1> DEFINE code == <<ShortCodeField(0)>>
           bytes == <<Content(d.size, d)>>
           coded == WriteBuffer(NewBufferListWriter, code)
           content == WriteBuffer(coded, bytes)
<1>1. d.type \in ValidTypes /\ d.size \in Nat /\ d \in Says  BY DEF IsFlat
<1>2. code \in Seq(Fields) /\ bytes \in Seq(Fields)  BY <1>1, FieldsTyped
<1>3. FlatFrame(d) = DynamicFrame(d.type, code \o bytes)  BY FrameShapes
<1>4. WriteArrayBuffer(w, 0, d.size, d)
        = WriteDynamicContent(w, "ArrayBufferWithSize", content)
  BY DEF WriteArrayBuffer
<1> HIDE DEF code, bytes
<1>5. /\ Counts(coded) /\ coded.class = "BufferListWriter" /\ coded.buffers # <<>>
      /\ FlattenSeq(coded.buffers) = code
  BY <1>2, FirstBuffer
<1> HIDE DEF coded
<1>6. Appended(coded, content, bytes)  BY <1>2, <1>5, WriteBufferAppends
<1> HIDE DEF content
<1>7. /\ Counts(content) /\ content.buffers # <<>>
      /\ FlattenSeq(content.buffers) = code \o bytes
  BY <1>5, <1>6 DEF Appended
<1>8. Written(w, WriteDynamicContent(w, d.type, content), DynamicFrame(d.type, code \o bytes))
  BY <1>1, <1>7, ContentWritten
<1> QED  BY <1>3, <1>4, <1>8

(* Whatever type it has, a flat datum is written as its frame. *)
LEMMA FlatWritten ==
  ASSUME NEW w, Counts(w), NEW d, IsFlat(d)
  PROVE  Written(w, WriteFlat(w, d), FlatFrame(d))
<1>1. CASE d.type \in BufferTypes
  <2>1. WriteFlat(w, d) = WriteDynamicBuffer(w, d.type, d.size, d)
    BY <1>1 DEF WriteFlat, BufferTypes
  <2> QED  BY <1>1, <2>1, BufferWritten
<1>2. CASE d.type = "ArrayBufferWithSize"
  <2>1. WriteFlat(w, d) = WriteArrayBuffer(w, 0, d.size, d)
    BY <1>2 DEF WriteFlat, BufferTypes
  <2> QED  BY <1>2, <2>1, ArrayBufferWritten
<1>3. CASE d.type \notin DynamicTypes
  <2>1. d.type \notin BufferTypes /\ d.type # "ArrayBufferWithSize"
    BY <1>3 DEF DynamicTypes, BufferTypes
  <2>2. WriteFlat(w, d) = WriteFixedContent(w, d.type, d)
    BY <2>1 DEF WriteFlat
  <2> QED  BY <1>3, <2>2, FixedWritten
<1> QED
  <2>1. d.type \in DynamicTypes => d.type \in BufferTypes \/ d.type = "ArrayBufferWithSize"
    BY DEF IsFlat, DynamicTypes, BufferTypes
  <2> QED  BY <2>1, <1>1, <1>2, <1>3

(***************************************************************************)
(* Arrays                                                                  *)
(***************************************************************************)

(* The elements are written one after another: for each set of places, the *)
(* element at the last of them comes last.                                 *)
Writes(g, base, es, n) ==
  g = [t \in SUBSET (1 .. n) |-> IF t = {} THEN base
                                 ELSE WriteFlat(g[t \ {Max(t)}], es[Max(t)])]

(* If the first elements can be written, so can one more.                  *)
LEMMA WritesOneMore ==
  ASSUME NEW base, NEW es, NEW n \in Nat, NEW g, Writes(g, base, es, n)
  PROVE  \E h : Writes(h, base, es, n + 1)
<1> DEFINE h == [t \in SUBSET (1 .. n + 1) |->
                   IF n + 1 \in t THEN WriteFlat(g[t \ {n + 1}], es[n + 1]) ELSE g[t]]
           Value(t) == IF t = {} THEN base ELSE WriteFlat(h[t \ {Max(t)}], es[Max(t)])
<1>1. \A t \in SUBSET (1 .. n) :
        g[t] = IF t = {} THEN base ELSE WriteFlat(g[t \ {Max(t)}], es[Max(t)])
  BY DEF Writes
<1>2. \A t \in SUBSET (1 .. n) : h[t] = g[t]
  <2>1. \A t \in SUBSET (1 .. n) : t \in SUBSET (1 .. n + 1) /\ n + 1 \notin t  OBVIOUS
  <2> QED  BY <2>1
<1>3. ASSUME NEW t \in SUBSET (1 .. n + 1) PROVE h[t] = Value(t)
  <2>1. CASE n + 1 \in t
    <3>1. Max(t) \in t /\ \A y \in t : y <= Max(t)
      <4>1. n + 1 \in Nat /\ t # {}  BY <2>1
      <4> QED  BY <4>1, MaxIsGreatest
    <3>2. Max(t) = n + 1
      <4>1. Max(t) \in 1 .. n + 1 /\ n + 1 <= Max(t)  BY <2>1, <3>1
      <4> QED  BY <4>1
    <3>3. t \ {n + 1} \in SUBSET (1 .. n)  OBVIOUS
    <3>4. h[t] = WriteFlat(g[t \ {n + 1}], es[n + 1])  BY <2>1
    <3>5. h[t \ {n + 1}] = g[t \ {n + 1}]  BY <1>2, <3>3
    <3>6. t # {}  BY <2>1
    <3> HIDE DEF h
    <3> QED  BY <3>2, <3>4, <3>5, <3>6
  <2>2. CASE n + 1 \notin t
    <3>1. t \in SUBSET (1 .. n)  BY <2>2
    <3>2. h[t] = g[t]  BY <1>2, <3>1
    <3>3. CASE t = {}  BY <1>1, <3>1, <3>2, <3>3
    <3>4. CASE t # {}
      <4>1. t \ {Max(t)} \in SUBSET (1 .. n)  BY <3>1
      <4>2. h[t \ {Max(t)}] = g[t \ {Max(t)}]  BY <1>2, <4>1
      <4> HIDE DEF h
      <4> QED  BY <1>1, <3>1, <3>2, <3>4, <4>2
    <3> QED  BY <3>3, <3>4
  <2> QED  BY <2>1, <2>2
<1>4. h = [t \in SUBSET (1 .. n + 1) |-> h[t]]  OBVIOUS
<1> HIDE DEF h
<1>5. h = [t \in SUBSET (1 .. n + 1) |-> Value(t)]  BY <1>3, <1>4
<1>6. Writes(h, base, es, n + 1)  BY <1>5 DEF Writes
<1> QED  BY <1>6

(* The writer of the elements, after each of them. *)
LEMMA WriteSteps ==
  ASSUME NEW base, NEW T, NEW es \in Seq(T)
  PROVE  \E f : /\ f[0] = base
                /\ \A k \in 1 .. Len(es) : f[k] = WriteFlat(f[k - 1], es[k])
                /\ WriteElements(base, es) = f[Len(es)]
<1> DEFINE N == Len(es)
<1>1. N \in Nat /\ DOMAIN es = 1 .. N  OBVIOUS
<1>2. \E g : Writes(g, base, es, N)
  <2> DEFINE S == {n \in 0 .. N : \E g : Writes(g, base, es, n)}
  <2>1. 0 \in S
    <3> DEFINE none == [t \in SUBSET (1 .. 0) |-> base]
    <3>1. \A t \in SUBSET (1 .. 0) : t = {}  OBVIOUS
    <3>2. Writes(none, base, es, 0)  BY <3>1 DEF Writes
    <3> QED  BY <1>1, <3>2
  <2>2. ASSUME NEW n \in 0 .. N - 1, n \in S PROVE n + 1 \in S
    <3>1. PICK g : Writes(g, base, es, n)  BY <2>2
    <3>2. n \in Nat  OBVIOUS
    <3>3. \E h : Writes(h, base, es, n + 1)  BY <3>1, <3>2, WritesOneMore
    <3> QED  BY <1>1, <3>3
  <2> HIDE DEF S
  <2>3. 0 .. N \subseteq S  BY <1>1, <2>1, <2>2, IntervalInduction
  <2> QED  BY <1>1, <2>3 DEF S
<1> DEFINE g == CHOOSE g : g = [t \in SUBSET DOMAIN es |->
                                  IF t = {} THEN base
                                  ELSE WriteFlat(g[t \ {Max(t)}], es[Max(t)])]
<1>3. WriteElements(base, es) = g[DOMAIN es]  BY DEF WriteElements, FoldLeft, MapThenFoldSet
<1>4. Writes(g, base, es, N)  BY <1>1, <1>2 DEF Writes
<1> HIDE DEF g
<1>5. \A t \in SUBSET (1 .. N) :
        g[t] = IF t = {} THEN base ELSE WriteFlat(g[t \ {Max(t)}], es[Max(t)])
  BY <1>4 DEF Writes
<1> DEFINE f == [k \in 0 .. N |-> g[1 .. k]]
<1>6. f[0] = base
  <2>1. 1 .. 0 = {} /\ 0 \in 0 .. N  BY <1>1
  <2> QED  BY <1>5, <2>1
<1>7. ASSUME NEW k \in 1 .. N PROVE f[k] = WriteFlat(f[k - 1], es[k])
  <2>1. Max(1 .. k) = k /\ (1 .. k) \ {Max(1 .. k)} = 1 .. k - 1
    BY MaxOfInterval
  <2>2. 1 .. k \in SUBSET (1 .. N) /\ 1 .. k # {}  BY <1>1
  <2>3. g[1 .. k] = WriteFlat(g[(1 .. k) \ {Max(1 .. k)}], es[Max(1 .. k)])
    BY <1>5, <2>2
  <2>4. g[1 .. k] = WriteFlat(g[1 .. k - 1], es[k])  BY <2>1, <2>3
  <2>5. k \in 0 .. N /\ k - 1 \in 0 .. N  BY <1>1
  <2> QED  BY <2>4, <2>5
<1>8. WriteElements(base, es) = f[N]  BY <1>1, <1>3
<1> HIDE DEF f
<1> QED  BY <1>6, <1>7, <1>8

(* One list more, of lists given by their places. *)
LEMMA ListsAppend ==
  ASSUME NEW T, NEW f \in Seq(T), NEW e \in T, NEW h \in Seq(T),
         Len(h) = Len(f) + 1, \A i \in 1 .. Len(f) : h[i] = f[i], h[Len(f) + 1] = e
  PROVE  h = Append(f, e)
<1>1. Append(f, e) \in Seq(T) /\ Len(Append(f, e)) = Len(h)
      /\ Append(f, e)[Len(f) + 1] = e /\ \A i \in 1 .. Len(f) : Append(f, e)[i] = f[i]
  OBVIOUS
<1>2. \A i \in 1 .. Len(h) : h[i] = Append(f, e)[i]
  <2>1. \A i \in 1 .. Len(h) : i \in 1 .. Len(f) \/ i = Len(f) + 1  OBVIOUS
  <2> QED  BY <1>1, <2>1
<1> QED  BY <1>1, <1>2, SeqEqual

(* The elements of an array are their frames, after their count. *)
LEMMA ElementsWritten ==
  ASSUME NEW es \in Seq(Elements)
  PROVE  LET x == WriteElements(NewArrayContent(Len(es)), es)
             frames == [k \in 1 .. Len(es) |-> FlatFrame(es[k])]
         IN /\ frames \in Seq(Seq(Fields))
            /\ Counts(x) /\ x.buffers # <<>>
            /\ FlattenSeq(x.buffers) = <<CountField(Len(es))>> \o FlattenSeq(frames)
<1> DEFINE N == Len(es)
           x == WriteElements(NewArrayContent(N), es)
           count == <<CountField(N)>>
           F(n) == [k \in 1 .. n |-> FlatFrame(es[k])]
           Good(w, n) == /\ Counts(w) /\ w.class = "BufferListWriter" /\ w.buffers # <<>>
                         /\ FlattenSeq(w.buffers) = count \o FlattenSeq(F(n))
<1>1. N \in Nat /\ \A k \in 1 .. N : es[k] \in Elements  OBVIOUS
<1>2. count \in Seq(Fields)  BY <1>1, FieldsTyped
<1>3. \A k \in 1 .. N : IsFlat(es[k]) /\ FlatFrame(es[k]) \in Seq(Fields)
  <2>1. \A k \in 1 .. N : IsFlat(es[k])  BY <1>1 DEF IsFlat, Elements, Says
  <2> QED  BY <2>1, FlatFrameTyped
<1>4. PICK f : /\ f[0] = NewArrayContent(N)
               /\ \A k \in 1 .. N : f[k] = WriteFlat(f[k - 1], es[k])
               /\ x = f[N]
  BY WriteSteps
<1>5. \A n \in 0 .. N : F(n) \in [1 .. n -> Seq(Fields)] /\ F(n) \in Seq(Seq(Fields))
  <2>1. \A n \in 0 .. N : F(n) \in [1 .. n -> Seq(Fields)]  BY <1>1, <1>3
  <2> QED  BY <1>1, <2>1
<1>6. Good(f[0], 0)
  <2>1. f[0] = WriteBuffer(NewBufferListWriter, count)  BY <1>4 DEF NewArrayContent
  <2>2. F(0) = <<>>  OBVIOUS
  <2>3. count \o <<>> = count  BY <1>2
  <2>4. count \o FlattenSeq(F(0)) = count  BY <2>2, <2>3, FlattenNothing
  <2> HIDE DEF F
  <2> QED  BY <1>2, <2>1, <2>4, FirstBuffer
<1>7. ASSUME NEW n \in 0 .. N - 1, Good(f[n], n) PROVE Good(f[n + 1], n + 1)
  <2> DEFINE e == FlatFrame(es[n + 1])
  <2>1. n \in Nat /\ n + 1 \in 1 .. N /\ (n + 1) - 1 = n /\ n \in 0 .. N  BY <1>1
  <2>2. f[n + 1] = WriteFlat(f[n], es[n + 1])  BY <1>4, <2>1
  <2>3. IsFlat(es[n + 1]) /\ e \in Seq(Fields)  BY <1>3, <2>1
  <2>4. Written(f[n], f[n + 1], e)  BY <1>7, <2>2, <2>3, FlatWritten
  <2>5. Appended(f[n], f[n + 1], e) /\ f[n + 1].class = "BufferListWriter"
    BY <1>7, <2>4, ListWritten
  <2>6. F(n + 1) = Append(F(n), e)
    <3>1. /\ \A i \in 1 .. n : F(n + 1)[i] = F(n)[i]
          /\ F(n + 1)[n + 1] = e
      BY <2>1
    <3>2. /\ F(n) \in Seq(Seq(Fields)) /\ F(n + 1) \in Seq(Seq(Fields))
          /\ Len(F(n)) = n /\ Len(F(n + 1)) = n + 1
      BY <1>1, <1>5, <2>1
    <3> HIDE DEF F, e
    <3> QED  BY <2>3, <3>1, <3>2, ListsAppend
  <2>7. F(n) \in Seq(Seq(Fields))  BY <1>5, <2>1
  <2> HIDE DEF F, e
  <2>8. FlattenSeq(F(n + 1)) = FlattenSeq(F(n)) \o e /\ FlattenSeq(F(n)) \in Seq(Fields)
    BY <2>3, <2>6, <2>7, FlattenAppend
  <2>9. FlattenSeq(f[n + 1].buffers) = (count \o FlattenSeq(F(n))) \o e
    BY <1>7, <2>5 DEF Appended
  <2> HIDE DEF count
  <2>10. (count \o FlattenSeq(F(n))) \o e = count \o (FlattenSeq(F(n)) \o e)
    BY <1>2, <2>3, <2>8, Associates, SMTT(30)
  <2>11. Counts(f[n + 1]) /\ f[n + 1].buffers # <<>>
    BY <1>7, <2>5 DEF Appended
  <2> QED  BY <2>5, <2>8, <2>9, <2>10, <2>11
<1> DEFINE S == {n \in 0 .. N : Good(f[n], n)}
<1> HIDE DEF Good
<1>8. 0 \in S  BY <1>1, <1>6
<1>9. ASSUME NEW n \in 0 .. N - 1, n \in S PROVE n + 1 \in S
  BY <1>1, <1>7, <1>9
<1> HIDE DEF S
<1>10. 0 .. N \subseteq S  BY <1>1, <1>8, <1>9, IntervalInduction
<1>11. Good(f[N], N)  BY <1>1, <1>10 DEF S
<1>12. Good(x, N)  BY <1>4, <1>11
<1>13. F(N) \in Seq(Seq(Fields))  BY <1>1, <1>5
<1> HIDE DEF x
<1> QED  BY <1>12, <1>13 DEF Good, x

(* What the program serializes is written as its frame. *)
LEMMA DataWritten ==
  ASSUME NEW w, Counts(w), NEW d \in Data
  PROVE  Written(w, WriteData(w, d), Frame(d)) /\ Frame(d) \in Seq(Fields)
<1>1. d.type \in ValidTypes /\ d.size \in Nat /\ d.elements \in Seq(Elements)
  BY WriterAssumption DEF Elements
<1>2. CASE d.type # "ArrayWithSize"
  <2>1. IsFlat(d)  BY <1>1, <1>2 DEF IsFlat, Says
  <2>2. WriteData(w, d) = WriteFlat(w, d) /\ Frame(d) = FlatFrame(d)
    BY <1>2 DEF WriteData, Frame
  <2> QED  BY <2>1, <2>2, FlatWritten, FlatFrameTyped
<1>3. CASE d.type = "ArrayWithSize"
  <2> DEFINE es == d.elements
             content == WriteElements(NewArrayContent(Len(es)), es)
             c == <<CountField(Len(es))>>
                    \o FlattenSeq([k \in 1 .. Len(es) |-> FlatFrame(es[k])])
  <2>1. /\ Counts(content) /\ content.buffers # <<>>
        /\ FlattenSeq(content.buffers) = c
    BY <1>1, ElementsWritten
  <2>2. WriteData(w, d) = WriteDynamicContent(w, d.type, content)
    BY <1>3 DEF WriteData, WriteArray
  <2>3. Frame(d) = DynamicFrame(d.type, c)
    <3>1. DeclareHeader(d.type, -1).headerSize = DynamicHeaderSize
      BY <1>1, <1>3, Declares DEF DynamicTypes
    <3>2. Frame(d) = Framed(d, c)  BY <1>3 DEF Frame
    <3> HIDE DEF c
    <3> QED  BY <3>1, <3>2 DEF Framed, DynamicFrame
  <2> HIDE DEF content, c
  <2>4. c \in Seq(Fields) /\ Written(w, WriteDynamicContent(w, d.type, content),
                                     DynamicFrame(d.type, c))
    BY <1>1, <2>1, ContentWritten
  <2>5. DynamicFrame(d.type, c) \in Seq(Fields)
    <3>1. Total(c) \in Nat  BY <2>4, SizedFields, TotalIsNat
    <3>2. /\ <<TypeField(d.type)>> \in Seq(Fields) /\ <<Footer>> \in Seq(Fields)
          /\ <<SizeField(Total(c))>> \in Seq(Fields)
      BY <1>1, <3>1, FieldsTyped
    <3> QED  BY <2>4, <3>2 DEF DynamicFrame
  <2> QED  BY <2>2, <2>3, <2>4, <2>5
<1> QED  BY <1>2, <1>3

(* The frames of one packet more. *)
LEMMA FramesAppend ==
  ASSUME NEW p \in Seq(Data), NEW d \in Data
  PROVE  /\ Frames(p) \in Seq(Fields)
         /\ Frames(Append(p, d)) = Frames(p) \o Frame(d)
<1> DEFINE N == Len(p)
           q == Append(p, d)
           before == [k \in 1 .. N |-> Frame(p[k])]
           after == [k \in 1 .. N + 1 |-> Frame(q[k])]
<1>1. /\ N \in Nat /\ Len(q) = N + 1 /\ q[N + 1] = d
      /\ \A k \in 1 .. N : q[k] = p[k] /\ p[k] \in Data
      /\ \A k \in 1 .. N + 1 : q[k] \in Data
  OBVIOUS
<1>2. \A e \in Data : Frame(e) \in Seq(Fields)
  BY NewListCounts, DataWritten
<1> HIDE DEF N, q
<1>3. /\ before \in Seq(Seq(Fields)) /\ Len(before) = N
      /\ after \in Seq(Seq(Fields)) /\ Len(after) = N + 1
  BY <1>1, <1>2
<1>4. (\A i \in 1 .. N : after[i] = before[i]) /\ after[N + 1] = Frame(d)
  <2>1. N + 1 \in 1 .. N + 1 /\ \A i \in 1 .. N : i \in 1 .. N + 1  BY <1>1
  <2> QED  BY <1>1, <2>1
<1>5. Frames(p) = FlattenSeq(before) /\ Frames(q) = FlattenSeq(after)
  BY <1>1 DEF Frames, N
<1> HIDE DEF before, after
<1>6. Frame(d) \in Seq(Fields)  BY <1>2
<1>7. after = Append(before, Frame(d))
  BY <1>3, <1>4, <1>6, ListsAppend
<1>8. FlattenSeq(before) \in Seq(Fields)
      /\ FlattenSeq(after) = FlattenSeq(before) \o Frame(d)
  BY <1>3, <1>6, <1>7, FlattenAppend
<1> QED  BY <1>5, <1>8 DEF q

(***************************************************************************)
(* The inductive invariant                                                 *)
(***************************************************************************)

(* The writer knows the length of what it keeps.                           *)
WriterCounts ==
  /\ Counts(writer)
  /\ writer.class \in SocketWriters
  /\ writer.bufferSize = BufferSize

(* The program's packets and contexts are within bounds.                   *)
ProgramTypes ==
  /\ depth \in 0 .. MaxContexts
  /\ written \in Seq(Data)
  /\ Len(written) <= MaxPackets
  /\ waiting \in 0 .. Len(written)

(* BufferedSocketWriter counts the contexts, the others do not.            *)
ContextIsDepth ==
  writer.context = IF writer.class = "BufferedSocketWriter" THEN depth ELSE 0

(* Buffers wait in a context of BufferedSocketWriter below its size, and   *)
(* nowhere else.                                                           *)
WaitsInContext ==
  /\ writer.class = "DelayedSocketWriter" => writer.buffers = <<>>
  /\ writer.class = "BufferedSocketWriter" =>
       writer.buffers = <<>> \/ (depth # 0 /\ writer.length < BufferSize)

(* What was sent and what waits are the frames in order, and what waits is *)
(* those of the last packets.                                              *)
FramesInOrder ==
  /\ FlattenSeq(writer.socket) \o FlattenSeq(writer.buffers) = Frames(written)
  /\ FlattenSeq(writer.socket) = Frames(SubSeq(written, 1, Len(written) - waiting))
  /\ writer.buffers = <<>> => waiting = 0

IInv == WriterCounts /\ ProgramTypes /\ ContextIsDepth /\ WaitsInContext /\ FramesInOrder

(* A sound writer's lists, put together or not, are lists of fields.       *)
LEMMA ListsTyped ==
  ASSUME NEW w, Counts(w)
  PROVE  /\ w.buffers \in Buffers /\ w.socket \in Buffers
         /\ FlattenSeq(w.buffers) \in Seq(Fields) /\ FlattenSeq(w.socket) \in Seq(Fields)
         /\ FlattenSeq(w.socket) \o <<>> = FlattenSeq(w.socket)
<1>1. w.buffers \in Buffers /\ w.socket \in Buffers  BY DEF Counts, Writer
<1>2. <<>> \in Seq(Fields)  OBVIOUS
<1>3. FlattenSeq(w.buffers) \in Seq(Fields) /\ FlattenSeq(w.socket) \in Seq(Fields)
  BY <1>1, <1>2, FlattenAppend DEF Buffers
<1>4. FlattenSeq(w.socket) \o <<>> = FlattenSeq(w.socket)  BY <1>3
<1> QED  BY <1>1, <1>3, <1>4

(* The frames of no packet, and of packets that are fields.                *)
LEMMA FramesNothing == Frames(<<>>) = <<>>
BY FlattenNothing DEF Frames

(* The getter of the buffer keeps what waits, in one piece. *)
LEMMA MergeCounts ==
  ASSUME NEW w, Counts(w)
  PROVE  LET x == MergeBuffers(w)
         IN /\ Counts(x)
            /\ x.class = w.class /\ x.bufferSize = w.bufferSize
            /\ x.context = w.context /\ x.length = w.length /\ x.socket = w.socket
            /\ FlattenSeq(x.buffers) = FlattenSeq(w.buffers)
            /\ x.buffers = <<>> <=> w.buffers = <<>>
<1> DEFINE x == MergeBuffers(w)
           one == FlattenSeq(w.buffers)
<1>1. w \in Writer  BY DEF Counts
<1>2. w.buffers \in Buffers /\ one \in Seq(Fields)  BY ListsTyped
<1>3. CASE Len(w.buffers) > 1
  <2>1. x = [w EXCEPT !.buffers = <<one>>]  BY <1>3 DEF MergeBuffers
  <2>2. <<one>> \in Buffers  BY <1>2 DEF Buffers
  <2>3. w.buffers # <<>>  BY <1>3
  <2>4. FlattenSeq(<<one>>) = one /\ <<one>> # <<>>
    <3> HIDE DEF one
    <3> QED  BY <1>2, FlattenOne
  <2> HIDE DEF x
  <2>5. x \in Writer
    <3> HIDE DEF one
    <3> QED  BY <1>1, <2>1, <2>2 DEF Writer
  <2>6. /\ x.class = w.class /\ x.bufferSize = w.bufferSize /\ x.context = w.context
        /\ x.length = w.length /\ x.socket = w.socket /\ x.buffers = <<one>>
    <3> HIDE DEF one
    <3> QED  BY <1>1, <2>1 DEF Writer
  <2>7. Counts(x)  BY <2>3, <2>4, <2>5, <2>6 DEF Counts
  <2> QED  BY <2>3, <2>4, <2>6, <2>7 DEF x
<1>4. CASE ~(Len(w.buffers) > 1)
  <2>1. MergeBuffers(w) = w  BY <1>4 DEF MergeBuffers
  <2> QED  BY <2>1
<1> QED  BY <1>3, <1>4

(* What reset leaves: SocketWriter as it is, the others with nothing.      *)
LEMMA ResetCounts ==
  ASSUME NEW w, Counts(w)
  PROVE  LET x == ResetWriter(w)
         IN /\ Counts(x)
            /\ x.class = w.class /\ x.bufferSize = w.bufferSize
            /\ x.context = w.context /\ x.socket = w.socket
            /\ x.buffers = <<>>
<1> DEFINE x == ResetWriter(w)
<1>1. w \in Writer  BY DEF Counts
<1>2. CASE w.class = "SocketWriter"
  <2>1. ResetWriter(w) = w  BY <1>2 DEF ResetWriter
  <2> QED  BY <1>2, <2>1 DEF Counts
<1>3. CASE w.class # "SocketWriter"
  <2>1. x = [w EXCEPT !.buffers = <<>>, !.length = 0]  BY <1>3 DEF ResetWriter
  <2>2. <<>> \in Buffers  BY DEF Buffers
  <2> HIDE DEF x
  <2>3. x \in Writer  BY <1>1, <2>1, <2>2 DEF Writer
  <2>4. /\ x.class = w.class /\ x.bufferSize = w.bufferSize /\ x.context = w.context
        /\ x.length = 0 /\ x.socket = w.socket /\ x.buffers = <<>>
    BY <1>1, <2>1 DEF Writer
  <2>5. Counts(x)  BY <2>3, <2>4, FlattenNothing, TotalNothing DEF Counts
  <2> QED  BY <2>4, <2>5 DEF x
<1> QED  BY <1>2, <1>3

(* Nothing has been written with a new writer. *)
LEMMA InitInv == Init => IInv
<1> SUFFICES ASSUME Init PROVE IInv  OBVIOUS
<1>1. PICK class \in SocketWriters : writer = NewWriter(class, BufferSize)  BY DEF Init
<1>2. depth = 0 /\ written = <<>> /\ waiting = 0  BY DEF Init
<1>3. writer = [class |-> class, bufferSize |-> BufferSize, buffers |-> <<>>, length |-> 0,
                context |-> 0, socket |-> <<>>]
  BY <1>1 DEF NewWriter
<1>4. BufferSize \in Nat /\ MaxPackets \in Nat /\ MaxContexts \in Nat  BY WriterAssumption
<1>5. <<>> \in Buffers  BY DEF Buffers
<1>6. writer \in Writer  BY <1>3, <1>4, <1>5 DEF Writer
<1>7. /\ writer.class = class /\ writer.bufferSize = BufferSize /\ writer.buffers = <<>>
      /\ writer.length = 0 /\ writer.context = 0 /\ writer.socket = <<>>
  BY <1>3
<1>8. WriterCounts
  BY <1>6, <1>7, FlattenNothing, TotalNothing DEF WriterCounts, Counts
<1>9. ProgramTypes  BY <1>2, <1>4 DEF ProgramTypes
<1>10. ContextIsDepth /\ WaitsInContext
  BY <1>2, <1>7 DEF ContextIsDepth, WaitsInContext
<1>11. FramesInOrder
  <2>1. SubSeq(written, 1, Len(written) - waiting) = <<>>  BY <1>2
  <2>2. <<>> \o <<>> = <<>>  OBVIOUS
  <2> QED  BY <1>2, <1>7, <2>1, <2>2, FlattenNothing, FramesNothing DEF FramesInOrder
<1> QED  BY <1>8, <1>9, <1>10, <1>11 DEF IInv

(* When nothing waits, all the packets are on the socket. *)
LEMMA NothingWaits ==
  ASSUME NEW w, Counts(w), w.buffers = <<>>, NEW p \in Seq(Data),
         FlattenSeq(w.socket) \o FlattenSeq(w.buffers) = Frames(p)
  PROVE  FlattenSeq(w.socket) = Frames(SubSeq(p, 1, Len(p) - 0))
<1>1. FlattenSeq(w.buffers) = <<>>  BY FlattenNothing
<1>2. FlattenSeq(w.socket) \o <<>> = FlattenSeq(w.socket)  BY ListsTyped
<1>3. SubSeq(p, 1, Len(p) - 0) = p  OBVIOUS
<1> QED  BY <1>1, <1>2, <1>3

(* What the invariant says, in the terms of the lemmas. *)
LEMMA InvFacts ==
  ASSUME IInv
  PROVE  /\ Counts(writer) /\ writer.class \in SocketWriters
         /\ writer.class = "SocketWriter" => writer.buffers = <<>>
         /\ depth \in Nat /\ MaxContexts \in Nat /\ MaxPackets \in Nat
         /\ written \in Seq(Data) /\ Len(written) \in Nat
         /\ waiting \in 0 .. Len(written)
BY WriterAssumption DEF IInv, WriterCounts, ProgramTypes, Counts

(* A packet is sent, or waits with those of its context. *)
LEMMA SerializePacketStep ==
  ASSUME IInv, NEW d \in Data, SerializePacket(d)
  PROVE  IInv'
<1> DEFINE p == PushContext(writer)
<1>1. /\ Counts(writer) /\ writer.class \in SocketWriters
      /\ writer.class = "SocketWriter" => writer.buffers = <<>>
      /\ depth \in Nat /\ written \in Seq(Data) /\ Len(written) \in Nat
      /\ waiting \in 0 .. Len(written) /\ MaxPackets \in Nat
  BY InvFacts
<1>2. /\ Len(written) < MaxPackets
      /\ writer' = WriteData(writer, d)
      /\ written' = Append(written, d)
      /\ waiting' = IF writer'.buffers = <<>> THEN 0 ELSE waiting + 1
      /\ depth' = depth
  BY DEF SerializePacket, CountWaiting
<1>3. Written(writer, writer', Frame(d)) /\ Frame(d) \in Seq(Fields)
  BY <1>1, <1>2, DataWritten
<1>4. /\ Counts(p)
      /\ p.class = writer.class /\ p.bufferSize = writer.bufferSize
      /\ p.buffers = writer.buffers /\ p.length = writer.length /\ p.socket = writer.socket
      /\ p.context = IF writer.class = "BufferedSocketWriter" THEN writer.context + 1
                     ELSE writer.context
  BY <1>1, PushCounts
<1>5. PICK y : Appended(p, y, Frame(d)) /\ writer' = PopContext(y)
  BY <1>3 DEF Written
<1> HIDE DEF p
<1>6. /\ Counts(y) /\ y.class = writer.class /\ y.bufferSize = writer.bufferSize
      /\ y.context = p.context
  BY <1>4, <1>5 DEF Appended
<1>7. /\ Counts(writer')
      /\ writer'.class = y.class /\ writer'.bufferSize = y.bufferSize
      /\ writer'.context = IF y.class = "BufferedSocketWriter" THEN y.context - 1
                           ELSE y.context
      /\ FlattenSeq(writer'.socket) \o FlattenSeq(writer'.buffers)
           = FlattenSeq(y.socket) \o FlattenSeq(y.buffers)
      /\ writer'.buffers = <<>> \/ (writer'.buffers = y.buffers /\ writer'.socket = y.socket)
      /\ y.class = "DelayedSocketWriter" => writer'.buffers = <<>>
      /\ y.class = "BufferedSocketWriter" =>
           writer'.buffers = <<>> \/ (writer'.context # 0
                                       /\ writer'.length < writer'.bufferSize)
  BY <1>1, <1>5, <1>6, PopCounts
<1>8. writer.bufferSize = BufferSize /\ FlattenSeq(writer.socket) \in Seq(Fields)
      /\ FlattenSeq(writer.buffers) \in Seq(Fields)
  BY <1>1, ListsTyped DEF IInv, WriterCounts
<1>9. FlattenSeq(y.socket) \o FlattenSeq(y.buffers) = Frames(written) \o Frame(d)
  <2>1. FlattenSeq(writer.socket) \o FlattenSeq(writer.buffers) = Frames(written)
    BY DEF IInv, FramesInOrder
  <2>2. CASE writer.class = "SocketWriter"
    <3>1. y.buffers = <<>> /\ FlattenSeq(y.socket) = FlattenSeq(writer.socket) \o Frame(d)
      BY <1>1, <1>4, <1>5, <2>2 DEF Appended
    <3>2. FlattenSeq(y.socket) \o FlattenSeq(y.buffers) = FlattenSeq(y.socket)
      BY <1>6, <3>1, ListsTyped, FlattenNothing
    <3>3. FlattenSeq(writer.socket) = Frames(written)
      BY <1>1, <2>1, <2>2, ListsTyped, FlattenNothing
    <3> QED  BY <3>1, <3>2, <3>3
  <2>3. CASE writer.class # "SocketWriter"
    <3>1. /\ y.socket = writer.socket
          /\ FlattenSeq(y.buffers) = FlattenSeq(writer.buffers) \o Frame(d)
      BY <1>4, <1>5, <2>3 DEF Appended
    <3>2. FlattenSeq(writer.socket) \o (FlattenSeq(writer.buffers) \o Frame(d))
            = (FlattenSeq(writer.socket) \o FlattenSeq(writer.buffers)) \o Frame(d)
      BY <1>3, <1>8, Associates, SMTT(30)
    <3> QED  BY <2>1, <3>1, <3>2
  <2> QED  BY <2>2, <2>3
<1>10. FlattenSeq(writer'.socket) \o FlattenSeq(writer'.buffers) = Frames(written')
  BY <1>1, <1>2, <1>7, <1>9, FramesAppend
<1>11. written' \in Seq(Data) /\ Len(written') = Len(written) + 1
  BY <1>1, <1>2
<1>12. WriterCounts'  BY <1>1, <1>6, <1>7, <1>8 DEF WriterCounts
<1>13. ProgramTypes'
  <2>1. waiting' \in 0 .. Len(written')  BY <1>1, <1>2, <1>11
  <2>2. depth' \in 0 .. MaxContexts  BY <1>2 DEF IInv, ProgramTypes
  <2> QED  BY <1>1, <1>2, <1>11, <2>1, <2>2 DEF ProgramTypes
<1>14. ContextIsDepth'
  <2>1. writer.context = IF writer.class = "BufferedSocketWriter" THEN depth ELSE 0
    BY DEF IInv, ContextIsDepth
  <2>2. writer'.context = IF writer'.class = "BufferedSocketWriter" THEN depth' ELSE 0
    BY <1>1, <1>2, <1>4, <1>6, <1>7, <2>1
  <2> QED  BY <2>2 DEF ContextIsDepth
<1>15. WaitsInContext'
  BY <1>2, <1>6, <1>7, <1>8, <1>14 DEF WaitsInContext, ContextIsDepth
<1>16. FramesInOrder'
  <2>1. CASE writer'.buffers = <<>>
    <3>1. FlattenSeq(writer'.socket) = Frames(SubSeq(written', 1, Len(written') - 0))
      BY <1>7, <1>10, <1>11, <2>1, NothingWaits
    <3> QED  BY <1>2, <1>10, <2>1, <3>1 DEF FramesInOrder
  <2>2. CASE writer'.buffers # <<>>
    <3>1. y.buffers # <<>> /\ writer'.socket = y.socket  BY <1>7, <2>2
    <3>2. writer.class # "SocketWriter"  BY <1>1, <1>4, <1>5, <3>1 DEF Appended
    <3>3. y.socket = writer.socket  BY <1>4, <1>5, <3>2 DEF Appended
    <3>4. SubSeq(written', 1, Len(written') - waiting')
            = SubSeq(written, 1, Len(written) - waiting)
      <4>1. waiting' = waiting + 1  BY <1>2, <2>2
      <4>2. Len(written') - waiting' = Len(written) - waiting  BY <1>1, <1>11, <4>1
      <4>3. \A n \in 0 .. Len(written) : SubSeq(Append(written, d), 1, n) = SubSeq(written, 1, n)
        BY <1>1
      <4>4. Len(written) - waiting \in 0 .. Len(written)  BY <1>1
      <4>5. SubSeq(written', 1, Len(written) - waiting)
              = SubSeq(written, 1, Len(written) - waiting)
        BY <1>2, <4>3, <4>4
      <4> QED  BY <4>2, <4>5
    <3>5. FlattenSeq(writer.socket) = Frames(SubSeq(written, 1, Len(written) - waiting))
      BY DEF IInv, FramesInOrder
    <3> QED  BY <1>10, <2>2, <3>1, <3>3, <3>4, <3>5 DEF FramesInOrder
  <2> QED  BY <2>1, <2>2
<1> QED  BY <1>12, <1>13, <1>14, <1>15, <1>16 DEF IInv

(* Opening a context leaves all but the count of contexts. *)
LEMMA OpenContextStep ==
  ASSUME IInv, OpenContext
  PROVE  IInv'
<1>1. Counts(writer) /\ depth \in Nat /\ MaxContexts \in Nat  BY InvFacts
<1>2. /\ depth < MaxContexts /\ depth' = depth + 1
      /\ writer' = PushContext(writer)
      /\ written' = written /\ waiting' = waiting
  BY DEF OpenContext
<1>3. /\ Counts(writer')
      /\ writer'.class = writer.class /\ writer'.bufferSize = writer.bufferSize
      /\ writer'.buffers = writer.buffers /\ writer'.length = writer.length
      /\ writer'.socket = writer.socket
      /\ writer'.context = IF writer.class = "BufferedSocketWriter" THEN writer.context + 1
                           ELSE writer.context
  BY <1>1, <1>2, PushCounts
<1>4. WriterCounts'  BY <1>3 DEF IInv, WriterCounts
<1>5. ProgramTypes'  BY <1>1, <1>2 DEF IInv, ProgramTypes
<1>6. ContextIsDepth'  BY <1>2, <1>3 DEF IInv, ContextIsDepth
<1>7. WaitsInContext'  BY <1>1, <1>2, <1>3 DEF IInv, WaitsInContext
<1>8. FramesInOrder'  BY <1>2, <1>3 DEF IInv, FramesInOrder
<1> QED  BY <1>4, <1>5, <1>6, <1>7, <1>8 DEF IInv

(* Closing a context sends what waits, or leaves it. *)
LEMMA CloseContextStep ==
  ASSUME IInv, CloseContext
  PROVE  IInv'
<1>1. /\ Counts(writer) /\ writer.class \in SocketWriters /\ depth \in Nat
      /\ written \in Seq(Data) /\ Len(written) \in Nat /\ waiting \in 0 .. Len(written)
  BY InvFacts
<1>2. /\ depth > 0 /\ depth' = depth - 1
      /\ writer' = PopContext(writer)
      /\ written' = written
      /\ waiting' = IF writer'.buffers = <<>> THEN 0 ELSE waiting
  BY DEF CloseContext, CountWaiting
<1>3. /\ Counts(writer')
      /\ writer'.class = writer.class /\ writer'.bufferSize = writer.bufferSize
      /\ writer'.context = IF writer.class = "BufferedSocketWriter" THEN writer.context - 1
                           ELSE writer.context
      /\ FlattenSeq(writer'.socket) \o FlattenSeq(writer'.buffers)
           = FlattenSeq(writer.socket) \o FlattenSeq(writer.buffers)
      /\ \/ writer'.buffers = <<>>
         \/ writer'.buffers = writer.buffers /\ writer'.socket = writer.socket
      /\ writer.class = "DelayedSocketWriter" => writer'.buffers = <<>>
      /\ writer.class = "BufferedSocketWriter" =>
           writer'.buffers = <<>> \/ (writer'.context # 0
                                       /\ writer'.length < writer'.bufferSize)
  BY <1>1, <1>2, PopCounts
<1>4. WriterCounts'  BY <1>3 DEF IInv, WriterCounts
<1>5. ProgramTypes'
  <2>1. depth' \in 0 .. MaxContexts
    BY <1>1, <1>2, InvFacts DEF IInv, ProgramTypes
  <2>2. waiting' \in 0 .. Len(written)  BY <1>1, <1>2
  <2> QED  BY <1>2, <2>1, <2>2 DEF IInv, ProgramTypes
<1>6. ContextIsDepth'  BY <1>2, <1>3 DEF IInv, ContextIsDepth
<1>7. WaitsInContext'
  BY <1>3, <1>6 DEF IInv, WriterCounts, WaitsInContext, ContextIsDepth
<1>8. FlattenSeq(writer'.socket) \o FlattenSeq(writer'.buffers) = Frames(written')
  BY <1>2, <1>3 DEF IInv, FramesInOrder
<1>9. FramesInOrder'
  <2>1. CASE writer'.buffers = <<>>
    <3>1. FlattenSeq(writer'.socket) = Frames(SubSeq(written', 1, Len(written') - 0))
      BY <1>1, <1>2, <1>3, <1>8, <2>1, NothingWaits
    <3> QED  BY <1>2, <1>8, <2>1, <3>1 DEF FramesInOrder
  <2>2. CASE writer'.buffers # <<>>
    BY <1>2, <1>3, <1>8, <2>2 DEF IInv, FramesInOrder
  <2> QED  BY <2>1, <2>2
<1> QED  BY <1>4, <1>5, <1>6, <1>7, <1>9 DEF IInv

(* Looking at the buffer puts together what waits. *)
LEMMA LookAtBufferStep ==
  ASSUME IInv, LookAtBuffer
  PROVE  IInv'
<1>1. Counts(writer)  BY InvFacts
<1>2. /\ writer' = MergeBuffers(writer)
      /\ depth' = depth /\ written' = written /\ waiting' = waiting
  BY DEF LookAtBuffer
<1>3. /\ Counts(writer')
      /\ writer'.class = writer.class /\ writer'.bufferSize = writer.bufferSize
      /\ writer'.context = writer.context /\ writer'.length = writer.length
      /\ writer'.socket = writer.socket
      /\ FlattenSeq(writer'.buffers) = FlattenSeq(writer.buffers)
      /\ writer'.buffers = <<>> <=> writer.buffers = <<>>
  BY <1>1, <1>2, MergeCounts
<1>4. WriterCounts'  BY <1>3 DEF IInv, WriterCounts
<1>5. ProgramTypes'  BY <1>2 DEF IInv, ProgramTypes
<1>6. ContextIsDepth'  BY <1>2, <1>3 DEF IInv, ContextIsDepth
<1>7. WaitsInContext'  BY <1>2, <1>3 DEF IInv, WaitsInContext
<1>8. FramesInOrder'  BY <1>2, <1>3 DEF IInv, FramesInOrder
<1> QED  BY <1>4, <1>5, <1>6, <1>7, <1>8 DEF IInv

(* A reset takes back what waits, and none of what was sent. *)
LEMMA ResetStep ==
  ASSUME IInv, Reset
  PROVE  IInv'
<1>1. /\ Counts(writer)
      /\ written \in Seq(Data) /\ Len(written) \in Nat /\ waiting \in 0 .. Len(written)
  BY InvFacts
<1>2. /\ writer' = ResetWriter(writer)
      /\ written' = SubSeq(written, 1, Len(written) - waiting)
      /\ waiting' = 0 /\ depth' = depth
  BY DEF Reset
<1>3. /\ Counts(writer')
      /\ writer'.class = writer.class /\ writer'.bufferSize = writer.bufferSize
      /\ writer'.context = writer.context /\ writer'.socket = writer.socket
      /\ writer'.buffers = <<>>
  BY <1>1, <1>2, ResetCounts
<1>4. written' \in Seq(Data) /\ Len(written') = Len(written) - waiting
  BY <1>1, <1>2
<1>5. WriterCounts'  BY <1>3 DEF IInv, WriterCounts
<1>6. ProgramTypes'  BY <1>1, <1>2, <1>4, InvFacts DEF IInv, ProgramTypes
<1>7. ContextIsDepth'  BY <1>2, <1>3 DEF IInv, ContextIsDepth
<1>8. WaitsInContext'  BY <1>3 DEF WaitsInContext
<1>9. FramesInOrder'
  <2>1. FlattenSeq(writer'.socket) = Frames(written')
    BY <1>2, <1>3 DEF IInv, FramesInOrder
  <2>2. FlattenSeq(writer'.socket) \o FlattenSeq(writer'.buffers) = Frames(written')
    BY <1>3, <2>1, ListsTyped, FlattenNothing
  <2>3. FlattenSeq(writer'.socket) = Frames(SubSeq(written', 1, Len(written') - 0))
    BY <1>3, <1>4, <2>2, NothingWaits
  <2> QED  BY <1>2, <2>2, <2>3 DEF FramesInOrder
<1> QED  BY <1>5, <1>6, <1>7, <1>8, <1>9 DEF IInv

(***************************************************************************)
(* Theorems                                                                *)
(***************************************************************************)

(* Every step keeps the invariant.                                         *)
LEMMA NextInv == IInv /\ [Next]_vars => IInv'
<1> SUFFICES ASSUME IInv, [Next]_vars PROVE IInv'  OBVIOUS
<1>1. ASSUME NEW d \in Data, SerializePacket(d) PROVE IInv'
  BY <1>1, SerializePacketStep
<1>2. CASE OpenContext  BY <1>2, OpenContextStep
<1>3. CASE CloseContext  BY <1>3, CloseContextStep
<1>4. CASE LookAtBuffer  BY <1>4, LookAtBufferStep
<1>5. CASE Reset  BY <1>5, ResetStep
<1>6. CASE UNCHANGED vars
  BY <1>6 DEF vars, IInv, WriterCounts, Counts, ProgramTypes, ContextIsDepth,
              WaitsInContext, FramesInOrder
<1> QED  BY <1>1, <1>2, <1>3, <1>4, <1>5, <1>6 DEF Next

(* The invariant has all the properties in it.                             *)
LEMMA InvSafe ==
  ASSUME IInv
  PROVE  TypeOK /\ WritesFrames /\ SendsWholePackets /\ NothingIsHeldBack
           /\ HeldBackBelowSize
<1>1. /\ Counts(writer) /\ writer.class \in SocketWriters
      /\ writer.class = "SocketWriter" => writer.buffers = <<>>
      /\ depth \in Nat /\ MaxContexts \in Nat /\ MaxPackets \in Nat
      /\ written \in Seq(Data) /\ Len(written) \in Nat
      /\ waiting \in 0 .. Len(written)
  BY InvFacts
<1>2. TypeOK
  <2>1. writer.length \in Nat /\ writer.context \in Nat
    BY <1>1 DEF IInv, ContextIsDepth, Counts, Writer
  <2>2. waiting \in 0 .. MaxPackets /\ depth \in 0 .. MaxContexts
    BY <1>1 DEF IInv, ProgramTypes
  <2> QED  BY <1>1, <2>1, <2>2 DEF TypeOK, IInv, WriterCounts
<1>3. WritesFrames
  <2>1. FlattenSeq(writer.socket \o writer.buffers)
          = FlattenSeq(writer.socket) \o FlattenSeq(writer.buffers)
    BY <1>1, ListsTyped, FlattenConcat DEF Buffers
  <2> QED  BY <2>1 DEF WritesFrames, IInv, FramesInOrder
<1>4. SendsWholePackets  BY DEF SendsWholePackets, IInv, FramesInOrder
<1>5. NothingIsHeldBack
  BY <1>1 DEF NothingIsHeldBack, IInv, WaitsInContext, SocketWriters
<1>6. HeldBackBelowSize
  <2>1. Length(writer.buffers) = writer.length  BY <1>1 DEF Counts, Length
  <2> QED  BY <1>1, <2>1 DEF HeldBackBelowSize, IInv, WaitsInContext, SocketWriters
<1> QED  BY <1>2, <1>3, <1>4, <1>5, <1>6

(* The invariant of the socket writers: lengths are kept, what waits is in *)
(* a context of BufferedSocketWriter, and all is whole frames in order.    *)
THEOREM WriterInvariant == Spec => []IInv
<1>1. Init => IInv  BY InitInv
<1>2. IInv /\ [Next]_vars => IInv'  BY NextInv
<1> QED  BY <1>1, <1>2, PTL DEF Spec

(* Every variable has its type. *)
THEOREM WriterTypes == Spec => []TypeOK
<1>1. IInv => TypeOK  BY InvSafe
<1> QED  BY <1>1, WriterInvariant, PTL

(* What writers write is the frames the other end expects, in order, for   *)
(* any packets and arrays, of any sizes.                                   *)
THEOREM FramesAreWritten == Spec => []WritesFrames
<1>1. IInv => WritesFrames  BY InvSafe
<1> QED  BY <1>1, WriterInvariant, PTL

(* Whatever makes a writer write to its socket, and after any reset, the   *)
(* socket has whole packets only.                                          *)
THEOREM WholePacketsAreSent == Spec => []SendsWholePackets
<1>1. IInv => SendsWholePackets  BY InvSafe
<1> QED  BY <1>1, WriterInvariant, PTL

(* With no context open every packet is on the socket, however the         *)
(* contexts were nested.                                                   *)
THEOREM AllIsSentOutsideContexts == Spec => []NothingIsHeldBack
<1>1. IInv => NothingIsHeldBack  BY InvSafe
<1> QED  BY <1>1, WriterInvariant, PTL

(* BufferedSocketWriter holds back less than its size, in any context.     *)
THEOREM LessThanTheSizeWaits == Spec => []HeldBackBelowSize
<1>1. IInv => HeldBackBelowSize  BY InvSafe
<1> QED  BY <1>1, WriterInvariant, PTL
=============================================================================
