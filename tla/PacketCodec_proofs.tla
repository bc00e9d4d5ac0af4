-------------------------- MODULE PacketCodec_proofs --------------------------
(***************************************************************************)
(* What is written of a value and read again, for any values nested in one *)
(* another: the sizes that are written are those that bytelength counts,   *)
(* and a reader finds the fields where the writer put them.                *)
(***************************************************************************)
EXTENDS PacketCodec, Buffers_proofs, FiniteSetTheorems

(***************************************************************************)
(* Writing into a BufferListWriter                                         *)
(***************************************************************************)

(* What a field says: a type, a number, what the footer says, or a text.   *)
Texts == {TextOf(v) : v \in AllValues}
Saying == ValidTypes \cup Int \cup {"footer"} \cup Texts
Names == {"type", "contentSize", "content", "footer", "shortCode", "count"}
Fields == [name : Names, size : Nat, says : Saying]

Lists == [class : {"BufferListWriter"}, bufferSize : Int, buffers : Seq(Seq(Fields)),
          length : Nat, context : Int, socket : Seq(Seq(Fields))]

(* A list that knows the size of what is in it.                            *)
Counted(w) == w \in Lists /\ w.length = Length(w.buffers)

(* The same list with more buffers.                                        *)
Longer(w, x, buffers) ==
  /\ Counted(x)
  /\ x.buffers = w.buffers \o buffers
  /\ x.length = w.length + Length(buffers)

(* Where lists are put together first makes no difference.                 *)
LEMMA ListsAssociate ==
  ASSUME NEW a \in Seq(Seq(Fields)), NEW b \in Seq(Seq(Fields)), NEW c \in Seq(Seq(Fields))
  PROVE  (a \o b) \o c = a \o (b \o c)
<1> DEFINE T == Seq(Fields)
<1>1. a \in Seq(T) /\ b \in Seq(T) /\ c \in Seq(T)  OBVIOUS
<1> HIDE DEF T
<1> QED  BY <1>1, SMTT(30)

(* A field has a size.                                                     *)
LEMMA SizedFields == \A x \in Fields : x.size \in Nat
BY DEF Fields

(* The buffers of a list have a size, and more of them a greater one.      *)
LEMMA LengthConcat ==
  ASSUME NEW s \in Seq(Seq(Fields)), NEW t \in Seq(Seq(Fields))
  PROVE  /\ Length(s) \in Nat
         /\ Length(s \o t) = Length(s) + Length(t)
<1>1. <<>> \in Seq(Fields)  OBVIOUS
<1>2. FlattenSeq(s) \in Seq(Fields) /\ FlattenSeq(t) \in Seq(Fields)
  BY <1>1, FlattenAppend
<1>3. FlattenSeq(s \o t) = FlattenSeq(s) \o FlattenSeq(t)  BY FlattenConcat
<1>4. Total(FlattenSeq(s) \o FlattenSeq(t)) = Total(FlattenSeq(s)) + Total(FlattenSeq(t))
  BY <1>2, SizedFields, TotalConcat
<1>5. Total(FlattenSeq(s)) \in Nat  BY <1>2, SizedFields, TotalIsNat
<1> QED  BY <1>3, <1>4, <1>5 DEF Length

(* No buffers have no size, and one has that of its fields.                *)
LEMMA LengthOne ==
  ASSUME NEW b \in Seq(Fields)
  PROVE  Length(<<>>) = 0 /\ Length(<<b>>) = Total(b)
BY FlattenNothing, TotalNothing, FlattenOne DEF Length

(* The size of one, two or three fields.                                   *)
LEMMA TotalOfFew ==
  ASSUME NEW a \in Fields, NEW b \in Fields, NEW c \in Fields
  PROVE  /\ Total(<<a>>) = a.size
         /\ Total(<<a, b>>) = a.size + b.size
         /\ Total(<<a, b, c>>) = a.size + b.size + c.size
<1>1. /\ <<a>> \in Seq(Fields) /\ <<a, b>> \in Seq(Fields)
      /\ <<a, b>> = Append(<<a>>, b) /\ <<a, b, c>> = Append(<<a, b>>, c)
  OBVIOUS
<1>2. Total(<<a>>) = a.size  BY SizedFields, TotalOne
<1>3. Total(<<a, b>>) = Total(<<a>>) + b.size  BY <1>1, SizedFields, TotalAppend
<1>4. Total(<<a, b, c>>) = Total(<<a, b>>) + c.size  BY <1>1, SizedFields, TotalAppend
<1>5. a.size \in Nat /\ b.size \in Nat /\ c.size \in Nat  BY SizedFields
<1> QED  BY <1>2, <1>3, <1>4, <1>5

(* A new list is empty.                                                    *)
LEMMA NewListCounts ==
  Counted(NewBufferListWriter) /\ NewBufferListWriter.buffers = <<>>
    /\ NewBufferListWriter.length = 0
<1>1. /\ NewBufferListWriter = [class |-> "BufferListWriter", bufferSize |-> 0,
                                buffers |-> <<>>, length |-> 0, context |-> 0,
                                socket |-> <<>>]
  BY DEF NewBufferListWriter, NewWriter
<1>2. <<>> \in Seq(Seq(Fields)) /\ Length(<<>>) = 0
  BY FlattenNothing, TotalNothing DEF Length
<1> QED  BY <1>1, <1>2 DEF Counted, Lists

(* appendBuffers into a list.                                              *)
LEMMA AppendBuffersLonger ==
  ASSUME NEW w, Counted(w), NEW buffers \in Seq(Seq(Fields)), NEW n, n = Length(buffers)
  PROVE  Longer(w, AppendBuffers(w, buffers, n), buffers)
<1> DEFINE x == AppendBuffers(w, buffers, n)
<1>1. /\ w \in Lists /\ w.class = "BufferListWriter" /\ w.buffers \in Seq(Seq(Fields))
      /\ w.length \in Nat /\ w.length = Length(w.buffers)
  BY DEF Counted, Lists
<1>2. x = [w EXCEPT !.buffers = @ \o buffers, !.length = @ + n]
  <2>1. w.class # "SocketWriter"  BY <1>1
  <2> QED  BY <2>1 DEF AppendBuffers
<1>3. n \in Nat /\ Length(w.buffers \o buffers) = Length(w.buffers) + n
  BY <1>1, LengthConcat
<1>4. w.length + n \in Nat /\ w.buffers \o buffers \in Seq(Seq(Fields))  BY <1>1, <1>3
<1> HIDE DEF x
<1>5. x \in Lists  BY <1>1, <1>2, <1>4 DEF Lists
<1>6. x.buffers = w.buffers \o buffers /\ x.length = w.length + n  BY <1>1, <1>2 DEF Lists
<1>7. x.length = Length(x.buffers)  BY <1>1, <1>3, <1>6
<1> QED  BY <1>5, <1>6, <1>7 DEF Longer, Counted, x

(* writeBuffer into a list.                                                *)
LEMMA WriteBufferLonger ==
  ASSUME NEW w, Counted(w), NEW b \in Seq(Fields)
  PROVE  Longer(w, WriteBuffer(w, b), <<b>>)
<1>1. <<b>> \in Seq(Seq(Fields)) /\ Total(b) = Length(<<b>>)  BY LengthOne
<1> QED  BY <1>1, AppendBuffersLonger DEF WriteBuffer

(* A list written into another.                                            *)
LEMMA WriteLonger ==
  ASSUME NEW w, Counted(w), NEW content, Counted(content)
  PROVE  Longer(w, Write(w, content), content.buffers)
<1>1. content.buffers \in Seq(Seq(Fields)) /\ content.length = Length(content.buffers)
  BY DEF Counted, Lists
<1> QED  BY <1>1, AppendBuffersLonger DEF Write

(* A list has no contexts.                                                 *)
LEMMA NoContexts ==
  ASSUME NEW w, Counted(w)
  PROVE  PushContext(w) = w /\ PopContext(w) = w
<1>1. w.class = "BufferListWriter"  BY DEF Counted, Lists
<1> QED  BY <1>1 DEF PushContext, PopContext

(* More buffers, and more again.                                           *)
LEMMA LongerTwice ==
  ASSUME NEW w, Counted(w), NEW x, NEW y,
         NEW s \in Seq(Seq(Fields)), NEW t \in Seq(Seq(Fields)),
         Longer(w, x, s), Longer(x, y, t)
  PROVE  Longer(w, y, s \o t)
<1>1. w.buffers \in Seq(Seq(Fields)) /\ w.length \in Nat  BY DEF Counted, Lists
<1>2. (w.buffers \o s) \o t = w.buffers \o (s \o t)  BY <1>1, ListsAssociate
<1>3. Length(s \o t) = Length(s) + Length(t) /\ Length(s) \in Nat /\ Length(t) \in Nat
  BY LengthConcat
<1>4. x.buffers = w.buffers \o s /\ x.length = w.length + Length(s)  BY DEF Longer
<1>5. Counted(y) /\ y.buffers = x.buffers \o t /\ y.length = x.length + Length(t)
  BY DEF Longer
<1>6. y.length = w.length + Length(s \o t)  BY <1>1, <1>3, <1>4, <1>5
<1> QED  BY <1>2, <1>4, <1>5, <1>6 DEF Longer

(* A longer list knows its size.                                           *)
LEMMA LongerCounts ==
  ASSUME NEW w, NEW x, NEW s, Longer(w, x, s)
  PROVE  Counted(x)
BY DEF Longer

(***************************************************************************)
(* The packet of a value                                                   *)
(***************************************************************************)
FixedTypes == DoubleTypes \cup IntegerTypes \cup EmptyTypes

(* What a packet begins with, and the one block of a fixed packet.         *)
HeaderBuffers(type, size) == <<<<TypeField(type)>>, <<SizeField(size)>>>>
Block(type, says) == <<TypeField(type), Content(FixedContentSize(type), says), Footer>>

(* The size of the content of a value whose packet is of dynamic size.     *)
DynamicSize(content, v) ==
  CASE PacketType(v) = "ArrayWithSize" -> content
    [] PacketType(v) = "ArrayBufferWithSize" -> ShortCodeSize + v.n
    [] OTHER -> v.n

(* A value has one kind of type.                                           *)
LEMMA KindsOfTypes ==
  /\ ValidTypes = FixedTypes \cup DynamicTypes
  /\ DynamicTypes = BufferTypes \cup {"ArrayWithSize", "ArrayBufferWithSize"}
  /\ FixedTypes \cap DynamicTypes = {}
  /\ "ArrayWithSize" \notin BufferTypes /\ "ArrayBufferWithSize" \notin BufferTypes
  /\ NoPacket \notin ValidTypes
BY DEF ValidTypes, FixedTypes, DynamicTypes, DoubleTypes, IntegerTypes, EmptyTypes,
       BufferTypes, NoPacket

(* The type of a value, and that what is of dynamic size has a size.       *)
LEMMA TypesOfValues ==
  ASSUME NEW v \in AllValues
  PROVE  LET type == PacketType(v)
         IN /\ type \in ValidTypes \cup {NoPacket}
            /\ type = "ArrayWithSize" <=> v.is = "array"
            /\ type \in DynamicTypes \ {"ArrayWithSize"} => v.n \in Nat
            /\ v.elements \in Seq(AllValues)
            /\ v.is = "typed" /\ type = "ArrayBufferWithSize" => ShortCodes[v.of] \in Nat
<1> DEFINE type == PacketType(v)
<1>1. CASE v.is = "number"
  <2>1. type \in {"Double", "NegativeInteger", "PositiveInteger"}
    <3>1. v.is \notin DOMAIN TypeOfKind  BY <1>1 DEF TypeOfKind
    <3>2. type = NumberType(v)  BY <1>1, <3>1 DEF PacketType
    <3> QED  BY <3>2 DEF NumberType
  <2>2. v.elements = <<>>  BY <1>1, CodecAssumption DEF Value
  <2> QED  BY <1>1, <2>1, <2>2 DEF ValidTypes, DoubleTypes, IntegerTypes, DynamicTypes
<1>2. CASE v.is = "typed"
  <2>1. v.elements = <<>> /\ v.n \in Nat  BY <1>2, CodecAssumption DEF Value
  <2>2. v.is \notin DOMAIN TypeOfKind  BY <1>2 DEF TypeOfKind
  <2>3. type = IF v.of \in DOMAIN ShortCodes THEN "ArrayBufferWithSize" ELSE NoPacket
    BY <1>2, <2>2 DEF PacketType
  <2>4. v.of \in DOMAIN ShortCodes => ShortCodes[v.of] \in Nat  BY DEF ShortCodes
  <2> QED  BY <1>2, <2>1, <2>3, <2>4 DEF ValidTypes, DynamicTypes, NoPacket
<1>3. CASE v.is # "number" /\ v.is # "typed"
  <2>1. type = IF v.is \in DOMAIN TypeOfKind THEN TypeOfKind[v.is] ELSE NoPacket
    BY <1>3 DEF PacketType
  <2>2. v.is = "array" => v.elements \in Seq(AllValues)  BY CodecAssumption
  <2>3. v.is # "array" => v.elements = <<>> /\ v.n \in Nat
    BY <1>3, CodecAssumption DEF Value
  <2>4. v.elements \in Seq(AllValues)
    <3>1. <<>> \in Seq(AllValues)  OBVIOUS
    <3> QED  BY <2>2, <2>3, <3>1
  <2>5. DOMAIN TypeOfKind = {"null", "undefined", "true", "false", "string", "buffer",
                             "array", "date", "object", "arraybuffer"}
    BY DEF TypeOfKind
  <2>6. CASE v.is \in DOMAIN TypeOfKind
    <3>1. type \in ValidTypes /\ (type = "ArrayWithSize" <=> v.is = "array")
      BY <2>1, <2>5, <2>6
         DEF TypeOfKind, ValidTypes, DoubleTypes, IntegerTypes, EmptyTypes, DynamicTypes
    <3> QED  BY <1>3, <2>3, <2>4, <3>1
  <2>7. CASE v.is \notin DOMAIN TypeOfKind
    <3>1. v.is # "array"  BY <2>5, <2>7
    <3> QED  BY <1>3, <2>1, <2>3, <2>4, <2>7, <3>1 DEF DynamicTypes, NoPacket
  <2> QED  BY <2>6, <2>7
<1> QED  BY <1>1, <1>2, <1>3

(* The fields of packets are fields.                                       *)
LEMMA FieldsOfPackets ==
  /\ \A type \in ValidTypes : TypeField(type) \in Fields
  /\ \A n \in Nat : /\ SizeField(n) \in Fields
                    /\ CountField(n) \in Fields
                    /\ ShortCodeField(n) \in Fields
                    /\ \A v \in AllValues : Content(n, TextOf(v)) \in Fields
  /\ Footer \in Fields
<1>1. \A v \in AllValues : TextOf(v) \in Saying  BY DEF Saying, Texts
<1>2. \A x \in ValidTypes \cup Nat \cup {"footer"} : x \in Saying  BY DEF Saying
<1>3. \A name \in Names, size \in Nat, says \in Saying :
        Field(name, size, says) \in Fields
  BY DEF Field, Fields
<1>4. {"type", "contentSize", "content", "footer", "shortCode", "count"} = Names
  BY DEF Names
<1>5. FixedHeaderSize \in Nat /\ ContentFieldSize \in Nat /\ FooterLength \in Nat
      /\ ShortCodeSize \in Nat /\ CountSize \in Nat
  BY DEF FixedHeaderSize, ContentFieldSize, FooterLength, ShortCodeSize, CountSize
<1>6. \A type \in ValidTypes : TypeField(type) \in Fields
  BY <1>2, <1>3, <1>4, <1>5 DEF TypeField
<1>7. \A n \in Nat : SizeField(n) \in Fields /\ CountField(n) \in Fields
                     /\ ShortCodeField(n) \in Fields
  BY <1>2, <1>3, <1>4, <1>5 DEF SizeField, CountField, ShortCodeField
<1>8. \A n \in Nat, v \in AllValues : Content(n, TextOf(v)) \in Fields
  BY <1>1, <1>3, <1>4 DEF Content
<1>9. Footer \in Fields  BY <1>2, <1>3, <1>4, <1>5 DEF Footer
<1> QED  BY <1>6, <1>7, <1>8, <1>9

(* One element and another are two.                                        *)
LEMMA TwoInOne ==
  ASSUME NEW T, NEW a \in T, NEW b \in T
  PROVE  <<a>> \o <<b>> = <<a, b>>
<1>1. <<a>> \in Seq(T) /\ <<b>> \in Seq(T) /\ <<a, b>> \in Seq(T)  OBVIOUS
<1> DEFINE ab == <<a>> \o <<b>>
<1>2. ab \in Seq(T) /\ Len(ab) = 2 /\ \A i \in 1 .. 2 : ab[i] = <<a, b>>[i]
  BY <1>1
<1> QED  BY <1>1, <1>2, SeqEqual

(* A fixed packet is one block.                                            *)
LEMMA FixedLonger ==
  ASSUME NEW w, Counted(w), NEW v \in AllValues, NEW type \in FixedTypes
  PROVE  LET block == Block(type, TextOf(v))
         IN /\ block \in Seq(Fields)
            /\ Longer(w, WriteFixedContent(w, type, TextOf(v)), <<block>>)
            /\ Total(block) = FixedHeaderSize + FixedContentSize(type) + FooterLength
<1> DEFINE says == TextOf(v)
           content == Content(FixedContentSize(type), says)
           block == <<TypeField(type), content, Footer>>
<1>1. FixedContentSize(type) \in Nat
  BY DEF FixedContentSize, DoubleContentSize, IntegerContentSize, ZeroContentSize
<1>2. TypeField(type) \in Fields /\ content \in Fields /\ Footer \in Fields
  BY <1>1, FieldsOfPackets, KindsOfTypes
<1>3. /\ TypeField(type).size = FixedHeaderSize /\ Footer.size = FooterLength
      /\ content.size = FixedContentSize(type)
  BY DEF TypeField, Footer, Content, Field
<1>4. WriteFixedContent(w, type, says) = PopContext(WriteBuffer(PushContext(w), block))
  BY DEF WriteFixedContent
<1>5. Block(type, says) = block  BY DEF Block
<1> HIDE DEF content
<1>6. block \in Seq(Fields)  BY <1>2
<1>7. Total(block) = FixedHeaderSize + FixedContentSize(type) + FooterLength
  <2>1. Total(block) = TypeField(type).size + content.size + Footer.size
    BY <1>2, TotalOfFew
  <2> QED  BY <1>3, <2>1
<1> HIDE DEF block
<1>8. Longer(w, WriteBuffer(w, block), <<block>>)  BY <1>6, WriteBufferLonger
<1>9. PushContext(w) = w /\ PopContext(WriteBuffer(w, block)) = WriteBuffer(w, block)
  BY <1>8, NoContexts, LongerCounts
<1> QED  BY <1>4, <1>5, <1>6, <1>7, <1>8, <1>9

(* The header of a packet of dynamic size is two buffers.                  *)
LEMMA HeaderLonger ==
  ASSUME NEW w, Counted(w), NEW type \in ValidTypes, NEW n \in Nat
  PROVE  /\ HeaderBuffers(type, n) \in Seq(Seq(Fields))
         /\ Longer(w, WriteHeader(w, type, n), HeaderBuffers(type, n))
         /\ Length(HeaderBuffers(type, n)) = DynamicHeaderSize
<1> DEFINE t == <<TypeField(type)>>
           s == <<SizeField(n)>>
           x == WriteBuffer(w, t)
<1>1. TypeField(type) \in Fields /\ SizeField(n) \in Fields  BY FieldsOfPackets
<1>2. t \in Seq(Fields) /\ s \in Seq(Fields)  BY <1>1
<1>3. Total(t) = FixedHeaderSize /\ Total(s) = ContentFieldSize
  <2>1. Total(t) = TypeField(type).size /\ Total(s) = SizeField(n).size
    BY <1>1, TotalOfFew
  <2> QED  BY <2>1 DEF TypeField, SizeField, Field
<1>4. WriteHeader(w, type, n) = WriteBuffer(x, s) /\ HeaderBuffers(type, n) = <<t, s>>
  BY DEF WriteHeader, HeaderBuffers
<1> HIDE DEF t, s
<1>5. Longer(w, x, <<t>>) /\ Counted(x)  BY <1>2, WriteBufferLonger, LongerCounts
<1>6. Longer(x, WriteBuffer(x, s), <<s>>)  BY <1>2, <1>5, WriteBufferLonger
<1>7. <<t>> \in Seq(Seq(Fields)) /\ <<s>> \in Seq(Seq(Fields)) /\ <<t>> \o <<s>> = <<t, s>>
  BY <1>2, TwoInOne
<1>8. Longer(w, WriteBuffer(x, s), <<t, s>>)  BY <1>5, <1>6, <1>7, LongerTwice
<1>9. Length(<<t, s>>) = Length(<<t>>) + Length(<<s>>)  BY <1>7, LengthConcat
<1>10. Length(<<t>>) = FixedHeaderSize /\ Length(<<s>>) = ContentFieldSize
  BY <1>2, <1>3, LengthOne
<1>11. <<t, s>> \in Seq(Seq(Fields))  BY <1>2
<1> QED  BY <1>4, <1>8, <1>9, <1>10, <1>11 DEF DynamicHeaderSize

(* The footer closes a packet of dynamic size.                             *)
LEMMA FooterLonger ==
  ASSUME NEW w, NEW x, Counted(w), NEW more \in Seq(Seq(Fields)), Longer(w, x, more)
  PROVE  /\ Longer(w, PopContext(WriteBuffer(x, <<Footer>>)), more \o <<<<Footer>>>>)
         /\ <<<<Footer>>>> \in Seq(Seq(Fields))
         /\ Length(<<<<Footer>>>>) = FooterLength
<1> DEFINE f == <<Footer>>
           y == WriteBuffer(x, f)
<1>1. f \in Seq(Fields) /\ Total(f) = FooterLength
  <2>1. Total(f) = Footer.size  BY FieldsOfPackets, TotalOfFew
  <2> QED  BY <2>1, FieldsOfPackets DEF Footer, Field
<1> HIDE DEF f
<1>2. Counted(x)  BY LongerCounts
<1>3. Longer(x, y, <<f>>)  BY <1>1, <1>2, WriteBufferLonger
<1>4. <<f>> \in Seq(Seq(Fields)) /\ Length(<<f>>) = FooterLength  BY <1>1, LengthOne
<1>5. Longer(w, y, more \o <<f>>)  BY <1>3, <1>4, LongerTwice
<1>6. PopContext(y) = y  BY <1>3, NoContexts, LongerCounts
<1> QED  BY <1>4, <1>5, <1>6 DEF f

(* A packet with the content of a list.                                    *)
LEMMA DynamicContentLonger ==
  ASSUME NEW w, Counted(w), NEW type \in ValidTypes, NEW c, Counted(c)
  PROVE  \E rest \in Seq(Seq(Fields)) :
           /\ Longer(w, WriteDynamicContent(w, type, c), HeaderBuffers(type, c.length) \o rest)
           /\ Length(rest) = c.length + FooterLength
           /\ rest = c.buffers \o <<<<Footer>>>>
<1> DEFINE h == HeaderBuffers(type, c.length)
           headed == WriteHeader(w, type, c.length)
           x == Write(headed, c)
           f == <<<<Footer>>>>
           rest == c.buffers \o f
<1>1. c.length \in Nat /\ c.buffers \in Seq(Seq(Fields)) /\ c.length = Length(c.buffers)
  BY DEF Counted, Lists
<1>2. Longer(w, headed, h) /\ h \in Seq(Seq(Fields)) /\ Counted(headed)
  BY <1>1, HeaderLonger, LongerCounts
<1>3. Longer(headed, x, c.buffers)  BY <1>2, WriteLonger
<1>4. Longer(w, x, h \o c.buffers)  BY <1>1, <1>2, <1>3, LongerTwice
<1>5. h \o c.buffers \in Seq(Seq(Fields))  BY <1>1, <1>2
<1>6. /\ Longer(w, PopContext(WriteBuffer(x, <<Footer>>)), (h \o c.buffers) \o f)
      /\ f \in Seq(Seq(Fields)) /\ Length(f) = FooterLength
  BY <1>4, <1>5, FooterLonger
<1>7. WriteDynamicContent(w, type, c) = PopContext(WriteBuffer(x, <<Footer>>))
  BY NoContexts DEF WriteDynamicContent
<1>10. rest = c.buffers \o <<<<Footer>>>>  OBVIOUS
<1> HIDE DEF f, h, x
<1>8. (h \o c.buffers) \o f = h \o rest  BY <1>1, <1>2, <1>6, ListsAssociate
<1>9. rest \in Seq(Seq(Fields)) /\ Length(rest) = c.length + FooterLength
  BY <1>1, <1>6, LengthConcat
<1> QED  BY <1>6, <1>7, <1>8, <1>9, <1>10 DEF h

(* A packet with one buffer for its content.                               *)
LEMMA DynamicBufferLonger ==
  ASSUME NEW w, Counted(w), NEW type \in ValidTypes, NEW v \in AllValues, v.n \in Nat
  PROVE  \E rest \in Seq(Seq(Fields)) :
           /\ Longer(w, WriteDynamicBuffer(w, type, v.n, TextOf(v)),
                     HeaderBuffers(type, v.n) \o rest)
           /\ Length(rest) = v.n + FooterLength
           /\ rest = <<<<Content(v.n, TextOf(v))>>>> \o <<<<Footer>>>>
<1> DEFINE content == Content(v.n, TextOf(v))
           b == <<content>>
           h == HeaderBuffers(type, v.n)
           headed == WriteHeader(w, type, v.n)
           x == WriteBuffer(headed, b)
           f == <<<<Footer>>>>
           one == <<b>>
           rest == one \o f
<1>1. content \in Fields /\ content.size = v.n
  BY FieldsOfPackets DEF Content, Field
<1>2. WriteDynamicBuffer(w, type, v.n, TextOf(v)) = PopContext(WriteBuffer(x, <<Footer>>))
  BY NoContexts DEF WriteDynamicBuffer
<1>12. rest = <<<<Content(v.n, TextOf(v))>>>> \o <<<<Footer>>>>  OBVIOUS
<1> HIDE DEF content
<1>3. b \in Seq(Fields) /\ Total(b) = v.n  BY <1>1, SizedFields, TotalOne
<1> HIDE DEF b
<1>4. one \in Seq(Seq(Fields)) /\ Length(one) = v.n  BY <1>3, LengthOne
<1>5. Longer(w, headed, h) /\ h \in Seq(Seq(Fields)) /\ Counted(headed)
  BY HeaderLonger, LongerCounts
<1>6. Longer(headed, x, one)  BY <1>3, <1>5, WriteBufferLonger
<1>7. Longer(w, x, h \o one)  BY <1>4, <1>5, <1>6, LongerTwice
<1>8. h \o one \in Seq(Seq(Fields))  BY <1>4, <1>5
<1>9. /\ Longer(w, PopContext(WriteBuffer(x, <<Footer>>)), (h \o one) \o f)
      /\ f \in Seq(Seq(Fields)) /\ Length(f) = FooterLength
  BY <1>7, <1>8, FooterLonger
<1> HIDE DEF f, h, x, one
<1>10. (h \o one) \o f = h \o rest  BY <1>4, <1>5, <1>9, ListsAssociate
<1>11. rest \in Seq(Seq(Fields)) /\ Length(rest) = v.n + FooterLength
  BY <1>4, <1>9, LengthConcat
<1> QED  BY <1>2, <1>9, <1>10, <1>11, <1>12 DEF h

(* The content of an ArrayBuffer is a list of a short code and its bytes.  *)
LEMMA ArrayBufferLonger ==
  ASSUME NEW w, Counted(w), NEW shortCode \in Nat, NEW v \in AllValues, v.n \in Nat
  PROVE  LET n == ShortCodeSize + v.n
         IN \E rest \in Seq(Seq(Fields)) :
              /\ Longer(w, WriteArrayBuffer(w, shortCode, v.n, TextOf(v)),
                        HeaderBuffers("ArrayBufferWithSize", n) \o rest)
              /\ Length(rest) = n + FooterLength
              /\ rest = (<<<<ShortCodeField(shortCode)>>>> \o <<<<Content(v.n, TextOf(v))>>>>)
                          \o <<<<Footer>>>>
<1> DEFINE code == ShortCodeField(shortCode)
           content == Content(v.n, TextOf(v))
           s == <<code>>
           b == <<content>>
           coded == WriteBuffer(NewBufferListWriter, s)
           c == WriteBuffer(coded, b)
<1>1. /\ code \in Fields /\ code.size = ShortCodeSize
      /\ content \in Fields /\ content.size = v.n
  BY FieldsOfPackets DEF Content, ShortCodeField, Field
<1>2. WriteArrayBuffer(w, shortCode, v.n, TextOf(v))
        = WriteDynamicContent(w, "ArrayBufferWithSize", c)
  BY DEF WriteArrayBuffer
<1> HIDE DEF code, content
<1>3. s \in Seq(Fields) /\ Total(s) = ShortCodeSize /\ b \in Seq(Fields) /\ Total(b) = v.n
  BY <1>1, SizedFields, TotalOne
<1> HIDE DEF s, b
<1>4. Length(<<s>>) = ShortCodeSize /\ Length(<<b>>) = v.n  BY <1>3, LengthOne
<1>5. Counted(NewBufferListWriter) /\ NewBufferListWriter.length = 0  BY NewListCounts
<1>6. Counted(coded) /\ coded.length = ShortCodeSize /\ coded.buffers = <<s>>
  <2>1. Longer(NewBufferListWriter, coded, <<s>>)  BY <1>3, <1>5, WriteBufferLonger
  <2>2. <<>> \o <<s>> = <<s>>  BY <1>3
  <2> QED  BY <1>4, <1>5, <2>1, <2>2, NewListCounts DEF Longer, ShortCodeSize
<1>7. Counted(c) /\ c.length = ShortCodeSize + v.n /\ c.buffers = <<s>> \o <<b>>
  <2>1. Longer(coded, c, <<b>>)  BY <1>3, <1>6, WriteBufferLonger
  <2> QED  BY <1>4, <1>6, <2>1 DEF Longer
<1> HIDE DEF c
<1>8. "ArrayBufferWithSize" \in ValidTypes  BY KindsOfTypes
<1> QED  BY <1>2, <1>7, <1>8, DynamicContentLonger DEF s, b, code, content

(* A packet in a list, and its size: bytelength counts what is written.    *)
PacketIn(w, x, v, size) ==
  LET type == PacketType(v)
      n == DynamicSize(size, v)
  IN /\ Counted(x)
     /\ x.length = w.length + BytelengthWith(size, v)
     /\ type = NoPacket => x = w
     /\ type \in FixedTypes =>
          /\ x.buffers = w.buffers \o <<Block(type, TextOf(v))>>
          /\ Block(type, TextOf(v)) \in Seq(Fields)
          /\ Total(Block(type, TextOf(v))) = BytelengthWith(size, v)
     /\ type \in DynamicTypes =>
          /\ n \in Nat
          /\ BytelengthWith(size, v) = DynamicHeaderSize + n + FooterLength
          /\ \E rest \in Seq(Seq(Fields)) :
               x.buffers = w.buffers \o (HeaderBuffers(type, n) \o rest)

(* What each way to write a packet of dynamic size comes to.               *)
Framed(w, x, type, n) ==
  /\ n \in Nat
  /\ \E rest \in Seq(Seq(Fields)) : /\ Longer(w, x, HeaderBuffers(type, n) \o rest)
                                    /\ Length(rest) = n + FooterLength

(* It is a packet of that value, of the size that is counted.              *)
LEMMA DynamicIn ==
  ASSUME NEW w, Counted(w), NEW x, NEW v \in AllValues, NEW size,
         PacketType(v) \in DynamicTypes,
         Framed(w, x, PacketType(v), DynamicSize(size, v))
  PROVE  PacketIn(w, x, v, size)
<1> DEFINE type == PacketType(v)
           n == DynamicSize(size, v)
           h == HeaderBuffers(type, n)
<1>0. n \in Nat  BY DEF Framed
<1>1. PICK rest \in Seq(Seq(Fields)) : /\ Longer(w, x, h \o rest)
                                       /\ Length(rest) = n + FooterLength
  BY DEF Framed
<1>2. type \in ValidTypes /\ type \notin FixedTypes /\ type # NoPacket  BY KindsOfTypes
<1>3. h \in Seq(Seq(Fields)) /\ Length(h) = DynamicHeaderSize
  BY <1>0, <1>2, HeaderLonger, NewListCounts
<1>4. Length(h \o rest) = DynamicHeaderSize + n + FooterLength
  <2>1. Length(h \o rest) = Length(h) + Length(rest)  BY <1>3, LengthConcat
  <2> QED  BY <1>0, <1>1, <1>3, <2>1 DEF DynamicHeaderSize, FixedHeaderSize, ContentFieldSize,
                                   FooterLength
<1>5. BytelengthWith(size, v) = DynamicHeaderSize + n + FooterLength
  <2>1. CASE type = "ArrayWithSize"
    BY <1>0, <1>2, <2>1 DEF BytelengthWith, DynamicSize, DynamicHeaderSize, FixedHeaderSize,
                      ContentFieldSize, FooterLength, NoPacket, BufferTypes
  <2>2. CASE type = "ArrayBufferWithSize"
    <3>1. v.n \in Nat  BY <2>2, KindsOfTypes, TypesOfValues
    <3> QED
      BY <1>2, <2>2, <3>1
         DEF BytelengthWith, DynamicSize, DynamicHeaderSize, FixedHeaderSize,
             ContentFieldSize, ShortCodeSize, FooterLength, NoPacket, BufferTypes
  <2>3. CASE type \in BufferTypes
    BY <1>0, <1>2, <2>3 DEF BytelengthWith, DynamicSize, DynamicHeaderSize, FixedHeaderSize,
                      ContentFieldSize, FooterLength, NoPacket, BufferTypes
  <2> QED  BY <2>1, <2>2, <2>3, KindsOfTypes
<1>6. Counted(x) /\ x.buffers = w.buffers \o (h \o rest)
      /\ x.length = w.length + BytelengthWith(size, v)
  BY <1>1, <1>4, <1>5 DEF Longer
<1> QED  BY <1>0, <1>2, <1>5, <1>6 DEF PacketIn

(* write: a value with its content written into a list.                    *)
LEMMA ValueWritten ==
  ASSUME NEW w, Counted(w), NEW v \in AllValues, NEW c, Counted(c)
  PROVE  PacketIn(w, WriteWith(w, v, c), v, c.length)
<1> DEFINE type == PacketType(v)
           x == WriteWith(w, v, c)
           n == DynamicSize(c.length, v)
<1>1. /\ type \in ValidTypes \cup {NoPacket}
      /\ type \in DynamicTypes \ {"ArrayWithSize"} => v.n \in Nat
      /\ v.is = "typed" /\ type = "ArrayBufferWithSize" => ShortCodes[v.of] \in Nat
  BY TypesOfValues
<1>2. c.length \in Nat /\ w.length \in Nat  BY DEF Counted, Lists
<1>3. CASE type = NoPacket
  <2>1. x = w /\ BytelengthWith(c.length, v) = 0
    BY <1>3, KindsOfTypes DEF WriteWith, BytelengthWith, NoPacket, BufferTypes
  <2>2. type \notin FixedTypes /\ type \notin DynamicTypes  BY <1>3, KindsOfTypes
  <2> HIDE DEF x
  <2>3. Counted(x) /\ x.length = w.length + BytelengthWith(c.length, v)
    BY <1>2, <2>1
  <2>4. PacketIn(w, x, v, c.length)  BY <2>1, <2>2, <2>3 DEF PacketIn
  <2> QED  BY <2>4 DEF x
<1>4. CASE type \in FixedTypes
  <2>1. /\ type # NoPacket /\ type \notin DynamicTypes /\ type # "ArrayWithSize"
        /\ type # "ArrayBufferWithSize" /\ type \notin BufferTypes
    BY <1>4, KindsOfTypes
  <2>2. /\ x = WriteFixedContent(w, type, TextOf(v))
        /\ BytelengthWith(c.length, v) = FixedHeaderSize + FixedContentSize(type) + FooterLength
    BY <2>1 DEF WriteWith, BytelengthWith
  <2> DEFINE block == Block(type, TextOf(v))
  <2>3. /\ block \in Seq(Fields)
        /\ Longer(w, x, <<block>>)
        /\ Total(block) = BytelengthWith(c.length, v)
    BY <1>4, <2>2, FixedLonger
  <2> HIDE DEF block
  <2>4. Length(<<block>>) = Total(block)  BY <2>3, LengthOne
  <2> QED  BY <2>1, <2>3, <2>4 DEF PacketIn, Longer, block
<1>5. CASE type = "ArrayWithSize"
  <2>1. x = WriteDynamicContent(w, type, c) /\ n = c.length
    BY <1>5 DEF WriteWith, DynamicSize, NoPacket, BufferTypes
  <2>2. type \in DynamicTypes /\ type \in ValidTypes  BY <1>5, KindsOfTypes
  <2>3. \E rest \in Seq(Seq(Fields)) :
          /\ Longer(w, x, HeaderBuffers(type, n) \o rest)
          /\ Length(rest) = n + FooterLength
    BY <2>1, <2>2, DynamicContentLonger
  <2>4. n \in Nat  BY <1>2, <2>1
  <2>5. Framed(w, x, type, n)  BY <2>3, <2>4 DEF Framed
  <2> HIDE DEF x
  <2>7. PacketIn(w, x, v, c.length)  BY <2>2, <2>5, DynamicIn
  <2> QED  BY <2>7 DEF x
<1>6. CASE type = "ArrayBufferWithSize"
  <2> DEFINE shortCode == IF v.is = "typed" THEN ShortCodes[v.of] ELSE 0
  <2>1. x = WriteArrayBuffer(w, shortCode, v.n, TextOf(v)) /\ n = ShortCodeSize + v.n
    BY <1>6 DEF WriteWith, DynamicSize, NoPacket, BufferTypes
  <2>2. type \in DynamicTypes /\ type \in ValidTypes /\ type # "ArrayWithSize"
    BY <1>6, KindsOfTypes
  <2>3. v.n \in Nat /\ shortCode \in Nat  BY <1>1, <1>6, <2>2
  <2> HIDE DEF shortCode
  <2>8. PICK rest \in Seq(Seq(Fields)) :
          /\ Longer(w, WriteArrayBuffer(w, shortCode, v.n, TextOf(v)),
                    HeaderBuffers("ArrayBufferWithSize", ShortCodeSize + v.n) \o rest)
          /\ Length(rest) = ShortCodeSize + v.n + FooterLength
    BY <2>3, ArrayBufferLonger
  <2>4. \E more \in Seq(Seq(Fields)) :
          /\ Longer(w, x, HeaderBuffers(type, n) \o more)
          /\ Length(more) = n + FooterLength
    BY <1>6, <2>1, <2>8
  <2>5. n \in Nat  BY <2>1, <2>3 DEF ShortCodeSize
  <2>6. Framed(w, x, type, n)  BY <2>4, <2>5 DEF Framed
  <2> HIDE DEF x
  <2>7. PacketIn(w, x, v, c.length)  BY <2>2, <2>6, DynamicIn
  <2> QED  BY <2>7 DEF x
<1>7. CASE type \in BufferTypes
  <2>1. type # "ArrayWithSize" /\ type # "ArrayBufferWithSize" /\ type # NoPacket
        /\ type \in DynamicTypes /\ type \in ValidTypes
    BY <1>7, KindsOfTypes
  <2>2. x = WriteDynamicBuffer(w, type, v.n, TextOf(v)) /\ n = v.n
    BY <1>7, <2>1 DEF WriteWith, DynamicSize
  <2>3. v.n \in Nat  BY <1>1, <2>1
  <2>4. \E rest \in Seq(Seq(Fields)) :
          /\ Longer(w, x, HeaderBuffers(type, n) \o rest)
          /\ Length(rest) = n + FooterLength
    BY <2>1, <2>2, <2>3, DynamicBufferLonger
  <2>5. n \in Nat  BY <2>2, <2>3
  <2>6. Framed(w, x, type, n)  BY <2>4, <2>5 DEF Framed
  <2> HIDE DEF x
  <2>7. PacketIn(w, x, v, c.length)  BY <2>1, <2>6, DynamicIn
  <2> QED  BY <2>7 DEF x
<1> QED  BY <1>1, <1>3, <1>4, <1>5, <1>6, <1>7, KindsOfTypes

(***************************************************************************)
(* Arrays: what is in them, one after another                              *)
(***************************************************************************)

(* A new content is a list of a count.                                     *)
LEMMA NewContentCounts ==
  ASSUME NEW count \in Nat
  PROVE  Counted(NewArrayContent(count)) /\ NewArrayContent(count).length = CountSize
<1> DEFINE field == CountField(count)
           b == <<field>>
           x == WriteBuffer(NewBufferListWriter, b)
<1>1. field \in Fields /\ field.size = CountSize
  BY FieldsOfPackets DEF CountField, Field
<1>2. NewArrayContent(count) = x  BY DEF NewArrayContent
<1> HIDE DEF field
<1>3. b \in Seq(Fields) /\ Total(b) = CountSize  BY <1>1, SizedFields, TotalOne
<1> HIDE DEF b
<1>4. Counted(NewBufferListWriter) /\ NewBufferListWriter.length = 0  BY NewListCounts
<1>5. Longer(NewBufferListWriter, x, <<b>>)  BY <1>3, <1>4, WriteBufferLonger
<1>6. Length(<<b>>) = CountSize  BY <1>3, LengthOne
<1> QED  BY <1>2, <1>4, <1>5, <1>6 DEF Longer, CountSize

(* The elements written up to each set of places.                          *)
Fills(g, base, contents, es, n) ==
  g = [t \in SUBSET (1 .. n) |->
         IF t = {} THEN base
         ELSE WriteWith(g[t \ {Max(t)}], es[Max(t)], contents[es[Max(t)]])]

(* If the first elements can be written, so can one more.                  *)
LEMMA FillsOneMore ==
  ASSUME NEW base, NEW contents, NEW es, NEW n \in Nat, NEW g,
         Fills(g, base, contents, es, n)
  PROVE  \E h : Fills(h, base, contents, es, n + 1)
<1> DEFINE Turn(w, k) == WriteWith(w, es[k], contents[es[k]])
<1> HIDE DEF Turn
<1> DEFINE h == [t \in SUBSET (1 .. n + 1) |->
                   IF n + 1 \in t THEN Turn(g[t \ {n + 1}], n + 1) ELSE g[t]]
           Value_(t) == IF t = {} THEN base ELSE Turn(h[t \ {Max(t)}], Max(t))
<1>1. \A t \in SUBSET (1 .. n) :
        g[t] = IF t = {} THEN base ELSE Turn(g[t \ {Max(t)}], Max(t))
  BY DEF Fills, Turn
<1>2. \A t \in SUBSET (1 .. n) : h[t] = g[t]
  <2>1. \A t \in SUBSET (1 .. n) : t \in SUBSET (1 .. n + 1) /\ n + 1 \notin t  OBVIOUS
  <2> QED  BY <2>1
<1>3. ASSUME NEW t \in SUBSET (1 .. n + 1) PROVE h[t] = Value_(t)
  <2>1. CASE n + 1 \in t
    <3>1. Max(t) \in t /\ \A y \in t : y <= Max(t)
      <4>1. n + 1 \in Nat /\ t # {}  BY <2>1
      <4> QED  BY <4>1, MaxIsGreatest
    <3>2. Max(t) = n + 1
      <4>1. Max(t) \in 1 .. n + 1 /\ n + 1 <= Max(t)  BY <2>1, <3>1
      <4> QED  BY <4>1
    <3>3. t \ {n + 1} \in SUBSET (1 .. n)  OBVIOUS
    <3>4. h[t] = Turn(g[t \ {n + 1}], n + 1)  BY <2>1
    <3>5. h[t \ {n + 1}] = g[t \ {n + 1}]  BY <1>2, <3>3
    <3>6. t # {}  BY <2>1
    <3> HIDE DEF h
    <3> QED  BY <3>2, <3>4, <3>5, <3>6
  <2>2. CASE n + 1 \notin t
    <3>1. t \in SUBSET (1 .. n)  BY <2>2
    <3>2. h[t] = g[t]  BY <1>2, <3>1
    <3>3. CASE t = {}  BY <1>1, <3>1, <3>2, <3>3
    <3>4. CASE t # {}
      <4>1. t \ {Max(t)} \in SUBSET (1 .. n)  BY <3>1
      <4>2. h[t \ {Max(t)}] = g[t \ {Max(t)}]  BY <1>2, <4>1
      <4> HIDE DEF h
      <4> QED  BY <1>1, <3>1, <3>2, <3>4, <4>2
    <3> QED  BY <3>3, <3>4
  <2> QED  BY <2>1, <2>2
<1>4. h = [t \in SUBSET (1 .. n + 1) |-> h[t]]  OBVIOUS
<1> HIDE DEF h
<1>5. h = [t \in SUBSET (1 .. n + 1) |-> Value_(t)]  BY <1>3, <1>4
<1>6. Fills(h, base, contents, es, n + 1)  BY <1>5 DEF Fills, Turn
<1> QED  BY <1>6

(* The content of an array is reached one element at a time.               *)
LEMMA ContentSteps ==
  ASSUME NEW contents, NEW v, v.elements \in Seq(AllValues)
  PROVE  LET es == v.elements
         IN \E f : /\ f[0] = NewArrayContent(Len(es))
                   /\ \A k \in 1 .. Len(es) :
                        f[k] = WriteWith(f[k - 1], es[k], contents[es[k]])
                   /\ ContentWith(contents, v) = f[Len(es)]
<1> DEFINE es == v.elements
           N == Len(es)
           base == NewArrayContent(Len(es))
<1>1. N \in Nat /\ DOMAIN es = 1 .. N  OBVIOUS
<1>2. \E g : Fills(g, base, contents, es, N)
  <2> DEFINE S == {n \in 0 .. N : \E g : Fills(g, base, contents, es, n)}
  <2>1. 0 \in S
    <3> DEFINE none == [t \in SUBSET (1 .. 0) |-> base]
    <3>1. \A t \in SUBSET (1 .. 0) : t = {}  OBVIOUS
    <3>2. Fills(none, base, contents, es, 0)  BY <3>1 DEF Fills
    <3> QED  BY <1>1, <3>2
  <2>2. ASSUME NEW n \in 0 .. N - 1, n \in S PROVE n + 1 \in S
    <3>1. PICK g : Fills(g, base, contents, es, n)  BY <2>2
    <3>2. n \in Nat  OBVIOUS
    <3> HIDE DEF es, base
    <3>3. \E h : Fills(h, base, contents, es, n + 1)  BY <3>1, <3>2, FillsOneMore
    <3> QED  BY <1>1, <3>3
  <2> HIDE DEF S
  <2>3. 0 .. N \subseteq S  BY <1>1, <2>1, <2>2, IntervalInduction
  <2> QED  BY <1>1, <2>3 DEF S
<1> DEFINE g == CHOOSE g : g = [t \in SUBSET DOMAIN es |->
                                  IF t = {} THEN base
                                  ELSE WriteWith(g[t \ {Max(t)}], es[Max(t)],
                                                 contents[es[Max(t)]])]
<1>3. ContentWith(contents, v) = g[DOMAIN es]
  BY DEF ContentWith, FoldLeft, MapThenFoldSet
<1>4. Fills(g, base, contents, es, N)  BY <1>1, <1>2 DEF Fills
<1> HIDE DEF g
<1>5. \A t \in SUBSET (1 .. N) :
        g[t] = IF t = {} THEN base
               ELSE WriteWith(g[t \ {Max(t)}], es[Max(t)], contents[es[Max(t)]])
  BY <1>4 DEF Fills
<1> DEFINE f == [k \in 0 .. N |-> g[1 .. k]]
<1>6. f[0] = base
  <2>1. 1 .. 0 = {} /\ 0 \in 0 .. N  BY <1>1
  <2> QED  BY <1>5, <2>1
<1>7. ASSUME NEW k \in 1 .. N
      PROVE  f[k] = WriteWith(f[k - 1], es[k], contents[es[k]])
  <2>1. Max(1 .. k) = k /\ (1 .. k) \ {Max(1 .. k)} = 1 .. k - 1
    BY MaxOfInterval
  <2>2. 1 .. k \in SUBSET (1 .. N) /\ 1 .. k # {}  BY <1>1
  <2>3. g[1 .. k] = WriteWith(g[(1 .. k) \ {Max(1 .. k)}], es[Max(1 .. k)],
                              contents[es[Max(1 .. k)]])
    BY <1>5, <2>2
  <2>4. g[1 .. k] = WriteWith(g[1 .. k - 1], es[k], contents[es[k]])  BY <2>1, <2>3
  <2>5. k \in 0 .. N /\ k - 1 \in 0 .. N  BY <1>1
  <2> QED  BY <2>4, <2>5
<1>8. ContentWith(contents, v) = f[N]  BY <1>1, <1>3
<1> HIDE DEF f
<1> QED  BY <1>6, <1>7, <1>8

(* The sizes counted up to each set of places.                             *)
Sums(g, base, sizes, es, n) ==
  g = [t \in SUBSET (1 .. n) |->
         IF t = {} THEN base
         ELSE g[t \ {Max(t)}] + BytelengthWith(sizes[es[Max(t)]], es[Max(t)])]

(* If the first sizes can be counted, so can one more.                     *)
LEMMA SumsOneMore ==
  ASSUME NEW base, NEW sizes, NEW es, NEW n \in Nat, NEW g,
         Sums(g, base, sizes, es, n)
  PROVE  \E h : Sums(h, base, sizes, es, n + 1)
<1> DEFINE Turn(w, k) == w + BytelengthWith(sizes[es[k]], es[k])
<1> HIDE DEF Turn
<1> DEFINE h == [t \in SUBSET (1 .. n + 1) |->
                   IF n + 1 \in t THEN Turn(g[t \ {n + 1}], n + 1) ELSE g[t]]
           Value_(t) == IF t = {} THEN base ELSE Turn(h[t \ {Max(t)}], Max(t))
<1>1. \A t \in SUBSET (1 .. n) :
        g[t] = IF t = {} THEN base ELSE Turn(g[t \ {Max(t)}], Max(t))
  BY DEF Sums, Turn
<1>2. \A t \in SUBSET (1 .. n) : h[t] = g[t]
  <2>1. \A t \in SUBSET (1 .. n) : t \in SUBSET (1 .. n + 1) /\ n + 1 \notin t  OBVIOUS
  <2> QED  BY <2>1
<1>3. ASSUME NEW t \in SUBSET (1 .. n + 1) PROVE h[t] = Value_(t)
  <2>1. CASE n + 1 \in t
    <3>1. Max(t) \in t /\ \A y \in t : y <= Max(t)
      <4>1. n + 1 \in Nat /\ t # {}  BY <2>1
      <4> QED  BY <4>1, MaxIsGreatest
    <3>2. Max(t) = n + 1
      <4>1. Max(t) \in 1 .. n + 1 /\ n + 1 <= Max(t)  BY <2>1, <3>1
      <4> QED  BY <4>1
    <3>3. t \ {n + 1} \in SUBSET (1 .. n)  OBVIOUS
    <3>4. h[t] = Turn(g[t \ {n + 1}], n + 1)  BY <2>1
    <3>5. h[t \ {n + 1}] = g[t \ {n + 1}]  BY <1>2, <3>3
    <3>6. t # {}  BY <2>1
    <3> HIDE DEF h
    <3> QED  BY <3>2, <3>4, <3>5, <3>6
  <2>2. CASE n + 1 \notin t
    <3>1. t \in SUBSET (1 .. n)  BY <2>2
    <3>2. h[t] = g[t]  BY <1>2, <3>1
    <3>3. CASE t = {}  BY <1>1, <3>1, <3>2, <3>3
    <3>4. CASE t # {}
      <4>1. t \ {Max(t)} \in SUBSET (1 .. n)  BY <3>1
      <4>2. h[t \ {Max(t)}] = g[t \ {Max(t)}]  BY <1>2, <4>1
      <4> HIDE DEF h
      <4> QED  BY <1>1, <3>1, <3>2, <3>4, <4>2
    <3> QED  BY <3>3, <3>4
  <2> QED  BY <2>1, <2>2
<1>4. h = [t \in SUBSET (1 .. n + 1) |-> h[t]]  OBVIOUS
<1> HIDE DEF h
<1>5. h = [t \in SUBSET (1 .. n + 1) |-> Value_(t)]  BY <1>3, <1>4
<1>6. Sums(h, base, sizes, es, n + 1)  BY <1>5 DEF Sums, Turn
<1> QED  BY <1>6

(* The size of a content is reached one element at a time.                 *)
LEMMA SizeSteps ==
  ASSUME NEW sizes, NEW v, v.elements \in Seq(AllValues)
  PROVE  LET es == v.elements
         IN \E f : /\ f[0] = CountSize
                   /\ \A k \in 1 .. Len(es) :
                        f[k] = f[k - 1] + BytelengthWith(sizes[es[k]], es[k])
                   /\ ContentBytelength(sizes, v) = f[Len(es)]
<1> DEFINE es == v.elements
           N == Len(es)
           base == CountSize
<1>1. N \in Nat /\ DOMAIN es = 1 .. N  OBVIOUS
<1>2. \E g : Sums(g, base, sizes, es, N)
  <2> DEFINE S == {n \in 0 .. N : \E g : Sums(g, base, sizes, es, n)}
  <2>1. 0 \in S
    <3> DEFINE none == [t \in SUBSET (1 .. 0) |-> base]
    <3>1. \A t \in SUBSET (1 .. 0) : t = {}  OBVIOUS
    <3>2. Sums(none, base, sizes, es, 0)  BY <3>1 DEF Sums
    <3> QED  BY <1>1, <3>2
  <2>2. ASSUME NEW n \in 0 .. N - 1, n \in S PROVE n + 1 \in S
    <3>1. PICK g : Sums(g, base, sizes, es, n)  BY <2>2
    <3>2. n \in Nat  OBVIOUS
    <3> HIDE DEF es, base
    <3>3. \E h : Sums(h, base, sizes, es, n + 1)  BY <3>1, <3>2, SumsOneMore
    <3> QED  BY <1>1, <3>3
  <2> HIDE DEF S
  <2>3. 0 .. N \subseteq S  BY <1>1, <2>1, <2>2, IntervalInduction
  <2> QED  BY <1>1, <2>3 DEF S
<1> DEFINE g == CHOOSE g : g = [t \in SUBSET DOMAIN es |->
                                  IF t = {} THEN base
                                  ELSE g[t \ {Max(t)}]
                                         + BytelengthWith(sizes[es[Max(t)]], es[Max(t)])]
<1>3. ContentBytelength(sizes, v) = g[DOMAIN es]
  BY DEF ContentBytelength, FoldLeft, MapThenFoldSet
<1>4. Sums(g, base, sizes, es, N)  BY <1>1, <1>2 DEF Sums
<1> HIDE DEF g
<1>5. \A t \in SUBSET (1 .. N) :
        g[t] = IF t = {} THEN base
               ELSE g[t \ {Max(t)}] + BytelengthWith(sizes[es[Max(t)]], es[Max(t)])
  BY <1>4 DEF Sums
<1> DEFINE f == [k \in 0 .. N |-> g[1 .. k]]
<1>6. f[0] = base
  <2>1. 1 .. 0 = {} /\ 0 \in 0 .. N  BY <1>1
  <2> QED  BY <1>5, <2>1
<1>7. ASSUME NEW k \in 1 .. N
      PROVE  f[k] = f[k - 1] + BytelengthWith(sizes[es[k]], es[k])
  <2>1. Max(1 .. k) = k /\ (1 .. k) \ {Max(1 .. k)} = 1 .. k - 1
    BY MaxOfInterval
  <2>2. 1 .. k \in SUBSET (1 .. N) /\ 1 .. k # {}  BY <1>1
  <2>3. g[1 .. k] = g[(1 .. k) \ {Max(1 .. k)}]
                    + BytelengthWith(sizes[es[Max(1 .. k)]], es[Max(1 .. k)])
    BY <1>5, <2>2
  <2>4. g[1 .. k] = g[1 .. k - 1] + BytelengthWith(sizes[es[k]], es[k])  BY <2>1, <2>3
  <2>5. k \in 0 .. N /\ k - 1 \in 0 .. N  BY <1>1
  <2> QED  BY <2>4, <2>5
<1>8. ContentBytelength(sizes, v) = f[N]  BY <1>1, <1>3
<1> HIDE DEF f
<1> QED  BY <1>6, <1>7, <1>8

(* An array is written as large as it is counted, if its elements are.     *)
LEMMA ContentSums ==
  ASSUME NEW contents, NEW sizes, NEW v \in AllValues,
         \A u \in AllValues : Counted(contents[u]) /\ contents[u].length = sizes[u]
  PROVE  /\ Counted(ContentWith(contents, v))
         /\ ContentWith(contents, v).length = ContentBytelength(sizes, v)
<1> DEFINE es == v.elements
           N == Len(es)
<1>1. es \in Seq(AllValues)  BY TypesOfValues
<1>2. N \in Nat /\ \A k \in 1 .. N : es[k] \in AllValues  BY <1>1
<1>3. PICK f : /\ f[0] = NewArrayContent(N)
               /\ \A k \in 1 .. N : f[k] = WriteWith(f[k - 1], es[k], contents[es[k]])
               /\ ContentWith(contents, v) = f[N]
  BY <1>1, ContentSteps
<1>4. PICK g : /\ g[0] = CountSize
               /\ \A k \in 1 .. N : g[k] = g[k - 1] + BytelengthWith(sizes[es[k]], es[k])
               /\ ContentBytelength(sizes, v) = g[N]
  BY <1>1, SizeSteps
<1> HIDE DEF N, es
<1> DEFINE S == {k \in 0 .. N : Counted(f[k]) /\ f[k].length = g[k]}
<1>5. 0 \in S  BY <1>2, <1>3, <1>4, NewContentCounts
<1>6. ASSUME NEW n \in 0 .. N - 1, n \in S PROVE n + 1 \in S
  <2> DEFINE e == es[n + 1]
  <2>1. n + 1 \in 1 .. N /\ n + 1 \in 0 .. N /\ (n + 1) - 1 = n  BY <1>2
  <2>2. e \in AllValues /\ Counted(contents[e]) /\ contents[e].length = sizes[e]
    BY <1>2, <2>1
  <2>3. f[n + 1] = WriteWith(f[n], e, contents[e]) /\ Counted(f[n])
    BY <1>3, <1>6, <2>1
  <2>4. g[n + 1] = g[n] + BytelengthWith(sizes[e], e) /\ f[n].length = g[n]
    BY <1>4, <1>6, <2>1
  <2> HIDE DEF e
  <2>5. PacketIn(f[n], f[n + 1], e, sizes[e])  BY <2>2, <2>3, ValueWritten
  <2>6. /\ Counted(f[n + 1])
        /\ f[n + 1].length = f[n].length + BytelengthWith(sizes[e], e)
    BY <2>5 DEF PacketIn
  <2> QED  BY <2>1, <2>4, <2>6
<1> HIDE DEF S
<1>7. 0 .. N \subseteq S  BY <1>2, <1>5, <1>6, IntervalInduction
<1>8. Counted(f[N]) /\ f[N].length = g[N]  BY <1>2, <1>7 DEF S
<1> QED  BY <1>3, <1>4, <1>8

(* The contents of values nested so deep, from those nested less deep.     *)
LEMMA ContentsLevels ==
  /\ ContentsNested[0] = [v \in AllValues |-> NewArrayContent(0)]
  /\ \A d \in 1 .. MaxNesting :
       ContentsNested[d] = [v \in AllValues |-> ContentWith(ContentsNested[d - 1], v)]
<1> DEFINE Least == [v \in AllValues |-> NewArrayContent(0)]
           Above(inner) == [v \in AllValues |-> ContentWith(inner, v)]
           Levels(g, n) == g = [d \in 0 .. n |-> IF d = 0 THEN Least ELSE Above(g[d - 1])]
<1>1. \E g : Levels(g, MaxNesting)
  <2> HIDE DEF Least, Above
  <2> DEFINE S == {n \in 0 .. MaxNesting : \E g : Levels(g, n)}
  <2>0. MaxNesting \in Nat  BY CodecAssumption
  <2>1. 0 \in S
    <3> DEFINE one == [d \in 0 .. 0 |-> Least]
    <3>1. Levels(one, 0)  OBVIOUS
    <3> HIDE DEF one
    <3>2. \E g : Levels(g, 0)  BY <3>1
    <3> QED  BY <2>0, <3>2
  <2>2. ASSUME NEW n \in 0 .. MaxNesting - 1, n \in S PROVE n + 1 \in S
    <3>1. PICK g : Levels(g, n)  BY <2>2
    <3> DEFINE h == [d \in 0 .. n + 1 |-> IF d = n + 1 THEN Above(g[n]) ELSE g[d]]
    <3>2. \A d \in 0 .. n : g[d] = IF d = 0 THEN Least ELSE Above(g[d - 1])
      BY <3>1
    <3>3. ASSUME NEW d \in 0 .. n + 1
          PROVE  h[d] = IF d = 0 THEN Least ELSE Above(h[d - 1])
      <4>1. CASE d = n + 1
        <5>1. d # 0 /\ d - 1 = n /\ n \in 0 .. n + 1 /\ n # n + 1  BY <4>1
        <5>2. h[d] = Above(g[n]) /\ h[d - 1] = g[n]  BY <4>1, <5>1
        <5> QED  BY <5>1, <5>2
      <4>2. CASE d \in 1 .. n
        <5>1. /\ d # 0 /\ d # n + 1 /\ d - 1 # n + 1 /\ d - 1 \in 0 .. n + 1
              /\ d \in 0 .. n
          BY <4>2
        <5>2. h[d] = g[d] /\ h[d - 1] = g[d - 1]  BY <5>1
        <5>3. g[d] = Above(g[d - 1])  BY <3>2, <5>1
        <5> QED  BY <5>1, <5>2, <5>3
      <4>3. CASE d = 0
        <5>1. h[d] = g[d] /\ d \in 0 .. n  BY <4>3
        <5> QED  BY <3>2, <4>3, <5>1
      <4> QED  BY <4>1, <4>2, <4>3
    <3>4. h = [d \in 0 .. n + 1 |-> h[d]]  OBVIOUS
    <3> HIDE DEF h
    <3>5. Levels(h, n + 1)  BY <3>3, <3>4
    <3> QED  BY <2>0, <3>5
  <2> HIDE DEF S
  <2>3. 0 .. MaxNesting \subseteq S  BY <2>0, <2>1, <2>2, IntervalInduction
  <2>4. MaxNesting \in S  BY <2>0, <2>3
  <2> QED  BY <2>4 DEF S
<1>2. Levels(ContentsNested, MaxNesting)  BY <1>1 DEF ContentsNested
<1>3. \A d \in 0 .. MaxNesting :
        ContentsNested[d] = IF d = 0 THEN Least ELSE Above(ContentsNested[d - 1])
  <2> HIDE DEF Least, Above
  <2> QED  BY <1>2
<1>4. 0 \in 0 .. MaxNesting /\ \A d \in 1 .. MaxNesting : d \in 0 .. MaxNesting /\ d # 0
  BY CodecAssumption
<1>5. ContentsNested[0] = Least
      /\ \A d \in 1 .. MaxNesting : ContentsNested[d] = Above(ContentsNested[d - 1])
  <2> HIDE DEF Least, Above
  <2> QED  BY <1>3, <1>4
<1> QED  BY <1>5

(* The sizes of what is nested so deep, from those of what is nested less. *)
LEMMA SizesLevels ==
  /\ BytelengthsNested[0] = [v \in AllValues |-> CountSize]
  /\ \A d \in 1 .. MaxNesting :
       BytelengthsNested[d] = [v \in AllValues |-> ContentBytelength(BytelengthsNested[d - 1], v)]
<1> DEFINE Least == [v \in AllValues |-> CountSize]
           Above(inner) == [v \in AllValues |-> ContentBytelength(inner, v)]
           Levels(g, n) == g = [d \in 0 .. n |-> IF d = 0 THEN Least ELSE Above(g[d - 1])]
<1>1. \E g : Levels(g, MaxNesting)
  <2> HIDE DEF Least, Above
  <2> DEFINE S == {n \in 0 .. MaxNesting : \E g : Levels(g, n)}
  <2>0. MaxNesting \in Nat  BY CodecAssumption
  <2>1. 0 \in S
    <3> DEFINE one == [d \in 0 .. 0 |-> Least]
    <3>1. Levels(one, 0)  OBVIOUS
    <3> HIDE DEF one
    <3>2. \E g : Levels(g, 0)  BY <3>1
    <3> QED  BY <2>0, <3>2
  <2>2. ASSUME NEW n \in 0 .. MaxNesting - 1, n \in S PROVE n + 1 \in S
    <3>1. PICK g : Levels(g, n)  BY <2>2
    <3> DEFINE h == [d \in 0 .. n + 1 |-> IF d = n + 1 THEN Above(g[n]) ELSE g[d]]
    <3>2. \A d \in 0 .. n : g[d] = IF d = 0 THEN Least ELSE Above(g[d - 1])
      BY <3>1
    <3>3. ASSUME NEW d \in 0 .. n + 1
          PROVE  h[d] = IF d = 0 THEN Least ELSE Above(h[d - 1])
      <4>1. CASE d = n + 1
        <5>1. d # 0 /\ d - 1 = n /\ n \in 0 .. n + 1 /\ n # n + 1  BY <4>1
        <5>2. h[d] = Above(g[n]) /\ h[d - 1] = g[n]  BY <4>1, <5>1
        <5> QED  BY <5>1, <5>2
      <4>2. CASE d \in 1 .. n
        <5>1. /\ d # 0 /\ d # n + 1 /\ d - 1 # n + 1 /\ d - 1 \in 0 .. n + 1
              /\ d \in 0 .. n
          BY <4>2
        <5>2. h[d] = g[d] /\ h[d - 1] = g[d - 1]  BY <5>1
        <5>3. g[d] = Above(g[d - 1])  BY <3>2, <5>1
        <5> QED  BY <5>1, <5>2, <5>3
      <4>3. CASE d = 0
        <5>1. h[d] = g[d] /\ d \in 0 .. n  BY <4>3
        <5> QED  BY <3>2, <4>3, <5>1
      <4> QED  BY <4>1, <4>2, <4>3
    <3>4. h = [d \in 0 .. n + 1 |-> h[d]]  OBVIOUS
    <3> HIDE DEF h
    <3>5. Levels(h, n + 1)  BY <3>3, <3>4
    <3> QED  BY <2>0, <3>5
  <2> HIDE DEF S
  <2>3. 0 .. MaxNesting \subseteq S  BY <2>0, <2>1, <2>2, IntervalInduction
  <2>4. MaxNesting \in S  BY <2>0, <2>3
  <2> QED  BY <2>4 DEF S
<1>2. Levels(BytelengthsNested, MaxNesting)  BY <1>1 DEF BytelengthsNested
<1>3. \A d \in 0 .. MaxNesting :
        BytelengthsNested[d] = IF d = 0 THEN Least ELSE Above(BytelengthsNested[d - 1])
  <2> HIDE DEF Least, Above
  <2> QED  BY <1>2
<1>4. 0 \in 0 .. MaxNesting /\ \A d \in 1 .. MaxNesting : d \in 0 .. MaxNesting /\ d # 0
  BY CodecAssumption
<1>5. BytelengthsNested[0] = Least
      /\ \A d \in 1 .. MaxNesting : BytelengthsNested[d] = Above(BytelengthsNested[d - 1])
  <2> HIDE DEF Least, Above
  <2> QED  BY <1>3, <1>4
<1> QED  BY <1>5

(* The content of every value is as large as it is counted, at each level. *)
LEMMA LevelsAreCounted ==
  \A d \in 0 .. MaxNesting, v \in AllValues :
    Counted(ContentsNested[d][v]) /\ ContentsNested[d][v].length = BytelengthsNested[d][v]
<1> DEFINE Right(d) == \A v \in AllValues :
                         /\ Counted(ContentsNested[d][v])
                         /\ ContentsNested[d][v].length = BytelengthsNested[d][v]
           S == {d \in 0 .. MaxNesting : Right(d)}
<1>0. MaxNesting \in Nat  BY CodecAssumption
<1>1. Right(0)
  <2>1. \A v \in AllValues : /\ ContentsNested[0][v] = NewArrayContent(0)
                             /\ BytelengthsNested[0][v] = CountSize
    BY ContentsLevels, SizesLevels
  <2>2. Counted(NewArrayContent(0)) /\ NewArrayContent(0).length = CountSize
    BY NewContentCounts
  <2> QED  BY <2>1, <2>2
<1>2. ASSUME NEW d \in 0 .. MaxNesting - 1, Right(d) PROVE Right(d + 1)
  <2> DEFINE contents == ContentsNested[d]
             sizes == BytelengthsNested[d]
  <2>1. d + 1 \in 1 .. MaxNesting /\ (d + 1) - 1 = d  BY <1>0
  <2>2. \A v \in AllValues :
          /\ ContentsNested[d + 1][v] = ContentWith(contents, v)
          /\ BytelengthsNested[d + 1][v] = ContentBytelength(sizes, v)
    <3>1. /\ ContentsNested[d + 1] = [v \in AllValues |-> ContentWith(contents, v)]
          /\ BytelengthsNested[d + 1] = [v \in AllValues |-> ContentBytelength(sizes, v)]
      BY <2>1, ContentsLevels, SizesLevels
    <3> QED  BY <3>1
  <2>3. \A u \in AllValues : Counted(contents[u]) /\ contents[u].length = sizes[u]
    BY <1>2
  <2> HIDE DEF contents, sizes
  <2>4. \A v \in AllValues : /\ Counted(ContentWith(contents, v))
                             /\ ContentWith(contents, v).length = ContentBytelength(sizes, v)
    BY <2>3, ContentSums
  <2> QED  BY <2>2, <2>4
<1> HIDE DEF Right
<1>3. 0 \in S  BY <1>0, <1>1
<1>4. ASSUME NEW d \in 0 .. MaxNesting - 1, d \in S PROVE d + 1 \in S
  BY <1>0, <1>2, <1>4
<1> HIDE DEF S
<1>5. 0 .. MaxNesting \subseteq S  BY <1>0, <1>3, <1>4, IntervalInduction
<1>6. \A d \in 0 .. MaxNesting : Right(d)  BY <1>5 DEF S
<1> QED  BY <1>6 DEF Right

(* So is the content that is written of every value.                       *)
LEMMA ContentsAreCounted ==
  \A v \in AllValues :
    Counted(Contents[v]) /\ Contents[v].length = ContentBytelengths[v]
<1>1. MaxNesting \in 0 .. MaxNesting  BY CodecAssumption
<1> QED  BY <1>1, LevelsAreCounted DEF Contents, ContentBytelengths

(***************************************************************************)
(* What is written of one value                                            *)
(***************************************************************************)

(* The header of the packet of a value.                                    *)
HeaderOf(v) ==
  IF PacketType(v) \in DynamicTypes
  THEN RawHeader(PacketType(v), DynamicHeaderSize, DynamicSize(ContentBytelengths[v], v))
  ELSE RawHeader(PacketType(v), FixedHeaderSize, FixedContentSize(PacketType(v)))

(* Of one value only its packet is written.                                *)
LEMMA WrittenOne ==
  \A v : Written(<<v>>) = WriteValue(NewBufferListWriter, v).buffers
<1> TAKE v
<1> DEFINE base == NewBufferListWriter
           Turn(w, x) == WriteValue(w, x)
           s == <<v>>
           Folds(g) == g = [t \in SUBSET DOMAIN s |->
                              IF t = {} THEN base ELSE Turn(g[t \ {Max(t)}], s[Max(t)])]
           g == CHOOSE g : Folds(g)
<1>1. FoldLeft(WriteValue, base, s) = g[DOMAIN s]
  BY DEF FoldLeft, MapThenFoldSet
<1>2. DOMAIN s = 1 .. 1 /\ s[1] = v  OBVIOUS
<1>3. Max(1 .. 1) = 1 /\ (1 .. 1) \ {Max(1 .. 1)} = {}
  <2>1. \A k \in Nat \ {0} : Max(1 .. k) = k /\ (1 .. k) \ {Max(1 .. k)} = 1 .. k - 1
    BY MaxOfInterval
  <2>2. 1 \in Nat \ {0} /\ 1 .. 1 - 1 = {}  OBVIOUS
  <2> QED  BY <2>1, <2>2
<1> HIDE DEF Turn, base, s
<1>4. \E h : Folds(h)
  <2> DEFINE h == [t \in SUBSET DOMAIN s |-> IF t = {} THEN base ELSE Turn(base, v)]
  <2>1. ASSUME NEW t \in SUBSET DOMAIN s
        PROVE  h[t] = IF t = {} THEN base ELSE Turn(h[t \ {Max(t)}], s[Max(t)])
    <3>1. CASE t = {}  BY <3>1
    <3>2. CASE t # {}
      <4>1. t = 1 .. 1  BY <1>2, <3>2
      <4>2. t \ {Max(t)} = {} /\ s[Max(t)] = v /\ {} \in SUBSET DOMAIN s
        BY <1>2, <1>3, <4>1
      <4>3. h[t \ {Max(t)}] = base  BY <4>2
      <4>4. h[t] = Turn(base, v)  BY <3>2
      <4> QED  BY <3>2, <4>2, <4>3, <4>4
    <3> QED  BY <3>1, <3>2
  <2>2. h = [t \in SUBSET DOMAIN s |-> h[t]]  OBVIOUS
  <2> HIDE DEF h
  <2>3. Folds(h)  BY <2>1, <2>2
  <2> QED  BY <2>3
<1>5. Folds(g)  BY <1>4
<1> HIDE DEF g
<1>6. \A t \in SUBSET DOMAIN s :
        g[t] = IF t = {} THEN base ELSE Turn(g[t \ {Max(t)}], s[Max(t)])
  BY <1>5
<1>7. g[{}] = base  BY <1>6
<1>8. g[1 .. 1] = Turn(base, v)
  <2>1. 1 .. 1 \in SUBSET DOMAIN s /\ 1 .. 1 # {}  BY <1>2
  <2>2. g[1 .. 1] = Turn(g[(1 .. 1) \ {Max(1 .. 1)}], s[Max(1 .. 1)])  BY <1>6, <2>1
  <2> QED  BY <1>2, <1>3, <1>7, <2>2
<1>9. FoldLeft(WriteValue, base, s) = Turn(base, v)  BY <1>1, <1>2, <1>8
<1> QED  BY <1>9 DEF Written, Turn, base, s

(* The buffers of a packet, and that it is as large as bytelength says.    *)
LEMMA PacketWritten ==
  ASSUME NEW v \in AllValues
  PROVE  LET buffers == Written(<<v>>)
             type == PacketType(v)
             n == DynamicSize(ContentBytelengths[v], v)
         IN /\ buffers \in Seq(Seq(Fields))
            /\ Length(buffers) = Bytelength(v)
            /\ type \in FixedTypes =>
                 /\ buffers = <<Block(type, TextOf(v))>>
                 /\ Block(type, TextOf(v)) \in Seq(Fields)
                 /\ Total(Block(type, TextOf(v))) = Bytelength(v)
            /\ type \in DynamicTypes =>
                 /\ n \in Nat
                 /\ Bytelength(v) = DynamicHeaderSize + n + FooterLength
                 /\ \E rest \in Seq(Seq(Fields)) : buffers = HeaderBuffers(type, n) \o rest
<1> DEFINE type == PacketType(v)
           n == DynamicSize(ContentBytelengths[v], v)
           w == NewBufferListWriter
           x == WriteWith(w, v, Contents[v])
<1>1. Counted(w) /\ w.buffers = <<>> /\ w.length = 0  BY NewListCounts
<1>2. Counted(Contents[v]) /\ Contents[v].length = ContentBytelengths[v]
  BY ContentsAreCounted
<1>3. Written(<<v>>) = x.buffers  BY WrittenOne DEF WriteValue
<1>4. PacketIn(w, x, v, ContentBytelengths[v])  BY <1>1, <1>2, ValueWritten
<1> HIDE DEF x, w
<1>5. Counted(x) /\ x.length = 0 + Bytelength(v)
  BY <1>1, <1>4 DEF PacketIn, Bytelength
<1>6. x.buffers \in Seq(Seq(Fields)) /\ x.length \in Nat /\ x.length = Length(x.buffers)
  BY <1>5 DEF Counted, Lists
<1>7. Length(x.buffers) = Bytelength(v)
  <2>1. x.length = Bytelength(v)
    <3>1. BytelengthWith(ContentBytelengths[v], v) \in Int
      <4>1. CASE type = NoPacket
        BY <4>1, KindsOfTypes DEF BytelengthWith, NoPacket, BufferTypes
      <4>2. CASE type \in FixedTypes
        <5>1. Block(type, TextOf(v)) \in Seq(Fields)
              /\ Total(Block(type, TextOf(v))) = BytelengthWith(ContentBytelengths[v], v)
          BY <1>4, <4>2 DEF PacketIn
        <5>2. Total(Block(type, TextOf(v))) \in Nat  BY <5>1, SizedFields, TotalIsNat
        <5> QED  BY <5>1, <5>2
      <4>3. CASE type \in DynamicTypes
        <5>1. n \in Nat /\ BytelengthWith(ContentBytelengths[v], v)
                             = DynamicHeaderSize + n + FooterLength
          BY <1>4, <4>3 DEF PacketIn
        <5> QED  BY <5>1 DEF DynamicHeaderSize, FixedHeaderSize, ContentFieldSize, FooterLength
      <4> QED  BY <4>1, <4>2, <4>3, TypesOfValues, KindsOfTypes
    <3> QED  BY <1>5, <3>1 DEF Bytelength
  <2> QED  BY <1>6, <2>1
<1>8. ASSUME type \in FixedTypes
      PROVE  /\ x.buffers = <<Block(type, TextOf(v))>>
             /\ Block(type, TextOf(v)) \in Seq(Fields)
             /\ Total(Block(type, TextOf(v))) = Bytelength(v)
  <2> DEFINE block == Block(type, TextOf(v))
  <2>1. /\ x.buffers = w.buffers \o <<block>> /\ block \in Seq(Fields)
        /\ Total(block) = Bytelength(v)
    BY <1>4, <1>8 DEF PacketIn, Bytelength
  <2> HIDE DEF block
  <2>2. <<>> \o <<block>> = <<block>>  BY <2>1
  <2> QED  BY <1>1, <2>1, <2>2 DEF block
<1>9. ASSUME type \in DynamicTypes
      PROVE  /\ n \in Nat
             /\ Bytelength(v) = DynamicHeaderSize + n + FooterLength
             /\ \E rest \in Seq(Seq(Fields)) : x.buffers = HeaderBuffers(type, n) \o rest
  <2>1. /\ n \in Nat
        /\ Bytelength(v) = DynamicHeaderSize + n + FooterLength
        /\ \E rest \in Seq(Seq(Fields)) :
             x.buffers = w.buffers \o (HeaderBuffers(type, n) \o rest)
    BY <1>4, <1>9 DEF PacketIn, Bytelength
  <2>2. PICK rest \in Seq(Seq(Fields)) :
          x.buffers = w.buffers \o (HeaderBuffers(type, n) \o rest)
    BY <2>1
  <2> DEFINE h == HeaderBuffers(type, n)
             all == h \o rest
  <2>3. h \in Seq(Seq(Fields))  BY <1>1, <1>9, <2>1, HeaderLonger, KindsOfTypes
  <2>4. all \in Seq(Seq(Fields))  BY <2>3
  <2> HIDE DEF all
  <2>5. <<>> \o all = all  BY <2>4
  <2>6. x.buffers = all  BY <1>1, <2>2, <2>5 DEF all
  <2> QED  BY <2>1, <2>6 DEF all
<1> QED  BY <1>3, <1>6, <1>7, <1>8, <1>9

(* The header of a packet has its size.                                    *)
LEMMA HeaderOfSize ==
  ASSUME NEW v \in AllValues, PacketType(v) # NoPacket
  PROVE  /\ HeaderOf(v).type = PacketType(v)
         /\ HeaderOf(v).type \in ValidTypes
         /\ HeaderOf(v).contentSize \in Nat
         /\ PacketSize(HeaderOf(v)) = Bytelength(v)
<1> DEFINE type == PacketType(v)
           n == DynamicSize(ContentBytelengths[v], v)
<1>1. type \in ValidTypes  BY TypesOfValues
<1>2. CASE type \in DynamicTypes
  <2>1. n \in Nat /\ Bytelength(v) = DynamicHeaderSize + n + FooterLength
    BY <1>2, PacketWritten
  <2>2. HeaderOf(v) = [type |-> type, headerSize |-> DynamicHeaderSize, contentSize |-> n]
    BY <1>2 DEF HeaderOf, RawHeader
  <2> HIDE DEF n
  <2> QED
    BY <1>1, <2>1, <2>2 DEF PacketSize, DynamicHeaderSize, FixedHeaderSize, ContentFieldSize,
                            FooterLength
<1>3. CASE type \notin DynamicTypes
  <2> DEFINE size == FixedContentSize(type)
             block == Block(type, TextOf(v))
  <2>1. HeaderOf(v) = [type |-> type, headerSize |-> FixedHeaderSize, contentSize |-> size]
    BY <1>3 DEF HeaderOf, RawHeader
  <2>2. size \in Nat
    BY DEF FixedContentSize, DoubleContentSize, IntegerContentSize, ZeroContentSize
  <2>3. type \in FixedTypes  BY <1>1, <1>3, KindsOfTypes
  <2>4. Total(block) = Bytelength(v)  BY <2>3, PacketWritten
  <2>5. Total(block) = FixedHeaderSize + size + FooterLength
    BY <2>3, NewListCounts, FixedLonger
  <2> HIDE DEF size
  <2> QED  BY <1>1, <2>1, <2>2, <2>4, <2>5 DEF PacketSize, FixedHeaderSize, FooterLength
<1> QED  BY <1>2, <1>3

(* The header that write tells is the one of the packet.                   *)
LEMMA HeaderIsWritten ==
  ASSUME NEW v \in AllValues, NEW header
  PROVE  HeaderWritten(header, v) = IF PacketType(v) = NoPacket THEN header ELSE HeaderOf(v)
<1> DEFINE type == PacketType(v)
           n == DynamicSize(ContentBytelengths[v], v)
           buffers == Written(<<v>>)
<1>1. type \in ValidTypes \cup {NoPacket}  BY TypesOfValues
<1>2. CASE type = NoPacket
  BY <1>2, KindsOfTypes DEF HeaderWritten
<1>3. CASE type \in DynamicTypes
  <2>1. n \in Nat /\ \E rest \in Seq(Seq(Fields)) : buffers = HeaderBuffers(type, n) \o rest
    BY <1>3, PacketWritten
  <2>2. PICK rest \in Seq(Seq(Fields)) : buffers = HeaderBuffers(type, n) \o rest
    BY <2>1
  <2> DEFINE t == <<TypeField(type)>>
             s == <<SizeField(n)>>
  <2>3. HeaderBuffers(type, n) = <<t, s>> /\ s[1].says = n
    BY DEF HeaderBuffers, SizeField, Field
  <2>4. t \in Seq(Fields) /\ s \in Seq(Fields)
    BY <1>3, <2>1, FieldsOfPackets, KindsOfTypes
  <2> HIDE DEF t, s
  <2>5. <<t, s>> \in Seq(Seq(Fields)) /\ Len(<<t, s>>) = 2 /\ <<t, s>>[2] = s
    BY <2>4
  <2>6. (<<t, s>> \o rest)[2] = s
    <3> DEFINE ts == <<t, s>>
               T == Seq(Fields)
    <3>1. ts \in Seq(T) /\ rest \in Seq(T) /\ Len(ts) = 2 /\ ts[2] = s  BY <2>5
    <3> HIDE DEF ts, T
    <3>2. Len(rest) \in Nat  BY <3>1
    <3>3. 2 \in 1 .. Len(ts) + Len(rest) /\ 2 <= Len(ts)  BY <3>1, <3>2
    <3>4. \A i \in 1 .. Len(ts) + Len(rest) :
            (ts \o rest)[i] = IF i <= Len(ts) THEN ts[i] ELSE rest[i - Len(ts)]
      BY <3>1, ConcatProperties
    <3>5. (ts \o rest)[2] = s  BY <3>1, <3>3, <3>4
    <3> QED  BY <3>5 DEF ts
  <2>7. buffers[2][1].says = n  BY <2>2, <2>3, <2>6
  <2>8. HeaderWritten(header, v) = RawHeader(type, DynamicHeaderSize, n)
    BY <1>3, <2>7, KindsOfTypes DEF HeaderWritten
  <2> QED  BY <1>3, <2>8, KindsOfTypes DEF HeaderOf
<1>4. CASE type \in FixedTypes
  <2> DEFINE size == FixedContentSize(type)
             block == Block(type, TextOf(v))
  <2>1. buffers = <<block>>  BY <1>4, PacketWritten
  <2>2. Total(block) = FixedHeaderSize + size + FooterLength
    BY <1>4, NewListCounts, FixedLonger
  <2>3. size \in Nat
    BY DEF FixedContentSize, DoubleContentSize, IntegerContentSize, ZeroContentSize
  <2>4. type # NoPacket /\ type \notin DynamicTypes  BY <1>4, KindsOfTypes
  <2>5. buffers[1] = block  BY <2>1
  <2>6. HeaderWritten(header, v)
          = RawHeader(type, FixedHeaderSize, Total(block) - FixedHeaderSize - FooterLength)
    BY <2>4, <2>5 DEF HeaderWritten
  <2> HIDE DEF block, size
  <2>7. Total(block) - FixedHeaderSize - FooterLength = size
    BY <2>2, <2>3 DEF FixedHeaderSize, FooterLength
  <2> QED  BY <2>4, <2>6, <2>7 DEF HeaderOf, size
<1> QED  BY <1>1, <1>2, <1>3, <1>4, KindsOfTypes

(***************************************************************************)
(* What is read of one value                                               *)
(***************************************************************************)

(* A packet begins with its type, and its content size if it has one.      *)
LEMMA FieldsWritten ==
  ASSUME NEW v \in AllValues, PacketType(v) # NoPacket
  PROVE  LET fields == FlattenSeq(Written(<<v>>))
             type == PacketType(v)
             n == DynamicSize(ContentBytelengths[v], v)
         IN /\ fields \in Seq(Fields)
            /\ Len(fields) >= 2
            /\ fields[1] = TypeField(type)
            /\ type \in DynamicTypes => fields[2] = SizeField(n)
<1> DEFINE type == PacketType(v)
           n == DynamicSize(ContentBytelengths[v], v)
           buffers == Written(<<v>>)
           fields == FlattenSeq(buffers)
<1>1. type \in ValidTypes  BY TypesOfValues
<1>2. CASE type \in FixedTypes
  <2> DEFINE block == Block(type, TextOf(v))
  <2>1. buffers = <<block>> /\ block \in Seq(Fields)  BY <1>2, PacketWritten
  <2>2. Len(block) = 3 /\ block[1] = TypeField(type)  BY DEF Block
  <2> HIDE DEF block
  <2>3. fields = block  BY <2>1, FlattenOne
  <2>4. type \notin DynamicTypes  BY <1>2, KindsOfTypes
  <2> HIDE DEF fields
  <2>5. fields \in Seq(Fields) /\ Len(fields) >= 2 /\ fields[1] = TypeField(type)
    BY <2>1, <2>2, <2>3
  <2> QED  BY <2>4, <2>5 DEF fields
<1>3. CASE type \in DynamicTypes
  <2>1. n \in Nat /\ \E rest \in Seq(Seq(Fields)) : buffers = HeaderBuffers(type, n) \o rest
    BY <1>3, PacketWritten
  <2>2. PICK rest \in Seq(Seq(Fields)) : buffers = HeaderBuffers(type, n) \o rest
    BY <2>1
  <2> DEFINE t == TypeField(type)
             s == SizeField(n)
             h == HeaderBuffers(type, n)
  <2>3. t \in Fields /\ s \in Fields  BY <1>1, <2>1, FieldsOfPackets
  <2>4. h = <<<<t>>, <<s>>>>  BY DEF HeaderBuffers
  <2>5. h \in Seq(Seq(Fields))  BY <1>1, <2>1, NewListCounts, HeaderLonger
  <2> HIDE DEF h
  <2>6. FlattenSeq(h) = <<t, s>>
    <3> DEFINE one == <<t>>
               two == <<s>>
    <3>1. one \in Seq(Fields) /\ two \in Seq(Fields)  BY <2>3
    <3>2. one \o two = <<t, s>>  BY <2>3, TwoInOne
    <3>3. h = <<one, two>>  BY <2>4
    <3> HIDE DEF one, two
    <3>4. /\ <<one>> \in Seq(Seq(Fields)) /\ <<two>> \in Seq(Seq(Fields))
          /\ <<one>> \o <<two>> = <<one, two>>
      BY <3>1, TwoInOne
    <3>5. FlattenSeq(<<one>> \o <<two>>) = FlattenSeq(<<one>>) \o FlattenSeq(<<two>>)
      BY <3>4, FlattenConcat
    <3>6. FlattenSeq(<<one>>) = one /\ FlattenSeq(<<two>>) = two  BY <3>1, FlattenOne
    <3> QED  BY <3>2, <3>3, <3>4, <3>5, <3>6
  <2>7. fields = FlattenSeq(h) \o FlattenSeq(rest)
    <3>1. buffers = h \o rest  BY <2>2 DEF h
    <3>2. FlattenSeq(h \o rest) = FlattenSeq(h) \o FlattenSeq(rest)
      BY <2>5, FlattenConcat
    <3> QED  BY <3>1, <3>2
  <2>8. FlattenSeq(rest) \in Seq(Fields)
    <3>1. <<>> \in Seq(Fields)  OBVIOUS
    <3> QED  BY <3>1, FlattenAppend
  <2> DEFINE ts == <<t, s>>
             more == FlattenSeq(rest)
  <2>9. ts \in Seq(Fields) /\ Len(ts) = 2 /\ ts[1] = t /\ ts[2] = s  BY <2>3
  <2>10. fields = ts \o more  BY <2>6, <2>7
  <2> HIDE DEF ts, more, t, s, fields
  <2>11. fields \in Seq(Fields) /\ Len(fields) >= 2 /\ fields[1] = t /\ fields[2] = s
    <3>1. more \in Seq(Fields) /\ Len(more) \in Nat  BY <2>8 DEF more
    <3>2. 1 \in 1 .. Len(ts) + Len(more) /\ 2 \in 1 .. Len(ts) + Len(more)
      BY <2>9, <3>1
    <3>3. \A i \in 1 .. Len(ts) + Len(more) :
            (ts \o more)[i] = IF i <= Len(ts) THEN ts[i] ELSE more[i - Len(ts)]
      BY <2>9, <3>1, ConcatProperties
    <3>6. 1 <= Len(ts) /\ 2 <= Len(ts)  BY <2>9
    <3>7. (ts \o more)[1] = ts[1]  BY <3>2, <3>3, <3>6
    <3>8. (ts \o more)[2] = ts[2]  BY <3>2, <3>3, <3>6
    <3>4. (ts \o more)[1] = t /\ (ts \o more)[2] = s  BY <2>9, <3>7, <3>8
    <3>5. ts \o more \in Seq(Fields) /\ Len(ts \o more) = Len(ts) + Len(more)
      BY <2>9, <3>1, ConcatProperties
    <3> QED  BY <2>9, <2>10, <3>1, <3>4, <3>5
  <2> QED  BY <2>11 DEF t, s, fields
<1> QED  BY <1>1, <1>2, <1>3, KindsOfTypes

(* The first field is at the start, and no other is if it has a size.      *)
LEMMA FirstIsAtStart ==
  ASSUME NEW fields \in Seq(Fields), Len(fields) >= 1, fields[1].size > 0
  PROVE  /\ PlaceOf(fields, 1).lo = 0
         /\ \A k \in 2 .. Len(fields) : PlaceOf(fields, k).lo # 0
<1>0. Len(fields) \in Nat /\ fields[1] \in Fields  OBVIOUS
<1>1. PlaceOf(fields, 1).lo = 0
  <2>1. SubSeq(fields, 1, 1 - 1) = <<>>  OBVIOUS
  <2>2. PlaceOf(fields, 1).lo = Total(SubSeq(fields, 1, 1 - 1))  BY DEF PlaceOf
  <2> QED  BY <2>1, <2>2, TotalNothing
<1>2. ASSUME NEW k \in 2 .. Len(fields) PROVE PlaceOf(fields, k).lo # 0
  <2> DEFINE front == <<fields[1]>>
             rest == SubSeq(fields, 2, k - 1)
             all == SubSeq(fields, 1, k - 1)
  <2>1. /\ front \in Seq(Fields) /\ rest \in Seq(Fields) /\ all \in Seq(Fields)
        /\ Len(front) = 1 /\ Len(rest) = k - 2 /\ Len(all) = k - 1
        /\ front[1] = fields[1]
        /\ \A i \in 1 .. k - 2 : rest[i] = fields[i + 1]
        /\ \A i \in 1 .. k - 1 : all[i] = fields[i]
    <3>1. front \in Seq(Fields) /\ Len(front) = 1 /\ front[1] = fields[1]  BY <1>0
    <3>2. /\ rest \in Seq(Fields) /\ Len(rest) = k - 2
          /\ \A i \in 1 .. k - 2 : rest[i] = fields[i + 1]
      BY <1>0
    <3>3. /\ all \in Seq(Fields) /\ Len(all) = k - 1
          /\ \A i \in 1 .. k - 1 : all[i] = fields[i]
      BY <1>0
    <3> QED  BY <3>1, <3>2, <3>3
  <2>2. PlaceOf(fields, k).lo = Total(all)  BY DEF PlaceOf
  <2>3. Total(front) = fields[1].size  BY <1>0, SizedFields, TotalOne
  <2> HIDE DEF front, rest, all
  <2>4. all = front \o rest
    <3> DEFINE joined == front \o rest
    <3>0. Len(front) \in Nat /\ Len(rest) \in Nat  BY <2>1
    <3>1. joined \in Seq(Fields) /\ Len(joined) = k - 1
      <4>1. joined \in Seq(Fields) /\ Len(joined) = Len(front) + Len(rest)
        BY <2>1, ConcatProperties
      <4> QED  BY <2>1, <4>1
    <3>2. \A i \in 1 .. k - 1 : joined[i] = all[i]
      <4>1. \A i \in 1 .. Len(front) + Len(rest) :
              joined[i] = IF i <= Len(front) THEN front[i] ELSE rest[i - Len(front)]
        <5>1. front \in Seq(Fields) /\ rest \in Seq(Fields)  BY <2>1
        <5>2. \A i \in 1 .. Len(front) + Len(rest) :
                (front \o rest)[i]
                  = IF i <= Len(front) THEN front[i] ELSE rest[i - Len(front)]
          BY <5>1, <3>0, ConcatProperties
        <5> QED  BY <5>2
      <4> HIDE DEF joined
      <4>2. ASSUME NEW i \in 1 .. k - 1 PROVE joined[i] = all[i]
        <5>1. i \in 1 .. Len(front) + Len(rest)  BY <2>1
        <5>2. CASE i = 1
          <6>1. i <= Len(front)  BY <2>1, <5>2
          <6>2. joined[i] = front[i]  BY <4>1, <5>1, <6>1
          <6> QED  BY <2>1, <5>2, <6>2
        <5>3. CASE i # 1
          <6>1. i - 1 \in 1 .. k - 2 /\ (i - 1) + 1 = i /\ ~(i <= 1)  BY <5>3
          <6>4. ~(i <= Len(front)) /\ i - Len(front) = i - 1  BY <2>1, <6>1
          <6>2. joined[i] = rest[i - 1]  BY <4>1, <5>1, <6>4
          <6>3. rest[i - 1] = fields[i]  BY <2>1, <6>1
          <6> QED  BY <2>1, <6>2, <6>3
        <5> QED  BY <5>2, <5>3
      <4> QED  BY <4>2
    <3> HIDE DEF joined
    <3>3. joined = all  BY <2>1, <3>1, <3>2, SeqEqual
    <3> QED  BY <3>3 DEF joined
  <2>5. Total(front \o rest) = Total(front) + Total(rest)
    BY <2>1, SizedFields, TotalConcat
  <2>6. Total(rest) \in Nat /\ fields[1].size \in Nat
    BY <1>0, <2>1, SizedFields, TotalIsNat
  <2> QED  BY <2>2, <2>3, <2>4, <2>5, <2>6
<1> QED  BY <1>1, <1>2

(* At the start of the bytes of a value there is the header of its packet. *)
LEMMA PacketAtStart ==
  ASSUME NEW v \in AllValues, PacketType(v) # NoPacket
  PROVE  LET packet == PacketAt(Memory(<<v>>).headers, 0)
         IN /\ packet.type = PacketType(v)
            /\ PacketType(v) \in DynamicTypes =>
                 packet.contentSize = DynamicSize(ContentBytelengths[v], v)
<1> DEFINE type == PacketType(v)
           n == DynamicSize(ContentBytelengths[v], v)
           fields == FlattenSeq(Written(<<v>>))
           headers == [k \in DOMAIN fields |-> HeaderAt(fields, k)]
<1>1. /\ fields \in Seq(Fields) /\ Len(fields) >= 2 /\ fields[1] = TypeField(type)
      /\ type \in DynamicTypes => fields[2] = SizeField(n)
  BY FieldsWritten
<1>2. Memory(<<v>>).headers = headers  BY DEF Memory, MemoryOfFields
<1> HIDE DEF fields
<1>3. DOMAIN fields = 1 .. Len(fields) /\ Len(fields) \in Nat  BY <1>1
<1>4. fields[1].size = FixedHeaderSize /\ fields[1].name = "type" /\ fields[1].says = type
  BY <1>1 DEF TypeField, Field
<1>5. /\ PlaceOf(fields, 1).lo = 0
      /\ \A k \in 2 .. Len(fields) : PlaceOf(fields, k).lo # 0
  BY <1>1, <1>4, FirstIsAtStart DEF FixedHeaderSize
<1>6. \A k \in DOMAIN fields : headers[k].start = PlaceOf(fields, k).lo
  <2>1. \A k : HeaderAt(fields, k).start = PlaceOf(fields, k).lo
    BY DEF HeaderAt, Garbage
  <2> QED  BY <2>1
<1>7. headers[1].type = type /\ (type \in DynamicTypes => headers[1].contentSize = n)
  <2>1. 1 \in DOMAIN fields /\ headers[1] = HeaderAt(fields, 1)  BY <1>1, <1>3
  <2>2. HeaderAt(fields, 1)
          = [type |-> type, start |-> PlaceOf(fields, 1).lo,
             contentSize |-> IF fields[1 + 1].name = "contentSize"
                             THEN fields[1 + 1].says ELSE 0]
    BY <1>4 DEF HeaderAt
  <2>3. type \in DynamicTypes =>
          fields[1 + 1].name = "contentSize" /\ fields[1 + 1].says = n
    BY <1>1 DEF SizeField, Field
  <2> QED  BY <2>1, <2>2, <2>3
<1>8. Len(headers) = Len(fields)  BY <1>3
<1> HIDE DEF headers
<1>9. PacketAt(headers, 0) = headers[1]
  <2> DEFINE AtStart(k) == k \in 1 .. Len(headers) /\ headers[k].start = 0
  <2>1. AtStart(1)  BY <1>1, <1>3, <1>5, <1>6, <1>8
  <2>2. ASSUME NEW k, AtStart(k) PROVE k = 1
    <3>1. k \in 1 .. Len(fields) /\ PlaceOf(fields, k).lo = 0
      BY <1>3, <1>6, <1>8, <2>2
    <3>2. k \notin 2 .. Len(fields)  BY <1>5, <3>1
    <3> QED  BY <1>3, <3>1, <3>2
  <2>3. (CHOOSE k \in 1 .. Len(headers) : headers[k].start = 0) = 1
    BY <2>1, <2>2
  <2>4. \E k \in 1 .. Len(headers) : headers[k].start = 0  BY <2>1
  <2> QED  BY <2>3, <2>4 DEF PacketAt
<1> QED  BY <1>2, <1>7, <1>9

(* ReadHeader at the start gives that header, or none while there are not  *)
(* enough bytes.                                                           *)
LEMMA HeaderIsRead ==
  ASSUME NEW v \in AllValues, PacketType(v) # NoPacket, NEW r,
         NumberOut(r, FixedHeaderSize).lo = 0
  PROVE  ReadHeader(r, Memory(<<v>>).headers).header \in {InvalidRawHeader, HeaderOf(v)}
<1> DEFINE type == PacketType(v)
           n == DynamicSize(ContentBytelengths[v], v)
           sent == Memory(<<v>>).headers
           packet == PacketAt(sent, NumberOut(r, FixedHeaderSize).lo)
           typed == NumberBy(r, FixedHeaderSize)
           header == DeclareHeader(packet.type, -1)
           sized == [header EXCEPT !.contentSize = packet.contentSize]
           read == ReadHeader(r, sent)
<1>1. type \in ValidTypes  BY TypesOfValues
<1>2. packet.type = type /\ (type \in DynamicTypes => packet.contentSize = n)
  BY PacketAtStart
<1>3. InvalidRawHeader = DeclareHeader("PartialHeader", -1)
  BY DEF DeclareHeader, DoubleTypes, IntegerTypes, EmptyTypes, DynamicTypes
<1>4. \A x : Partial(x).header = InvalidRawHeader  BY <1>3 DEF Partial
<1>5. \A x, h : Complete(x, h).header \in {InvalidRawHeader, h}
  BY <1>4 DEF Complete
<1>6. \/ read = Partial(r)
      \/ IsNotValid(header)
      \/ header.headerSize = DynamicHeaderSize /\ read = Partial(typed)
      \/ header.headerSize = DynamicHeaderSize
         /\ read = Complete(NumberBy(typed, ContentFieldSize), sized)
      \/ header.headerSize # DynamicHeaderSize /\ read = Complete(typed, header)
  <2> HIDE DEF packet, typed, header, sized
  <2>1. read = CASE AtEOF(r, FixedHeaderSize) -> Partial(r)
       [] ~AtEOF(r, FixedHeaderSize) /\ IsNotValid(header) ->
            [header |-> header, reader |-> typed]
       [] /\ ~AtEOF(r, FixedHeaderSize)
          /\ header.headerSize = DynamicHeaderSize ->
            IF AtEOF(typed, ContentFieldSize)
            THEN Partial(typed)
            ELSE Complete(NumberBy(typed, ContentFieldSize), sized)
       [] OTHER -> Complete(typed, header)
    BY DEF ReadHeader, packet, typed, header, sized
  <2> HIDE DEF read
  <2> QED  BY <2>1
<1>7. CASE type \in DynamicTypes
  <2>1. header = [type |-> type, headerSize |-> DynamicHeaderSize, contentSize |-> -1]
    BY <1>2, <1>7
       DEF DeclareHeader, RawHeader, DoubleTypes, IntegerTypes, EmptyTypes, DynamicTypes
  <2>2. ~IsNotValid(header) /\ header.headerSize = DynamicHeaderSize
    BY <1>7, <2>1 DEF IsNotValid, DynamicTypes
  <2>3. sized = HeaderOf(v)
    BY <1>2, <1>7, <2>1 DEF HeaderOf, RawHeader
  <2> HIDE DEF read, sized, header, typed
  <2> QED  BY <1>4, <1>5, <1>6, <2>2, <2>3 DEF read
<1>8. CASE type \in FixedTypes
  <2>1. header = RawHeader(type, FixedHeaderSize, FixedContentSize(type))
    <3>1. CASE type \in DoubleTypes
      BY <1>2, <3>1 DEF DeclareHeader, FixedContentSize, DoubleTypes, IntegerTypes, EmptyTypes,
                        DynamicTypes
    <3>2. CASE type \in IntegerTypes
      BY <1>2, <3>2 DEF DeclareHeader, FixedContentSize, DoubleTypes, IntegerTypes, EmptyTypes,
                        DynamicTypes
    <3>3. CASE type \in EmptyTypes
      BY <1>2, <3>3 DEF DeclareHeader, FixedContentSize, DoubleTypes, IntegerTypes, EmptyTypes,
                        DynamicTypes
    <3> QED  BY <1>8, <3>1, <3>2, <3>3 DEF FixedTypes
  <2>2. type \notin DynamicTypes  BY <1>8, KindsOfTypes
  <2>3. header = HeaderOf(v)  BY <2>1, <2>2 DEF HeaderOf
  <2>4. ~IsNotValid(header) /\ header.headerSize # DynamicHeaderSize
    BY <1>8, <2>1 DEF IsNotValid, RawHeader, FixedTypes, DoubleTypes, IntegerTypes, EmptyTypes,
                      DynamicHeaderSize, FixedHeaderSize, ContentFieldSize
  <2> HIDE DEF read, sized, header, typed
  <2> QED  BY <1>4, <1>5, <1>6, <2>3, <2>4 DEF read
<1> QED  BY <1>1, <1>7, <1>8, KindsOfTypes

(* A reader of one buffer, or of what has arrived, begins at the start.    *)
LEMMA BufferAtStart ==
  ASSUME NEW hi
  PROVE  NumberOut(NewBufferReader([lo |-> 0, hi |-> hi], 0), FixedHeaderSize).lo = 0
<1> DEFINE r == NewBufferReader([lo |-> 0, hi |-> hi], 0)
<1>1. r = [buffer |-> [lo |-> 0, hi |-> hi], offset |-> 0]  BY DEF NewBufferReader
<1>2. ~IsList(r)  BY <1>1 DEF IsList
<1>3. r.buffer.lo = 0 /\ r.offset = 0  BY <1>1
<1> HIDE DEF r
<1>4. NumberOut(r, FixedHeaderSize) = Subarray(r.buffer, r.offset, r.offset + FixedHeaderSize)
  BY <1>2 DEF NumberOut
<1>5. NumberOut(r, FixedHeaderSize).lo = 0  BY <1>3, <1>4 DEF Subarray
<1> QED  BY <1>5 DEF r

(* A reader of a list begins with its first byte.                          *)
LEMMA ListAtStart ==
  ASSUME NEW buffers, buffers[1].lo = 0
  PROVE  NumberOut(NewBufferListReader(buffers, 0), FixedHeaderSize).lo = 0
<1> DEFINE r == NewBufferListReader(buffers, 0)
<1>1. PICK length : r = Seek([NewReader EXCEPT !.buffers = buffers, !.length = length], 0)
  BY DEF NewBufferListReader
<1>2. r = [NewReader EXCEPT !.buffers = buffers, !.length = length]
  <2> DEFINE q == [NewReader EXCEPT !.buffers = buffers, !.length = length]
  <2>1. q.offset = 0  BY DEF NewReader
  <2>2. r = Seek(q, 0)  BY <1>1
  <2> HIDE DEF q
  <2>3. Seek(q, 0) = q  BY <2>1 DEF Seek, SeekThrows
  <2>4. r = q  BY <2>2, <2>3
  <2> QED  BY <2>4 DEF q
<1>3. r = [buffers |-> buffers, length |-> length, offset |-> 0, curBufferIndex |-> 1,
           curBufferOffset |-> 0, timestamp |-> 0, contexts |-> <<>>]
  BY <1>2 DEF NewReader
<1>4. IsList(r) /\ r.curBufferIndex = 1 /\ r.curBufferOffset = 0 /\ r.buffers = buffers
  BY <1>3 DEF IsList
<1> HIDE DEF r
<1>5. Consolidated(r, FixedHeaderSize).lo = 0  BY <1>4 DEF Consolidated, Concat
<1>6. NumberOut(r, FixedHeaderSize)
        = Subarray(Consolidated(r, FixedHeaderSize), 0, 0 + FixedHeaderSize)
  BY <1>4 DEF NumberOut, ReadOut, FixedHeaderSize
<1>7. NumberOut(r, FixedHeaderSize).lo = 0  BY <1>5, <1>6 DEF Subarray
<1> QED  BY <1>7 DEF r

(***************************************************************************)
(* The fields that are written                                             *)
(***************************************************************************)

(* All the fields a list holds.                                            *)
FieldsIn(w) == FlattenSeq(w.buffers)

(* The short code that is written of an ArrayBuffer.                       *)
ShortCodeOf(v) == IF v.is = "typed" THEN ShortCodes[v.of] ELSE 0

(* The fields of the packet of a value, and of its content among them.     *)
ContentFields(v, c) ==
  CASE PacketType(v) = "ArrayWithSize" -> FieldsIn(c)
    [] PacketType(v) = "ArrayBufferWithSize" ->
         <<ShortCodeField(ShortCodeOf(v))>> \o <<Content(v.n, TextOf(v))>>
    [] OTHER -> <<Content(v.n, TextOf(v))>>

HeaderFields(type, n) == <<TypeField(type)>> \o <<SizeField(n)>>

PacketFields(v, c) ==
  CASE PacketType(v) = NoPacket -> <<>>
    [] PacketType(v) \in FixedTypes -> Block(PacketType(v), TextOf(v))
    [] OTHER -> HeaderFields(PacketType(v), DynamicSize(c.length, v))
                  \o (ContentFields(v, c) \o <<Footer>>)

(* The fields of a list are fields.                                        *)
LEMMA FieldsAlone == \A s \in Seq(Seq(Fields)) : FlattenSeq(s) \in Seq(Fields)
<1>1. <<>> \in Seq(Fields)  OBVIOUS
<1> QED  BY <1>1, FlattenAppend

(* The fields of lists put together.                                       *)
LEMMA FieldsTogether ==
  ASSUME NEW s \in Seq(Seq(Fields)), NEW t \in Seq(Seq(Fields))
  PROVE  s \o t \in Seq(Seq(Fields)) /\ FlattenSeq(s \o t) = FlattenSeq(s) \o FlattenSeq(t)
<1> DEFINE T == Seq(Fields)
<1>1. s \in Seq(T) /\ t \in Seq(T)  OBVIOUS
<1>2. s \o t \in Seq(T)
  <2> HIDE DEF T
  <2> QED  BY <1>1
<1> QED  BY <1>2, FlattenConcat

(* A list that is longer has more fields.                                  *)
LEMMA LongerFields ==
  ASSUME NEW w, Counted(w), NEW x, NEW s \in Seq(Seq(Fields)), Longer(w, x, s)
  PROVE  FieldsIn(x) = FieldsIn(w) \o FlattenSeq(s) /\ FieldsIn(w) \in Seq(Fields)
<1>1. w.buffers \in Seq(Seq(Fields))  BY DEF Counted, Lists
<1>2. x.buffers = w.buffers \o s  BY DEF Longer
<1> QED  BY <1>1, <1>2, FieldsAlone, FieldsTogether DEF FieldsIn

(* The header is two fields.                                               *)
LEMMA HeaderFlat ==
  ASSUME NEW type \in ValidTypes, NEW n \in Nat
  PROVE  /\ HeaderBuffers(type, n) \in Seq(Seq(Fields))
         /\ FlattenSeq(HeaderBuffers(type, n)) = HeaderFields(type, n)
<1> DEFINE t == TypeField(type)
           s == SizeField(n)
           one == <<t>>
           two == <<s>>
<1>1. t \in Fields /\ s \in Fields  BY FieldsOfPackets
<1>2. HeaderBuffers(type, n) = <<one, two>> /\ HeaderFields(type, n) = one \o two
  BY DEF HeaderBuffers, HeaderFields
<1>3. one \in Seq(Fields) /\ two \in Seq(Fields)  BY <1>1
<1> HIDE DEF one, two
<1>4. /\ <<one>> \in Seq(Seq(Fields)) /\ <<two>> \in Seq(Seq(Fields))
      /\ <<one>> \o <<two>> = <<one, two>>
  BY <1>3, TwoInOne
<1>5. FlattenSeq(<<one>> \o <<two>>) = FlattenSeq(<<one>>) \o FlattenSeq(<<two>>)
  BY <1>4, FlattenConcat
<1>6. FlattenSeq(<<one>>) = one /\ FlattenSeq(<<two>>) = two  BY <1>3, FlattenOne
<1>7. <<one, two>> \in Seq(Seq(Fields))  BY <1>3
<1> QED  BY <1>2, <1>4, <1>5, <1>6, <1>7

(* A header, and what comes behind it, and the footer.                     *)
LEMMA RestFlat ==
  ASSUME NEW type \in ValidTypes, NEW n \in Nat,
         NEW s \in Seq(Seq(Fields)), NEW rest, rest = s \o <<<<Footer>>>>
  PROVE  /\ HeaderBuffers(type, n) \o rest \in Seq(Seq(Fields))
         /\ FlattenSeq(HeaderBuffers(type, n) \o rest)
              = HeaderFields(type, n) \o (FlattenSeq(s) \o <<Footer>>)
<1> DEFINE f == <<Footer>>
           ff == <<f>>
           h == HeaderBuffers(type, n)
<1>1. f \in Seq(Fields)  BY FieldsOfPackets
<1>2. rest = s \o ff  OBVIOUS
<1> HIDE DEF f
<1>3. ff \in Seq(Seq(Fields)) /\ FlattenSeq(ff) = f  BY <1>1, FlattenOne
<1> HIDE DEF ff
<1>4. rest \in Seq(Seq(Fields)) /\ FlattenSeq(rest) = FlattenSeq(s) \o f
  BY <1>2, <1>3, FieldsTogether
<1>5. h \in Seq(Seq(Fields)) /\ FlattenSeq(h) = HeaderFields(type, n)  BY HeaderFlat
<1> HIDE DEF h
<1>6. /\ h \o rest \in Seq(Seq(Fields))
      /\ FlattenSeq(h \o rest) = FlattenSeq(h) \o FlattenSeq(rest)
  BY <1>4, <1>5, FieldsTogether
<1> QED  BY <1>4, <1>5, <1>6 DEF f, h

(* write: the fields of the packet, behind those that are there.           *)
LEMMA WritesFields ==
  ASSUME NEW w, Counted(w), NEW v \in AllValues, NEW c, Counted(c)
  PROVE  LET x == WriteWith(w, v, c)
         IN /\ Counted(x)
            /\ FieldsIn(w) \in Seq(Fields)
            /\ FieldsIn(x) = FieldsIn(w) \o PacketFields(v, c)
            /\ x.length = w.length + BytelengthWith(c.length, v)
<1> DEFINE type == PacketType(v)
           x == WriteWith(w, v, c)
           n == DynamicSize(c.length, v)
<1>0. /\ type \in ValidTypes \cup {NoPacket}
      /\ type \in DynamicTypes \ {"ArrayWithSize"} => v.n \in Nat
      /\ v.is = "typed" /\ type = "ArrayBufferWithSize" => ShortCodes[v.of] \in Nat
  BY TypesOfValues
<1>1. c.length \in Nat /\ c.buffers \in Seq(Seq(Fields)) /\ w.buffers \in Seq(Seq(Fields))
  BY DEF Counted, Lists
<1>2. Counted(x) /\ x.length = w.length + BytelengthWith(c.length, v)
  <2>1. PacketIn(w, x, v, c.length)  BY ValueWritten
  <2> QED  BY <2>1 DEF PacketIn
<1>10. FieldsIn(w) \in Seq(Fields)  BY <1>1, FieldsAlone DEF FieldsIn
<1>3. CASE type = NoPacket
  <2>1. x = w
    BY <1>3, KindsOfTypes DEF WriteWith, NoPacket, BufferTypes
  <2>2. PacketFields(v, c) = <<>>
    <3>1. type \notin FixedTypes  BY <1>3, KindsOfTypes
    <3> QED  BY <1>3, <3>1 DEF PacketFields
  <2>3. FieldsIn(w) \o <<>> = FieldsIn(w)  BY <1>10
  <2> QED  BY <1>2, <1>10, <2>1, <2>2, <2>3
<1>4. CASE type \in FixedTypes
  <2>1. /\ type # NoPacket /\ type \notin DynamicTypes /\ type # "ArrayWithSize"
        /\ type # "ArrayBufferWithSize" /\ type \notin BufferTypes
    BY <1>4, KindsOfTypes
  <2>2. x = WriteFixedContent(w, type, TextOf(v))  BY <2>1 DEF WriteWith
  <2> DEFINE block == Block(type, TextOf(v))
  <2>3. block \in Seq(Fields) /\ Longer(w, x, <<block>>)  BY <1>4, <2>2, FixedLonger
  <2>4. PacketFields(v, c) = block  BY <1>4, <2>1 DEF PacketFields
  <2> HIDE DEF block
  <2>5. <<block>> \in Seq(Seq(Fields)) /\ FlattenSeq(<<block>>) = block
    BY <2>3, FlattenOne
  <2>6. FieldsIn(x) = FieldsIn(w) \o block  BY <2>3, <2>5, LongerFields
  <2> QED  BY <1>2, <1>10, <2>4, <2>6
<1>5. ASSUME type \in DynamicTypes, n \in Nat, NEW s \in Seq(Seq(Fields)), NEW rest,
             rest = s \o <<<<Footer>>>>,
             Longer(w, x, HeaderBuffers(type, n) \o rest),
             FlattenSeq(s) = ContentFields(v, c)
      PROVE  FieldsIn(x) = FieldsIn(w) \o PacketFields(v, c)
  <2>1. type \in ValidTypes /\ type \notin FixedTypes /\ type # NoPacket
    BY <1>5, KindsOfTypes
  <2>2. /\ HeaderBuffers(type, n) \o rest \in Seq(Seq(Fields))
        /\ FlattenSeq(HeaderBuffers(type, n) \o rest)
             = HeaderFields(type, n) \o (FlattenSeq(s) \o <<Footer>>)
    BY <1>5, <2>1, RestFlat, ZenonT(60)
  <2>3. PacketFields(v, c) = HeaderFields(type, n) \o (ContentFields(v, c) \o <<Footer>>)
    BY <2>1 DEF PacketFields
  <2> HIDE DEF x
  <2>4. FieldsIn(x) = FieldsIn(w) \o FlattenSeq(HeaderBuffers(type, n) \o rest)
    BY <1>5, <2>2, LongerFields
  <2> QED  BY <1>5, <2>2, <2>3, <2>4
<1>6. CASE type = "ArrayWithSize"
  <2>1. x = WriteDynamicContent(w, type, c) /\ n = c.length
    BY <1>6 DEF WriteWith, DynamicSize, NoPacket, BufferTypes
  <2>2. type \in DynamicTypes /\ type \in ValidTypes  BY <1>6, KindsOfTypes
  <2>3. PICK rest \in Seq(Seq(Fields)) :
          /\ Longer(w, x, HeaderBuffers(type, n) \o rest)
          /\ rest = c.buffers \o <<<<Footer>>>>
    <3>1. \E rest \in Seq(Seq(Fields)) :
            /\ Longer(w, WriteDynamicContent(w, type, c), HeaderBuffers(type, c.length) \o rest)
            /\ Length(rest) = c.length + FooterLength
            /\ rest = c.buffers \o <<<<Footer>>>>
      BY <2>2, DynamicContentLonger
    <3> QED  BY <2>1, <3>1
  <2>4. FlattenSeq(c.buffers) = ContentFields(v, c)
    BY <1>6 DEF ContentFields, FieldsIn
  <2>5. n \in Nat  BY <1>1, <2>1
  <2> HIDE DEF x, n
  <2>6. FieldsIn(x) = FieldsIn(w) \o PacketFields(v, c)
    BY <1>1, <1>5, <2>2, <2>3, <2>4, <2>5
  <2> QED  BY <1>2, <1>10, <2>6 DEF x
<1>7. CASE type = "ArrayBufferWithSize"
  <2> DEFINE shortCode == ShortCodeOf(v)
             code == <<ShortCodeField(shortCode)>>
             content == <<Content(v.n, TextOf(v))>>
             s == <<code>> \o <<content>>
  <2>1. x = WriteArrayBuffer(w, shortCode, v.n, TextOf(v)) /\ n = ShortCodeSize + v.n
    BY <1>7 DEF WriteWith, DynamicSize, NoPacket, BufferTypes, ShortCodeOf
  <2>2. type \in DynamicTypes /\ type \in ValidTypes /\ type # "ArrayWithSize"
    BY <1>7, KindsOfTypes
  <2>3. v.n \in Nat /\ shortCode \in Nat  BY <1>0, <1>7, <2>2 DEF ShortCodeOf
  <2>4. PICK rest \in Seq(Seq(Fields)) :
          /\ Longer(w, x, HeaderBuffers(type, n) \o rest)
          /\ rest = s \o <<<<Footer>>>>
    <3>1. \E rest \in Seq(Seq(Fields)) :
            /\ Longer(w, WriteArrayBuffer(w, shortCode, v.n, TextOf(v)),
                      HeaderBuffers("ArrayBufferWithSize", ShortCodeSize + v.n) \o rest)
            /\ Length(rest) = ShortCodeSize + v.n + FooterLength
            /\ rest = s \o <<<<Footer>>>>
      BY <2>3, ArrayBufferLonger
    <3> QED  BY <1>7, <2>1, <3>1
  <2>5. n \in Nat  BY <2>1, <2>3 DEF ShortCodeSize
  <2>6. code \in Seq(Fields) /\ content \in Seq(Fields)
    <3>1. ShortCodeField(shortCode) \in Fields /\ Content(v.n, TextOf(v)) \in Fields
      BY <2>3, FieldsOfPackets
    <3> QED  BY <3>1
  <2>7. ContentFields(v, c) = code \o content  BY <1>7 DEF ContentFields
  <2> HIDE DEF code, content
  <2>8. s \in Seq(Seq(Fields)) /\ FlattenSeq(s) = code \o content
    <3>1. <<code>> \in Seq(Seq(Fields)) /\ <<content>> \in Seq(Seq(Fields))
      BY <2>6
    <3>2. FlattenSeq(<<code>>) = code /\ FlattenSeq(<<content>>) = content
      BY <2>6, FlattenOne
    <3> QED  BY <3>1, <3>2, FieldsTogether, ZenonT(60)
  <2> HIDE DEF x, n, s
  <2>9. FieldsIn(x) = FieldsIn(w) \o PacketFields(v, c)
    BY <1>5, <2>2, <2>4, <2>5, <2>7, <2>8
  <2> QED  BY <1>2, <1>10, <2>9 DEF x
<1>8. CASE type \in BufferTypes
  <2> DEFINE content == <<Content(v.n, TextOf(v))>>
             s == <<content>>
  <2>1. type # "ArrayWithSize" /\ type # "ArrayBufferWithSize" /\ type # NoPacket
        /\ type \in DynamicTypes /\ type \in ValidTypes
    BY <1>8, KindsOfTypes
  <2>2. x = WriteDynamicBuffer(w, type, v.n, TextOf(v)) /\ n = v.n
    BY <1>8, <2>1 DEF WriteWith, DynamicSize
  <2>3. v.n \in Nat  BY <1>0, <2>1
  <2>4. PICK rest \in Seq(Seq(Fields)) :
          /\ Longer(w, x, HeaderBuffers(type, n) \o rest)
          /\ rest = s \o <<<<Footer>>>>
    <3>1. \E rest \in Seq(Seq(Fields)) :
            /\ Longer(w, WriteDynamicBuffer(w, type, v.n, TextOf(v)),
                      HeaderBuffers(type, v.n) \o rest)
            /\ Length(rest) = v.n + FooterLength
            /\ rest = s \o <<<<Footer>>>>
      BY <2>1, <2>3, DynamicBufferLonger
    <3> QED  BY <2>2, <3>1
  <2>5. n \in Nat  BY <2>2, <2>3
  <2>6. content \in Seq(Fields)
    <3>1. Content(v.n, TextOf(v)) \in Fields  BY <2>3, FieldsOfPackets
    <3> QED  BY <3>1
  <2>7. ContentFields(v, c) = content  BY <2>1 DEF ContentFields
  <2> HIDE DEF content
  <2>8. s \in Seq(Seq(Fields)) /\ FlattenSeq(s) = content  BY <2>6, FlattenOne
  <2> HIDE DEF x, n, s
  <2>9. FieldsIn(x) = FieldsIn(w) \o PacketFields(v, c)
    BY <1>5, <2>1, <2>4, <2>5, <2>7, <2>8
  <2> QED  BY <1>2, <1>10, <2>9 DEF x
<1> QED  BY <1>0, <1>3, <1>4, <1>6, <1>7, <1>8, KindsOfTypes

(***************************************************************************)
(* Bytes that can be read whatever they say: behind every type there is    *)
(* what is read of a packet of that type                                   *)
(***************************************************************************)
ReadableAt(fields, k) ==
  /\ k + 2 <= Len(fields)
  /\ fields[k].size = FixedHeaderSize
  /\ fields[k + 1].name = "contentSize"
  /\ fields[k + 1].size = ContentFieldSize
  /\ fields[k + 1].says \in Nat
  /\ fields[k].says = "ArrayWithSize" =>
       /\ fields[k + 2].size = CountSize
       /\ fields[k + 2].says \in Nat
       /\ fields[k + 1].says >= CountSize
  /\ fields[k].says = "ArrayBufferWithSize" => fields[k + 1].says >= ShortCodeSize

WellFramed(fields) ==
  /\ fields \in Seq(Fields)
  /\ \A k \in 1 .. Len(fields) :
       fields[k].name = "type" /\ fields[k].says \in DynamicTypes => ReadableAt(fields, k)

(* The fields of one list, and behind them those of another.               *)
LEMMA TwoFields ==
  ASSUME NEW f \in Seq(Fields), NEW g \in Seq(Fields)
  PROVE  /\ f \o g \in Seq(Fields)
         /\ Len(f) \in Nat /\ Len(g) \in Nat
         /\ Len(f \o g) = Len(f) + Len(g)
         /\ \A k \in 1 .. Len(f) : (f \o g)[k] = f[k]
         /\ \A k \in 1 .. Len(g) : (f \o g)[Len(f) + k] = g[k]
<1> DEFINE h == f \o g
<1>1. /\ h \in Seq(Fields)
      /\ Len(f) \in Nat /\ Len(g) \in Nat
      /\ Len(h) = Len(f) + Len(g)
      /\ \A i \in 1 .. Len(f) + Len(g) :
           h[i] = IF i <= Len(f) THEN f[i] ELSE g[i - Len(f)]
  BY ConcatProperties
<1> HIDE DEF h
<1>2. ASSUME NEW k \in 1 .. Len(f) PROVE h[k] = f[k]
  <2>1. k \in 1 .. Len(f) + Len(g) /\ k <= Len(f)  BY <1>1
  <2> QED  BY <1>1, <2>1
<1>3. ASSUME NEW k \in 1 .. Len(g) PROVE h[Len(f) + k] = g[k]
  <2>1. Len(f) + k \in 1 .. Len(f) + Len(g)  BY <1>1
  <2>2. ~(Len(f) + k <= Len(f)) /\ (Len(f) + k) - Len(f) = k  BY <1>1
  <2>3. h[Len(f) + k] = g[(Len(f) + k) - Len(f)]  BY <1>1, <2>1, <2>2
  <2> QED  BY <2>2, <2>3
<1> QED  BY <1>1, <1>2, <1>3 DEF h

(* What is readable stays so with fields behind it.                        *)
LEMMA ReadableBefore ==
  ASSUME NEW f \in Seq(Fields), NEW g \in Seq(Fields), NEW k \in 1 .. Len(f),
         ReadableAt(f, k)
  PROVE  ReadableAt(f \o g, k)
<1> DEFINE h == f \o g
<1>1. /\ Len(f) \in Nat /\ Len(g) \in Nat /\ Len(h) = Len(f) + Len(g)
      /\ \A i \in 1 .. Len(f) : h[i] = f[i]
  BY TwoFields
<1> HIDE DEF h
<1>2. k + 2 <= Len(f)  BY DEF ReadableAt
<1>3. k + 1 \in 1 .. Len(f) /\ k + 2 \in 1 .. Len(f) /\ k + 2 <= Len(h)  BY <1>1, <1>2
<1>4. h[k] = f[k] /\ h[k + 1] = f[k + 1] /\ h[k + 2] = f[k + 2]  BY <1>1, <1>3
<1>5. ReadableAt(h, k)  BY <1>3, <1>4 DEF ReadableAt
<1> QED  BY <1>5 DEF h

(* ... and before it.                                                      *)
LEMMA ReadableBehind ==
  ASSUME NEW f \in Seq(Fields), NEW g \in Seq(Fields), NEW k \in 1 .. Len(g),
         ReadableAt(g, k)
  PROVE  ReadableAt(f \o g, Len(f) + k)
<1> DEFINE h == f \o g
<1>1. /\ Len(f) \in Nat /\ Len(g) \in Nat /\ Len(h) = Len(f) + Len(g)
      /\ \A i \in 1 .. Len(g) : h[Len(f) + i] = g[i]
  BY TwoFields
<1> HIDE DEF h
<1>2. k + 2 <= Len(g)  BY DEF ReadableAt
<1>3. k + 1 \in 1 .. Len(g) /\ k + 2 \in 1 .. Len(g) /\ (Len(f) + k) + 2 <= Len(h)
  BY <1>1, <1>2
<1>4. h[Len(f) + k] = g[k] /\ h[Len(f) + (k + 1)] = g[k + 1] /\ h[Len(f) + (k + 2)] = g[k + 2]
  BY <1>1, <1>3
<1>6. Len(f) + (k + 1) = (Len(f) + k) + 1 /\ Len(f) + (k + 2) = (Len(f) + k) + 2
  BY <1>1
<1>7. h[(Len(f) + k) + 1] = g[k + 1] /\ h[(Len(f) + k) + 2] = g[k + 2]  BY <1>4, <1>6
<1>5. ReadableAt(h, Len(f) + k)  BY <1>3, <1>4, <1>7 DEF ReadableAt
<1> QED  BY <1>5 DEF h

(* Packets one after another.                                              *)
LEMMA FramedTogether ==
  ASSUME NEW f, WellFramed(f), NEW g, WellFramed(g)
  PROVE  WellFramed(f \o g)
<1> DEFINE h == f \o g
<1>0. f \in Seq(Fields) /\ g \in Seq(Fields)  BY DEF WellFramed
<1>1. /\ h \in Seq(Fields)
      /\ Len(f) \in Nat /\ Len(g) \in Nat /\ Len(h) = Len(f) + Len(g)
      /\ \A i \in 1 .. Len(f) : h[i] = f[i]
      /\ \A i \in 1 .. Len(g) : h[Len(f) + i] = g[i]
  BY <1>0, TwoFields
<1> HIDE DEF h
<1>2. ASSUME NEW k \in 1 .. Len(h), h[k].name = "type", h[k].says \in DynamicTypes
      PROVE  ReadableAt(h, k)
  <2>1. CASE k <= Len(f)
    <3>1. k \in 1 .. Len(f) /\ h[k] = f[k]  BY <1>1, <2>1
    <3>2. ReadableAt(f, k)  BY <1>2, <3>1 DEF WellFramed
    <3> QED  BY <1>0, <3>1, <3>2, ReadableBefore DEF h
  <2>2. CASE ~(k <= Len(f))
    <3> DEFINE m == k - Len(f)
    <3>1. m \in 1 .. Len(g) /\ k = Len(f) + m  BY <1>1, <2>2
    <3> HIDE DEF m
    <3>2. h[k] = g[m]  BY <1>1, <3>1
    <3>3. ReadableAt(g, m)  BY <1>2, <3>1, <3>2 DEF WellFramed
    <3>4. ReadableAt(f \o g, Len(f) + m)  BY <1>0, <3>1, <3>3, ReadableBehind
    <3> QED  BY <3>1, <3>4 DEF h
  <2> QED  BY <2>1, <2>2
<1>3. WellFramed(h)  BY <1>1, <1>2 DEF WellFramed
<1> QED  BY <1>3 DEF h

(* No fields, and one that is no type.                                     *)
LEMMA FramedOne ==
  /\ WellFramed(<<>>)
  /\ \A x \in Fields : x.name # "type" => WellFramed(<<x>>)
<1>1. <<>> \in Seq(Fields) /\ Len(<<>>) = 0  OBVIOUS
<1>2. WellFramed(<<>>)  BY <1>1 DEF WellFramed
<1>3. ASSUME NEW x \in Fields, x.name # "type" PROVE WellFramed(<<x>>)
  <2> DEFINE f == <<x>>
  <2>1. f \in Seq(Fields) /\ Len(f) = 1 /\ f[1] = x  OBVIOUS
  <2> HIDE DEF f
  <2>2. ASSUME NEW k \in 1 .. Len(f) PROVE f[k].name # "type"
    <3>1. k = 1  BY <2>1
    <3> QED  BY <1>3, <2>1, <3>1
  <2>3. WellFramed(f)  BY <2>1, <2>2 DEF WellFramed
  <2> QED  BY <2>3 DEF f
<1> QED  BY <1>2, <1>3

(* What the elements of an array are behind.                               *)
BeginsWithCount(fields) ==
  Len(fields) >= 1 /\ fields[1].size = CountSize /\ fields[1].says \in Nat

(* A header with what is to be read behind it.                             *)
LEMMA FramedHeader ==
  ASSUME NEW type \in DynamicTypes, NEW n \in Nat, NEW g, WellFramed(g), Len(g) >= 1,
         type = "ArrayWithSize" => BeginsWithCount(g) /\ n >= CountSize,
         type = "ArrayBufferWithSize" => n >= ShortCodeSize
  PROVE  WellFramed(HeaderFields(type, n) \o g)
<1> DEFINE t == TypeField(type)
           s == SizeField(n)
           f == HeaderFields(type, n)
           h == f \o g
<1>0. g \in Seq(Fields)  BY DEF WellFramed
<1>1. t \in Fields /\ s \in Fields  BY FieldsOfPackets, KindsOfTypes
<1>2. /\ t.name = "type" /\ t.size = FixedHeaderSize /\ t.says = type
      /\ s.name = "contentSize" /\ s.size = ContentFieldSize /\ s.says = n
  BY DEF TypeField, SizeField, Field
<1>3. f = <<t>> \o <<s>>  BY DEF HeaderFields
<1> HIDE DEF t, s, f
<1>4. f \in Seq(Fields) /\ Len(f) = 2 /\ f[1] = t /\ f[2] = s
  <2>1. f = <<t, s>>  BY <1>1, <1>3, TwoInOne
  <2> QED  BY <1>1, <2>1
<1>5. /\ h \in Seq(Fields)
      /\ Len(f) \in Nat /\ Len(g) \in Nat /\ Len(h) = Len(f) + Len(g)
      /\ \A i \in 1 .. Len(f) : h[i] = f[i]
      /\ \A i \in 1 .. Len(g) : h[Len(f) + i] = g[i]
  BY <1>0, <1>4, TwoFields
<1> HIDE DEF h
<1>6. h[1] = t /\ h[2] = s /\ h[3] = g[1]
  <2>1. 1 \in 1 .. Len(f) /\ 2 \in 1 .. Len(f) /\ 1 \in 1 .. Len(g) /\ Len(f) + 1 = 3
    BY <1>4, <1>5
  <2> QED  BY <1>4, <1>5, <2>1
<1>7. ReadableAt(h, 1)
  <2>1. 1 + 2 <= Len(h) /\ h[1 + 1] = s /\ h[1 + 2] = g[1]  BY <1>4, <1>5, <1>6
  <2> QED  BY <1>2, <1>6, <2>1 DEF ReadableAt, BeginsWithCount
<1>8. ASSUME NEW k \in 1 .. Len(h), h[k].name = "type", h[k].says \in DynamicTypes
      PROVE  ReadableAt(h, k)
  <2>1. CASE k = 1  BY <1>7, <2>1
  <2>2. CASE k = 2
    <3>1. h[k].name # "type"  BY <1>2, <1>6, <2>2
    <3> QED  BY <1>8, <3>1
  <2>3. CASE k > 2
    <3> DEFINE m == k - 2
    <3>1. m \in 1 .. Len(g) /\ k = Len(f) + m  BY <1>4, <1>5, <2>3
    <3> HIDE DEF m
    <3>2. h[k] = g[m]  BY <1>5, <3>1
    <3>3. ReadableAt(g, m)  BY <1>8, <3>1, <3>2 DEF WellFramed
    <3>4. ReadableAt(f \o g, Len(f) + m)  BY <1>0, <1>4, <3>1, <3>3, ReadableBehind
    <3> QED  BY <3>1, <3>4 DEF h
  <2> QED  BY <2>1, <2>2, <2>3
<1>9. WellFramed(h)  BY <1>5, <1>8 DEF WellFramed
<1> QED  BY <1>9 DEF h, f

(* A content, of an array or of none, that can be read.                    *)
ReadableContent(c) ==
  /\ Counted(c)
  /\ WellFramed(FieldsIn(c))
  /\ BeginsWithCount(FieldsIn(c))
  /\ c.length >= CountSize

(* The packet of a value can be read.                                      *)
LEMMA FramedPacket ==
  ASSUME NEW v \in AllValues, NEW c, ReadableContent(c)
  PROVE  WellFramed(PacketFields(v, c))
<1> DEFINE type == PacketType(v)
           n == DynamicSize(c.length, v)
           f == ContentFields(v, c)
<1>0. /\ type \in ValidTypes \cup {NoPacket}
      /\ type \in DynamicTypes \ {"ArrayWithSize"} => v.n \in Nat
      /\ v.is = "typed" /\ type = "ArrayBufferWithSize" => ShortCodes[v.of] \in Nat
  BY TypesOfValues
<1>1. c.length \in Nat  BY DEF ReadableContent, Counted, Lists
<1>2. CASE type = NoPacket
  <2>1. PacketFields(v, c) = <<>>
    <3>1. type \notin FixedTypes  BY <1>2, KindsOfTypes
    <3> QED  BY <1>2, <3>1 DEF PacketFields
  <2> QED  BY <2>1, FramedOne
<1>3. CASE type \in FixedTypes
  <2> DEFINE content == Content(FixedContentSize(type), TextOf(v))
             h == <<TypeField(type), content, Footer>>
  <2>1. type # NoPacket /\ type \notin DynamicTypes  BY <1>3, KindsOfTypes
  <2>2. PacketFields(v, c) = h  BY <1>3, <2>1 DEF PacketFields, Block
  <2>3. h \in Seq(Fields)  BY <1>3, FixedLonger, NewListCounts DEF Block
  <2>4. TypeField(type).says = type /\ content.name = "content" /\ Footer.name = "footer"
    BY DEF TypeField, Content, Footer, Field
  <2>5. Len(h) = 3 /\ h[1] = TypeField(type) /\ h[2] = content /\ h[3] = Footer
    OBVIOUS
  <2> HIDE DEF h, content
  <2>6. ASSUME NEW k \in 1 .. Len(h), h[k].name = "type", h[k].says \in DynamicTypes
        PROVE  FALSE
    <3>1. k \in {1, 2, 3}  BY <2>5
    <3> QED  BY <2>1, <2>4, <2>5, <2>6, <3>1
  <2>7. WellFramed(h)  BY <2>3, <2>6 DEF WellFramed
  <2> QED  BY <2>2, <2>7
<1>4. WellFramed(<<Footer>>)
  <2>1. Footer.name # "type"  BY DEF Footer, Field
  <2> QED  BY <2>1, FieldsOfPackets, FramedOne
<1>5. ASSUME type \in DynamicTypes, WellFramed(f), n \in Nat,
             type = "ArrayWithSize" => BeginsWithCount(f) /\ n >= CountSize,
             type = "ArrayBufferWithSize" => n >= ShortCodeSize
      PROVE  WellFramed(PacketFields(v, c))
  <2> DEFINE foot == <<Footer>>
             g == f \o foot
  <2>1. type # NoPacket /\ type \notin FixedTypes  BY <1>5, KindsOfTypes
  <2>2. PacketFields(v, c) = HeaderFields(type, n) \o g  BY <2>1 DEF PacketFields
  <2>3. foot \in Seq(Fields) /\ Len(foot) = 1  BY FieldsOfPackets
  <2>8. WellFramed(foot)  BY <1>4
  <2> HIDE DEF f, foot
  <2>4. WellFramed(g)  BY <1>5, <2>8, FramedTogether
  <2>5. f \in Seq(Fields)  BY <1>5 DEF WellFramed
  <2>6. /\ Len(f) \in Nat /\ Len(g) = Len(f) + Len(foot)
        /\ \A i \in 1 .. Len(f) : g[i] = f[i]
    BY <2>3, <2>5, TwoFields
  <2> HIDE DEF g
  <2>7. Len(g) >= 1 /\ (type = "ArrayWithSize" => BeginsWithCount(g))
    <3>1. Len(g) >= 1  BY <2>3, <2>6
    <3>2. ASSUME type = "ArrayWithSize" PROVE BeginsWithCount(g)
      <4>1. BeginsWithCount(f)  BY <1>5, <3>2
      <4>2. 1 \in 1 .. Len(f)  BY <2>6, <4>1 DEF BeginsWithCount
      <4>3. g[1] = f[1]  BY <2>6, <4>2
      <4> QED  BY <3>1, <4>1, <4>3 DEF BeginsWithCount
    <3> QED  BY <3>1, <3>2
  <2> HIDE DEF type, n
  <2>9. WellFramed(HeaderFields(type, n) \o g)  BY <1>5, <2>4, <2>7, FramedHeader
  <2> QED  BY <2>2, <2>9
<1>6. CASE type = "ArrayWithSize"
  <2>1. f = FieldsIn(c) /\ n = c.length  BY <1>6 DEF ContentFields, DynamicSize
  <2>2. type \in DynamicTypes /\ type # "ArrayBufferWithSize"  BY <1>6, KindsOfTypes
  <2>3. WellFramed(f) /\ BeginsWithCount(f) /\ n \in Nat /\ n >= CountSize
    BY <1>1, <2>1 DEF ReadableContent
  <2> HIDE DEF f, n
  <2> QED  BY <1>5, <1>6, <2>2, <2>3
<1>7. CASE type = "ArrayBufferWithSize"
  <2> DEFINE code == ShortCodeField(ShortCodeOf(v))
             content == Content(v.n, TextOf(v))
  <2>1. f = <<code>> \o <<content>> /\ n = ShortCodeSize + v.n
    BY <1>7 DEF ContentFields, DynamicSize
  <2>2. type \in DynamicTypes /\ type # "ArrayWithSize"  BY <1>7, KindsOfTypes
  <2>3. v.n \in Nat /\ ShortCodeOf(v) \in Nat  BY <1>0, <1>7, <2>2 DEF ShortCodeOf
  <2>4. code \in Fields /\ content \in Fields  BY <2>3, FieldsOfPackets
  <2>5. code.name # "type" /\ content.name # "type"
    BY DEF ShortCodeField, Content, Field
  <2> HIDE DEF code, content
  <2>6. WellFramed(<<code>>) /\ WellFramed(<<content>>)  BY <2>4, <2>5, FramedOne
  <2>7. WellFramed(f)  BY <2>1, <2>6, FramedTogether
  <2>8. n \in Nat /\ n >= ShortCodeSize  BY <2>1, <2>3 DEF ShortCodeSize
  <2> HIDE DEF f, n
  <2> QED  BY <1>5, <1>7, <2>2, <2>7, <2>8
<1>8. CASE type \in BufferTypes
  <2> DEFINE content == Content(v.n, TextOf(v))
  <2>1. type # "ArrayWithSize" /\ type # "ArrayBufferWithSize" /\ type # NoPacket
        /\ type \in DynamicTypes
    BY <1>8, KindsOfTypes
  <2>2. f = <<content>> /\ n = v.n  BY <2>1 DEF ContentFields, DynamicSize
  <2>3. v.n \in Nat  BY <1>0, <2>1
  <2>4. content \in Fields  BY <2>3, FieldsOfPackets
  <2>5. content.name # "type"  BY DEF Content, Field
  <2>6. WellFramed(f)  BY <2>2, <2>4, <2>5, FramedOne
  <2> HIDE DEF f, n
  <2> QED  BY <1>5, <2>1, <2>2, <2>3, <2>6
<1> QED  BY <1>0, <1>2, <1>3, <1>6, <1>7, <1>8, KindsOfTypes

(* A value more in a list.                                                 *)
LEMMA FramedWrite ==
  ASSUME NEW w, Counted(w), WellFramed(FieldsIn(w)),
         NEW v \in AllValues, NEW c, ReadableContent(c)
  PROVE  LET x == WriteWith(w, v, c)
         IN Counted(x) /\ WellFramed(FieldsIn(x))
<1>0. Counted(c)  BY DEF ReadableContent
<1>1. /\ Counted(WriteWith(w, v, c))
      /\ FieldsIn(WriteWith(w, v, c)) = FieldsIn(w) \o PacketFields(v, c)
  BY <1>0, WritesFields
<1>2. WellFramed(PacketFields(v, c))  BY FramedPacket
<1> QED  BY <1>1, <1>2, FramedTogether

(* A new content is a count, and no packet.                                *)
LEMMA NewContentReadable ==
  ASSUME NEW count \in Nat
  PROVE  ReadableContent(NewArrayContent(count))
         /\ FieldsIn(NewArrayContent(count)) = <<CountField(count)>>
<1> DEFINE field == CountField(count)
           b == <<field>>
           w == NewBufferListWriter
           x == NewArrayContent(count)
<1>1. field \in Fields /\ field.size = CountSize /\ field.says = count /\ field.name # "type"
  BY FieldsOfPackets DEF CountField, Field
<1>2. x = WriteBuffer(w, b)  BY DEF NewArrayContent
<1>3. Counted(x) /\ x.length = CountSize  BY NewContentCounts
<1>4. Counted(w) /\ w.buffers = <<>>  BY NewListCounts
<1> HIDE DEF field, w, x
<1>5. b \in Seq(Fields) /\ Len(b) = 1 /\ b[1] = field  BY <1>1
<1>6. WellFramed(b)  BY <1>1, FramedOne
<1> HIDE DEF b
<1>7. FieldsIn(x) = b
  <2>1. Longer(w, x, <<b>>)  BY <1>2, <1>4, <1>5, WriteBufferLonger
  <2>2. x.buffers = <<>> \o <<b>>  BY <1>4, <2>1 DEF Longer
  <2>3. <<>> \o <<b>> = <<b>>  BY <1>5
  <2>4. FlattenSeq(<<b>>) = b  BY <1>5, FlattenOne
  <2> QED  BY <2>2, <2>3, <2>4 DEF FieldsIn
<1>8. BeginsWithCount(b)  BY <1>1, <1>5 DEF BeginsWithCount
<1>9. CountSize >= CountSize  BY DEF CountSize
<1>10. ReadableContent(x)  BY <1>3, <1>6, <1>7, <1>8, <1>9 DEF ReadableContent
<1> QED  BY <1>7, <1>10 DEF x, b, field

(* An element more in a content.                                           *)
LEMMA ReadableWithElement ==
  ASSUME NEW w, ReadableContent(w), NEW v \in AllValues, NEW c, ReadableContent(c)
  PROVE  ReadableContent(WriteWith(w, v, c))
<1> DEFINE x == WriteWith(w, v, c)
           f == FieldsIn(w)
           g == PacketFields(v, c)
<1>1. /\ Counted(w) /\ WellFramed(f) /\ BeginsWithCount(f) /\ w.length >= CountSize
      /\ Counted(c)
  BY DEF ReadableContent
<1>2. Counted(x) /\ FieldsIn(x) = f \o g /\ f \in Seq(Fields)
  BY <1>1, WritesFields
<1>3. WellFramed(g) /\ g \in Seq(Fields)  BY FramedPacket DEF WellFramed
<1>4. WellFramed(FieldsIn(x))  BY <1>1, <1>2, <1>3, FramedTogether
<1>5. BeginsWithCount(FieldsIn(x))
  <2> HIDE DEF x, f, g
  <2>1. /\ Len(f) \in Nat /\ Len(g) \in Nat /\ Len(f \o g) = Len(f) + Len(g)
        /\ \A k \in 1 .. Len(f) : (f \o g)[k] = f[k]
    BY <1>2, <1>3, TwoFields
  <2>2. 1 \in 1 .. Len(f)  BY <1>1, <2>1 DEF BeginsWithCount
  <2>3. (f \o g)[1] = f[1] /\ Len(f \o g) >= 1  BY <2>1, <2>2
  <2> QED  BY <1>1, <1>2, <2>3 DEF BeginsWithCount
<1>6. x.length >= CountSize
  <2>1. \E more : x.length = Length(x.buffers) /\ x.buffers = w.buffers \o more
                  /\ more \in Seq(Seq(Fields))
    <3>1. PacketIn(w, x, v, c.length)  BY <1>1, ValueWritten
    <3> DEFINE type == PacketType(v)
    <3>2. CASE type = NoPacket
      <4>1. x = w /\ w.buffers \in Seq(Seq(Fields))  BY <1>1, <3>1, <3>2 DEF PacketIn, Counted, Lists
      <4>2. w.buffers \o <<>> = w.buffers /\ <<>> \in Seq(Seq(Fields))
        <5> DEFINE T == Seq(Fields)
        <5>1. w.buffers \in Seq(T)  BY <4>1
        <5> HIDE DEF T
        <5>2. w.buffers \o <<>> = w.buffers /\ <<>> \in Seq(T)  BY <5>1
        <5> QED  BY <5>2 DEF T
      <4>3. w.length = Length(w.buffers)  BY <1>1 DEF Counted
      <4> QED  BY <4>1, <4>2, <4>3
    <3>3. CASE type \in FixedTypes
      <4> DEFINE block == Block(type, TextOf(v))
      <4>1. x.buffers = w.buffers \o <<block>> /\ block \in Seq(Fields)
        BY <3>1, <3>3 DEF PacketIn
      <4> HIDE DEF block
      <4>2. <<block>> \in Seq(Seq(Fields))  BY <4>1
      <4> QED  BY <1>2, <4>1, <4>2 DEF Counted
    <3>4. CASE type \in DynamicTypes
      <4> DEFINE n == DynamicSize(c.length, v)
                 h == HeaderBuffers(type, n)
      <4>1. n \in Nat
            /\ \E rest \in Seq(Seq(Fields)) : x.buffers = w.buffers \o (h \o rest)
        BY <3>1, <3>4 DEF PacketIn
      <4>2. PICK rest \in Seq(Seq(Fields)) : x.buffers = w.buffers \o (h \o rest)
        BY <4>1
      <4>3. h \in Seq(Seq(Fields))  BY <3>4, <4>1, HeaderFlat, KindsOfTypes
      <4> HIDE DEF h
      <4>4. h \o rest \in Seq(Seq(Fields))  BY <4>3, FieldsTogether
      <4> QED  BY <1>2, <4>2, <4>4 DEF Counted
    <3> QED  BY <3>2, <3>3, <3>4, TypesOfValues, KindsOfTypes
  <2>2. PICK more : x.length = Length(x.buffers) /\ x.buffers = w.buffers \o more
                    /\ more \in Seq(Seq(Fields))
    BY <2>1
  <2>3. w.buffers \in Seq(Seq(Fields)) /\ w.length = Length(w.buffers) /\ w.length \in Nat
    BY <1>1 DEF Counted, Lists
  <2>4. Length(w.buffers \o more) = Length(w.buffers) + Length(more) /\ Length(more) \in Nat
    BY <2>2, <2>3, LengthConcat
  <2> HIDE DEF x
  <2>5. x.length = w.length + Length(more)  BY <2>2, <2>3, <2>4
  <2> QED  BY <1>1, <2>3, <2>4, <2>5 DEF CountSize
<1> QED  BY <1>2, <1>4, <1>5, <1>6 DEF ReadableContent

(* The content of an array of such contents.                               *)
LEMMA ReadableElements ==
  ASSUME NEW contents, \A u \in AllValues : ReadableContent(contents[u]),
         NEW v \in AllValues
  PROVE  ReadableContent(ContentWith(contents, v))
<1> DEFINE es == v.elements
           N == Len(es)
<1>1. es \in Seq(AllValues) /\ N \in Nat  BY TypesOfValues
<1>2. PICK f : /\ f[0] = NewArrayContent(N)
               /\ \A k \in 1 .. N : f[k] = WriteWith(f[k - 1], es[k], contents[es[k]])
               /\ ContentWith(contents, v) = f[N]
  BY <1>1, ContentSteps
<1>3. \A k \in 1 .. N : es[k] \in AllValues  BY <1>1
<1> HIDE DEF es, N
<1> DEFINE S == {k \in 0 .. N : ReadableContent(f[k])}
<1>4. 0 \in S
  <2>1. ReadableContent(NewArrayContent(N))  BY <1>1, NewContentReadable
  <2> QED  BY <1>1, <1>2, <2>1
<1>5. ASSUME NEW k \in 0 .. N - 1, k \in S PROVE k + 1 \in S
  <2>1. k + 1 \in 1 .. N /\ (k + 1) - 1 = k  BY <1>1
  <2>2. f[k + 1] = WriteWith(f[k], es[k + 1], contents[es[k + 1]])  BY <1>2, <2>1
  <2>3. es[k + 1] \in AllValues /\ ReadableContent(contents[es[k + 1]])  BY <1>3, <2>1
  <2>4. ReadableContent(f[k])  BY <1>5
  <2>5. ReadableContent(f[k + 1])  BY <2>2, <2>3, <2>4, ReadableWithElement
  <2> QED  BY <1>1, <2>5
<1> HIDE DEF S
<1>6. 0 .. N \subseteq S  BY <1>1, <1>4, <1>5, IntervalInduction
<1>7. ReadableContent(f[N])  BY <1>1, <1>6 DEF S
<1> QED  BY <1>2, <1>7

(* Every content can be read.                                              *)
LEMMA ContentsReadable == \A v \in AllValues : ReadableContent(Contents[v])
<1> DEFINE Right(d) == \A v \in AllValues : ReadableContent(ContentsNested[d][v])
           S == {d \in 0 .. MaxNesting : Right(d)}
<1>0. MaxNesting \in Nat  BY CodecAssumption
<1>1. Right(0)
  <2>1. \A v \in AllValues : ContentsNested[0][v] = NewArrayContent(0)
    BY ContentsLevels
  <2> QED  BY <2>1, NewContentReadable
<1>2. ASSUME NEW d \in 0 .. MaxNesting - 1, Right(d) PROVE Right(d + 1)
  <2> DEFINE contents == ContentsNested[d]
  <2>1. d + 1 \in 1 .. MaxNesting /\ (d + 1) - 1 = d  BY <1>0
  <2>2. \A v \in AllValues : ContentsNested[d + 1][v] = ContentWith(contents, v)
    <3>1. ContentsNested[d + 1] = [v \in AllValues |-> ContentWith(contents, v)]
      BY <2>1, ContentsLevels
    <3> QED  BY <3>1
  <2>3. \A u \in AllValues : ReadableContent(contents[u])  BY <1>2
  <2> HIDE DEF contents
  <2>4. \A v \in AllValues : ReadableContent(ContentWith(contents, v))
    BY <2>3, ReadableElements
  <2> QED  BY <2>2, <2>4
<1> HIDE DEF Right
<1>3. 0 \in S  BY <1>0, <1>1
<1>4. ASSUME NEW d \in 0 .. MaxNesting - 1, d \in S PROVE d + 1 \in S
  BY <1>0, <1>2, <1>4
<1> HIDE DEF S
<1>5. 0 .. MaxNesting \subseteq S  BY <1>0, <1>3, <1>4, IntervalInduction
<1>6. Right(MaxNesting)  BY <1>0, <1>5 DEF S
<1> QED  BY <1>6 DEF Right, Contents

(* What is written of a value can be read.                                 *)
LEMMA WrittenIsFramed ==
  ASSUME NEW v \in AllValues
  PROVE  WellFramed(FlattenSeq(Written(<<v>>)))
<1> DEFINE w == NewBufferListWriter
<1>1. Counted(w) /\ FieldsIn(w) = <<>>  BY NewListCounts, FlattenNothing DEF FieldsIn
<1>2. WellFramed(FieldsIn(w))  BY <1>1, FramedOne
<1>3. ReadableContent(Contents[v])  BY ContentsReadable
<1>4. Written(<<v>>) = WriteWith(w, v, Contents[v]).buffers  BY WrittenOne DEF WriteValue
<1> HIDE DEF w
<1>5. WellFramed(FieldsIn(WriteWith(w, v, Contents[v])))  BY <1>1, <1>2, <1>3, FramedWrite
<1> QED  BY <1>4, <1>5 DEF FieldsIn

(***************************************************************************)
(* Where fields are, and what is read there                                *)
(***************************************************************************)

(* A field begins where the one before it ends.                            *)
LEMMA PlaceOfField ==
  ASSUME NEW f \in Seq(Fields), NEW k \in 1 .. Len(f)
  PROVE  /\ PlaceOf(f, k).lo \in Nat
         /\ f[k].size \in Nat
         /\ PlaceOf(f, k) = [lo |-> PlaceOf(f, k).lo, hi |-> PlaceOf(f, k).lo + f[k].size]
         /\ PlaceOf(f, k).hi = PlaceOf(f, k).lo + f[k].size
         /\ PlaceOf(f, k).hi = Total(SubSeq(f, 1, k))
         /\ k < Len(f) => PlaceOf(f, k + 1).lo = PlaceOf(f, k).hi
<1> DEFINE front == SubSeq(f, 1, k - 1)
           all == SubSeq(f, 1, k)
<1>1. /\ front \in Seq(Fields) /\ all \in Seq(Fields) /\ f[k] \in Fields
      /\ Len(front) = k - 1 /\ Len(all) = k
      /\ \A i \in 1 .. k - 1 : front[i] = f[i]
      /\ \A i \in 1 .. k : all[i] = f[i]
  <2>1. Len(f) \in Nat  OBVIOUS
  <2>2. /\ front \in Seq(Fields) /\ Len(front) = k - 1
        /\ \A i \in 1 .. k - 1 : front[i] = f[i]
    BY <2>1
  <2>3. /\ all \in Seq(Fields) /\ Len(all) = k
        /\ \A i \in 1 .. k : all[i] = f[i]
    BY <2>1
  <2> QED  BY <2>2, <2>3
<1>2. PlaceOf(f, k) = [lo |-> Total(front), hi |-> Total(front) + f[k].size]
  BY DEF PlaceOf
<1>3. k < Len(f) => PlaceOf(f, k + 1).lo = Total(all)
  <2>1. (k + 1) - 1 = k  OBVIOUS
  <2>2. PlaceOf(f, k + 1).lo = Total(SubSeq(f, 1, (k + 1) - 1))  BY DEF PlaceOf
  <2> QED  BY <2>1, <2>2
<1> HIDE DEF front, all
<1>4. all = Append(front, f[k])
  <2> DEFINE x == Append(front, f[k])
  <2>1. /\ x \in Seq(Fields) /\ Len(x) = (k - 1) + 1
        /\ \A i \in 1 .. k - 1 : x[i] = front[i]
        /\ x[k] = f[k]
    <3>1. /\ x \in Seq(Fields) /\ Len(x) = Len(front) + 1
          /\ \A i \in 1 .. Len(front) : x[i] = front[i]
          /\ x[Len(front) + 1] = f[k]
      BY <1>1
    <3>2. Len(front) + 1 = k  BY <1>1
    <3> QED  BY <1>1, <3>1, <3>2
  <2> HIDE DEF x
  <2>2. \A i \in 1 .. k : x[i] = all[i]
    <3>1. ASSUME NEW i \in 1 .. k PROVE x[i] = all[i]
      <4>1. CASE i = k  BY <1>1, <2>1, <4>1
      <4>2. CASE i # k
        <5>1. i \in 1 .. k - 1  BY <4>2
        <5> QED  BY <1>1, <2>1, <5>1
      <4> QED  BY <4>1, <4>2
    <3> QED  BY <3>1
  <2>3. Len(x) = k /\ Len(all) = k  BY <1>1, <2>1
  <2>4. x = all  BY <1>1, <2>1, <2>2, <2>3, SeqEqual
  <2> QED  BY <2>4 DEF x
<1>5. Total(all) = Total(front) + f[k].size  BY <1>1, <1>4, SizedFields, TotalAppend
<1>6. Total(front) \in Nat /\ f[k].size \in Nat  BY <1>1, SizedFields, TotalIsNat
<1>7. PlaceOf(f, k).lo = Total(front) /\ PlaceOf(f, k).hi = Total(front) + f[k].size
  BY <1>2
<1> QED  BY <1>2, <1>3, <1>5, <1>6, <1>7 DEF all

(* No two fields overlap.                                                  *)
LEMMA PlacesInOrder ==
  ASSUME NEW f \in Seq(Fields), NEW k \in 1 .. Len(f)
  PROVE  \A m \in 1 .. Len(f) : k < m => PlaceOf(f, k).hi <= PlaceOf(f, m).lo
<1> DEFINE l == Len(f)
           Lo(m) == PlaceOf(f, m).lo
           Hi(m) == PlaceOf(f, m).hi
           S == {m \in 1 .. l : k < m => Hi(k) <= Lo(m)}
<1>0. l \in Nat \ {0}  OBVIOUS
<1>1. \A m \in 1 .. l : Lo(m) \in Nat /\ Hi(m) \in Nat /\ Lo(m) <= Hi(m)
  <2>1. ASSUME NEW m \in 1 .. l PROVE Lo(m) \in Nat /\ Hi(m) \in Nat /\ Lo(m) <= Hi(m)
    <3>1. Lo(m) \in Nat /\ f[m].size \in Nat /\ Hi(m) = Lo(m) + f[m].size
      BY PlaceOfField
    <3> HIDE DEF Lo, Hi
    <3> QED  BY <3>1
  <2> QED  BY <2>1
<1>2. \A m \in 1 .. l : m < l => Lo(m + 1) = Hi(m)  BY PlaceOfField
<1> HIDE DEF l, Lo, Hi
<1>6. k \in 1 .. l  BY DEF l
<1>3. 1 \in S  BY <1>0, <1>6
<1>4. ASSUME NEW m \in 1 .. l - 1, m \in S PROVE m + 1 \in S
  <2>1. m \in 1 .. l /\ m + 1 \in 1 .. l /\ m < l  BY <1>0
  <2>2. Lo(m + 1) = Hi(m)  BY <1>2, <2>1
  <2>3. CASE k < m  BY <1>1, <1>4, <1>6, <2>1, <2>2, <2>3
  <2>4. CASE k = m  BY <1>1, <2>1, <2>2, <2>4
  <2>5. CASE k > m  BY <1>6, <2>1, <2>5
  <2> QED  BY <1>6, <2>1, <2>3, <2>4, <2>5
<1> HIDE DEF S
<1>5. 1 .. l \subseteq S  BY <1>0, <1>3, <1>4, IntervalInduction
<1> QED  BY <1>5 DEF S, l, Lo, Hi

(* A field that is not empty has its place alone.                          *)
LEMMA OnlyOneThere ==
  ASSUME NEW f \in Seq(Fields), NEW k \in 1 .. Len(f), f[k].size > 0,
         NEW m \in 1 .. Len(f), PlaceOf(f, m) = PlaceOf(f, k)
  PROVE  m = k
<1>1. /\ PlaceOf(f, k).lo \in Nat /\ f[k].size \in Nat
      /\ PlaceOf(f, k).hi = PlaceOf(f, k).lo + f[k].size
  BY PlaceOfField
<1>2. k < m => PlaceOf(f, k).hi <= PlaceOf(f, m).lo  BY PlacesInOrder
<1>3. m < k => PlaceOf(f, m).hi <= PlaceOf(f, k).lo  BY PlacesInOrder
<1> QED  BY <1>1, <1>2, <1>3

(* The bytes of a field that is not empty say what it says.                *)
LEMMA SaysTheField ==
  ASSUME NEW f \in Seq(Fields), NEW k \in 1 .. Len(f), f[k].size > 0
  PROVE  Says(MemoryOfFields(f),
              [lo |-> PlaceOf(f, k).lo, hi |-> PlaceOf(f, k).lo + f[k].size])
           = f[k].says
<1> DEFINE says == [m \in DOMAIN f |-> [place |-> PlaceOf(f, m), says |-> f[m].says]]
           memory == MemoryOfFields(f)
           bytes == PlaceOf(f, k)
<1>1. memory.says = says  BY DEF MemoryOfFields
<1>2. DOMAIN f = 1 .. Len(f) /\ k \in DOMAIN says  OBVIOUS
<1>3. \A m \in DOMAIN says : says[m].place = PlaceOf(f, m) /\ says[m].says = f[m].says
  OBVIOUS
<1>4. DOMAIN says = DOMAIN f  OBVIOUS
<1> HIDE DEF says, memory
<1>5. \A m \in DOMAIN says : says[m].place = bytes => m = k
  BY <1>2, <1>3, <1>4, OnlyOneThere
<1>6. (CHOOSE m \in DOMAIN says : says[m].place = bytes) = k
  BY <1>2, <1>3, <1>5
<1>7. Says(memory, bytes) = f[k].says  BY <1>1, <1>2, <1>3, <1>6 DEF Says
<1>8. bytes = [lo |-> PlaceOf(f, k).lo, hi |-> PlaceOf(f, k).lo + f[k].size]
  BY PlaceOfField
<1> QED  BY <1>7, <1>8 DEF memory

(* The header that two bytes say is of a field that is there.              *)
LEMMA PacketOfField ==
  ASSUME NEW f, WellFramed(f), NEW pos
  PROVE  LET packet == PacketAt(MemoryOfFields(f).headers, pos)
         IN packet.type \in DynamicTypes =>
              \E k \in 1 .. Len(f) : /\ ReadableAt(f, k)
                                     /\ f[k].says = packet.type
                                     /\ f[k + 1].says = packet.contentSize
                                     /\ PlaceOf(f, k).lo = pos
<1> DEFINE headers == [k \in DOMAIN f |-> HeaderAt(f, k)]
           packet == PacketAt(headers, pos)
<1>1. MemoryOfFields(f).headers = headers  BY DEF MemoryOfFields
<1>2. f \in Seq(Fields) /\ DOMAIN f = 1 .. Len(f) /\ Len(f) \in Nat  BY DEF WellFramed
<1>3. Len(headers) = Len(f) /\ \A k \in 1 .. Len(f) : headers[k] = HeaderAt(f, k)
  BY <1>2
<1>4. ASSUME packet.type \in DynamicTypes
      PROVE  \E k \in 1 .. Len(f) : /\ ReadableAt(f, k)
                                    /\ f[k].says = packet.type
                                    /\ f[k + 1].says = packet.contentSize
                                    /\ PlaceOf(f, k).lo = pos
  <2> HIDE DEF headers
  <2>0. Garbage.type \notin DynamicTypes  BY DEF Garbage, DynamicTypes, Foreign
  <2>1. \E k \in 1 .. Len(headers) : headers[k].start = pos
    BY <1>4, <2>0 DEF PacketAt
  <2>2. PICK k \in 1 .. Len(headers) : headers[k].start = pos /\ packet = headers[k]
    BY <2>1 DEF PacketAt
  <2>3. k \in 1 .. Len(f) /\ packet = HeaderAt(f, k)  BY <1>3, <2>2
  <2>4. f[k].name = "type"
    <3>1. ASSUME f[k].name # "type" PROVE FALSE
      <4>1. packet = [Garbage EXCEPT !.start = PlaceOf(f, k).lo]
        BY <2>3, <3>1 DEF HeaderAt
      <4>2. packet.type = Garbage.type  BY <4>1 DEF Garbage
      <4> QED  BY <1>4, <2>0, <4>2
    <3> QED  BY <3>1
  <2>5. packet = [type |-> f[k].says, start |-> PlaceOf(f, k).lo,
                  contentSize |-> IF f[k + 1].name = "contentSize"
                                  THEN f[k + 1].says ELSE 0]
    BY <2>3, <2>4 DEF HeaderAt
  <2> HIDE DEF packet
  <2>6. packet.type = f[k].says /\ packet.start = PlaceOf(f, k).lo  BY <2>5
  <2>7. ReadableAt(f, k)  BY <1>4, <2>3, <2>4, <2>6 DEF WellFramed
  <2>8. packet.contentSize = f[k + 1].says  BY <2>5, <2>7 DEF ReadableAt
  <2>9. PlaceOf(f, k).lo = pos  BY <2>2, <2>6 DEF packet
  <2> QED  BY <2>3, <2>6, <2>7, <2>8, <2>9
<1> QED  BY <1>1, <1>4

(* Behind a header that says so there is the content size, and behind the  *)
(* one of an array the count of its elements.                              *)
LEMMA CountBehindHeader ==
  ASSUME NEW f, WellFramed(f), NEW k \in 1 .. Len(f), ReadableAt(f, k),
         f[k].says = "ArrayWithSize"
  PROVE  LET pos == PlaceOf(f, k).lo
         IN Says(MemoryOfFields(f), [lo |-> pos + DynamicHeaderSize,
                                     hi |-> (pos + DynamicHeaderSize) + CountSize])
              \in Nat
<1> DEFINE pos == PlaceOf(f, k).lo
<1>1. f \in Seq(Fields) /\ Len(f) \in Nat  BY DEF WellFramed
<1>2. /\ k + 2 <= Len(f) /\ f[k].size = FixedHeaderSize /\ f[k + 1].size = ContentFieldSize
      /\ f[k + 2].size = CountSize /\ f[k + 2].says \in Nat
  BY DEF ReadableAt
<1>3. k + 1 \in 1 .. Len(f) /\ k + 2 \in 1 .. Len(f) /\ k < Len(f) /\ k + 1 < Len(f)
      /\ (k + 1) + 1 = k + 2
  BY <1>1, <1>2
<1>4. pos \in Nat /\ PlaceOf(f, k + 1).lo = pos + FixedHeaderSize
  BY <1>1, <1>2, <1>3, PlaceOfField
<1>5. PlaceOf(f, (k + 1) + 1).lo = PlaceOf(f, k + 1).lo + ContentFieldSize
  BY <1>1, <1>2, <1>3, PlaceOfField
<1> HIDE DEF pos
<1>6. PlaceOf(f, k + 2).lo = pos + DynamicHeaderSize
  BY <1>3, <1>4, <1>5 DEF DynamicHeaderSize, FixedHeaderSize, ContentFieldSize
<1>7. f[k + 2].size > 0  BY <1>2 DEF CountSize
<1>8. Says(MemoryOfFields(f), [lo |-> PlaceOf(f, k + 2).lo,
                               hi |-> PlaceOf(f, k + 2).lo + f[k + 2].size])
        = f[k + 2].says
  BY <1>1, <1>3, <1>7, SaysTheField
<1> QED  BY <1>2, <1>6, <1>8 DEF pos

(***************************************************************************)
(* Reading bytes, whatever they say                                        *)
(***************************************************************************)

(* A reader comes out as one of the same class, somewhere in the same      *)
(* bytes.                                                                  *)
Leads(r, q, size) == (\E at : At(q, size, at)) /\ Later(r, q)

(* One step of reading behind another.                                     *)
LEMMA LeadsTwice ==
  ASSUME NEW r, NEW q, NEW p, NEW size, Leads(r, q, size), Leads(q, p, size)
  PROVE  Leads(r, p, size)
BY LaterTwice DEF Leads

(* Nothing read.                                                           *)
LEMMA LeadsNowhere ==
  ASSUME NEW r, NEW size, NEW at, At(r, size, at)
  PROVE  Leads(r, r, size)
BY LaterSame DEF Leads

(* Bytes that are not there are not skipped.                               *)
LEMMA SkipLeads ==
  ASSUME NEW r, NEW size, NEW at, At(r, size, at), NEW step \in Nat
  PROVE  Leads(r, SkipBy(r, step), size)
<1> DEFINE q == SkipBy(r, step)
           to == at + step
<1>1. size \in Nat /\ at \in Nat /\ at <= size /\ r.offset = at  BY AtPlace
<1>2. CASE at + step < size
  <2>1. At(q, size, IF at + step < size THEN at + step ELSE at) /\ Later(r, q)
    <3>1. at < size /\ at + step <= size  BY <1>1, <1>2
    <3> QED  BY <3>1, SkipAt
  <2> QED  BY <2>1 DEF Leads
<1>3. CASE ~(at + step < size)
  <2>1. q = r
    <3>1. q = SeekTo(r, to)  BY <1>1 DEF SkipBy
    <3>2. CASE IsList(r)
      <4>1. q = Seek(r, to)  BY <3>1, <3>2 DEF SeekTo
      <4>2. r.length = size  BY <3>2, AtPlace DEF ListAt
      <4>3. r.offset = to \/ ~SeekAccepts(r, to)
        <5>1. ~(to < r.length)  BY <1>3, <4>2
        <5> HIDE DEF to
        <5> QED  BY <5>1 DEF SeekAccepts
      <4> HIDE DEF to, q
      <4> QED  BY <4>1, <4>3 DEF Seek, SeekThrows
    <3>3. CASE ~IsList(r)
      <4>1. r = [buffer |-> [lo |-> 0, hi |-> size], offset |-> at]  BY <3>3, AtPlace
      <4>2. Size(r.buffer) = size
        <5>1. r.buffer.lo = 0 /\ r.buffer.hi = size  BY <4>1
        <5> QED  BY <1>1, <5>1 DEF Size
      <4>3. ~(to < Size(r.buffer))  BY <1>3, <4>2
      <4> HIDE DEF to, q
      <4> QED  BY <3>1, <3>3, <4>3 DEF SeekTo
    <3> QED  BY <3>2, <3>3
  <2> QED  BY <2>1, LeadsNowhere
<1> QED  BY <1>2, <1>3

(* There are bytes enough before the end.                                  *)
LEMMA BytesEnough ==
  ASSUME NEW r, NEW size, NEW at, At(r, size, at), NEW step \in Nat
  PROVE  ~AtEOF(r, step) <=> at + step <= size
<1>1. size \in Nat /\ at \in Nat /\ r.offset = at /\ LengthOf(r) = size  BY AtPlace
<1> QED  BY <1>1 DEF AtEOF

(* What can be read of a content where the reader is: it is all there,     *)
(* with as many bytes as its type takes, and a footer.                     *)
Ready(r, f, type, contentSize, size) ==
  \E at :
    /\ At(r, size, at)
    /\ contentSize \in Nat
    /\ at + contentSize + FooterLength <= size
    /\ type \in ValidTypes
    /\ type \in DoubleTypes => contentSize = DoubleContentSize
    /\ type \in IntegerTypes => contentSize = IntegerContentSize
    /\ type = "ArrayWithSize" =>
         /\ contentSize >= CountSize
         /\ Says(MemoryOfFields(f), [lo |-> at, hi |-> at + CountSize]) \in Nat
    /\ type = "ArrayBufferWithSize" => contentSize >= ShortCodeSize

(* The header that ReadHeader gives is of a content that can be read, or   *)
(* it has no content size.                                                 *)
HeaderLeads(r, read, f, size) ==
  /\ Leads(r, read.reader, size)
  /\ read.header.type \in ValidTypes \cup {"NotValid"}
  /\ read.header.headerSize \in {-1, FixedHeaderSize, DynamicHeaderSize}
  /\ read.header.contentSize \in Nat \cup {-1}
  /\ read.header.contentSize >= 0 =>
       Ready(read.reader, f, read.header.type, read.header.contentSize, size)

(* A partial header is one that is not valid.                              *)
LEMMA PartialLeads ==
  ASSUME NEW r, NEW q, NEW f, NEW size, Leads(r, q, size)
  PROVE  /\ Partial(q).header = InvalidRawHeader
         /\ HeaderLeads(r, Partial(q), f, size)
<1>1. Partial(q) = [header |-> InvalidRawHeader, reader |-> q]
  BY DEF Partial, DeclareHeader, DoubleTypes, IntegerTypes, EmptyTypes, DynamicTypes
<1> QED  BY <1>1 DEF HeaderLeads, InvalidRawHeader

(* readHeader, whatever is behind the cursor: a header it takes for a      *)
(* packet's is one, and what it says is there is there.                    *)
LEMMA HeaderIsThere ==
  ASSUME NEW f, WellFramed(f), NEW r, NEW size, NEW pos, At(r, size, pos)
  PROVE  HeaderLeads(r, ReadHeader(r, MemoryOfFields(f).headers), f, size)
<1> DEFINE sent == MemoryOfFields(f).headers
           packet == PacketAt(sent, NumberOut(r, FixedHeaderSize).lo)
           typed == NumberBy(r, FixedHeaderSize)
           header == DeclareHeader(packet.type, -1)
           sized == [header EXCEPT !.contentSize = packet.contentSize]
           counted == NumberBy(typed, ContentFieldSize)
           read == ReadHeader(r, sent)
<1>0. size \in Nat /\ pos \in Nat /\ pos <= size  BY AtPlace
<1>1. /\ FixedHeaderSize \in Nat \ {0} /\ ContentFieldSize \in Nat \ {0}
      /\ FooterLength \in Nat
  BY DEF FixedHeaderSize, ContentFieldSize, FooterLength
<1>2. read = CASE AtEOF(r, FixedHeaderSize) -> Partial(r)
       [] ~AtEOF(r, FixedHeaderSize) /\ IsNotValid(header) ->
            [header |-> header, reader |-> typed]
       [] /\ ~AtEOF(r, FixedHeaderSize)
          /\ header.headerSize = DynamicHeaderSize ->
            IF AtEOF(typed, ContentFieldSize)
            THEN Partial(typed)
            ELSE Complete(counted, sized)
       [] OTHER -> Complete(typed, header)
  BY DEF ReadHeader, packet, typed, header, sized
<1> HIDE DEF read
<1>3. CASE AtEOF(r, FixedHeaderSize)
  <2>1. read = Partial(r)
    <3> HIDE DEF header, sized, counted, typed
    <3> QED  BY <1>2, <1>3
  <2> QED  BY <2>1, LeadsNowhere, PartialLeads DEF read
<1>4. CASE ~AtEOF(r, FixedHeaderSize)
  <2>1. pos + FixedHeaderSize <= size  BY <1>1, <1>4, BytesEnough
  <2>2. /\ At(typed, size, pos + FixedHeaderSize)
        /\ Later(r, typed)
        /\ NumberOut(r, FixedHeaderSize) = [lo |-> pos, hi |-> pos + FixedHeaderSize]
    BY <1>1, <2>1, NumberAt
  <2>3. packet = PacketAt(sent, pos)  BY <2>2
  <2> HIDE DEF typed, packet
  <2>4. Leads(r, typed, size)  BY <2>2 DEF Leads
  <2>5. CASE packet.type \in DoubleTypes \cup IntegerTypes \cup EmptyTypes
    <3> DEFINE contentSize == CASE packet.type \in DoubleTypes -> DoubleContentSize
                                [] packet.type \in IntegerTypes -> IntegerContentSize
                                [] OTHER -> ZeroContentSize
    <3>1. header = RawHeader(packet.type, FixedHeaderSize, contentSize)
      <4>1. CASE packet.type \in DoubleTypes
        BY <4>1 DEF DeclareHeader, DoubleTypes, IntegerTypes, EmptyTypes, DynamicTypes
      <4>2. CASE packet.type \in IntegerTypes
        BY <4>2 DEF DeclareHeader, DoubleTypes, IntegerTypes, EmptyTypes, DynamicTypes
      <4>3. CASE packet.type \in EmptyTypes
        BY <4>3 DEF DeclareHeader, DoubleTypes, IntegerTypes, EmptyTypes, DynamicTypes
      <4> QED  BY <2>5, <4>1, <4>2, <4>3
    <3>2. /\ contentSize \in Nat
          /\ packet.type \in DoubleTypes => contentSize = DoubleContentSize
          /\ packet.type \in IntegerTypes => contentSize = IntegerContentSize
      BY DEF DoubleContentSize, IntegerContentSize, ZeroContentSize, DoubleTypes, IntegerTypes
    <3> HIDE DEF contentSize, header
    <3>3. /\ header.type = packet.type /\ header.headerSize = FixedHeaderSize
          /\ header.contentSize = contentSize
      BY <3>1 DEF RawHeader
    <3>4. ~IsNotValid(header) /\ header.headerSize # DynamicHeaderSize
      BY <2>5, <3>3 DEF IsNotValid, DoubleTypes, IntegerTypes, EmptyTypes,
                        FixedHeaderSize, DynamicHeaderSize, ContentFieldSize
    <3>5. read = Complete(typed, header)
      <4> HIDE DEF sized, counted
      <4> QED  BY <1>2, <1>4, <3>4
    <3>6. CASE AtEOF(typed, header.contentSize + FooterLength)
      <4>1. read = Partial(typed)  BY <3>5, <3>6 DEF Complete
      <4> QED  BY <2>4, <4>1, PartialLeads DEF read
    <3>7. CASE ~AtEOF(typed, header.contentSize + FooterLength)
      <4>1. read = [header |-> header, reader |-> typed]  BY <3>5, <3>7 DEF Complete
      <4>2. contentSize + FooterLength \in Nat  BY <1>1, <3>2
      <4>3. (pos + FixedHeaderSize) + (contentSize + FooterLength) <= size
        BY <2>2, <3>3, <3>7, <4>2, BytesEnough
      <4>4. (pos + FixedHeaderSize) + contentSize + FooterLength <= size
        BY <1>0, <1>1, <3>2, <4>3
      <4>5. /\ packet.type \in ValidTypes
            /\ packet.type # "ArrayWithSize" /\ packet.type # "ArrayBufferWithSize"
        BY <2>5 DEF ValidTypes, DoubleTypes, IntegerTypes, EmptyTypes
      <4>6. Ready(typed, f, packet.type, contentSize, size)
        BY <2>2, <3>2, <4>4, <4>5 DEF Ready
      <4>7. HeaderLeads(r, read, f, size)
        BY <2>4, <3>2, <3>3, <4>1, <4>5, <4>6 DEF HeaderLeads
      <4> QED  BY <4>7 DEF read
    <3> QED  BY <3>6, <3>7
  <2>6. CASE packet.type \in DynamicTypes
    <3>1. header = [type |-> packet.type, headerSize |-> DynamicHeaderSize,
                    contentSize |-> -1]
      BY <2>6 DEF DeclareHeader, RawHeader, DoubleTypes, IntegerTypes, EmptyTypes, DynamicTypes
    <3> HIDE DEF header
    <3>2. ~IsNotValid(header) /\ header.headerSize = DynamicHeaderSize
      BY <2>6, <3>1 DEF IsNotValid, DynamicTypes
    <3>3. read = IF AtEOF(typed, ContentFieldSize) THEN Partial(typed)
                 ELSE Complete(counted, sized)
      <4> HIDE DEF sized, counted
      <4> QED  BY <1>2, <1>4, <3>2
    <3>4. PICK k \in 1 .. Len(f) : /\ ReadableAt(f, k)
                                   /\ f[k].says = packet.type
                                   /\ f[k + 1].says = packet.contentSize
                                   /\ PlaceOf(f, k).lo = pos
      BY <2>3, <2>6, PacketOfField
    <3> DEFINE contentSize == packet.contentSize
    <3>5. contentSize \in Nat  BY <3>4 DEF ReadableAt
    <3>6. CASE AtEOF(typed, ContentFieldSize)
      <4>1. read = Partial(typed)  BY <3>3, <3>6
      <4> QED  BY <2>4, <4>1, PartialLeads DEF read
    <3>7. CASE ~AtEOF(typed, ContentFieldSize)
      <4>1. (pos + FixedHeaderSize) + ContentFieldSize <= size
        BY <1>1, <2>2, <3>7, BytesEnough
      <4>2. At(counted, size, (pos + FixedHeaderSize) + ContentFieldSize)
            /\ Later(typed, counted)
        BY <1>1, <2>2, <4>1, NumberAt
      <4> DEFINE at == pos + DynamicHeaderSize
      <4>3. at = (pos + FixedHeaderSize) + ContentFieldSize /\ at \in Nat
        BY <1>0, <1>1 DEF DynamicHeaderSize
      <4>4. At(counted, size, at)  BY <4>2, <4>3
      <4>5. Leads(r, counted, size)
        <5>1. Leads(typed, counted, size)  BY <4>2 DEF Leads
        <5> QED  BY <2>4, <5>1, LeadsTwice
      <4>6. /\ sized.type = packet.type /\ sized.headerSize = DynamicHeaderSize
            /\ sized.contentSize = contentSize
        BY <3>1
      <4> HIDE DEF counted, sized
      <4>7. CASE AtEOF(counted, sized.contentSize + FooterLength)
        <5>1. read = Partial(counted)  BY <3>3, <3>7, <4>7 DEF Complete
        <5> QED  BY <4>5, <5>1, PartialLeads DEF read
      <4>8. CASE ~AtEOF(counted, sized.contentSize + FooterLength)
        <5>1. read = [header |-> sized, reader |-> counted]
          BY <3>3, <3>7, <4>8 DEF Complete
        <5> HIDE DEF contentSize
        <5>2. contentSize + FooterLength \in Nat  BY <1>1, <3>5
        <5>3. at + (contentSize + FooterLength) <= size
          BY <4>4, <4>6, <4>8, <5>2, BytesEnough
        <5>4. at + contentSize + FooterLength <= size
          BY <1>1, <3>5, <4>3, <5>3
        <5>5. /\ packet.type \in ValidTypes
              /\ packet.type \notin DoubleTypes /\ packet.type \notin IntegerTypes
          BY <2>6 DEF ValidTypes, DoubleTypes, IntegerTypes, DynamicTypes
        <5>6. packet.type = "ArrayWithSize" =>
                /\ contentSize >= CountSize
                /\ Says(MemoryOfFields(f), [lo |-> at, hi |-> at + CountSize]) \in Nat
          <6>1. ASSUME packet.type = "ArrayWithSize"
                PROVE  Says(MemoryOfFields(f), [lo |-> at, hi |-> at + CountSize]) \in Nat
            <7>1. f[k].says = "ArrayWithSize"  BY <3>4, <6>1
            <7> QED  BY <3>4, <7>1, CountBehindHeader
          <6>2. packet.type = "ArrayWithSize" => contentSize >= CountSize
            BY <3>4 DEF ReadableAt, contentSize
          <6> QED  BY <6>1, <6>2
        <5>7. packet.type = "ArrayBufferWithSize" => contentSize >= ShortCodeSize
          BY <3>4 DEF ReadableAt, contentSize
        <5> HIDE DEF at
        <5>8. Ready(counted, f, packet.type, contentSize, size)
          BY <3>5, <4>4, <5>4, <5>5, <5>6, <5>7 DEF Ready
        <5>9. HeaderLeads(r, read, f, size)
          BY <3>5, <4>5, <4>6, <5>1, <5>5, <5>8 DEF HeaderLeads
        <5> QED  BY <5>9 DEF read
      <4> QED  BY <4>7, <4>8
    <3> QED  BY <3>6, <3>7
  <2>7. CASE packet.type \notin DoubleTypes \cup IntegerTypes \cup EmptyTypes \cup DynamicTypes
    <3>1. header = InvalidRawHeader  BY <2>7 DEF DeclareHeader
    <3> HIDE DEF header
    <3>2. IsNotValid(header)  BY <3>1 DEF IsNotValid, InvalidRawHeader
    <3>3. header.headerSize # DynamicHeaderSize
      BY <3>1 DEF InvalidRawHeader, DynamicHeaderSize, FixedHeaderSize, ContentFieldSize
    <3>4. read = [header |-> header, reader |-> typed]
      <4> HIDE DEF sized, counted
      <4> QED  BY <1>2, <1>4, <3>2, <3>3
    <3>5. HeaderLeads(r, read, f, size)
      BY <2>4, <3>1, <3>4 DEF HeaderLeads, InvalidRawHeader
    <3> QED  BY <3>5 DEF read
  <2> QED  BY <2>5, <2>6, <2>7
<1> QED  BY <1>3, <1>4

(* It is a reader that packets are read with.                              *)
LEMMA AtReader ==
  ASSUME NEW r, NEW size, NEW at, At(r, size, at)
  PROVE  r \in AnyReader
<1>1. size \in Nat /\ at \in Nat  BY AtPlace
<1>2. CASE IsList(r)  BY <1>2, AtPlace DEF ListAt, AnyReader
<1>3. CASE ~IsList(r)
  <2>1. r = [buffer |-> [lo |-> 0, hi |-> size], offset |-> at]  BY <1>3, AtPlace
  <2>2. [lo |-> 0, hi |-> size] \in Buffer  BY <1>1 DEF Buffer
  <2> QED  BY <1>1, <2>1, <2>2 DEF AnyReader
<1> QED  BY <1>2, <1>3

(***************************************************************************)
(* Elements, one after another                                             *)
(***************************************************************************)

(* The elements read up to each set of places.                             *)
Gathers(g, base, inner, n) ==
  g = [t \in SUBSET (1 .. n) |->
         IF t = {} THEN base
         ELSE WithElement(g[t \ {Max(t)}], inner[g[t \ {Max(t)}].reader])]

(* If the first elements can be read, so can one more.                     *)
LEMMA GathersOneMore ==
  ASSUME NEW base, NEW inner, NEW n \in Nat, NEW g, Gathers(g, base, inner, n)
  PROVE  \E h : Gathers(h, base, inner, n + 1)
<1> DEFINE Turn(w) == WithElement(w, inner[w.reader])
<1> HIDE DEF Turn
<1> DEFINE h == [t \in SUBSET (1 .. n + 1) |->
                   IF n + 1 \in t THEN Turn(g[t \ {n + 1}]) ELSE g[t]]
           Value_(t) == IF t = {} THEN base ELSE Turn(h[t \ {Max(t)}])
<1>1. \A t \in SUBSET (1 .. n) : g[t] = IF t = {} THEN base ELSE Turn(g[t \ {Max(t)}])
  BY DEF Gathers, Turn
<1>2. \A t \in SUBSET (1 .. n) : h[t] = g[t]
  <2>1. \A t \in SUBSET (1 .. n) : t \in SUBSET (1 .. n + 1) /\ n + 1 \notin t  OBVIOUS
  <2> QED  BY <2>1
<1>3. ASSUME NEW t \in SUBSET (1 .. n + 1) PROVE h[t] = Value_(t)
  <2>1. CASE n + 1 \in t
    <3>1. Max(t) \in t /\ \A y \in t : y <= Max(t)
      <4>1. n + 1 \in Nat /\ t # {}  BY <2>1
      <4> QED  BY <4>1, MaxIsGreatest
    <3>2. Max(t) = n + 1
      <4>1. Max(t) \in 1 .. n + 1 /\ n + 1 <= Max(t)  BY <2>1, <3>1
      <4> QED  BY <4>1
    <3>3. t \ {n + 1} \in SUBSET (1 .. n)  OBVIOUS
    <3>4. h[t] = Turn(g[t \ {n + 1}])  BY <2>1
    <3>5. h[t \ {n + 1}] = g[t \ {n + 1}]  BY <1>2, <3>3
    <3>6. t # {}  BY <2>1
    <3> HIDE DEF h
    <3> QED  BY <3>2, <3>4, <3>5, <3>6
  <2>2. CASE n + 1 \notin t
    <3>1. t \in SUBSET (1 .. n)  BY <2>2
    <3>2. h[t] = g[t]  BY <1>2, <3>1
    <3>3. CASE t = {}  BY <1>1, <3>1, <3>2, <3>3
    <3>4. CASE t # {}
      <4>1. t \ {Max(t)} \in SUBSET (1 .. n)  BY <3>1
      <4>2. h[t \ {Max(t)}] = g[t \ {Max(t)}]  BY <1>2, <4>1
      <4> HIDE DEF h
      <4> QED  BY <1>1, <3>1, <3>2, <3>4, <4>2
    <3> QED  BY <3>3, <3>4
  <2> QED  BY <2>1, <2>2
<1>4. h = [t \in SUBSET (1 .. n + 1) |-> h[t]]  OBVIOUS
<1> HIDE DEF h
<1>5. h = [t \in SUBSET (1 .. n + 1) |-> Value_(t)]  BY <1>3, <1>4
<1>6. Gathers(h, base, inner, n + 1)  BY <1>5 DEF Gathers, Turn
<1> QED  BY <1>6

(* The elements of an array are read one at a time.                        *)
LEMMA ElementSteps ==
  ASSUME NEW r, NEW inner, NEW N \in Nat
  PROVE  \E g : /\ g[0] = Gives(ArrayOf(<<>>), r)
                /\ \A k \in 1 .. N : g[k] = WithElement(g[k - 1], inner[g[k - 1].reader])
                /\ ReadElements(r, inner, N) = g[N]
<1> DEFINE base == Gives(ArrayOf(<<>>), r)
           s == [k \in 1 .. N |-> k]
<1>1. DOMAIN s = 1 .. N  OBVIOUS
<1>2. \E g : Gathers(g, base, inner, N)
  <2> HIDE DEF base
  <2> DEFINE S == {n \in 0 .. N : \E g : Gathers(g, base, inner, n)}
  <2>1. 0 \in S
    <3> DEFINE none == [t \in SUBSET (1 .. 0) |-> base]
    <3>1. \A t \in SUBSET (1 .. 0) : t = {}  OBVIOUS
    <3>2. Gathers(none, base, inner, 0)  BY <3>1 DEF Gathers
    <3> QED  BY <3>2
  <2>2. ASSUME NEW n \in 0 .. N - 1, n \in S PROVE n + 1 \in S
    <3>1. PICK g : Gathers(g, base, inner, n)  BY <2>2
    <3>2. n \in Nat  OBVIOUS
    <3>3. \E h : Gathers(h, base, inner, n + 1)  BY <3>1, <3>2, GathersOneMore
    <3> QED  BY <3>3
  <2> HIDE DEF S
  <2>3. 0 .. N \subseteq S  BY <2>1, <2>2, IntervalInduction
  <2> QED  BY <2>3 DEF S
<1> DEFINE g == CHOOSE g : g = [t \in SUBSET DOMAIN s |->
                                  IF t = {} THEN base
                                  ELSE WithElement(g[t \ {Max(t)}],
                                                   inner[g[t \ {Max(t)}].reader])]
<1>3. ReadElements(r, inner, N) = g[DOMAIN s]
  BY DEF ReadElements, FoldLeft, MapThenFoldSet
<1>4. Gathers(g, base, inner, N)  BY <1>1, <1>2 DEF Gathers
<1> HIDE DEF g, s
<1>5. \A t \in SUBSET (1 .. N) :
        g[t] = IF t = {} THEN base
               ELSE WithElement(g[t \ {Max(t)}], inner[g[t \ {Max(t)}].reader])
  BY <1>4 DEF Gathers
<1> HIDE DEF base
<1> DEFINE h == [k \in 0 .. N |-> g[1 .. k]]
<1>6. h[0] = base
  <2>1. 1 .. 0 = {} /\ 0 \in 0 .. N  OBVIOUS
  <2> QED  BY <1>5, <2>1
<1>7. ASSUME NEW k \in 1 .. N
      PROVE  h[k] = WithElement(h[k - 1], inner[h[k - 1].reader])
  <2>1. Max(1 .. k) = k /\ (1 .. k) \ {Max(1 .. k)} = 1 .. k - 1
    BY MaxOfInterval
  <2>2. 1 .. k \in SUBSET (1 .. N) /\ 1 .. k # {}  OBVIOUS
  <2>3. g[1 .. k] = WithElement(g[(1 .. k) \ {Max(1 .. k)}],
                                inner[g[(1 .. k) \ {Max(1 .. k)}].reader])
    BY <1>5, <2>2
  <2>4. g[1 .. k] = WithElement(g[1 .. k - 1], inner[g[1 .. k - 1].reader])
    BY <2>1, <2>3
  <2>5. k \in 0 .. N /\ k - 1 \in 0 .. N  OBVIOUS
  <2> QED  BY <2>4, <2>5
<1>8. ReadElements(r, inner, N) = h[N]  BY <1>1, <1>3
<1> HIDE DEF h
<1> QED  BY <1>6, <1>7, <1>8 DEF base

(* What is nested can be read.                                             *)
InnerLeads(inner, size) ==
  \A r \in AnyReader : \A at : At(r, size, at) => Leads(r, inner[r].reader, size)

(* Reading elements, however many.                                         *)
LEMMA ElementsLead ==
  ASSUME NEW inner, NEW size, InnerLeads(inner, size), NEW r, NEW at, At(r, size, at),
         NEW count \in Nat
  PROVE  Leads(r, ReadElements(r, inner, count).reader, size)
<1>1. PICK g : /\ g[0] = Gives(ArrayOf(<<>>), r)
               /\ \A k \in 1 .. count : g[k] = WithElement(g[k - 1], inner[g[k - 1].reader])
               /\ ReadElements(r, inner, count) = g[count]
  BY ElementSteps
<1> DEFINE S == {k \in 0 .. count : Leads(r, g[k].reader, size)}
<1>2. 0 \in S
  <2>1. g[0].reader = r  BY <1>1 DEF Gives
  <2>2. Leads(r, r, size)  BY LeadsNowhere
  <2> QED  BY <2>1, <2>2
<1>3. ASSUME NEW k \in 0 .. count - 1, k \in S PROVE k + 1 \in S
  <2> DEFINE q == g[k].reader
  <2>1. k + 1 \in 1 .. count /\ (k + 1) - 1 = k /\ k + 1 \in 0 .. count  OBVIOUS
  <2>2. g[k + 1] = WithElement(g[k], inner[q])  BY <1>1, <2>1
  <2>3. g[k + 1].reader = inner[q].reader  BY <2>2 DEF WithElement, Gives
  <2>4. Leads(r, q, size)  BY <1>3
  <2> HIDE DEF q
  <2>5. PICK p : At(q, size, p)  BY <2>4 DEF Leads
  <2>6. Leads(q, inner[q].reader, size)  BY <2>5, AtReader DEF InnerLeads
  <2>7. Leads(r, inner[q].reader, size)  BY <2>4, <2>6, LeadsTwice
  <2> QED  BY <2>1, <2>3, <2>7
<1> HIDE DEF S
<1>4. 0 .. count \subseteq S  BY <1>2, <1>3, IntervalInduction
<1>5. Leads(r, g[count].reader, size)  BY <1>4 DEF S
<1> QED  BY <1>1, <1>5

(* Reading a content, when it is all there.                                *)
LEMMA ContentLeads ==
  ASSUME NEW f, NEW inner, NEW size, InnerLeads(inner, size),
         NEW r, NEW type, NEW contentSize, Ready(r, f, type, contentSize, size)
  PROVE  Leads(r, ReadContent(r, MemoryOfFields(f), inner, type, contentSize).reader, size)
<1> DEFINE memory == MemoryOfFields(f)
           read == ReadContent(r, memory, inner, type, contentSize)
<1>1. PICK at :
        /\ At(r, size, at)
        /\ contentSize \in Nat
        /\ at + contentSize + FooterLength <= size
        /\ type \in ValidTypes
        /\ type \in DoubleTypes => contentSize = DoubleContentSize
        /\ type \in IntegerTypes => contentSize = IntegerContentSize
        /\ type = "ArrayWithSize" =>
             /\ contentSize >= CountSize
             /\ Says(memory, [lo |-> at, hi |-> at + CountSize]) \in Nat
        /\ type = "ArrayBufferWithSize" => contentSize >= ShortCodeSize
  BY DEF Ready
<1>2. /\ size \in Nat /\ at \in Nat
      /\ DoubleContentSize \in Nat \ {0} /\ IntegerContentSize \in Nat \ {0}
      /\ CountSize \in Nat \ {0} /\ ShortCodeSize = 1 /\ FooterLength = 1
  BY <1>1, AtPlace
     DEF DoubleContentSize, IntegerContentSize, CountSize, ShortCodeSize, FooterLength
<1> HIDE DEF memory
<1>3. ASSUME NEW n \in Nat \ {0}, n <= contentSize
      PROVE  /\ At(NumberBy(r, n), size, at + n)
             /\ Leads(r, NumberBy(r, n), size)
             /\ NumberOut(r, n) = [lo |-> at, hi |-> at + n]
  <2>1. at + n <= size  BY <1>1, <1>2, <1>3
  <2>2. /\ At(NumberBy(r, n), size, at + n)
        /\ Later(r, NumberBy(r, n))
        /\ NumberOut(r, n) = [lo |-> at, hi |-> at + n]
    BY <1>1, <2>1, NumberAt
  <2> QED  BY <2>2 DEF Leads
<1>4. CASE type \in BufferTypes
  <2>1. read.reader = BytesBy(r, contentSize)
    BY <1>4 DEF ReadContent, Gives, BufferTypes, IntegerTypes, DoubleTypes, EmptyTypes
  <2>2. at + contentSize <= size  BY <1>1, <1>2
  <2>3. At(BytesBy(r, contentSize), size, at + contentSize) /\ Later(r, BytesBy(r, contentSize))
    BY <1>1, <2>2, BytesAt
  <2> QED  BY <2>1, <2>3 DEF Leads, memory
<1>5. CASE type \in IntegerTypes
  <2>1. read.reader = NumberBy(r, IntegerContentSize)
    BY <1>5 DEF ReadContent, Gives, BufferTypes, IntegerTypes, DoubleTypes, EmptyTypes
  <2>2. IntegerContentSize <= contentSize  BY <1>1, <1>2, <1>5
  <2>3. Leads(r, NumberBy(r, IntegerContentSize), size)  BY <1>2, <1>3, <2>2
  <2> QED  BY <2>1, <2>3 DEF memory
<1>6. CASE type \in DoubleTypes
  <2>1. read.reader = NumberBy(r, DoubleContentSize)
    BY <1>6 DEF ReadContent, Gives, BufferTypes, IntegerTypes, DoubleTypes, EmptyTypes
  <2>2. DoubleContentSize <= contentSize  BY <1>1, <1>2, <1>6
  <2>3. Leads(r, NumberBy(r, DoubleContentSize), size)  BY <1>2, <1>3, <2>2
  <2> QED  BY <2>1, <2>3 DEF memory
<1>7. CASE type \in EmptyTypes
  <2>1. read.reader = r
    BY <1>7 DEF ReadContent, Gives, EmptyTypes, DoubleTypes, BufferTypes
  <2> QED  BY <1>1, <2>1, LeadsNowhere DEF memory
<1>8. CASE type = "ArrayWithSize"
  <2> DEFINE counted == NumberBy(r, CountSize)
             count == CountOut(r, memory)
  <2>1. read = ReadElements(counted, inner, count)
    BY <1>8 DEF ReadContent, EmptyTypes, DoubleTypes, BufferTypes
  <2>2. /\ At(counted, size, at + CountSize) /\ Leads(r, counted, size)
        /\ NumberOut(r, CountSize) = [lo |-> at, hi |-> at + CountSize]
    BY <1>1, <1>2, <1>3, <1>8
  <2>3. count \in Nat  BY <1>1, <1>8, <2>2 DEF CountOut
  <2> HIDE DEF counted, count, read
  <2>4. Leads(counted, ReadElements(counted, inner, count).reader, size)
    BY <2>2, <2>3, ElementsLead
  <2>5. Leads(r, read.reader, size)  BY <2>1, <2>2, <2>4, LeadsTwice
  <2> QED  BY <2>5 DEF read, memory
<1>9. CASE type = "ArrayBufferWithSize"
  <2> DEFINE coded == NumberBy(r, ShortCodeSize)
             n == contentSize - ShortCodeSize
  <2>1. read.reader = ArrayBufferBy(coded, n)
    <3>1. read = ReadArrayBuffer(r, memory, contentSize)
      BY <1>9 DEF ReadContent, EmptyTypes, DoubleTypes, BufferTypes
    <3> QED  BY <3>1 DEF ReadArrayBuffer, Gives
  <2>2. At(coded, size, at + ShortCodeSize) /\ Leads(r, coded, size)
    BY <1>1, <1>2, <1>3, <1>9
  <2>3. /\ n \in Nat /\ at + ShortCodeSize < size
        /\ (at + ShortCodeSize) + n <= size
    BY <1>1, <1>2, <1>9
  <2> HIDE DEF coded, n, read
  <2>4. At(ArrayBufferBy(coded, n), size, (at + ShortCodeSize) + n)
        /\ Later(coded, ArrayBufferBy(coded, n))
    BY <2>2, <2>3, ArrayBufferAt
  <2>5. Leads(coded, ArrayBufferBy(coded, n), size)  BY <2>4 DEF Leads
  <2>6. Leads(r, read.reader, size)  BY <2>1, <2>2, <2>5, LeadsTwice
  <2> QED  BY <2>6 DEF read, memory
<1> QED  BY <1>1, <1>4, <1>5, <1>6, <1>7, <1>8, <1>9, KindsOfTypes DEF FixedTypes

(* A packet behind its header.                                             *)
LEMMA BehindLeads ==
  ASSUME NEW f, NEW inner, NEW size, InnerLeads(inner, size),
         NEW r, NEW read, HeaderLeads(r, read, f, size)
  PROVE  Leads(r, ReadBehind(read, MemoryOfFields(f), inner).reader, size)
<1> DEFINE memory == MemoryOfFields(f)
           content == ReadContent(read.reader, memory, inner, read.header.type,
                                  read.header.contentSize)
<1>1. Leads(r, read.reader, size)  BY DEF HeaderLeads
<1>2. CASE read.header.contentSize >= 0
  <2>1. ReadBehind(read, memory, inner).reader = SkipBy(content.reader, FooterLength)
    BY <1>2 DEF ReadBehind, BehindFooter, Gives
  <2>2. Leads(read.reader, content.reader, size)
    BY <1>2, ContentLeads DEF HeaderLeads
  <2> HIDE DEF content, memory
  <2>3. PICK at : At(content.reader, size, at)  BY <2>2 DEF Leads
  <2>4. Leads(content.reader, SkipBy(content.reader, FooterLength), size)
    BY <2>3, SkipLeads DEF FooterLength
  <2>5. Leads(r, SkipBy(content.reader, FooterLength), size)
    BY <1>1, <2>2, <2>4, LeadsTwice
  <2> QED  BY <2>1, <2>5 DEF memory
<1>3. CASE ~(read.header.contentSize >= 0)
  <2>1. ReadBehind(read, memory, inner).reader = read.reader
    BY <1>3 DEF ReadBehind, Gives
  <2> QED  BY <1>1, <2>1
<1> QED  BY <1>2, <1>3

(***************************************************************************)
(* Packets in packets                                                      *)
(***************************************************************************)

(* Reading packets nested so deep, from those nested less deep.            *)
LEMMA ReadingLevels ==
  ASSUME NEW memory
  PROVE  \E nested :
           /\ nested[0] = [r \in AnyReader |-> Gives(Undefined, r)]
           /\ \A d \in 1 .. MaxNesting + 1 :
                nested[d] = [r \in AnyReader |->
                               ReadBehind(ReadHeader(r, memory.headers), memory,
                                          nested[d - 1])]
           /\ Reading(memory) = nested[MaxNesting + 1]
<1> DEFINE N == MaxNesting + 1
           Behind(r, inner) == ReadBehind(ReadHeader(r, memory.headers), memory, inner)
           Level(d, inner) == [r \in AnyReader |-> IF d = 0 THEN Gives(Undefined, r)
                                                            ELSE Behind(r, inner)]
           Levels(g, n) == g = [d \in 0 .. n |-> Level(d, g[d - 1])]
<1>0. N \in Nat  BY CodecAssumption
<1>1. \E g : Levels(g, N)
  <2>9. \A a, b : Level(0, a) = Level(0, b)  OBVIOUS
  <2> HIDE DEF Level
  <2> DEFINE S == {n \in 0 .. N : \E g : Levels(g, n)}
  <2>1. 0 \in S
    <3> DEFINE one == [d \in 0 .. 0 |-> Level(0, 0)]
    <3>1. \A d \in 0 .. 0 : Level(d, one[d - 1]) = Level(0, 0)
      <4>1. \A d \in 0 .. 0 : d = 0  OBVIOUS
      <4> HIDE DEF one
      <4> QED  BY <2>9, <4>1
    <3>3. Levels(one, 0)  BY <3>1
    <3> HIDE DEF one
    <3>2. \E g : Levels(g, 0)  BY <3>3
    <3> QED  BY <1>0, <3>2
  <2>2. ASSUME NEW n \in 0 .. N - 1, n \in S PROVE n + 1 \in S
    <3>1. PICK g : Levels(g, n)  BY <2>2
    <3> DEFINE h == [d \in 0 .. n + 1 |-> IF d = n + 1 THEN Level(n + 1, g[n]) ELSE g[d]]
    <3>2. \A d \in 0 .. n : g[d] = Level(d, g[d - 1])  BY <3>1
    <3>3. ASSUME NEW d \in 0 .. n + 1 PROVE h[d] = Level(d, h[d - 1])
      <4>1. CASE d = n + 1
        <5>1. d - 1 = n /\ n \in 0 .. n + 1 /\ n # n + 1  BY <4>1
        <5>2. h[d] = Level(n + 1, g[n]) /\ h[d - 1] = g[n]  BY <4>1, <5>1
        <5> QED  BY <4>1, <5>1, <5>2
      <4>2. CASE d \in 1 .. n
        <5>1. /\ d # n + 1 /\ d - 1 # n + 1 /\ d - 1 \in 0 .. n + 1 /\ d \in 0 .. n
          BY <4>2
        <5>2. h[d] = g[d] /\ h[d - 1] = g[d - 1]  BY <5>1
        <5>3. g[d] = Level(d, g[d - 1])  BY <3>2, <5>1
        <5> QED  BY <5>1, <5>2, <5>3
      <4>3. CASE d = 0
        <5>1. h[d] = g[d] /\ d \in 0 .. n  BY <4>3
        <5>2. g[d] = Level(0, g[d - 1])  BY <3>2, <4>3, <5>1
        <5> HIDE DEF h
        <5>3. Level(0, g[d - 1]) = Level(0, h[d - 1])  BY <2>9
        <5> QED  BY <4>3, <5>1, <5>2, <5>3
      <4> QED  BY <4>1, <4>2, <4>3
    <3>4. h = [d \in 0 .. n + 1 |-> h[d]]  OBVIOUS
    <3> HIDE DEF h
    <3>5. Levels(h, n + 1)  BY <3>3, <3>4
    <3> QED  BY <1>0, <3>5
  <2> HIDE DEF S
  <2>3. 0 .. N \subseteq S  BY <1>0, <2>1, <2>2, IntervalInduction
  <2>4. N \in S  BY <1>0, <2>3
  <2> QED  BY <2>4 DEF S
<1> DEFINE nested == CHOOSE g : Levels(g, N)
<1>2. Reading(memory) = nested[N]  BY DEF Reading
<1>3. Levels(nested, N)
  <2> HIDE DEF Levels
  <2> QED  BY <1>1
<1> HIDE DEF nested
<1>4. \A d \in 0 .. N : nested[d] = Level(d, nested[d - 1])
  <2> HIDE DEF Level
  <2> QED  BY <1>3
<1>5. nested[0] = [r \in AnyReader |-> Gives(Undefined, r)]
  <2>1. nested[0] = Level(0, nested[0 - 1])
    <3> HIDE DEF Level
    <3> QED  BY <1>0, <1>4
  <2> QED  BY <2>1
<1>6. ASSUME NEW d \in 1 .. N
      PROVE  nested[d] = [r \in AnyReader |-> Behind(r, nested[d - 1])]
  <2>1. d \in 0 .. N /\ d # 0  OBVIOUS
  <2>2. nested[d] = Level(d, nested[d - 1])
    <3> HIDE DEF Level
    <3> QED  BY <1>4, <2>1
  <2> QED  BY <2>1, <2>2
<1>7. \A d \in 1 .. MaxNesting + 1 :
        nested[d] = [r \in AnyReader |->
                       ReadBehind(ReadHeader(r, memory.headers), memory, nested[d - 1])]
  BY <1>6
<1> QED  BY <1>2, <1>5, <1>7

(* read and _read, whatever the bytes say.                                 *)
LEMMA ReadingLeads ==
  ASSUME NEW f, WellFramed(f), NEW size
  PROVE  InnerLeads(Reading(MemoryOfFields(f)), size)
<1> DEFINE memory == MemoryOfFields(f)
           N == MaxNesting + 1
<1>0. N \in Nat  BY CodecAssumption
<1>1. PICK nested :
        /\ nested[0] = [r \in AnyReader |-> Gives(Undefined, r)]
        /\ \A d \in 1 .. N :
             nested[d] = [r \in AnyReader |->
                            ReadBehind(ReadHeader(r, memory.headers), memory, nested[d - 1])]
        /\ Reading(memory) = nested[N]
  BY ReadingLevels
<1> DEFINE S == {d \in 0 .. N : InnerLeads(nested[d], size)}
<1>2. 0 \in S
  <2>1. ASSUME NEW r \in AnyReader, NEW at, At(r, size, at)
        PROVE  Leads(r, nested[0][r].reader, size)
    <3>1. nested[0][r].reader = r  BY <1>1 DEF Gives
    <3> QED  BY <2>1, <3>1, LeadsNowhere
  <2> QED  BY <1>0, <2>1 DEF InnerLeads
<1>3. ASSUME NEW d \in 0 .. N - 1, d \in S PROVE d + 1 \in S
  <2>1. d + 1 \in 1 .. N /\ (d + 1) - 1 = d /\ d + 1 \in 0 .. N  BY <1>0
  <2>2. ASSUME NEW r \in AnyReader, NEW at, At(r, size, at)
        PROVE  Leads(r, nested[d + 1][r].reader, size)
    <3> DEFINE read == ReadHeader(r, memory.headers)
    <3>1. nested[d + 1][r] = ReadBehind(read, memory, nested[d])
      <4> HIDE DEF memory
      <4>1. nested[d + 1] = [q \in AnyReader |->
                               ReadBehind(ReadHeader(q, memory.headers), memory,
                                          nested[(d + 1) - 1])]
        BY ONLY <1>1, <2>1
      <4>2. nested[d + 1] = [q \in AnyReader |->
                               ReadBehind(ReadHeader(q, memory.headers), memory, nested[d])]
        BY ONLY <4>1, <2>1
      <4> QED  BY ONLY <4>2, <2>2 DEF read
    <3>2. HeaderLeads(r, read, f, size)  BY <2>2, HeaderIsThere
    <3>3. InnerLeads(nested[d], size)  BY <1>3
    <3> HIDE DEF read
    <3> QED  BY <3>1, <3>2, <3>3, BehindLeads
  <2>3. InnerLeads(nested[d + 1], size)  BY <2>2 DEF InnerLeads
  <2> QED  BY <2>1, <2>3
<1> HIDE DEF S
<1>4. 0 .. N \subseteq S  BY <1>0, <1>2, <1>3, IntervalInduction
<1>5. InnerLeads(nested[N], size)  BY <1>0, <1>4 DEF S
<1> QED  BY <1>1, <1>5

(* parseReader, whatever the bytes say.                                    *)
LEMMA ReadValueLeads ==
  ASSUME NEW f, WellFramed(f), NEW r, NEW size, NEW at, At(r, size, at)
  PROVE  Leads(r, ReadValue(r, MemoryOfFields(f)).reader, size)
BY ReadingLeads, AtReader DEF InnerLeads, ReadValue

(***************************************************************************)
(* Passing over elements                                                   *)
(***************************************************************************)

(* byPass, whatever is there.                                              *)
LEMMA ByPassLeads ==
  ASSUME NEW f, WellFramed(f), NEW r, NEW size, NEW at, At(r, size, at)
  PROVE  Leads(r, ByPass(r, MemoryOfFields(f)).reader, size)
<1> DEFINE read == ReadHeader(r, MemoryOfFields(f).headers)
<1>1. HeaderLeads(r, read, f, size)  BY HeaderIsThere
<1>2. ByPass(r, MemoryOfFields(f)) = Pass(read)  BY DEF ByPass
<1> HIDE DEF read
<1>3. Leads(r, read.reader, size) /\ read.header.contentSize \in Nat \cup {-1}
  BY <1>1 DEF HeaderLeads
<1>4. CASE read.header.contentSize >= 0
  <2> DEFINE step == read.header.contentSize + FooterLength
  <2>1. Pass(read).reader = SkipBy(read.reader, step)  BY <1>4 DEF Pass, Passed
  <2>2. step \in Nat  BY <1>3, <1>4 DEF FooterLength
  <2>3. PICK p : At(read.reader, size, p)  BY <1>3 DEF Leads
  <2> HIDE DEF step
  <2>4. Leads(read.reader, SkipBy(read.reader, step), size)  BY <2>2, <2>3, SkipLeads
  <2> QED  BY <1>2, <1>3, <2>1, <2>4, LeadsTwice
<1>5. CASE ~(read.header.contentSize >= 0)
  <2>1. Pass(read).reader = read.reader  BY <1>5 DEF Pass, Passed
  <2> QED  BY <1>2, <1>3, <2>1
<1> QED  BY <1>4, <1>5

(* The packets passed over up to each set of places.                       *)
Passes(g, base, memory, n) ==
  g = [t \in SUBSET (1 .. n) |->
         IF t = {} THEN base
         ELSE IF g[t \ {Max(t)}].passed THEN ByPass(g[t \ {Max(t)}].reader, memory)
              ELSE g[t \ {Max(t)}]]

(* If the first packets can be passed over, so can one more.               *)
LEMMA PassesOneMore ==
  ASSUME NEW base, NEW memory, NEW n \in Nat, NEW g, Passes(g, base, memory, n)
  PROVE  \E h : Passes(h, base, memory, n + 1)
<1> DEFINE Turn(w) == IF w.passed THEN ByPass(w.reader, memory) ELSE w
<1> HIDE DEF Turn
<1> DEFINE h == [t \in SUBSET (1 .. n + 1) |->
                   IF n + 1 \in t THEN Turn(g[t \ {n + 1}]) ELSE g[t]]
           Value_(t) == IF t = {} THEN base ELSE Turn(h[t \ {Max(t)}])
<1>1. \A t \in SUBSET (1 .. n) : g[t] = IF t = {} THEN base ELSE Turn(g[t \ {Max(t)}])
  BY DEF Passes, Turn
<1>2. \A t \in SUBSET (1 .. n) : h[t] = g[t]
  <2>1. \A t \in SUBSET (1 .. n) : t \in SUBSET (1 .. n + 1) /\ n + 1 \notin t  OBVIOUS
  <2> QED  BY <2>1
<1>3. ASSUME NEW t \in SUBSET (1 .. n + 1) PROVE h[t] = Value_(t)
  <2>1. CASE n + 1 \in t
    <3>1. Max(t) \in t /\ \A y \in t : y <= Max(t)
      <4>1. n + 1 \in Nat /\ t # {}  BY <2>1
      <4> QED  BY <4>1, MaxIsGreatest
    <3>2. Max(t) = n + 1
      <4>1. Max(t) \in 1 .. n + 1 /\ n + 1 <= Max(t)  BY <2>1, <3>1
      <4> QED  BY <4>1
    <3>3. t \ {n + 1} \in SUBSET (1 .. n)  OBVIOUS
    <3>4. h[t] = Turn(g[t \ {n + 1}])  BY <2>1
    <3>5. h[t \ {n + 1}] = g[t \ {n + 1}]  BY <1>2, <3>3
    <3>6. t # {}  BY <2>1
    <3> HIDE DEF h
    <3> QED  BY <3>2, <3>4, <3>5, <3>6
  <2>2. CASE n + 1 \notin t
    <3>1. t \in SUBSET (1 .. n)  BY <2>2
    <3>2. h[t] = g[t]  BY <1>2, <3>1
    <3>3. CASE t = {}  BY <1>1, <3>1, <3>2, <3>3
    <3>4. CASE t # {}
      <4>1. t \ {Max(t)} \in SUBSET (1 .. n)  BY <3>1
      <4>2. h[t \ {Max(t)}] = g[t \ {Max(t)}]  BY <1>2, <4>1
      <4> HIDE DEF h
      <4> QED  BY <1>1, <3>1, <3>2, <3>4, <4>2
    <3> QED  BY <3>3, <3>4
  <2> QED  BY <2>1, <2>2
<1>4. h = [t \in SUBSET (1 .. n + 1) |-> h[t]]  OBVIOUS
<1> HIDE DEF h
<1>5. h = [t \in SUBSET (1 .. n + 1) |-> Value_(t)]  BY <1>3, <1>4
<1>6. Passes(h, base, memory, n + 1)  BY <1>5 DEF Passes, Turn
<1> QED  BY <1>6

(* g[k] is what passing over k packets gives.                              *)
OneByOne(g, r, memory, N) ==
  /\ g[0] = Passed(TRUE, r)
  /\ \A k \in 1 .. N :
       g[k] = IF g[k - 1].passed THEN ByPass(g[k - 1].reader, memory) ELSE g[k - 1]
  /\ ByPassMany(r, memory, N) = g[N]

(* Packets are passed over one at a time.                                  *)
LEMMA ByPassSteps ==
  ASSUME NEW r, NEW memory, NEW N \in Nat
  PROVE  \E g : OneByOne(g, r, memory, N)
<1> DEFINE base == Passed(TRUE, r)
           s == [k \in 1 .. N |-> k]
<1>1. DOMAIN s = 1 .. N  OBVIOUS
<1>2. \E g : Passes(g, base, memory, N)
  <2> HIDE DEF base
  <2> DEFINE S == {n \in 0 .. N : \E g : Passes(g, base, memory, n)}
  <2>1. 0 \in S
    <3> DEFINE none == [t \in SUBSET (1 .. 0) |-> base]
    <3>1. \A t \in SUBSET (1 .. 0) : t = {}  OBVIOUS
    <3>2. Passes(none, base, memory, 0)  BY <3>1 DEF Passes
    <3> QED  BY <3>2
  <2>2. ASSUME NEW n \in 0 .. N - 1, n \in S PROVE n + 1 \in S
    <3>1. PICK g : Passes(g, base, memory, n)  BY <2>2
    <3>2. n \in Nat  OBVIOUS
    <3>3. \E h : Passes(h, base, memory, n + 1)  BY <3>1, <3>2, PassesOneMore
    <3> QED  BY <3>3
  <2> HIDE DEF S
  <2>3. 0 .. N \subseteq S  BY <2>1, <2>2, IntervalInduction
  <2> QED  BY <2>3 DEF S
<1> DEFINE g == CHOOSE g : g = [t \in SUBSET DOMAIN s |->
                                  IF t = {} THEN base
                                  ELSE IF g[t \ {Max(t)}].passed
                                       THEN ByPass(g[t \ {Max(t)}].reader, memory)
                                       ELSE g[t \ {Max(t)}]]
<1>3. ByPassMany(r, memory, N) = g[DOMAIN s]
  BY DEF ByPassMany, FoldLeft, MapThenFoldSet
<1>4. Passes(g, base, memory, N)  BY <1>1, <1>2 DEF Passes
<1> HIDE DEF g, s
<1>5. \A t \in SUBSET (1 .. N) :
        g[t] = IF t = {} THEN base
               ELSE IF g[t \ {Max(t)}].passed THEN ByPass(g[t \ {Max(t)}].reader, memory)
                    ELSE g[t \ {Max(t)}]
  BY <1>4 DEF Passes
<1> HIDE DEF base
<1> DEFINE h == [k \in 0 .. N |-> g[1 .. k]]
<1>6. h[0] = base
  <2>1. 1 .. 0 = {} /\ 0 \in 0 .. N  OBVIOUS
  <2> QED  BY <1>5, <2>1
<1>7. ASSUME NEW k \in 1 .. N
      PROVE  h[k] = IF h[k - 1].passed THEN ByPass(h[k - 1].reader, memory) ELSE h[k - 1]
  <2>1. Max(1 .. k) = k /\ (1 .. k) \ {Max(1 .. k)} = 1 .. k - 1
    BY MaxOfInterval
  <2>2. 1 .. k \in SUBSET (1 .. N) /\ 1 .. k # {}  OBVIOUS
  <2>3. g[1 .. k] = IF g[(1 .. k) \ {Max(1 .. k)}].passed
                    THEN ByPass(g[(1 .. k) \ {Max(1 .. k)}].reader, memory)
                    ELSE g[(1 .. k) \ {Max(1 .. k)}]
    BY <1>5, <2>2
  <2>4. g[1 .. k] = IF g[1 .. k - 1].passed THEN ByPass(g[1 .. k - 1].reader, memory)
                    ELSE g[1 .. k - 1]
    BY <2>1, <2>3
  <2>5. k \in 0 .. N /\ k - 1 \in 0 .. N  OBVIOUS
  <2> QED  BY <2>4, <2>5
<1>8. ByPassMany(r, memory, N) = h[N]  BY <1>1, <1>3
<1> HIDE DEF h
<1>9. OneByOne(h, r, memory, N)  BY <1>6, <1>7, <1>8 DEF base, OneByOne
<1> QED  BY <1>9

(* Passing over packets, however many.                                     *)
LEMMA ByPassManyLeads ==
  ASSUME NEW f, WellFramed(f), NEW r, NEW size, NEW at, At(r, size, at), NEW count \in Nat
  PROVE  Leads(r, ByPassMany(r, MemoryOfFields(f), count).reader, size)
<1> DEFINE memory == MemoryOfFields(f)
<1>0. \E g : OneByOne(g, r, memory, count)  BY ByPassSteps
<1>1. PICK g : OneByOne(g, r, memory, count)  BY <1>0
<1> DEFINE S == {k \in 0 .. count : Leads(r, g[k].reader, size)}
<1>2. 0 \in S
  <2>1. g[0].reader = r  BY <1>1 DEF Passed, OneByOne
  <2>2. Leads(r, r, size)  BY LeadsNowhere
  <2> QED  BY <2>1, <2>2
<1>3. ASSUME NEW k \in 0 .. count - 1, k \in S PROVE k + 1 \in S
  <2> DEFINE q == g[k].reader
  <2>1. k + 1 \in 1 .. count /\ (k + 1) - 1 = k /\ k + 1 \in 0 .. count  OBVIOUS
  <2>2. g[k + 1] = IF g[k].passed THEN ByPass(q, memory) ELSE g[k]  BY <1>1, <2>1 DEF OneByOne
  <2>3. Leads(r, q, size)  BY <1>3
  <2>4. PICK p : At(q, size, p)  BY <2>3 DEF Leads
  <2>5. Leads(q, ByPass(q, memory).reader, size)  BY <2>4, ByPassLeads
  <2>6. Leads(r, ByPass(q, memory).reader, size)  BY <2>3, <2>5, LeadsTwice
  <2>7. g[k + 1].reader = ByPass(q, memory).reader \/ g[k + 1].reader = q  BY <2>2
  <2> QED  BY <2>1, <2>3, <2>6, <2>7
<1> HIDE DEF S
<1>4. 0 .. count \subseteq S  BY <1>2, <1>3, IntervalInduction
<1>5. Leads(r, g[count].reader, size)  BY <1>4 DEF S
<1>6. ByPassMany(r, memory, count) = g[count]  BY <1>1 DEF OneByOne
<1> QED  BY <1>5, <1>6

(***************************************************************************)
(* Part of an array                                                        *)
(***************************************************************************)

(* The count of the elements.                                              *)
LEMMA CountLeads ==
  ASSUME NEW f, NEW r, NEW size, NEW contentSize,
         Ready(r, f, "ArrayWithSize", contentSize, size)
  PROVE  /\ Leads(r, NumberBy(r, CountSize), size)
         /\ CountOut(r, MemoryOfFields(f)) \in Nat
<1>1. PICK at :
        /\ At(r, size, at)
        /\ contentSize \in Nat
        /\ at + contentSize + FooterLength <= size
        /\ contentSize >= CountSize
        /\ Says(MemoryOfFields(f), [lo |-> at, hi |-> at + CountSize]) \in Nat
  BY DEF Ready
<1>2. size \in Nat /\ at \in Nat /\ CountSize \in Nat /\ CountSize > 0 /\ FooterLength \in Nat
  BY <1>1, AtPlace DEF CountSize, FooterLength
<1>3. at + CountSize <= size  BY <1>1, <1>2
<1>4. /\ At(NumberBy(r, CountSize), size, at + CountSize)
      /\ Later(r, NumberBy(r, CountSize))
      /\ NumberOut(r, CountSize) = [lo |-> at, hi |-> at + CountSize]
  BY <1>1, <1>2, <1>3, NumberAt
<1> QED  BY <1>1, <1>4 DEF Leads, CountOut

(* parseArrayAt *)
LEMMA ArrayAtLeads ==
  ASSUME NEW f, WellFramed(f), NEW r, NEW size, NEW contentSize,
         Ready(r, f, "ArrayWithSize", contentSize, size), NEW index \in Nat
  PROVE  Leads(r, ReadArrayAt(r, MemoryOfFields(f), index).reader, size)
<1> DEFINE memory == MemoryOfFields(f)
           counted == NumberBy(r, CountSize)
           passed == ByPassMany(counted, memory, index)
<1>1. Leads(r, counted, size)  BY CountLeads
<1>2. CASE index >= CountOut(r, memory)
  <2>1. ReadArrayAt(r, memory, index).reader = counted  BY <1>2 DEF ReadArrayAt, Gives
  <2> QED  BY <1>1, <2>1
<1>3. CASE ~(index >= CountOut(r, memory))
  <2>1. ReadArrayAt(r, memory, index) = ElementBehind(passed, memory)
    BY <1>3 DEF ReadArrayAt
  <2> HIDE DEF counted
  <2>2. PICK at : At(counted, size, at)  BY <1>1 DEF Leads
  <2>3. Leads(counted, passed.reader, size)  BY <2>2, ByPassManyLeads
  <2>4. Leads(r, passed.reader, size)  BY <1>1, <2>3, LeadsTwice
  <2> HIDE DEF passed
  <2>5. CASE passed.passed
    <3>1. ElementBehind(passed, memory) = ReadValue(passed.reader, memory)
      BY <2>5 DEF ElementBehind
    <3>2. PICK p : At(passed.reader, size, p)  BY <2>3 DEF Leads
    <3>3. Leads(passed.reader, ReadValue(passed.reader, memory).reader, size)
      BY <3>2, ReadValueLeads
    <3> QED  BY <2>1, <2>4, <3>1, <3>3, LeadsTwice
  <2>6. CASE ~passed.passed
    <3>1. ElementBehind(passed, memory).reader = passed.reader
      BY <2>6 DEF ElementBehind, Gives
    <3> QED  BY <2>1, <2>4, <3>1
  <2> QED  BY <2>5, <2>6
<1> QED  BY <1>2, <1>3

(* parseArraySlice *)
LEMMA ArraySliceLeads ==
  ASSUME NEW f, WellFramed(f), NEW r, NEW size, NEW contentSize,
         Ready(r, f, "ArrayWithSize", contentSize, size),
         NEW start \in Int \cup {NoLen}, NEW end \in Int \cup {NoLen}
  PROVE  Leads(r, ReadArraySlice(r, MemoryOfFields(f), start, end).reader, size)
<1> DEFINE memory == MemoryOfFields(f)
           counted == NumberBy(r, CountSize)
           argsLen == CountOut(r, memory)
           from == StartOf(start, argsLen)
           to == EndOfSlice(end, argsLen)
           skipped == IF from > 0 THEN from ELSE 0
           passed == ByPassMany(counted, memory, skipped)
           read == ReadArraySlice(r, memory, start, end)
<1>1. Leads(r, counted, size) /\ argsLen \in Nat  BY CountLeads
<1>2. read = ReadBetween(counted, memory, argsLen, from, to)
  BY DEF ReadArraySlice, SliceCounted
<1> HIDE DEF counted, argsLen, read
<1>3. from \in Int /\ to \in Int
  <2>1. NoLen \notin Int  BY NoLenAssumption
  <2>2. from \in Int
    <3>1. CASE start = NoLen  BY <2>1, <3>1 DEF StartOf
    <3>2. CASE start # NoLen /\ start < 0  BY <1>1, <3>2 DEF StartOf
    <3>3. CASE start # NoLen /\ ~(start < 0)  BY <3>3 DEF StartOf
    <3> QED  BY <3>1, <3>2, <3>3
  <2>3. to \in Int
    <3>1. CASE end = NoLen  BY <1>1, <2>1, <3>1 DEF EndOfSlice
    <3>2. CASE end # NoLen /\ end < 0  BY <1>1, <3>2 DEF EndOfSlice
    <3>3. CASE end # NoLen /\ ~(end < 0)  BY <1>1, <3>3 DEF EndOfSlice
    <3> QED  BY <3>1, <3>2, <3>3
  <2> QED  BY <2>2, <2>3
<1> HIDE DEF from, to
<1>4. skipped \in Nat  BY <1>3
<1>5. \/ read.reader = counted
      \/ to >= skipped /\ read = ElementsBehind(passed, memory, to - skipped)
  <2>1. read = CASE from >= argsLen \/ to <= from -> Gives(ArrayOf(<<>>), counted)
                 [] from < argsLen /\ to > from /\ to < skipped -> Gives(RangeError, counted)
                 [] OTHER -> ElementsBehind(passed, memory, to - skipped)
    BY <1>2 DEF ReadBetween
  <2> HIDE DEF passed, skipped
  <2>2. CASE from >= argsLen \/ to <= from
    BY <1>1, <1>3, <2>1, <2>2 DEF Gives
  <2>3. CASE from < argsLen /\ to > from /\ to < skipped
    BY <1>1, <1>3, <2>1, <2>3 DEF Gives
  <2>4. CASE from < argsLen /\ to > from /\ ~(to < skipped)
    BY <1>1, <1>3, <1>4, <2>1, <2>4
  <2> QED  BY <1>1, <1>3, <1>4, <2>2, <2>3, <2>4
<1>6. CASE read.reader = counted  BY <1>1, <1>6 DEF read
<1>7. CASE to >= skipped /\ read = ElementsBehind(passed, memory, to - skipped)
  <2>1. to - skipped \in Nat  BY <1>3, <1>4, <1>7
  <2>2. PICK at : At(counted, size, at)  BY <1>1 DEF Leads
  <2> HIDE DEF skipped
  <2>3. Leads(counted, passed.reader, size)  BY <1>4, <2>2, ByPassManyLeads
  <2>4. Leads(r, passed.reader, size)  BY <1>1, <2>3, LeadsTwice
  <2> HIDE DEF passed
  <2>5. CASE passed.passed
    <3>1. read = ReadElements(passed.reader, Reading(memory), to - skipped)
      BY <1>7, <2>5 DEF ElementsBehind
    <3>2. PICK p : At(passed.reader, size, p)  BY <2>3 DEF Leads
    <3>3. InnerLeads(Reading(memory), size)  BY ReadingLeads
    <3>4. Leads(passed.reader, read.reader, size)  BY <2>1, <3>1, <3>2, <3>3, ElementsLead
    <3> QED  BY <2>4, <3>4, LeadsTwice DEF read
  <2>6. CASE ~passed.passed
    <3>1. read.reader = passed.reader
      BY <1>7, <2>6 DEF ElementsBehind, Gives
    <3> QED  BY <2>4, <3>1 DEF read
  <2> QED  BY <2>5, <2>6
<1> QED  BY <1>5, <1>6, <1>7

(***************************************************************************)
(* Fields and packets among others                                         *)
(***************************************************************************)

(* Where fields are put together first makes no difference.                *)
LEMMA FieldsAssociate ==
  ASSUME NEW a \in Seq(Fields), NEW b \in Seq(Fields), NEW c \in Seq(Fields)
  PROVE  /\ (a \o b) \o c = a \o (b \o c)
         /\ a \o b \in Seq(Fields)
         /\ b \o c \in Seq(Fields)
         /\ a \o (b \o c) \in Seq(Fields)
<1> DEFINE T == Fields
<1>1. a \in Seq(T) /\ b \in Seq(T) /\ c \in Seq(T)  OBVIOUS
<1> HIDE DEF T
<1>2. /\ (a \o b) \o c = a \o (b \o c)
      /\ a \o b \in Seq(T)
      /\ b \o c \in Seq(T)
      /\ a \o (b \o c) \in Seq(T)
  BY <1>1
<1> QED  BY <1>2 DEF T

(* The sizes of fields put together.                                       *)
LEMMA TotalTogether ==
  ASSUME NEW a \in Seq(Fields), NEW b \in Seq(Fields)
  PROVE  Total(a \o b) = Total(a) + Total(b) /\ Total(a) \in Nat /\ Total(b) \in Nat
BY SizedFields, TotalConcat, TotalIsNat

(* `x` is a field of f with these before it and those behind.              *)
Among(f, a, x, b) ==
  /\ a \in Seq(Fields) /\ x \in Fields /\ b \in Seq(Fields)
  /\ f = (a \o <<x>>) \o b

(* It has its place behind those before it.                                *)
LEMMA FieldAmong ==
  ASSUME NEW f, NEW a, NEW x, NEW b, Among(f, a, x, b)
  PROVE  /\ f \in Seq(Fields)
         /\ Len(a) \in Nat
         /\ Len(f) = Len(a) + 1 + Len(b)
         /\ Len(a) + 1 \in 1 .. Len(f)
         /\ f[Len(a) + 1] = x
         /\ PlaceOf(f, Len(a) + 1).lo = Total(a)
         /\ \A k \in 1 .. Len(a) : f[k] = a[k]
         /\ \A k \in 1 .. Len(b) : f[Len(a) + 1 + k] = b[k]
<1> DEFINE one == <<x>>
           ax == a \o one
<1>1. a \in Seq(Fields) /\ x \in Fields /\ b \in Seq(Fields) /\ f = ax \o b  BY DEF Among
<1>2. one \in Seq(Fields) /\ Len(one) = 1 /\ one[1] = x  BY <1>1
<1> HIDE DEF one
<1>3. /\ ax \in Seq(Fields) /\ Len(a) \in Nat /\ Len(ax) = Len(a) + 1
      /\ \A k \in 1 .. Len(a) : ax[k] = a[k]
      /\ ax[Len(a) + 1] = x
  <2>1. /\ ax \in Seq(Fields) /\ Len(a) \in Nat /\ Len(ax) = Len(a) + Len(one)
        /\ \A k \in 1 .. Len(a) : ax[k] = a[k]
        /\ \A k \in 1 .. Len(one) : ax[Len(a) + k] = one[k]
    BY ONLY <1>1, <1>2, TwoFields
  <2>2. 1 \in 1 .. Len(one)  BY <1>2
  <2> QED  BY <1>2, <2>1, <2>2
<1> HIDE DEF ax
<1>4. /\ f \in Seq(Fields) /\ Len(b) \in Nat /\ Len(f) = Len(ax) + Len(b)
      /\ \A k \in 1 .. Len(ax) : f[k] = ax[k]
      /\ \A k \in 1 .. Len(b) : f[Len(ax) + k] = b[k]
  BY ONLY <1>1, <1>3, TwoFields
<1>5. Len(a) + 1 \in 1 .. Len(ax) /\ \A k \in 1 .. Len(a) : k \in 1 .. Len(ax)
  BY <1>3
<1>6. f[Len(a) + 1] = x /\ \A k \in 1 .. Len(a) : f[k] = a[k]  BY <1>3, <1>4, <1>5
<1>7. Len(f) = Len(a) + 1 + Len(b) /\ Len(a) + 1 \in 1 .. Len(f)  BY <1>3, <1>4
<1>8. PlaceOf(f, Len(a) + 1).lo = Total(a)
  <2>1. PlaceOf(f, Len(a) + 1).lo = Total(SubSeq(f, 1, (Len(a) + 1) - 1))  BY DEF PlaceOf
  <2>2. (Len(a) + 1) - 1 = Len(a)  BY <1>3
  <2> DEFINE front == SubSeq(f, 1, Len(a))
  <2>3. front \in Seq(Fields) /\ Len(front) = Len(a)
        /\ \A k \in 1 .. Len(a) : front[k] = f[k]
    BY <1>3, <1>4, <1>7
  <2> HIDE DEF front
  <2>4. front = a  BY <1>1, <1>6, <2>3, SeqEqual
  <2> QED  BY <2>1, <2>2, <2>4 DEF front
<1>9. \A k \in 1 .. Len(b) : f[Len(a) + 1 + k] = b[k]  BY <1>3, <1>4
<1> QED  BY <1>3, <1>4, <1>6, <1>7, <1>8, <1>9

(* What its bytes say, if it has any.                                      *)
LEMMA SaysAmong ==
  ASSUME NEW f, NEW a, NEW x, NEW b, Among(f, a, x, b), x.size > 0
  PROVE  Says(MemoryOfFields(f), [lo |-> Total(a), hi |-> Total(a) + x.size]) = x.says
<1> DEFINE k == Len(a) + 1
<1>1. /\ f \in Seq(Fields) /\ k \in 1 .. Len(f) /\ f[k] = x /\ PlaceOf(f, k).lo = Total(a)
  BY FieldAmong
<1> HIDE DEF k
<1>2. f[k].size > 0  BY <1>1
<1>3. Says(MemoryOfFields(f), [lo |-> PlaceOf(f, k).lo, hi |-> PlaceOf(f, k).lo + f[k].size])
        = f[k].says
  BY <1>1, <1>2, SaysTheField
<1> QED  BY <1>1, <1>3

(* Nothing without bytes comes right before.                               *)
Solid(a) == a = <<>> \/ a[Len(a)].size > 0

(* The packet that begins there, and with no field before it.              *)
LEMMA PacketAmong ==
  ASSUME NEW f, NEW a, NEW x, NEW b, Among(f, a, x, b), x.size > 0, x.name = "type",
         Solid(a)
  PROVE  LET packet == PacketAt(MemoryOfFields(f).headers, Total(a))
         IN /\ packet.type = x.says
            /\ Len(b) > 0 /\ b[1].name = "contentSize" => packet.contentSize = b[1].says
<1> DEFINE k == Len(a) + 1
           headers == [m \in DOMAIN f |-> HeaderAt(f, m)]
           pos == Total(a)
<1>1. /\ f \in Seq(Fields) /\ k \in 1 .. Len(f) /\ f[k] = x /\ PlaceOf(f, k).lo = pos
      /\ Len(a) \in Nat
      /\ \A m \in 1 .. Len(a) : f[m] = a[m]
      /\ \A m \in 1 .. Len(b) : f[k + m] = b[m]
  BY FieldAmong
<1>2. MemoryOfFields(f).headers = headers  BY DEF MemoryOfFields
<1>3. Len(headers) = Len(f) /\ \A m \in 1 .. Len(f) : headers[m] = HeaderAt(f, m)
      /\ Len(f) \in Nat
  BY <1>1
<1>4. \A m : HeaderAt(f, m).start = PlaceOf(f, m).lo  BY DEF HeaderAt, Garbage
<1>5. ASSUME NEW m \in 1 .. Len(f), PlaceOf(f, m).lo = pos PROVE m = k
  <2> HIDE DEF pos
  <2>1. CASE m > k
    <3>1. PlaceOf(f, k).hi <= PlaceOf(f, m).lo  BY <1>1, <2>1, PlacesInOrder
    <3>2. PlaceOf(f, k).hi = PlaceOf(f, k).lo + f[k].size /\ f[k].size \in Nat
          /\ PlaceOf(f, k).lo \in Nat
      BY <1>1, PlaceOfField
    <3> HIDE DEF k
    <3>3. f[k].size > 0  BY <1>1
    <3> QED  BY <1>1, <1>5, <3>1, <3>2, <3>3
  <2>2. CASE m < k
    <3> DEFINE l == Len(a)
    <3>1. l \in 1 .. Len(f) /\ l \in 1 .. Len(a) /\ l + 1 = k /\ l < Len(f) /\ m <= l
      BY <1>1, <1>3, <2>2
    <3>2. a # <<>>  BY <3>1
    <3>3. f[l].size > 0  BY <1>1, <3>1, <3>2 DEF Solid
    <3> HIDE DEF k, l
    <3>4. PlaceOf(f, l).hi = PlaceOf(f, l).lo + f[l].size /\ f[l].size \in Nat
          /\ PlaceOf(f, l).lo \in Nat
          /\ (l < Len(f) => PlaceOf(f, l + 1).lo = PlaceOf(f, l).hi)
      BY <1>1, <3>1, PlaceOfField
    <3>5. PlaceOf(f, m).lo <= PlaceOf(f, l).lo
      <4>1. CASE m = l  BY <3>4, <4>1
      <4>2. CASE m < l
        <5>1. PlaceOf(f, m).hi <= PlaceOf(f, l).lo  BY <1>1, <3>1, <4>2, PlacesInOrder
        <5>2. PlaceOf(f, m).hi = PlaceOf(f, m).lo + f[m].size /\ f[m].size \in Nat
              /\ PlaceOf(f, m).lo \in Nat
          BY <1>1, PlaceOfField
        <5> QED  BY <3>4, <5>1, <5>2
      <4> QED  BY <1>1, <3>1, <4>1, <4>2
    <3> QED  BY <1>1, <1>5, <3>1, <3>3, <3>4, <3>5
  <2> QED  BY <1>1, <2>1, <2>2
<1>6. PacketAt(headers, pos) = headers[k]
  <2> HIDE DEF headers, pos, k
  <2>1. k \in 1 .. Len(headers) /\ headers[k].start = pos  BY <1>1, <1>3, <1>4
  <2>2. \A m \in 1 .. Len(headers) : headers[m].start = pos => m = k  BY <1>3, <1>4, <1>5
  <2>3. (CHOOSE m \in 1 .. Len(headers) : headers[m].start = pos) = k  BY <2>1, <2>2
  <2> QED  BY <2>1, <2>3 DEF PacketAt
<1>7. headers[k] = [type |-> x.says, start |-> PlaceOf(f, k).lo,
                    contentSize |-> IF f[k + 1].name = "contentSize"
                                    THEN f[k + 1].says ELSE 0]
  <2> HIDE DEF headers, k
  <2>1. headers[k] = HeaderAt(f, k)  BY <1>1, <1>3
  <2> QED  BY <1>1, <2>1 DEF HeaderAt
<1>8. ASSUME Len(b) > 0, b[1].name = "contentSize"
      PROVE  f[k + 1].name = "contentSize" /\ f[k + 1].says = b[1].says
  <2>1. 1 \in 1 .. Len(b)
    <3>1. b \in Seq(Fields)  BY DEF Among
    <3>2. Len(b) \in Nat  BY <3>1
    <3> QED  BY <1>8, <3>2
  <2> HIDE DEF k
  <2>2. f[k + 1] = b[1]  BY <1>1, <2>1
  <2> QED  BY <1>8, <2>2
<1> HIDE DEF headers, k
<1>9. headers[k].type = x.says /\ headers[k].contentSize = IF f[k + 1].name = "contentSize"
                                                           THEN f[k + 1].says ELSE 0
  BY <1>7
<1> QED  BY <1>2, <1>6, <1>8, <1>9

(* readHeader of a packet that is all there.                               *)
LEMMA HeaderThere ==
  ASSUME NEW r, NEW size, NEW pos, At(r, size, pos), NEW sent,
         NEW type \in ValidTypes, PacketAt(sent, pos).type = type,
         NEW n \in Nat,
         type \in DynamicTypes => PacketAt(sent, pos).contentSize = n,
         type \in FixedTypes => n = FixedContentSize(type),
         NEW hs, hs = IF type \in DynamicTypes THEN DynamicHeaderSize ELSE FixedHeaderSize,
         pos + hs + n + FooterLength <= size,
         NEW read, read = ReadHeader(r, sent)
  PROVE  /\ read.header = RawHeader(type, hs, n)
         /\ At(read.reader, size, pos + hs)
         /\ Later(r, read.reader)
         /\ read.reader = IF type \in DynamicTypes
                          THEN NumberBy(NumberBy(r, FixedHeaderSize), ContentFieldSize)
                          ELSE NumberBy(r, FixedHeaderSize)
<1> DEFINE packet == PacketAt(sent, NumberOut(r, FixedHeaderSize).lo)
           typed == NumberBy(r, FixedHeaderSize)
           header == DeclareHeader(packet.type, -1)
           sized == [header EXCEPT !.contentSize = packet.contentSize]
           counted == NumberBy(typed, ContentFieldSize)
<1>0. size \in Nat /\ pos \in Nat /\ pos <= size
      /\ FixedHeaderSize = 2 /\ ContentFieldSize = 4 /\ DynamicHeaderSize = 6
      /\ FooterLength = 1
  BY AtPlace DEF FixedHeaderSize, ContentFieldSize, DynamicHeaderSize, FooterLength
<1>1. hs \in {2, 6} /\ pos + 2 <= size  BY <1>0
<1>2. ~AtEOF(r, FixedHeaderSize)  BY <1>0, <1>1, BytesEnough
<1>3. At(typed, size, pos + FixedHeaderSize) /\ Later(r, typed)
      /\ NumberOut(r, FixedHeaderSize) = [lo |-> pos, hi |-> pos + FixedHeaderSize]
  <2>1. FixedHeaderSize \in Nat /\ pos + FixedHeaderSize <= size /\ FixedHeaderSize > 0
    BY <1>0, <1>1
  <2> QED  BY <2>1, NumberAt
<1>4. packet.type = type /\ (type \in DynamicTypes => packet.contentSize = n)  BY <1>3
<1>5. read = CASE AtEOF(r, FixedHeaderSize) -> Partial(r)
               [] ~AtEOF(r, FixedHeaderSize) /\ IsNotValid(header) ->
                    [header |-> header, reader |-> typed]
               [] /\ ~AtEOF(r, FixedHeaderSize)
                  /\ header.headerSize = DynamicHeaderSize ->
                    IF AtEOF(typed, ContentFieldSize)
                    THEN Partial(typed) ELSE Complete(counted, sized)
               [] OTHER -> Complete(typed, header)
  BY DEF ReadHeader
<1>6. type # "NotValid"
  BY DEF ValidTypes, DoubleTypes, IntegerTypes, EmptyTypes, DynamicTypes
<1> HIDE DEF packet
<1>7. CASE type \in DynamicTypes
  <2>1. header = RawHeader(type, DynamicHeaderSize, -1)
    BY <1>4, <1>7 DEF DeclareHeader, DoubleTypes, IntegerTypes, EmptyTypes, DynamicTypes
  <2> HIDE DEF header
  <2>2. header = [type |-> type, headerSize |-> DynamicHeaderSize, contentSize |-> -1]
    BY <2>1 DEF RawHeader
  <2>3. sized = RawHeader(type, DynamicHeaderSize, n)  BY <1>4, <1>7, <2>2 DEF RawHeader
  <2>4. ~IsNotValid(header) /\ header.headerSize = DynamicHeaderSize
    BY <1>6, <2>2 DEF IsNotValid
  <2> HIDE DEF sized, typed, counted
  <2>5. hs = DynamicHeaderSize /\ pos + 6 + n + 1 <= size  BY <1>0, <1>7
  <2>6. ~AtEOF(typed, ContentFieldSize)
    <3>1. (pos + FixedHeaderSize) + ContentFieldSize <= size /\ ContentFieldSize \in Nat
      BY <1>0, <2>5
    <3> QED  BY <1>3, <3>1, BytesEnough
  <2>7. read = Complete(counted, sized)  BY <1>2, <1>5, <2>4, <2>6
  <2>8. At(counted, size, (pos + FixedHeaderSize) + ContentFieldSize) /\ Later(typed, counted)
    <3>1. (pos + FixedHeaderSize) + ContentFieldSize <= size /\ ContentFieldSize \in Nat
          /\ ContentFieldSize > 0
      BY <1>0, <2>5
    <3> QED  BY <1>3, <3>1, NumberAt DEF counted
  <2>9. ~AtEOF(counted, sized.contentSize + FooterLength)
    <3>1. sized.contentSize = n  BY <2>3 DEF RawHeader
    <3>2. n + FooterLength \in Nat
          /\ ((pos + FixedHeaderSize) + ContentFieldSize) + (n + FooterLength) <= size
      BY <1>0, <2>5
    <3> QED  BY <2>8, <3>1, <3>2, BytesEnough
  <2>10. read = [header |-> sized, reader |-> counted]  BY <2>7, <2>9 DEF Complete
  <2>11. (pos + FixedHeaderSize) + ContentFieldSize = pos + hs  BY <1>0, <2>5
  <2>12. read.reader = NumberBy(NumberBy(r, FixedHeaderSize), ContentFieldSize)
    BY <2>10 DEF counted, typed
  <2> QED  BY <1>3, <1>7, <2>3, <2>5, <2>8, <2>10, <2>11, <2>12, LaterTwice
<1>8. CASE type \notin DynamicTypes
  <2>1. type \in FixedTypes /\ hs = FixedHeaderSize /\ n = FixedContentSize(type)
    BY <1>8, KindsOfTypes
  <2>2. header = RawHeader(type, FixedHeaderSize, n)
    BY <1>4, <1>8, <2>1
    DEF DeclareHeader, FixedTypes, FixedContentSize, DoubleTypes, IntegerTypes, EmptyTypes,
        DynamicTypes
  <2> HIDE DEF header, typed
  <2>3. header.contentSize = n /\ header.headerSize # DynamicHeaderSize /\ ~IsNotValid(header)
    BY <1>0, <1>6, <2>2 DEF RawHeader, IsNotValid
  <2>4. read = Complete(typed, header)  BY <1>2, <1>5, <2>3
  <2>5. ~AtEOF(typed, header.contentSize + FooterLength)
    <3>1. n + FooterLength \in Nat /\ (pos + FixedHeaderSize) + (n + FooterLength) <= size
      BY <1>0, <2>1
    <3> QED  BY <1>3, <2>3, <3>1, BytesEnough
  <2>6. read = [header |-> header, reader |-> typed]  BY <2>4, <2>5 DEF Complete
  <2>7. read.reader = NumberBy(r, FixedHeaderSize)  BY <2>6 DEF typed
  <2> QED  BY <1>3, <1>8, <2>1, <2>2, <2>6, <2>7
<1> QED  BY <1>7, <1>8

(* Fields put together, in either order.                                   *)
InEitherOrder(x, y, z) ==
  /\ (x \o y) \o z = x \o (y \o z)
  /\ x \o y \in Seq(Fields)
  /\ y \o z \in Seq(Fields)
  /\ x \o (y \o z) \in Seq(Fields)

(* All fields may be put together in either order.                         *)
LEMMA FieldsInEitherOrder ==
  \A x, y, z \in Seq(Fields) : InEitherOrder(x, y, z)
<1>1. SUFFICES ASSUME NEW x \in Seq(Fields), NEW y \in Seq(Fields), NEW z \in Seq(Fields)
               PROVE  InEitherOrder(x, y, z)
  OBVIOUS
<1>2. /\ (x \o y) \o z = x \o (y \o z)
      /\ x \o y \in Seq(Fields)
      /\ y \o z \in Seq(Fields)
      /\ x \o (y \o z) \in Seq(Fields)
  BY FieldsAssociate
<1> QED  BY ONLY <1>2, Zenon DEF InEitherOrder

(* Five pieces put together in another order are the same fields.          *)
Rearranged(a, t, k, e, b) ==
  /\ (a \o (t \o (k \o e))) \o b = (a \o t) \o (k \o (e \o b))
  /\ (a \o (t \o (k \o e))) \o b = ((a \o t) \o k) \o (e \o b)
  /\ a \o t \in Seq(Fields)
  /\ (a \o t) \o k \in Seq(Fields)
  /\ e \o b \in Seq(Fields)
  /\ k \o (e \o b) \in Seq(Fields)

(* They are, whatever the pieces.                                          *)
LEMMA PiecesTogether ==
  ASSUME NEW a \in Seq(Fields), NEW t \in Seq(Fields), NEW k \in Seq(Fields),
         NEW e \in Seq(Fields), NEW b \in Seq(Fields)
  PROVE  Rearranged(a, t, k, e, b)
<1>1. InEitherOrder(k, e, b)  BY ONLY FieldsInEitherOrder, Zenon
<1>2. k \o e \in Seq(Fields)  BY ONLY <1>1, Zenon DEF InEitherOrder
<1>3. e \o b \in Seq(Fields)  BY ONLY <1>1, Zenon DEF InEitherOrder
<1>4. InEitherOrder(a, t, k \o e)  BY ONLY <1>2, FieldsInEitherOrder, Zenon
<1>5. a \o t \in Seq(Fields)  BY ONLY <1>4, Zenon DEF InEitherOrder
<1>6. InEitherOrder(a \o t, k \o e, b)  BY ONLY <1>2, <1>5, FieldsInEitherOrder, Zenon
<1>7. InEitherOrder(a \o t, k, e \o b)  BY ONLY <1>3, <1>5, FieldsInEitherOrder, Zenon
<1>8. (a \o (t \o (k \o e))) \o b = (a \o t) \o (k \o (e \o b))
  BY ONLY <1>1, <1>4, <1>6, Zenon DEF InEitherOrder
<1>9. ((a \o t) \o k) \o (e \o b) = (a \o t) \o (k \o (e \o b))
  BY ONLY <1>7, Zenon DEF InEitherOrder
<1>10. (a \o t) \o k \in Seq(Fields)  BY ONLY <1>7, Zenon DEF InEitherOrder
<1>11. k \o (e \o b) \in Seq(Fields)  BY ONLY <1>1, Zenon DEF InEitherOrder
<1> QED  BY ONLY <1>3, <1>5, <1>8, <1>9, <1>10, <1>11, Zenon DEF Rearranged

(* One field, then two, are three.                                         *)
LEMMA ThreeInOne ==
  ASSUME NEW T, NEW x \in T, NEW y \in T, NEW z \in T
  PROVE  <<x>> \o <<y, z>> = <<x, y, z>>
<1>1. <<x>> \in Seq(T) /\ <<y, z>> \in Seq(T) /\ <<x, y, z>> \in Seq(T)  OBVIOUS
<1> DEFINE ab == <<x>> \o <<y, z>>
<1>2. ab \in Seq(T) /\ Len(ab) = 3 /\ \A i \in 1 .. 3 : ab[i] = <<x, y, z>>[i]
  BY <1>1
<1> QED  BY <1>1, <1>2, SeqEqual

(* A value that has no packet is no bytes.                                 *)
LEMMA BytelengthOfNone ==
  ASSUME NEW v, NEW n, PacketType(v) = NoPacket
  PROVE  BytelengthWith(n, v) = 0
<1>1. NoPacket # "ArrayWithSize" /\ NoPacket # "ArrayBufferWithSize"
  BY DEF NoPacket
<1>2. NoPacket \notin BufferTypes  BY DEF NoPacket, BufferTypes
<1> QED  BY <1>1, <1>2 DEF BytelengthWith

(* The fields of the packet of v are in f, with these before and behind.   *)
PacketIsAt(f, a, v, c, b) ==
  /\ a \in Seq(Fields) /\ b \in Seq(Fields) /\ Counted(c)
  /\ PacketType(v) # NoPacket
  /\ f = (a \o PacketFields(v, c)) \o b

(* The fields of a packet are as many bytes as bytelength counts.          *)
LEMMA PacketFieldsSize ==
  ASSUME NEW v \in AllValues, NEW c, Counted(c)
  PROVE  /\ PacketFields(v, c) \in Seq(Fields)
         /\ Total(PacketFields(v, c)) = BytelengthWith(c.length, v)
         /\ FieldsIn(c) \in Seq(Fields)
         /\ Total(FieldsIn(c)) = c.length
<1> DEFINE w == NewBufferListWriter
           x == WriteWith(w, v, c)
           g == PacketFields(v, c)
<1>1. Counted(w) /\ w.buffers = <<>> /\ w.length = 0  BY NewListCounts
<1>2. FieldsIn(w) = <<>>  BY <1>1, FlattenNothing DEF FieldsIn
<1> HIDE DEF w
<1>3. /\ Counted(x) /\ FieldsIn(x) = FieldsIn(w) \o g
      /\ x.length = w.length + BytelengthWith(c.length, v)
  BY <1>1, WritesFields
<1>4. g \in Seq(Fields)
  <2>1. PacketType(v) \in ValidTypes \cup {NoPacket}
        /\ (PacketType(v) \in DynamicTypes \ {"ArrayWithSize"} => v.n \in Nat)
        /\ (v.is = "typed" /\ PacketType(v) = "ArrayBufferWithSize"
              => ShortCodes[v.of] \in Nat)
    BY TypesOfValues
  <2>2. FieldsIn(c) \in Seq(Fields)  BY FieldsAlone DEF FieldsIn, Counted, Lists
  <2>3. CASE PacketType(v) = NoPacket
    <3>1. PacketType(v) \notin FixedTypes  BY <2>3, KindsOfTypes
    <3>2. g = <<>>  BY <2>3, <3>1 DEF PacketFields
    <3> QED  BY <3>2
  <2>4. CASE PacketType(v) \in FixedTypes
    <3>1. PacketType(v) # NoPacket  BY <2>4, KindsOfTypes
    <3>2. g = Block(PacketType(v), TextOf(v))  BY <2>4, <3>1 DEF PacketFields
    <3> QED  BY <1>1, <2>4, <3>2, FixedLonger
  <2>5. CASE PacketType(v) \in DynamicTypes
    <3> DEFINE h == HeaderFields(PacketType(v), DynamicSize(c.length, v))
               k == ContentFields(v, c)
               e == <<Footer>>
    <3>1. PacketType(v) # NoPacket /\ PacketType(v) \notin FixedTypes
          /\ PacketType(v) \in ValidTypes
      BY <2>5, KindsOfTypes
    <3>2. g = h \o (k \o e)  BY <3>1 DEF PacketFields
    <3>3. DynamicSize(c.length, v) \in Nat
      <4>1. PacketIn(w, x, v, c.length)  BY <1>1, ValueWritten
      <4> QED  BY <2>5, <4>1 DEF PacketIn
    <3>4. h \in Seq(Fields)
      <4>1. TypeField(PacketType(v)) \in Fields
            /\ SizeField(DynamicSize(c.length, v)) \in Fields
        BY <3>1, <3>3, FieldsOfPackets
      <4> QED  BY <4>1 DEF HeaderFields
    <3>5. k \in Seq(Fields)
      <4>1. CASE PacketType(v) = "ArrayWithSize"
        <5>1. k = FieldsIn(c)  BY <4>1 DEF ContentFields
        <5> QED  BY <2>2, <5>1
      <4>2. CASE PacketType(v) = "ArrayBufferWithSize"
        <5>1. PacketType(v) # "ArrayWithSize"  BY <4>2
        <5>2. v.n \in Nat /\ ShortCodeOf(v) \in Nat
          BY <2>1, <2>5, <4>2, <5>1 DEF ShortCodeOf
        <5>3. ShortCodeField(ShortCodeOf(v)) \in Fields /\ Content(v.n, TextOf(v)) \in Fields
          BY <5>2, FieldsOfPackets
        <5>4. k = <<ShortCodeField(ShortCodeOf(v))>> \o <<Content(v.n, TextOf(v))>>
          BY <4>2 DEF ContentFields
        <5> QED  BY <5>3, <5>4
      <4>3. CASE PacketType(v) \notin {"ArrayWithSize", "ArrayBufferWithSize"}
        <5>1. v.n \in Nat  BY <2>1, <2>5, <4>3
        <5>2. Content(v.n, TextOf(v)) \in Fields  BY <5>1, FieldsOfPackets
        <5>3. k = <<Content(v.n, TextOf(v))>>  BY <4>3 DEF ContentFields
        <5> QED  BY <5>2, <5>3
      <4> QED  BY <4>1, <4>2, <4>3
    <3>6. e \in Seq(Fields)  BY FieldsOfPackets
    <3> HIDE DEF h, k, e
    <3> QED  BY <3>2, <3>4, <3>5, <3>6
  <2> QED  BY <2>1, <2>3, <2>4, <2>5, KindsOfTypes
<1> HIDE DEF g, x
<1>5. FieldsIn(x) = g  BY <1>2, <1>3, <1>4
<1>6. \A y : Counted(y) => Total(FieldsIn(y)) = y.length /\ FieldsIn(y) \in Seq(Fields)
             /\ y.length \in Nat
  BY FieldsAlone DEF FieldsIn, Counted, Length, Lists
<1>7. Total(g) = x.length /\ x.length = BytelengthWith(c.length, v)
  <2>1. PacketIn(w, x, v, c.length)  BY <1>1, ValueWritten DEF x
  <2>2. Total(g) = x.length /\ x.length \in Nat  BY <1>3, <1>5, <1>6
  <2>3. x.length = 0 + BytelengthWith(c.length, v)  BY <1>1, <1>3
  <2>4. BytelengthWith(c.length, v) \in Int
    <3>1. CASE PacketType(v) = NoPacket
      BY <3>1, BytelengthOfNone
    <3>2. CASE PacketType(v) \in FixedTypes
      <4>1. Total(Block(PacketType(v), TextOf(v))) = BytelengthWith(c.length, v)
            /\ Block(PacketType(v), TextOf(v)) \in Seq(Fields)
        BY <2>1, <3>2 DEF PacketIn
      <4> HIDE DEF w
      <4>2. Total(Block(PacketType(v), TextOf(v))) \in Nat  BY <4>1, SizedFields, TotalIsNat
      <4> QED  BY <4>1, <4>2
    <3>3. CASE PacketType(v) \in DynamicTypes
      <4>1. DynamicSize(c.length, v) \in Nat
            /\ BytelengthWith(c.length, v)
                 = DynamicHeaderSize + DynamicSize(c.length, v) + FooterLength
        BY <2>1, <3>3 DEF PacketIn
      <4>2. DynamicHeaderSize \in Nat /\ FooterLength \in Nat
        BY DEF DynamicHeaderSize, FixedHeaderSize, ContentFieldSize, FooterLength
      <4> QED  BY <4>1, <4>2
    <3> QED  BY <3>1, <3>2, <3>3, TypesOfValues, KindsOfTypes
  <2> QED  BY <2>2, <2>3, <2>4
<1> QED  BY <1>4, <1>6, <1>7 DEF g

(* A fixed packet among the fields.                                        *)
LEMMA FixedFieldsThere ==
  ASSUME NEW f, NEW a, NEW v \in AllValues, NEW c, NEW b, PacketIsAt(f, a, v, c, b),
         PacketType(v) \in FixedTypes
  PROVE  LET T == TypeField(PacketType(v))
             C == Content(FixedContentSize(PacketType(v)), TextOf(v))
         IN /\ \E more \in Seq(Fields) : Among(f, a, T, <<C>> \o more)
            /\ \E more \in Seq(Fields) : Among(f, a \o <<T>>, C, more)
            /\ Total(a \o <<T>>) = Total(a) + FixedHeaderSize
<1> DEFINE T == TypeField(PacketType(v))
           C == Content(FixedContentSize(PacketType(v)), TextOf(v))
           t == <<T>>
           k == <<C>>
           e == <<Footer>>
           g == PacketFields(v, c)
<1>1. g = Block(PacketType(v), TextOf(v))  BY DEF PacketFields, PacketIsAt
<1>2. FixedContentSize(PacketType(v)) \in Nat
  BY DEF FixedContentSize, DoubleContentSize, IntegerContentSize, ZeroContentSize
<1>3. T \in Fields /\ C \in Fields /\ Footer \in Fields
  BY <1>2, FieldsOfPackets, KindsOfTypes
<1>4. t \in Seq(Fields) /\ k \in Seq(Fields) /\ e \in Seq(Fields)  BY <1>3
<1>5. g = t \o (k \o e)
  <2>1. g = <<T, C, Footer>>  BY <1>1 DEF Block
  <2>2. k \o e = <<C, Footer>>  BY <1>3, TwoInOne
  <2> HIDE DEF T, C
  <2>3. <<T>> \o <<C, Footer>> = <<T, C, Footer>>  BY <1>3, ThreeInOne
  <2> QED  BY <2>1, <2>2, <2>3 DEF t
<1>6. a \in Seq(Fields) /\ b \in Seq(Fields) /\ f = (a \o g) \o b  BY DEF PacketIsAt
<1>7. T.size = FixedHeaderSize  BY DEF TypeField, Field
<1> HIDE DEF t, k, e, g
<1>8. /\ (a \o (t \o (k \o e))) \o b = (a \o t) \o (k \o (e \o b))
      /\ (a \o (t \o (k \o e))) \o b = ((a \o t) \o k) \o (e \o b)
      /\ a \o t \in Seq(Fields)
      /\ (a \o t) \o k \in Seq(Fields)
      /\ e \o b \in Seq(Fields)
      /\ k \o (e \o b) \in Seq(Fields)
  <2>1. a \in Seq(Fields) /\ b \in Seq(Fields)  BY <1>6
  <2>2. Rearranged(a, t, k, e, b)  BY ONLY <2>1, <1>4, PiecesTogether, Zenon
  <2> QED  BY <2>2, Zenon DEF Rearranged
<1>9. f = (a \o t) \o (k \o (e \o b)) /\ f = ((a \o t) \o k) \o (e \o b)
  BY <1>5, <1>6, <1>8, Zenon
<1>13. Among(f, a, T, k \o (e \o b))  BY <1>3, <1>6, <1>8, <1>9 DEF Among, t
<1>14. Among(f, a \o t, C, e \o b)  BY <1>3, <1>8, <1>9 DEF Among, k
<1>15. Total(a \o t) = Total(a) + FixedHeaderSize
  <2>1. Total(t) = FixedHeaderSize  BY <1>3, <1>7, SizedFields, TotalOne DEF t
  <2> QED  BY <1>4, <1>6, <2>1, TotalTogether
<1>16. \E more \in Seq(Fields) : Among(f, a, T, k \o more)  BY <1>8, <1>13, Zenon
<1>17. \E more \in Seq(Fields) : Among(f, a \o t, C, more)  BY <1>8, <1>14, Zenon
<1> QED  BY <1>15, <1>16, <1>17, Zenon DEF t, k

(* The pieces of a packet of dynamic size: what comes before its content,  *)
(* that, and what comes behind.                                            *)
DynamicPieces(f, a, v, c, ah, behind) ==
  /\ ah \in Seq(Fields)
  /\ Total(ah) = Total(a) + DynamicHeaderSize
  /\ Solid(ah)
  /\ ContentFields(v, c) \in Seq(Fields)
  /\ behind \in Seq(Fields)
  /\ f = (ah \o ContentFields(v, c)) \o behind

(* A packet of dynamic size among the fields: its header, its content.     *)
LEMMA DynamicFieldsThere ==
  ASSUME NEW f, NEW a, NEW v \in AllValues, NEW c, NEW b, PacketIsAt(f, a, v, c, b),
         PacketType(v) \in DynamicTypes
  PROVE  LET T == TypeField(PacketType(v))
             n == DynamicSize(c.length, v)
         IN /\ n \in Nat
            /\ \E more \in Seq(Fields) : Among(f, a, T, <<SizeField(n)>> \o more)
            /\ DynamicPieces(f, a, v, c, a \o HeaderFields(PacketType(v), n),
                             <<Footer>> \o b)
<1> DEFINE T == TypeField(PacketType(v))
           n == DynamicSize(c.length, v)
           S == SizeField(n)
           t == <<T>>
           s == <<S>>
           h == HeaderFields(PacketType(v), n)
           k == ContentFields(v, c)
           e == <<Footer>>
           g == PacketFields(v, c)
<1>1. PacketType(v) \in ValidTypes /\ PacketType(v) \notin FixedTypes
      /\ PacketType(v) # NoPacket
  BY KindsOfTypes DEF PacketIsAt
<1>2. g = h \o (k \o e) /\ h = t \o s  BY <1>1 DEF PacketFields, HeaderFields
<1>3. a \in Seq(Fields) /\ b \in Seq(Fields) /\ f = (a \o g) \o b /\ Counted(c)
  BY DEF PacketIsAt
<1>4. n \in Nat
  <2>1. Counted(NewBufferListWriter)  BY NewListCounts
  <2>2. PacketIn(NewBufferListWriter, WriteWith(NewBufferListWriter, v, c), v, c.length)
    BY <1>3, <2>1, ValueWritten
  <2> QED  BY <2>2 DEF PacketIn
<1>5. T \in Fields /\ S \in Fields /\ Footer \in Fields  BY <1>1, <1>4, FieldsOfPackets
<1>6. t \in Seq(Fields) /\ s \in Seq(Fields) /\ e \in Seq(Fields)  BY <1>5
<1>7. T.size = FixedHeaderSize /\ S.size = ContentFieldSize
  BY DEF TypeField, SizeField, Field
<1>8. k \in Seq(Fields)
  <2>1. (PacketType(v) # "ArrayWithSize" => v.n \in Nat)
        /\ (v.is = "typed" /\ PacketType(v) = "ArrayBufferWithSize"
              => ShortCodes[v.of] \in Nat)
    BY TypesOfValues
  <2>2. FieldsIn(c) \in Seq(Fields)  BY <1>3, FieldsAlone DEF FieldsIn, Counted, Lists
  <2>3. CASE PacketType(v) = "ArrayWithSize"
    <3>1. k = FieldsIn(c)  BY <2>3 DEF ContentFields
    <3> QED  BY <2>2, <3>1
  <2>4. CASE PacketType(v) = "ArrayBufferWithSize"
    <3>1. PacketType(v) # "ArrayWithSize"  BY <2>4
    <3>2. v.n \in Nat /\ ShortCodeOf(v) \in Nat  BY <2>1, <2>4, <3>1 DEF ShortCodeOf
    <3>3. ShortCodeField(ShortCodeOf(v)) \in Fields /\ Content(v.n, TextOf(v)) \in Fields
      BY <3>2, FieldsOfPackets
    <3>4. k = <<ShortCodeField(ShortCodeOf(v))>> \o <<Content(v.n, TextOf(v))>>
      BY <2>4 DEF ContentFields
    <3> QED  BY <3>3, <3>4
  <2>5. CASE PacketType(v) \notin {"ArrayWithSize", "ArrayBufferWithSize"}
    <3>1. v.n \in Nat  BY <2>1, <2>5
    <3>2. Content(v.n, TextOf(v)) \in Fields  BY <3>1, FieldsOfPackets
    <3>3. k = <<Content(v.n, TextOf(v))>>  BY <2>5 DEF ContentFields
    <3> QED  BY <3>2, <3>3
  <2> QED  BY <2>3, <2>4, <2>5
<1> HIDE DEF t, s, h, k, e, g
<1>9. h \in Seq(Fields)  BY <1>2, <1>6, FieldsAssociate
<1>10. /\ (a \o (h \o (k \o e))) \o b = (a \o h) \o (k \o (e \o b))
       /\ (a \o (h \o (k \o e))) \o b = ((a \o h) \o k) \o (e \o b)
       /\ a \o h \in Seq(Fields)
       /\ (a \o h) \o k \in Seq(Fields)
       /\ e \o b \in Seq(Fields)
       /\ k \o (e \o b) \in Seq(Fields)
  <2>1. a \in Seq(Fields) /\ b \in Seq(Fields)  BY <1>3
  <2>2. Rearranged(a, h, k, e, b)  BY ONLY <2>1, <1>6, <1>8, <1>9, PiecesTogether, Zenon
  <2> QED  BY <2>2, Zenon DEF Rearranged
<1>11. f = ((a \o h) \o k) \o (e \o b) /\ f = (a \o h) \o (k \o (e \o b))
  BY <1>2, <1>3, <1>10, Zenon
<1>12. \E more \in Seq(Fields) : Among(f, a, T, s \o more)
  <2>1. PICK more \in Seq(Fields) : more = k \o (e \o b)
    <3>1. \E more \in Seq(Fields) : more = k \o (e \o b)  BY <1>10, Zenon
    <3> QED  BY <3>1
  <2>2. (a \o h) \o more = (a \o t) \o (s \o more) /\ s \o more \in Seq(Fields)
    <3>1. a \in Seq(Fields)  BY <1>3
    <3>2. a \o (t \o s) = (a \o t) \o s /\ a \o t \in Seq(Fields)
      BY ONLY <3>1, <1>6, FieldsAssociate, SMTT(30)
    <3>3. PICK at \in Seq(Fields) : at = a \o t
      <4>1. \E at \in Seq(Fields) : at = a \o t  BY <3>2, Zenon
      <4> QED  BY <4>1
    <3>4. (at \o s) \o more = at \o (s \o more) /\ s \o more \in Seq(Fields)
      BY ONLY <1>6, FieldsAssociate, at \in Seq(Fields), more \in Seq(Fields), SMTT(30)
    <3> QED  BY <1>2, <3>2, <3>3, <3>4, Zenon
  <2>3. f = (a \o t) \o (s \o more)  BY <1>11, <2>1, <2>2, Zenon
  <2>4. Among(f, a, T, s \o more)  BY <1>3, <1>5, <2>2, <2>3 DEF Among, t
  <2> QED  BY <2>4, Zenon
<1>13. Total(a \o h) = Total(a) + DynamicHeaderSize
  <2>1. Total(t) = FixedHeaderSize /\ Total(s) = ContentFieldSize
    BY <1>5, <1>7, SizedFields, TotalOne DEF t, s
  <2>2. Total(h) = Total(t) + Total(s)  BY <1>2, <1>6, TotalTogether
  <2> QED  BY <1>3, <1>9, <2>1, <2>2, TotalTogether DEF DynamicHeaderSize
<1>14. Solid(a \o h)
  <2>1. a \o h = (a \o t) \o s /\ a \o t \in Seq(Fields)
    <3>1. a \in Seq(Fields)  BY <1>3
    <3>2. a \o (t \o s) = (a \o t) \o s /\ a \o t \in Seq(Fields)
      BY ONLY <3>1, <1>6, FieldsAssociate
    <3> QED  BY <1>2, <3>2, Zenon
  <2> DEFINE at == a \o t
             ah == a \o h
  <2>2. ah = at \o s  BY <2>1
  <2>3. Len(s) = 1 /\ s[1] = S  BY DEF s
  <2> HIDE DEF at, ah, S
  <2>4. at \in Seq(Fields)  BY <2>1 DEF at
  <2>5. Len(ah) = Len(at) + Len(s) /\ Len(at) \in Nat
        /\ \A i \in 1 .. Len(s) : ah[Len(at) + i] = s[i]
    BY ONLY <1>6, <2>2, <2>4, TwoFields
  <2>6. 1 \in 1 .. Len(s)  BY <2>3
  <2>7. ah[Len(ah)] = S  BY <2>3, <2>5, <2>6
  <2>8. S.size > 0  BY <1>7 DEF S, ContentFieldSize
  <2> QED  BY <2>7, <2>8 DEF Solid, ah
<1>15. DynamicPieces(f, a, v, c, a \o h, e \o b)
  BY <1>8, <1>10, <1>11, <1>13, <1>14, Zenon DEF DynamicPieces, k
<1> QED  BY <1>4, <1>12, <1>15, Zenon DEF e, s, h

(***************************************************************************)
(* Buffers as they were written                                            *)
(***************************************************************************)

(* The field k is in the buffer m, and it is what the buffer begins with.  *)
InBuffer(b, f, m, k) == b[m].lo <= PlaceOf(f, k).lo /\ PlaceOf(f, k).hi <= b[m].hi
BeginsBuffer(b, f, m, k) == b[m].lo = PlaceOf(f, k).lo /\ b[m].lo < b[m].hi

(* The fields are not cut, only a footer comes behind an empty buffer, and *)
(* a content that is not in a block with its header begins a buffer.       *)
Uncut(b, f) ==
  \A k \in 1 .. Len(f) : f[k].size > 0 => \E m \in 1 .. Len(b) : InBuffer(b, f, m, k)
FootersBehindEmpty(b, f) ==
  \A m \in 1 .. Len(b), k \in 1 .. Len(f) :
    b[m].lo = b[m].hi /\ f[k].size > 0 /\ PlaceOf(f, k).lo = b[m].lo
      => f[k].name = "footer"
ContentsBegin(b, f) ==
  \A k \in 1 .. Len(f) :
    f[k].size > 0 /\ f[k].name = "content" /\ (k = 1 \/ f[k - 1].name # "type")
      => \E m \in 1 .. Len(b) : BeginsBuffer(b, f, m, k)
Tidy(b, f) == Uncut(b, f) /\ FootersBehindEmpty(b, f) /\ ContentsBegin(b, f)

(* The cursor is not at the end of a buffer that has bytes.                *)
Neat(r) ==
  r.curBufferIndex \in 1 .. Len(r.buffers) =>
    \/ r.curBufferOffset = 0
    \/ r.curBufferOffset < Size(r.buffers[r.curBufferIndex])

(* What is needed for an ArrayBuffer to be read as it was written.         *)
Snug(r, f) == IsList(r) => Neat(r) /\ Tidy(r.buffers, f)

Keeps(r, q, f) == Later(r, q) /\ (Snug(r, f) => Snug(q, f))

(* One step of reading behind another.                                     *)
LEMMA KeepsTwice ==
  ASSUME NEW r, NEW q, NEW p, NEW f, Keeps(r, q, f), Keeps(q, p, f)
  PROVE  Keeps(r, p, f)
BY LaterTwice DEF Keeps

(* And none.                                                               *)
LEMMA KeepsSame ==
  ASSUME NEW r, NEW f, NEW size, NEW pos, At(r, size, pos)
  PROVE  Keeps(r, r, f)
BY LaterSame DEF Keeps

(* A reader of one buffer has nothing to keep.                             *)
LEMMA KeepsOne ==
  ASSUME NEW r, NEW q, NEW f, Later(r, q), ~IsList(r)
  PROVE  Keeps(r, q, f)
BY DEF Keeps, Later, Snug

(* In a tidy list the next field is in the buffer under the cursor.        *)
LEMMA FieldUnderCursor ==
  ASSUME NEW f, NEW a, NEW x, NEW c, Among(f, a, x, c), x.size > 0, x.name # "footer",
         NEW r, IsList(r), Snug(r, f), NEW size, At(r, size, Total(a)),
         Total(a) + x.size <= size
  PROVE  /\ r.curBufferIndex \in 1 .. Len(r.buffers)
         /\ r.curBufferOffset \in Nat
         /\ r.buffers[r.curBufferIndex].lo + r.curBufferOffset = Total(a)
         /\ r.buffers[r.curBufferIndex].lo \in Nat /\ r.buffers[r.curBufferIndex].hi \in Nat
         /\ Total(a) + x.size <= r.buffers[r.curBufferIndex].hi
         /\ \A m \in 1 .. Len(r.buffers) :
              BeginsBuffer(r.buffers, f, m, Len(a) + 1) => m = r.curBufferIndex
<1> DEFINE b == r.buffers
           i == r.curBufferIndex
           o == r.curBufferOffset
           k == Len(a) + 1
           pos == Total(a)
<1>1. /\ f \in Seq(Fields) /\ k \in 1 .. Len(f) /\ f[k] = x /\ PlaceOf(f, k).lo = pos
  BY FieldAmong
<1>2. /\ pos \in Nat /\ x.size \in Nat /\ PlaceOf(f, k).hi = pos + x.size
  BY <1>1, PlaceOfField
<1>3. size \in Nat /\ ListAt(r, size, pos) /\ pos < size  BY <1>2, AtPlace
<1>4. /\ i \in 1 .. Len(b) /\ o \in Nat /\ o <= Size(b[i]) /\ b[i].lo + o = pos
  BY <1>2, <1>3, StandsInBuffer
<1>5. Spread(b, size) /\ Neat(r) /\ Tidy(b, f)  BY <1>3 DEF ListAt, Snug
<1>6. /\ Len(b) \in Nat
      /\ \A m \in 1 .. Len(b) : b[m].lo \in Nat /\ b[m].hi \in Nat /\ b[m].lo <= b[m].hi
  BY <1>3, <1>5, SpreadBuffers
<1>7. o = 0 \/ o < Size(b[i])  BY <1>4, <1>5 DEF Neat
<1> HIDE DEF b, i, o, k, pos
<1>8. b[i].lo <= pos /\ pos < b[i].hi
  <2>1. CASE o < Size(b[i])  BY <1>4, <1>6, <2>1 DEF Size
  <2>2. CASE o = 0 /\ ~(o < Size(b[i]))
    <3>1. b[i].lo = b[i].hi /\ b[i].lo = pos  BY <1>4, <1>6, <2>2 DEF Size
    <3>2. f[k].name = "footer"
      BY <1>1, <1>4, <1>5, <3>1 DEF Tidy, FootersBehindEmpty
    <3> QED  BY <1>1, <3>2
  <2> QED  BY <1>7, <2>1, <2>2
<1>9. ASSUME NEW m \in 1 .. Len(b), b[m].lo <= pos, pos < b[m].hi PROVE m = i
  <2>1. CASE m < i
    <3>1. b[m].hi <= b[i].lo  BY <1>3, <1>4, <1>5, <2>1, SpreadOrder
    <3> QED  BY <1>2, <1>4, <1>6, <1>8, <1>9, <3>1
  <2>2. CASE i < m
    <3>1. b[i].hi <= b[m].lo  BY <1>3, <1>4, <1>5, <2>2, SpreadOrder
    <3> QED  BY <1>2, <1>4, <1>6, <1>8, <1>9, <3>1
  <2> QED  BY <1>4, <1>6, <2>1, <2>2
<1>10. pos + x.size <= b[i].hi
  <2>1. PICK m \in 1 .. Len(b) : InBuffer(b, f, m, k)
    BY <1>1, <1>5 DEF Tidy, Uncut
  <2>2. b[m].lo <= pos /\ pos + x.size <= b[m].hi  BY <1>1, <1>2, <2>1 DEF InBuffer
  <2>3. pos < b[m].hi  BY <1>2, <1>6, <2>1, <2>2
  <2> QED  BY <1>9, <2>1, <2>2, <2>3
<1>11. \A m \in 1 .. Len(b) : BeginsBuffer(b, f, m, k) => m = i
  <2>1. ASSUME NEW m \in 1 .. Len(b), BeginsBuffer(b, f, m, k) PROVE m = i
    <3>1. b[m].lo = pos /\ b[m].lo < b[m].hi  BY <1>1, <2>1 DEF BeginsBuffer
    <3>2. b[m].lo <= pos /\ pos < b[m].hi  BY <1>2, <1>6, <3>1
    <3> QED  BY <1>9, <3>2
  <2> QED  BY <2>1
<1> QED  BY <1>4, <1>6, <1>10, <1>11 DEF b, i, o, k, pos

(* _consolidate in the buffer under the cursor merges nothing.             *)
LEMMA ConsolidateNeat ==
  ASSUME NEW f, NEW r, IsList(r), Snug(r, f), NEW size, NEW pos, At(r, size, pos),
         pos < size, NEW len \in Nat,
         r.curBufferOffset + len <= Size(r.buffers[r.curBufferIndex]),
         NEW q, q = Consolidate(r, len), IsList(q)
  PROVE  Snug(q, f)
<1> DEFINE i == r.curBufferIndex
           o == r.curBufferOffset
           ends == o + len = Size(CurBuffer(r))
<1>1. size \in Nat /\ pos \in Nat /\ ListAt(r, size, pos)  BY AtPlace
<1>2. r \in Reader /\ i \in 1 .. Len(r.buffers) /\ o \in Nat
  BY <1>1, StandsInBuffer DEF ListAt
<1>3. CurBuffer(r) = r.buffers[i]  BY DEF CurBuffer
<1>4. Size(r.buffers[i]) \in Int
  <2>1. Spread(r.buffers, size)  BY <1>1 DEF ListAt
  <2>2. r.buffers[i].lo \in Nat /\ r.buffers[i].hi \in Nat  BY <1>1, <1>2, <2>1, SpreadBuffers
  <2> QED  BY <2>2 DEF Size
<1>5. ~(o + len > Size(CurBuffer(r)))  BY <1>2, <1>3, <1>4
<1>6. q = MoveTo(r, r.offset + len, IF ends THEN i + 1 ELSE i, IF ends THEN 0 ELSE o + len)
  BY <1>5 DEF Consolidate, ReadInBuffer
<1>7. /\ q.buffers = r.buffers
      /\ q.curBufferIndex = IF ends THEN i + 1 ELSE i
      /\ q.curBufferOffset = IF ends THEN 0 ELSE o + len
  BY <1>2, <1>6 DEF MoveTo, Reader
<1>8. Neat(q)
  <2>1. CASE ends  BY <1>7, <2>1 DEF Neat
  <2>2. CASE ~ends
    <3>1. o + len < Size(r.buffers[i])  BY <1>2, <1>3, <1>4, <2>2
    <3> QED  BY <1>7, <2>2, <3>1 DEF Neat
  <2> QED  BY <2>1, <2>2
<1> QED  BY <1>7, <1>8 DEF Snug

(* A number where it was written.                                          *)
LEMMA NumberThere ==
  ASSUME NEW f, NEW a, NEW x, NEW c, Among(f, a, x, c), x.size > 0, x.name # "footer",
         NEW r, NEW size, At(r, size, Total(a)), Total(a) + x.size <= size,
         NEW q, q = NumberBy(r, x.size)
  PROVE  /\ At(q, size, Total(a) + x.size)
         /\ Keeps(r, q, f)
         /\ Says(MemoryOfFields(f), NumberOut(r, x.size)) = x.says
<1> DEFINE pos == Total(a)
<1>1. x.size \in Nat  BY SizedFields DEF Among
<1>2. /\ At(q, size, pos + x.size) /\ Later(r, q)
      /\ NumberOut(r, x.size) = [lo |-> pos, hi |-> pos + x.size]
  BY <1>1, NumberAt
<1>3. Says(MemoryOfFields(f), NumberOut(r, x.size)) = x.says  BY <1>2, SaysAmong
<1>4. Keeps(r, q, f)
  <2>1. CASE ~IsList(r)  BY <1>2, <2>1, KeepsOne
  <2>2. CASE IsList(r)
    <3>1. ASSUME Snug(r, f) PROVE Snug(q, f)
      <4>1. /\ r.curBufferIndex \in 1 .. Len(r.buffers)
            /\ r.curBufferOffset \in Nat
            /\ r.buffers[r.curBufferIndex].lo + r.curBufferOffset = pos
            /\ r.buffers[r.curBufferIndex].lo \in Nat
            /\ r.buffers[r.curBufferIndex].hi \in Nat
            /\ pos + x.size <= r.buffers[r.curBufferIndex].hi
        BY <2>2, <3>1, FieldUnderCursor
      <4>2. r.curBufferOffset + x.size <= Size(r.buffers[r.curBufferIndex])
        <5> DEFINE o == r.curBufferOffset
                   z == r.buffers[r.curBufferIndex]
                   lo == z.lo
                   hi == z.hi
                   n == x.size
        <5>1. /\ o \in Nat /\ lo \in Nat /\ hi \in Nat /\ n \in Nat
              /\ lo + o = pos /\ pos + n <= hi
          BY <1>1, <4>1
        <5>2. Size(z) = hi - lo  BY DEF Size
        <5> HIDE DEF o, z, lo, hi, n, pos
        <5>3. o + n <= hi - lo  BY <5>1
        <5> QED  BY <5>2, <5>3 DEF o, z, n
      <4>3. size \in Nat /\ pos \in Nat  BY AtPlace
      <4>4. pos < size  BY <1>1, <4>3
      <4>5. q = Consolidate(r, x.size) /\ IsList(q)  BY <1>2, <2>2 DEF NumberBy, Later
      <4> QED  BY <1>1, <2>2, <3>1, <4>2, <4>4, <4>5, ConsolidateNeat
    <3> QED  BY <1>2, <3>1 DEF Keeps
  <2> QED  BY <2>1, <2>2
<1> QED  BY <1>2, <1>3, <1>4

(* A text or a buffer where it was written, of bytes or of none.           *)
LEMMA BytesThere ==
  ASSUME NEW f, NEW a, NEW x, NEW c, Among(f, a, x, c), x.name # "footer",
         NEW r, NEW size, At(r, size, Total(a)), Total(a) + x.size <= size,
         NEW q, q = BytesBy(r, x.size)
  PROVE  /\ At(q, size, Total(a) + x.size)
         /\ Keeps(r, q, f)
         /\ x.size > 0 => Says(MemoryOfFields(f), BytesOut(r, x.size)) = x.says
<1> DEFINE pos == Total(a)
<1>1. x.size \in Nat  BY SizedFields DEF Among
<1>2. /\ At(q, size, pos + x.size) /\ Later(r, q)
      /\ x.size > 0 => BytesOut(r, x.size) = [lo |-> pos, hi |-> pos + x.size]
  BY <1>1, BytesAt
<1>3. x.size > 0 => Says(MemoryOfFields(f), BytesOut(r, x.size)) = x.says
  BY <1>2, SaysAmong
<1>4. size \in Nat /\ pos \in Nat /\ r.offset = pos /\ LengthOf(r) = size  BY AtPlace
<1>5. Available(r, x.size) = x.size
  <2>1. NoLen \notin Int  BY NoLenAssumption
  <2>2. AdjustEnd(pos, size, x.size) = pos + x.size
    <3>1. CASE x.size = 0  BY <1>1, <1>4, <2>1, <3>1 DEF AdjustEnd
    <3>2. CASE x.size > 0
      <4>1. x.size # NoLen /\ ~(x.size <= 0) /\ ~(pos + x.size > size)
        BY <1>1, <1>4, <2>1, <3>2
      <4> QED  BY <4>1 DEF AdjustEnd
    <3> QED  BY <1>1, <3>1, <3>2
  <2> QED  BY <1>1, <1>4, <2>2 DEF Available
<1>6. Keeps(r, q, f)
  <2>1. CASE ~IsList(r)  BY <1>2, <2>1, KeepsOne
  <2>2. CASE IsList(r) /\ x.size = 0
    <3>1. q = r  BY <1>5, <2>2 DEF BytesBy, ReadBy
    <3> QED  BY <3>1, KeepsSame
  <2>3. CASE IsList(r) /\ x.size > 0
    <3>1. q = NumberBy(r, x.size)  BY <1>5, <2>3 DEF BytesBy, ReadBy, NumberBy
    <3> QED  BY <2>3, <3>1, NumberThere
  <2> QED  BY <1>1, <2>1, <2>2, <2>3
<1> QED  BY <1>2, <1>3, <1>6

(* The bytes of an ArrayBuffer, which a list gives from the first of its   *)
(* buffer: they are right where the buffer begins with them.               *)
LEMMA ArrayBufferThere ==
  ASSUME NEW f, NEW a, NEW x, NEW c, Among(f, a, x, c), x.name = "content",
         a = <<>> \/ a[Len(a)].name # "type",
         NEW r, Snug(r, f), NEW size, At(r, size, Total(a)), Total(a) + x.size <= size,
         x.size > 0
  PROVE  Says(MemoryOfFields(f), ArrayBufferOut(r, x.size)) = x.says
<1> DEFINE pos == Total(a)
           i == r.curBufferIndex
           b == r.buffers
           k == Len(a) + 1
<1>1. x.size \in Nat  BY SizedFields DEF Among
<1>2. x.name # "footer"  OBVIOUS
<1>3. CASE ~IsList(r)
  <2>1. ArrayBufferOut(r, x.size) = BytesOut(r, x.size)  BY <1>3 DEF ArrayBufferOut
  <2>2. Says(MemoryOfFields(f), BytesOut(r, x.size)) = x.says  BY <1>2, BytesThere
  <2> QED  BY <2>1, <2>2
<1>4. CASE IsList(r)
  <2>1. /\ i \in 1 .. Len(b)
        /\ r.curBufferOffset \in Nat
        /\ b[i].lo + r.curBufferOffset = pos
        /\ b[i].lo \in Nat /\ b[i].hi \in Nat
        /\ pos + x.size <= b[i].hi
        /\ \A m \in 1 .. Len(b) : BeginsBuffer(b, f, m, k) => m = i
    BY <1>2, <1>4, FieldUnderCursor
  <2>2. /\ f \in Seq(Fields) /\ k \in 1 .. Len(f) /\ f[k] = x /\ PlaceOf(f, k).lo = pos
        /\ Len(a) \in Nat
        /\ \A m \in 1 .. Len(a) : f[m] = a[m]
    BY FieldAmong
  <2>3. k = 1 \/ f[k - 1].name # "type"
    <3>1. CASE a = <<>>
      <4>1. Len(a) = 0  BY <3>1
      <4> QED  BY <4>1
    <3>2. CASE a # <<>>
      <4>0. a \in Seq(Fields)  BY DEF Among
      <4>1. Len(a) \in 1 .. Len(a) /\ k - 1 = Len(a)  BY <2>2, <3>2, <4>0
      <4>2. f[Len(a)] = a[Len(a)]  BY <2>2, <4>1
      <4> QED  BY <3>2, <4>1, <4>2
    <3> QED  BY <3>1, <3>2
  <2> HIDE DEF k
  <2>4. Tidy(b, f)  BY <1>4 DEF Snug
  <2>5. PICK m \in 1 .. Len(b) : BeginsBuffer(b, f, m, k)
    BY <2>2, <2>3, <2>4 DEF Tidy, ContentsBegin
  <2>6. m = i  BY <2>1, <2>5
  <2>7. b[i].lo = pos /\ r.curBufferOffset = 0
    <3>1. b[i].lo = pos  BY <2>2, <2>5, <2>6 DEF BeginsBuffer
    <3> HIDE DEF b, i, pos
    <3> QED  BY <2>1, <3>1
  <2>8. LastSpanned(r, x.size) = i
    <3> DEFINE S == Reaching(b, i, x.size)
    <3>1. Size(Concat(b, i, i)) >= x.size  BY <1>1, <2>1, <2>7 DEF Concat, Size
    <3>2. S = {j \in i .. Len(b) : Size(Concat(b, i, j)) >= x.size}  BY DEF Reaching
    <3>3. i \in S  BY <2>1, <3>1, <3>2
    <3>4. S \subseteq i .. Len(b)  BY <3>2
    <3>5. LastSpanned(r, x.size) = FirstReaching(b, i, x.size)
      BY <1>1, <2>7 DEF LastSpanned
    <3>6. FirstReaching(b, i, x.size) = Min(S)  BY <3>3 DEF FirstReaching
    <3>7. Min(S) = i
      <4> HIDE DEF S, i
      <4>1. \A y \in S : y \in Int /\ i <= y  BY <2>1, <3>4
      <4>2. i \in Int  BY <2>1
      <4>3. \A y \in S : (\A z \in S : y <= z) => y = i  BY <3>3, <4>1, <4>2
      <4>4. \A z \in S : i <= z  BY <4>1
      <4>5. (CHOOSE y \in S : \A z \in S : y <= z) = i  BY <3>3, <4>3, <4>4, Zenon
      <4> QED  BY <4>5 DEF Min
    <3> QED  BY <3>5, <3>6, <3>7
  <2>9. ArrayBufferOut(r, x.size) = Subarray(Concat(b, i, i), 0, x.size)
    BY <1>4, <2>8 DEF ArrayBufferOut, ReadArrayBufferOut, Consolidated
  <2>10. Subarray(Concat(b, i, i), 0, x.size) = [lo |-> pos, hi |-> pos + x.size]
    <3> DEFINE d == Concat(b, i, i)
    <3>1. d.lo = pos /\ d.hi = b[i].hi  BY <2>7 DEF Concat
    <3>2. pos \in Nat  BY AtPlace
    <3> HIDE DEF d, pos
    <3>3. d.hi \in Nat /\ pos + x.size <= d.hi /\ d.lo + 0 = pos  BY <2>1, <3>1, <3>2
    <3>4. Subarray(d, 0, x.size) = [lo |-> pos, hi |-> IF pos + x.size < d.hi
                                                     THEN pos + x.size ELSE d.hi]
      BY <3>1, <3>3 DEF Subarray
    <3>5. (IF pos + x.size < d.hi THEN pos + x.size ELSE d.hi) = pos + x.size
      BY <1>1, <3>2, <3>3
    <3> QED  BY <3>4, <3>5 DEF d
  <2>11. Says(MemoryOfFields(f), [lo |-> pos, hi |-> pos + x.size]) = x.says  BY SaysAmong
  <2> QED  BY <2>9, <2>10, <2>11
<1> QED  BY <1>3, <1>4

(* Where the reader is behind it.                                          *)
LEMMA BehindArrayBuffer ==
  ASSUME NEW f, NEW a, NEW x, NEW c, Among(f, a, x, c), x.name = "content",
         NEW r, NEW size, At(r, size, Total(a)), Total(a) + x.size <= size,
         Total(a) < size,
         NEW q, q = ArrayBufferBy(r, x.size)
  PROVE  At(q, size, Total(a) + x.size) /\ Keeps(r, q, f)
<1> DEFINE pos == Total(a)
<1>1. x.size \in Nat  BY SizedFields DEF Among
<1>2. At(q, size, pos + x.size) /\ Later(r, q)  BY <1>1, ArrayBufferAt
<1>3. Keeps(r, q, f)
  <2>1. CASE ~IsList(r)  BY <1>2, <2>1, KeepsOne
  <2>2. CASE IsList(r) /\ x.size > 0
    <3>1. q = NumberBy(r, x.size)  BY <2>2 DEF ArrayBufferBy, NumberBy
    <3>2. x.name # "footer"  OBVIOUS
    <3> QED  BY <2>2, <3>1, <3>2, NumberThere
  <2>3. CASE IsList(r) /\ x.size = 0
    <3>1. ASSUME Snug(r, f) PROVE Snug(q, f)
      <4>1. q = Consolidate(r, 0) /\ IsList(q)  BY <1>2, <2>3 DEF ArrayBufferBy, Later
      <4>2. size \in Nat /\ pos \in Nat /\ ListAt(r, size, pos)  BY <2>3, AtPlace
      <4>3. r.curBufferOffset \in Nat
            /\ r.curBufferOffset <= Size(r.buffers[r.curBufferIndex])
        BY <4>2, StandsInBuffer
      <4>4. r.curBufferOffset + 0 <= Size(r.buffers[r.curBufferIndex])  BY <4>3
      <4> QED  BY <2>3, <3>1, <4>1, <4>4, ConsolidateNeat
    <3> QED  BY <1>2, <3>1 DEF Keeps
  <2> QED  BY <1>1, <2>1, <2>2, <2>3
<1> QED  BY <1>2, <1>3

(* Skipping, of which the last byte is not reached.                        *)
LEMMA SkipThere ==
  ASSUME NEW f, NEW r, NEW size, NEW pos, At(r, size, pos), pos < size,
         NEW step \in Nat, pos + step <= size,
         NEW q, q = SkipBy(r, step)
  PROVE  /\ At(q, size, IF pos + step < size THEN pos + step ELSE pos)
         /\ Keeps(r, q, f)
<1> DEFINE to == pos + step
<1>1. At(q, size, IF pos + step < size THEN pos + step ELSE pos) /\ Later(r, q)
  BY SkipAt
<1>2. CASE ~IsList(r)  BY <1>1, <1>2, KeepsOne
<1>3. CASE IsList(r)
  <2>1. size \in Nat /\ pos \in Nat /\ r.offset = pos /\ ListAt(r, size, pos)
    BY <1>3, AtPlace
  <2>2. q = Seek(r, to)  BY <1>3, <2>1 DEF SkipBy, SeekTo
  <2>3. Spread(r.buffers, size) /\ r.length = size /\ r \in Reader  BY <2>1 DEF ListAt
  <2>4. /\ r.curBufferIndex \in 1 .. Len(r.buffers) /\ r.curBufferOffset \in Nat
        /\ r.buffers[r.curBufferIndex].lo + r.curBufferOffset = pos
    BY <2>1, StandsInBuffer
  <2>5. /\ Len(r.buffers) \in Nat
        /\ \A m \in 1 .. Len(r.buffers) : r.buffers[m].lo \in Nat /\ r.buffers[m].hi \in Nat
    BY <2>1, <2>3, SpreadBuffers
  <2>6. ASSUME Snug(r, f) PROVE Snug(q, f)
    <3>1. CASE q = r  BY <2>6, <3>1
    <3>2. CASE q # r
      <4> DEFINE t == Target(r, to)
                 i == Holding(r.buffers, t)
                 o == t - r.buffers[i].lo
      <4>0. to \in Nat  BY <2>1
      <4>1. SeekAccepts(r, to) /\ r.offset # to
        <5> HIDE DEF to, t, i, o
        <5>1. ASSUME r.offset = to \/ ~SeekAccepts(r, to) PROVE FALSE
          <6>1. ~SeekThrows(r, to)  BY <5>1 DEF SeekThrows
          <6>2. Seek(r, to) = r  BY <5>1, <6>1 DEF Seek
          <6> QED  BY <2>2, <3>2, <6>2
        <5> QED  BY <5>1
      <4>2. ~PastLastBuffer(r)  BY <2>4, <2>5 DEF PastLastBuffer
      <4>3. ~SeekThrows(r, to)  BY <4>2 DEF SeekThrows
      <4>4. q = MoveTo(r, to, i, o)
        <5> HIDE DEF to
        <5> QED  BY <2>2, <4>1, <4>3 DEF Seek
      <4>5. to < size
        <5> HIDE DEF to
        <5> QED  BY <2>1, <2>3, <4>1 DEF SeekAccepts
      <4>6. t = to
        <5>1. t = (r.buffers[r.curBufferIndex].lo + r.curBufferOffset) + (to - pos)
          BY <2>1 DEF Target, CurBuffer
        <5>2. t = pos + (to - pos)  BY <2>4, <5>1
        <5> HIDE DEF to, t
        <5> QED  BY <2>1, <4>0, <5>2
      <4> HIDE DEF t, to
      <4>7. i \in 1 .. Len(r.buffers) /\ r.buffers[i].lo <= to /\ to < r.buffers[i].hi
        <5>1. to \in 0 .. size - 1  BY <2>1, <4>0, <4>5
        <5>2. \E m \in 1 .. Len(r.buffers) : r.buffers[m].lo <= to /\ to < r.buffers[m].hi
          BY <2>1, <2>3, <5>1, SpreadOrder
        <5> QED  BY <4>6, <5>2 DEF Holding
      <4> HIDE DEF i
      <4>8. o < Size(r.buffers[i])  BY <2>5, <4>0, <4>6, <4>7 DEF Size
      <4> HIDE DEF o
      <4>9. q.buffers = r.buffers /\ q.curBufferIndex = i /\ q.curBufferOffset = o
        BY <2>3, <4>4 DEF MoveTo, Reader
      <4>10. IsList(q)  BY <1>1, <1>3 DEF Later
      <4>11. Neat(q)  BY <4>8, <4>9 DEF Neat
      <4> QED  BY <1>3, <2>6, <4>9, <4>10, <4>11 DEF Snug
    <3> QED  BY <3>1, <3>2
  <2> QED  BY <1>1, <2>6 DEF Keeps
<1> QED  BY <1>1, <1>2, <1>3

(* The header of a packet, and the size of its content.                    *)
HeaderSizeOf(v) ==
  IF PacketType(v) \in DynamicTypes THEN DynamicHeaderSize ELSE FixedHeaderSize
ContentSizeOf(v, c) ==
  IF PacketType(v) \in DynamicTypes THEN DynamicSize(c.length, v)
                                    ELSE FixedContentSize(PacketType(v))

(* A packet is its header, its content and its footer, and it is among the *)
(* fields with all of its bytes.                                           *)
LEMMA PacketBounds ==
  ASSUME NEW f, NEW a, NEW v \in AllValues, NEW c, NEW b, PacketIsAt(f, a, v, c, b)
  PROVE  /\ Total(a) \in Nat /\ Total(b) \in Nat
         /\ ContentSizeOf(v, c) \in Nat
         /\ HeaderSizeOf(v) \in {2, 6}
         /\ FooterLength = 1
         /\ BytelengthWith(c.length, v) = HeaderSizeOf(v) + ContentSizeOf(v, c) + FooterLength
         /\ Total(f) = Total(a) + BytelengthWith(c.length, v) + Total(b)
         /\ PacketType(v) \in ValidTypes
         /\ a \in Seq(Fields) /\ b \in Seq(Fields)
<1> DEFINE type == PacketType(v)
           g == PacketFields(v, c)
           w == NewBufferListWriter
<1>1. /\ a \in Seq(Fields) /\ b \in Seq(Fields) /\ Counted(c) /\ type # NoPacket
      /\ f = (a \o g) \o b
  BY DEF PacketIsAt
<1>2. g \in Seq(Fields) /\ Total(g) = BytelengthWith(c.length, v)  BY <1>1, PacketFieldsSize
<1>3. type \in ValidTypes  BY <1>1, TypesOfValues
<1>4. /\ FooterLength = 1 /\ HeaderSizeOf(v) \in {2, 6}
      /\ FixedHeaderSize = 2 /\ DynamicHeaderSize = 6
  BY DEF HeaderSizeOf, FooterLength, FixedHeaderSize, ContentFieldSize, DynamicHeaderSize
<1> HIDE DEF g
<1>5. /\ Total(a \o g) = Total(a) + Total(g) /\ Total(a) \in Nat /\ Total(g) \in Nat
      /\ a \o g \in Seq(Fields)
  BY <1>1, <1>2, TotalTogether, FieldsAssociate
<1>6. Total(f) = Total(a \o g) + Total(b) /\ Total(b) \in Nat
  BY <1>1, <1>5, TotalTogether
<1>7. Counted(w)  BY NewListCounts
<1>8. PacketIn(w, WriteWith(w, v, c), v, c.length)  BY <1>1, <1>7, ValueWritten
<1>9. CASE type \in DynamicTypes
  <2>1. /\ DynamicSize(c.length, v) \in Nat
        /\ BytelengthWith(c.length, v)
             = DynamicHeaderSize + DynamicSize(c.length, v) + FooterLength
    BY <1>8, <1>9 DEF PacketIn
  <2>2. /\ HeaderSizeOf(v) = DynamicHeaderSize
        /\ ContentSizeOf(v, c) = DynamicSize(c.length, v)
    BY <1>9 DEF HeaderSizeOf, ContentSizeOf
  <2> QED  BY <1>1, <1>2, <1>3, <1>4, <1>5, <1>6, <2>1, <2>2
<1>10. CASE type \notin DynamicTypes
  <2>1. /\ type \in FixedTypes /\ type # "ArrayWithSize" /\ type # "ArrayBufferWithSize"
        /\ type \notin BufferTypes
    BY <1>3, <1>10, KindsOfTypes
  <2>2. BytelengthWith(c.length, v)
          = FixedHeaderSize + FixedContentSize(type) + FooterLength
    BY <1>1, <2>1 DEF BytelengthWith
  <2>3. /\ HeaderSizeOf(v) = FixedHeaderSize
        /\ ContentSizeOf(v, c) = FixedContentSize(type)
    BY <1>10 DEF HeaderSizeOf, ContentSizeOf
  <2>4. FixedContentSize(type) \in Nat
    BY DEF FixedContentSize, DoubleContentSize, IntegerContentSize, ZeroContentSize
  <2> QED  BY <1>1, <1>2, <1>3, <1>4, <1>5, <1>6, <2>2, <2>3, <2>4
<1> QED  BY <1>9, <1>10

(* Its header is read as it was written.                                   *)
LEMMA PacketHeaderThere ==
  ASSUME NEW f, NEW a, NEW v \in AllValues, NEW c, NEW b, PacketIsAt(f, a, v, c, b),
         Solid(a), NEW r, NEW size, size = Total(f), At(r, size, Total(a)),
         NEW read, read = ReadHeader(r, MemoryOfFields(f).headers)
  PROVE  /\ read.header = RawHeader(PacketType(v), HeaderSizeOf(v), ContentSizeOf(v, c))
         /\ At(read.reader, size, Total(a) + HeaderSizeOf(v))
         /\ Keeps(r, read.reader, f)
<1> DEFINE type == PacketType(v)
           n == ContentSizeOf(v, c)
           hs == HeaderSizeOf(v)
           T == TypeField(type)
           sent == MemoryOfFields(f).headers
<1>1. /\ Total(a) \in Nat /\ Total(b) \in Nat /\ n \in Nat /\ hs \in {2, 6}
      /\ FooterLength = 1
      /\ Total(f) = Total(a) + (hs + n + FooterLength) + Total(b)
      /\ type \in ValidTypes /\ a \in Seq(Fields)
  BY PacketBounds
<1>2. T.size = FixedHeaderSize /\ T.name = "type" /\ T.says = type /\ FixedHeaderSize = 2
      /\ ContentFieldSize = 4 /\ DynamicHeaderSize = 6
  BY DEF TypeField, Field, FixedHeaderSize, ContentFieldSize, DynamicHeaderSize
<1>3. CASE type \in DynamicTypes
  <2> DEFINE S == SizeField(n)
             typed == NumberBy(r, FixedHeaderSize)
  <2>1. n = DynamicSize(c.length, v) /\ hs = DynamicHeaderSize
    BY <1>3 DEF ContentSizeOf, HeaderSizeOf
  <2>2. \E more \in Seq(Fields) : Among(f, a, T, <<S>> \o more)
    <3>1. \E more \in Seq(Fields) :
            Among(f, a, TypeField(PacketType(v)),
                  <<SizeField(DynamicSize(c.length, v))>> \o more)
      BY <1>3, DynamicFieldsThere
    <3> QED  BY <2>1, <3>1
  <2>3. PICK more \in Seq(Fields) : Among(f, a, T, <<S>> \o more)  BY <2>2
  <2>4. S.name = "contentSize" /\ S.says = n /\ S.size = ContentFieldSize /\ S \in Fields
    BY <1>1, FieldsOfPackets DEF SizeField, Field
  <2> DEFINE behind == <<S>> \o more
  <2>5. Len(behind) > 0 /\ behind[1] = S
    <3> HIDE DEF S
    <3> QED  BY <2>4
  <2>6. T.size > 0  BY <1>2
  <2> HIDE DEF behind, T, S
  <2>7. /\ PacketAt(sent, Total(a)).type = type
        /\ PacketAt(sent, Total(a)).contentSize = n
    <3>1. Among(f, a, T, behind)  BY <2>3 DEF behind
    <3> HIDE DEF n
    <3> QED  BY <1>2, <2>4, <2>5, <2>6, <3>1, PacketAmong
  <2>8. /\ read.header = RawHeader(type, hs, n)
        /\ At(read.reader, size, Total(a) + hs)
        /\ read.reader = NumberBy(typed, ContentFieldSize)
    <3>1. type \notin FixedTypes  BY <1>3, KindsOfTypes
    <3>2. hs = IF type \in DynamicTypes THEN DynamicHeaderSize ELSE FixedHeaderSize
      BY <1>3, <2>1
    <3>3. Total(a) + hs + n + FooterLength <= size  BY <1>1
    <3>4. /\ type \in DynamicTypes => PacketAt(sent, Total(a)).contentSize = n
          /\ type \in FixedTypes => n = FixedContentSize(type)
          /\ type \in ValidTypes /\ n \in Nat
          /\ PacketAt(sent, Total(a)).type = type
          /\ At(r, size, Total(a))
          /\ read = ReadHeader(r, sent)
      BY <1>1, <2>7, <3>1
    <3> HIDE DEF sent, hs, n, type
    <3> QED  BY ONLY <1>3, <3>2, <3>3, <3>4, HeaderThere DEF typed
  <2>9. At(typed, size, Total(a) + FixedHeaderSize) /\ Keeps(r, typed, f)
    <3>1. Total(a) + T.size <= size /\ T.name # "footer"  BY <1>1, <1>2
    <3> QED  BY <1>2, <2>3, <2>6, <3>1, NumberThere DEF behind
  <2>10. Keeps(typed, read.reader, f)
    <3>1. \E rest \in Seq(Fields) : Among(f, a \o <<T>>, S, rest)
      <4> DEFINE t == <<T>>
                 s == <<S>>
      <4>1. T \in Fields /\ S \in Fields /\ f = (a \o t) \o (s \o more)
        BY <2>3, <2>4 DEF Among, T
      <4>2. t \in Seq(Fields) /\ s \in Seq(Fields)  BY <4>1
      <4> HIDE DEF t, s
      <4>3. a \o t \in Seq(Fields)  BY <1>1, <4>2, FieldsAssociate
      <4> DEFINE at == a \o t
      <4> HIDE DEF at
      <4>4. at \in Seq(Fields)  BY <4>3 DEF at
      <4>5. at \o (s \o more) = (at \o s) \o more  BY ONLY <4>2, <4>4, more \in Seq(Fields), FieldsAssociate
      <4>6. f = (at \o s) \o more  BY <4>1, <4>5 DEF at
      <4>7. Among(f, at, S, more)  BY <4>1, <4>4, <4>6 DEF Among, s
      <4> QED  BY <4>7 DEF at, t
    <3>2. PICK rest \in Seq(Fields) : Among(f, a \o <<T>>, S, rest)  BY <3>1
    <3>3. Total(a \o <<T>>) = Total(a) + FixedHeaderSize
      <4> DEFINE t == <<T>>
      <4>1. T \in Fields  BY <2>3 DEF Among
      <4>2. t \in Seq(Fields) /\ Total(t) = T.size  BY <4>1, SizedFields, TotalOne
      <4> HIDE DEF t
      <4>3. Total(a \o t) = Total(a) + Total(t)  BY <1>1, <4>2, TotalTogether
      <4> QED  BY <1>2, <4>2, <4>3 DEF t
    <3>4. (Total(a) + FixedHeaderSize) + S.size <= size /\ S.size > 0 /\ S.name # "footer"
      BY <1>1, <1>2, <2>1, <2>4
    <3> DEFINE at == a \o <<T>>
    <3> HIDE DEF at
    <3>5. Among(f, at, S, rest)  BY <3>2 DEF at
    <3>6. At(typed, size, Total(at)) /\ Total(at) + S.size <= size
      BY <2>9, <3>3, <3>4 DEF at
    <3>7. read.reader = NumberBy(typed, S.size)  BY <2>4, <2>8
    <3> HIDE DEF typed
    <3> QED  BY <3>4, <3>5, <3>6, <3>7, NumberThere
  <2>11. Keeps(r, read.reader, f)  BY <2>9, <2>10, KeepsTwice
  <2> QED  BY <2>8, <2>11
<1>4. CASE type \notin DynamicTypes
  <2> DEFINE C == Content(FixedContentSize(type), TextOf(v))
  <2>1. type \in FixedTypes  BY <1>1, <1>4, KindsOfTypes
  <2>2. n = FixedContentSize(type) /\ hs = FixedHeaderSize
    BY <1>4 DEF ContentSizeOf, HeaderSizeOf
  <2>3. \E more \in Seq(Fields) : Among(f, a, T, <<C>> \o more)  BY <2>1, FixedFieldsThere
  <2>4. PICK more \in Seq(Fields) : Among(f, a, T, <<C>> \o more)  BY <2>3
  <2>5. T.size > 0  BY <1>2
  <2> HIDE DEF T
  <2>6. PacketAt(sent, Total(a)).type = type  BY <1>2, <2>4, <2>5, PacketAmong
  <2>7. /\ read.header = RawHeader(type, hs, n)
        /\ At(read.reader, size, Total(a) + hs)
        /\ read.reader = NumberBy(r, FixedHeaderSize)
    <3>2. hs = IF type \in DynamicTypes THEN DynamicHeaderSize ELSE FixedHeaderSize
      BY <1>4, <2>2
    <3>3. Total(a) + hs + n + FooterLength <= size  BY <1>1
    <3>4. /\ type \in DynamicTypes => PacketAt(sent, Total(a)).contentSize = n
          /\ type \in FixedTypes => n = FixedContentSize(type)
          /\ type \in ValidTypes /\ n \in Nat
          /\ PacketAt(sent, Total(a)).type = type
          /\ At(r, size, Total(a))
          /\ read = ReadHeader(r, sent)
      BY <1>1, <1>4, <2>2, <2>6
    <3> HIDE DEF sent, hs, n, type
    <3> QED  BY ONLY <1>4, <3>2, <3>3, <3>4, HeaderThere
  <2>8. Keeps(r, read.reader, f)
    <3>1. Total(a) + T.size <= size /\ T.name # "footer"  BY <1>1, <1>2
    <3> QED  BY <1>2, <2>4, <2>5, <2>7, <3>1, NumberThere
  <2> QED  BY <2>7, <2>8
<1> QED  BY <1>3, <1>4

(***************************************************************************)
(* The contents of packets                                                 *)
(***************************************************************************)

(* A number smaller than another is what is left of it.                    *)
LEMMA SmallRest ==
  ASSUME NEW n \in Nat, NEW m \in Nat, n < m
  PROVE  n % m = n
OBVIOUS

(* The kind of a value and its text are told by its type.                  *)
LEMMA KindsRead ==
  ASSUME NEW v \in AllValues, NEW type, type = PacketType(v),
         type \in FixedTypes \/ type \in BufferTypes
  PROVE  /\ v = Value(v.is, v.n, v.of)
         /\ v.is = IF type \in IntegerTypes THEN "number" ELSE KindOfType[type]
         /\ type = "PositiveInteger" => KindOfType[type] = "number"
         /\ type = "PositiveInteger" => TextOf(v) = Text(v.n, v.of)
         /\ type = "NegativeInteger" => TextOf(v) = Text(-v.n, v.of) /\ v.n \in Int
         /\ type \notin IntegerTypes => TextOf(v) = Text(v.n, v.of)
<1>1. type # "ArrayWithSize" /\ type # "ArrayBufferWithSize" /\ type # NoPacket
  BY KindsOfTypes DEF FixedTypes, DoubleTypes, IntegerTypes, EmptyTypes, BufferTypes, NoPacket
<1>2. v.is # "array"  BY <1>1, TypesOfValues
<1>3. v = Value(v.is, v.n, v.of) /\ (v.is = "number" => v.n \in Int)
  BY <1>2, CodecAssumption
<1>4. DOMAIN TypeOfKind = {"null", "undefined", "true", "false", "string", "buffer",
                           "array", "date", "object", "arraybuffer"}
  BY DEF TypeOfKind
<1>5. KindOfType["PositiveInteger"] = "number"  BY DEF KindOfType
<1>6. CASE v.is = "number"
  <2>1. v.is \notin DOMAIN TypeOfKind  BY <1>6 DEF TypeOfKind
  <2>2. type = NumberType(v)  BY <1>6, <2>1 DEF PacketType
  <2>3. CASE type = "Double"
    <3>1. type \notin IntegerTypes  BY <2>3 DEF IntegerTypes
    <3>2. TextOf(v) = Text(v.n, v.of)  BY <1>6, <3>1 DEF TextOf
    <3>3. KindOfType[type] = "number"  BY <2>3 DEF KindOfType
    <3> QED  BY <1>3, <1>6, <2>3, <3>1, <3>2, <3>3
  <2>4. CASE type # "Double"
    <3>1. /\ ~(Magnitude(v.n) > MaxUInt32) /\ v.n \in Int /\ MaxUInt32 \in Nat
          /\ type = IF v.n < 0 THEN "NegativeInteger" ELSE "PositiveInteger"
      BY <1>3, <1>6, <2>2, <2>4, CodecAssumption DEF NumberType
    <3>2. /\ Magnitude(v.n) \in Nat /\ Magnitude(v.n) < MaxUInt32 + 1
          /\ MaxUInt32 + 1 \in Nat
          /\ v.n < 0 => Magnitude(v.n) = -v.n
          /\ ~(v.n < 0) => Magnitude(v.n) = v.n
      BY <3>1 DEF Magnitude
    <3>3. Magnitude(v.n) % (MaxUInt32 + 1) = Magnitude(v.n)  BY <3>2, SmallRest
    <3>4. type \in IntegerTypes  BY <3>1 DEF IntegerTypes
    <3>5. v.is \notin {"typed", "arraybuffer"}  BY <1>6
    <3>6. TextOf(v) = Text(Magnitude(v.n) % (MaxUInt32 + 1), v.of)
      BY <3>4, <3>5 DEF TextOf
    <3>7. TextOf(v) = Text(Magnitude(v.n), v.of)  BY <3>3, <3>6
    <3> QED  BY <1>3, <1>5, <1>6, <3>1, <3>2, <3>4, <3>7
  <2> QED  BY <2>3, <2>4
<1>7. CASE v.is # "number"
  <2>1. v.is # "typed"
    <3>1. "typed" \notin DOMAIN TypeOfKind  BY DEF TypeOfKind
    <3>2. v.is = "typed" => type \in {"ArrayBufferWithSize", NoPacket}
      BY <1>7, <3>1 DEF PacketType
    <3> QED  BY <1>1, <3>2
  <2>2. v.is \in DOMAIN TypeOfKind /\ type = TypeOfKind[v.is]
    <3>1. type = IF v.is \in DOMAIN TypeOfKind THEN TypeOfKind[v.is] ELSE NoPacket
      BY <1>7, <2>1 DEF PacketType
    <3> QED  BY <1>1, <3>1
  <2>3. v.is # "arraybuffer"
    <3>1. TypeOfKind["arraybuffer"] = "ArrayBufferWithSize"  BY DEF TypeOfKind
    <3> QED  BY <1>1, <2>2, <3>1
  <2>4. type \notin IntegerTypes /\ v.is = KindOfType[type]
    BY <1>2, <1>4, <2>2, <2>3 DEF TypeOfKind, KindOfType, IntegerTypes
  <2>5. TextOf(v) = Text(v.n, v.of)  BY <2>1, <2>3, <2>4 DEF TextOf
  <2> QED  BY <1>3, <2>4, <2>5 DEF IntegerTypes
<1> QED  BY <1>6, <1>7

(* What readContent does for each type.                                    *)
LEMMA ContentOfType ==
  ASSUME NEW r, NEW memory, NEW inner, NEW type, NEW n,
         NEW read, read = ReadContent(r, memory, inner, type, n)
  PROVE  /\ type \in BufferTypes =>
              read = Gives(ValueSaid(type, IF n = 0 THEN EmptyText
                                           ELSE Says(memory, BytesOut(r, n))),
                           BytesBy(r, n))
         /\ type = "NegativeInteger" =>
              read = Gives(Value("number", -Says(memory, NumberOut(r, IntegerContentSize)).n,
                                 Says(memory, NumberOut(r, IntegerContentSize)).of),
                           NumberBy(r, IntegerContentSize))
         /\ type = "PositiveInteger" =>
              read = Gives(ValueSaid(type, Says(memory, NumberOut(r, IntegerContentSize))),
                           NumberBy(r, IntegerContentSize))
         /\ type \in DoubleTypes =>
              read = Gives(ValueSaid(type, Says(memory, NumberOut(r, DoubleContentSize))),
                           NumberBy(r, DoubleContentSize))
         /\ type \in EmptyTypes => read = Gives(ValueSaid(type, EmptyText), r)
         /\ type = "ArrayWithSize" =>
              read = ReadElements(NumberBy(r, CountSize), inner, CountOut(r, memory))
         /\ type = "ArrayBufferWithSize" => read = ReadArrayBuffer(r, memory, n)
<1>1. /\ type \in BufferTypes =>
           type \notin DoubleTypes /\ type \notin EmptyTypes
           /\ type # "NegativeInteger" /\ type # "PositiveInteger"
           /\ type # "ArrayWithSize" /\ type # "ArrayBufferWithSize"
      /\ type \in DoubleTypes =>
           type \notin BufferTypes /\ type \notin EmptyTypes
           /\ type # "NegativeInteger" /\ type # "PositiveInteger"
           /\ type # "ArrayWithSize" /\ type # "ArrayBufferWithSize"
      /\ type \in EmptyTypes =>
           type \notin BufferTypes /\ type \notin DoubleTypes
           /\ type # "NegativeInteger" /\ type # "PositiveInteger"
           /\ type # "ArrayWithSize" /\ type # "ArrayBufferWithSize"
      /\ type \in {"NegativeInteger", "PositiveInteger", "ArrayWithSize",
                   "ArrayBufferWithSize"} =>
           type \notin BufferTypes /\ type \notin DoubleTypes /\ type \notin EmptyTypes
  BY DEF BufferTypes, DoubleTypes, EmptyTypes
<1>2. CASE type \in BufferTypes  BY <1>1, <1>2 DEF ReadContent
<1>3. CASE type \in DoubleTypes  BY <1>1, <1>3 DEF ReadContent
<1>4. CASE type \in EmptyTypes  BY <1>1, <1>4 DEF ReadContent
<1>5. CASE type = "NegativeInteger"  BY <1>1, <1>5 DEF ReadContent
<1>6. CASE type = "PositiveInteger"  BY <1>1, <1>6 DEF ReadContent
<1>7. CASE type = "ArrayWithSize"  BY <1>1, <1>7 DEF ReadContent
<1>8. CASE type = "ArrayBufferWithSize"  BY <1>1, <1>8 DEF ReadContent
<1> QED  BY <1>2, <1>3, <1>4, <1>5, <1>6, <1>7, <1>8

(* What reading what was written comes to.                                 *)
Reads(read, r, f, size, pos, v) ==
  read.value = v /\ At(read.reader, size, pos) /\ Keeps(r, read.reader, f)

(* The content of a fixed packet.                                          *)
LEMMA FixedContentThere ==
  ASSUME NEW f, NEW a, NEW v \in AllValues, NEW c, NEW b, PacketIsAt(f, a, v, c, b),
         PacketType(v) \in FixedTypes,
         NEW r, NEW size, size = Total(f), At(r, size, Total(a) + HeaderSizeOf(v)),
         NEW inner, NEW read,
         read = ReadContent(r, MemoryOfFields(f), inner, PacketType(v), ContentSizeOf(v, c))
  PROVE  Reads(read, r, f, size, (Total(a) + HeaderSizeOf(v)) + ContentSizeOf(v, c), v)
<1> DEFINE type == PacketType(v)
           n == ContentSizeOf(v, c)
           hs == HeaderSizeOf(v)
           T == TypeField(type)
           C == Content(FixedContentSize(type), TextOf(v))
           memory == MemoryOfFields(f)
<1>1. /\ Total(a) \in Nat /\ Total(b) \in Nat /\ n \in Nat /\ hs \in {2, 6}
      /\ FooterLength = 1
      /\ Total(f) = Total(a) + (hs + n + FooterLength) + Total(b)
  BY PacketBounds
<1>2. type \notin DynamicTypes  BY KindsOfTypes
<1>3. hs = FixedHeaderSize /\ n = FixedContentSize(type)
  BY <1>2 DEF HeaderSizeOf, ContentSizeOf
<1>4. /\ \E more \in Seq(Fields) : Among(f, a \o <<T>>, C, more)
      /\ Total(a \o <<T>>) = Total(a) + FixedHeaderSize
  BY FixedFieldsThere
<1> DEFINE at == a \o <<T>>
<1> HIDE DEF at
<1>5. PICK more \in Seq(Fields) : Among(f, at, C, more)  BY <1>4 DEF at
<1>6. Total(at) = Total(a) + hs  BY <1>3, <1>4 DEF at
<1>7. C.size = n /\ C.says = TextOf(v) /\ C.name # "footer"  BY <1>3 DEF Content, Field
<1>8. /\ v = Value(v.is, v.n, v.of)
      /\ v.is = IF type \in IntegerTypes THEN "number" ELSE KindOfType[type]
      /\ type = "PositiveInteger" => KindOfType[type] = "number"
      /\ type = "PositiveInteger" => TextOf(v) = Text(v.n, v.of)
      /\ type = "NegativeInteger" => TextOf(v) = Text(-v.n, v.of) /\ v.n \in Int
      /\ type \notin IntegerTypes => TextOf(v) = Text(v.n, v.of)
  BY KindsRead
<1>9. At(r, size, Total(at)) /\ Total(at) + C.size <= size  BY <1>1, <1>6, <1>7
<1>10. C.size > 0 => /\ At(NumberBy(r, C.size), size, Total(at) + C.size)
                     /\ Keeps(r, NumberBy(r, C.size), f)
                     /\ Says(memory, NumberOut(r, C.size)) = C.says
  <2> HIDE DEF C
  <2> QED  BY <1>5, <1>7, <1>9, NumberThere
<1>12. CASE type \in IntegerTypes
  <2>1. n = IntegerContentSize /\ n > 0
    BY <1>3, <1>12 DEF FixedContentSize, IntegerTypes, DoubleTypes, IntegerContentSize
  <2>2. /\ At(NumberBy(r, n), size, Total(at) + n)
        /\ Keeps(r, NumberBy(r, n), f)
        /\ Says(memory, NumberOut(r, n)) = TextOf(v)
    BY <1>7, <1>10, <2>1
  <2>3. CASE type = "NegativeInteger"
    <3>1. read = Gives(Value("number", -Says(memory, NumberOut(r, n)).n,
                             Says(memory, NumberOut(r, n)).of), NumberBy(r, n))
      BY <2>1, <2>3, ContentOfType
    <3>2. TextOf(v).n = -v.n /\ TextOf(v).of = v.of /\ v.n \in Int
      BY <1>8, <2>3 DEF Text
    <3>3. -(-v.n) = v.n  BY <3>2
    <3>4. read.value = Value("number", v.n, v.of) /\ read.reader = NumberBy(r, n)
      BY <2>2, <3>1, <3>2, <3>3 DEF Gives
    <3> QED  BY <1>6, <1>8, <1>12, <2>2, <3>4 DEF Reads
  <2>4. CASE type = "PositiveInteger"
    <3>1. read = Gives(ValueSaid(type, Says(memory, NumberOut(r, n))), NumberBy(r, n))
      BY <2>1, <2>4, ContentOfType
    <3>2. TextOf(v).n = v.n /\ TextOf(v).of = v.of  BY <1>8, <2>4 DEF Text
    <3>3. read.value = Value("number", v.n, v.of) /\ read.reader = NumberBy(r, n)
      BY <1>8, <2>2, <2>4, <3>1, <3>2 DEF Gives, ValueSaid
    <3> QED  BY <1>6, <1>8, <1>12, <2>2, <3>3 DEF Reads
  <2> QED  BY <1>12, <2>3, <2>4 DEF IntegerTypes
<1>13. CASE type \in DoubleTypes
  <2>1. n = DoubleContentSize /\ n > 0
    BY <1>3, <1>13
       DEF FixedContentSize, DoubleTypes, IntegerTypes, DoubleContentSize
  <2>2. /\ At(NumberBy(r, n), size, Total(at) + n)
        /\ Keeps(r, NumberBy(r, n), f)
        /\ Says(memory, NumberOut(r, n)) = TextOf(v)
    BY <1>7, <1>10, <2>1
  <2>3. type \notin IntegerTypes  BY <1>13 DEF IntegerTypes, DoubleTypes
  <2>4. read = Gives(ValueSaid(type, Says(memory, NumberOut(r, n))), NumberBy(r, n))
    BY <1>13, <2>1, ContentOfType
  <2>5. TextOf(v).n = v.n /\ TextOf(v).of = v.of  BY <1>8, <2>3 DEF Text
  <2>6. read.value = Value(v.is, v.n, v.of) /\ read.reader = NumberBy(r, n)
    BY <1>8, <2>2, <2>3, <2>4, <2>5 DEF Gives, ValueSaid
  <2> QED  BY <1>6, <1>8, <2>2, <2>6 DEF Reads
<1>14. CASE type \in EmptyTypes
  <2>1. n = 0
    BY <1>3, <1>14
       DEF FixedContentSize, EmptyTypes, DoubleTypes, IntegerTypes, ZeroContentSize
  <2>2. type \notin IntegerTypes /\ type \notin DoubleTypes
    BY <1>14 DEF IntegerTypes, DoubleTypes, EmptyTypes
  <2>3. read = Gives(ValueSaid(type, EmptyText), r)
    BY <1>14, ContentOfType
  <2>4. v = Value(v.is, 0, "empty")  BY <1>14, ValuesAssumption
  <2>5. read.value = v /\ read.reader = r
    BY <1>8, <2>2, <2>3, <2>4 DEF Gives, ValueSaid, EmptyText, Text
  <2>6. At(r, size, Total(at) + n)
    <3>1. Total(at) + n = Total(at)  BY <1>1, <1>6, <2>1
    <3> HIDE DEF n
    <3> QED  BY <1>9, <3>1
  <2>7. Keeps(r, r, f)  BY KeepsSame
  <2> QED  BY <1>6, <2>5, <2>6, <2>7 DEF Reads
<1> QED  BY <1>12, <1>13, <1>14 DEF FixedTypes

(* The content of a text or a buffer.                                      *)
LEMMA BufferContentThere ==
  ASSUME NEW f, NEW a, NEW v \in AllValues, NEW c, NEW b, PacketIsAt(f, a, v, c, b),
         PacketType(v) \in BufferTypes,
         NEW r, NEW size, size = Total(f), At(r, size, Total(a) + HeaderSizeOf(v)),
         NEW inner, NEW read,
         read = ReadContent(r, MemoryOfFields(f), inner, PacketType(v), ContentSizeOf(v, c))
  PROVE  Reads(read, r, f, size, (Total(a) + HeaderSizeOf(v)) + ContentSizeOf(v, c), v)
<1> DEFINE type == PacketType(v)
           n == ContentSizeOf(v, c)
           hs == HeaderSizeOf(v)
           C == Content(v.n, TextOf(v))
           memory == MemoryOfFields(f)
           h == HeaderFields(PacketType(v), DynamicSize(c.length, v))
           k == <<C>>
           behind == <<Footer>> \o b
           ah == a \o h
<1>1. /\ Total(a) \in Nat /\ Total(b) \in Nat /\ n \in Nat /\ hs \in {2, 6}
      /\ FooterLength = 1
      /\ Total(f) = Total(a) + (hs + n + FooterLength) + Total(b)
  BY PacketBounds
<1>2. type \in DynamicTypes /\ type # "ArrayWithSize" /\ type # "ArrayBufferWithSize"
  BY KindsOfTypes
<1>3. hs = DynamicHeaderSize /\ n = v.n
  BY <1>2 DEF HeaderSizeOf, ContentSizeOf, DynamicSize
<1>4. /\ ah \in Seq(Fields)
      /\ Total(ah) = Total(a) + DynamicHeaderSize
      /\ ContentFields(v, c) \in Seq(Fields)
      /\ behind \in Seq(Fields)
      /\ f = (ah \o ContentFields(v, c)) \o behind
  <2>1. DynamicPieces(f, a, v, c, ah, behind)  BY <1>2, DynamicFieldsThere
  <2> QED  BY <2>1 DEF DynamicPieces
<1>5. ContentFields(v, c) = k  BY <1>2 DEF ContentFields
<1>6. C \in Fields  BY <1>1, <1>3, FieldsOfPackets
<1> HIDE DEF ah, behind, C
<1>7. Among(f, ah, C, behind)  BY <1>4, <1>5, <1>6 DEF Among
<1>8. C.size = n /\ C.says = TextOf(v) /\ C.name # "footer"
  BY <1>3 DEF C, Content, Field
<1>9. Total(ah) = Total(a) + hs  BY <1>3, <1>4
<1>10. At(r, size, Total(ah)) /\ Total(ah) + C.size <= size  BY <1>1, <1>8, <1>9
<1>11. /\ At(BytesBy(r, C.size), size, Total(ah) + C.size)
       /\ Keeps(r, BytesBy(r, C.size), f)
       /\ C.size > 0 => Says(memory, BytesOut(r, C.size)) = C.says
  BY <1>7, <1>8, <1>10, BytesThere
<1>12. /\ v = Value(v.is, v.n, v.of) /\ v.is = KindOfType[type]
       /\ TextOf(v) = Text(v.n, v.of)
  <2>1. type \notin IntegerTypes  BY DEF IntegerTypes, BufferTypes
  <2> QED  BY <2>1, KindsRead
<1>13. read = Gives(ValueSaid(type, IF n = 0 THEN EmptyText ELSE Says(memory, BytesOut(r, n))),
                    BytesBy(r, n))
  <2> HIDE DEF n, memory
  <2> QED  BY ContentOfType DEF n, memory
<1>14. read.value = v
  <2>1. CASE n = 0
    <3>1. v = Value(v.is, 0, "empty")  BY <1>3, <2>1, ValuesAssumption
    <3>2. read.value = ValueSaid(type, EmptyText)  BY <1>13, <2>1 DEF Gives
    <3> QED  BY <1>12, <3>1, <3>2 DEF ValueSaid, EmptyText, Text
  <2>2. CASE n # 0
    <3>1. Says(memory, BytesOut(r, n)) = TextOf(v)  BY <1>1, <1>8, <1>11, <2>2
    <3>2. read.value = ValueSaid(type, TextOf(v))  BY <1>13, <2>2, <3>1 DEF Gives
    <3> QED  BY <1>12, <3>2 DEF ValueSaid, Text
  <2> QED  BY <2>1, <2>2
<1>15. read.reader = BytesBy(r, n)  BY <1>13 DEF Gives
<1> QED  BY <1>8, <1>9, <1>11, <1>14, <1>15 DEF Reads

(* A class of arrays comes back by its short code.                         *)
LEMMA CodesOfClasses ==
  ASSUME NEW name \in DOMAIN ShortCodes, name # "BigUint64Float32ArrayArray"
  PROVE  ShortCodes[name] # 0 /\ ConstructorOf(ShortCodes[name]) = name
<1>1. DOMAIN ShortCodes =
        {"Uint8Array", "Uint8ClampedArray", "Uint16Array", "Uint32Array", "Int8Array",
         "Int16Array", "Int32Array", "BigInt64Array", "BigUint64Array",
         "BigUint64Float32ArrayArray", "Float64Array"}
  BY DEF ShortCodes
<1>2. ShortCodes[name] # 11 /\ ShortCodes[name] # 0  BY <1>1 DEF ShortCodes
<1>3. \A other \in DOMAIN ShortCodes : ShortCodes[other] = ShortCodes[name] => other = name
  BY <1>1 DEF ShortCodes
<1>4. (CHOOSE x \in DOMAIN ShortCodes : ShortCodes[x] = ShortCodes[name]) = name
  BY <1>3
<1> QED  BY <1>2, <1>4 DEF ConstructorOf

(* What an ArrayBuffer is.                                                 *)
LEMMA ArrayBuffersRead ==
  ASSUME NEW v \in AllValues, PacketType(v) = "ArrayBufferWithSize"
  PROVE  /\ v.is \in {"typed", "arraybuffer"}
         /\ v = Value(v.is, v.n, v.of)
         /\ TextOf(v) = Text(v.n, "bytes")
         /\ v.is = "typed" => v.of \in DOMAIN ShortCodes
<1>1. v.is # "array"  BY TypesOfValues
<1>2. v = Value(v.is, v.n, v.of)  BY <1>1, CodecAssumption
<1>3. DOMAIN TypeOfKind = {"null", "undefined", "true", "false", "string", "buffer",
                           "array", "date", "object", "arraybuffer"}
  BY DEF TypeOfKind
<1>4. v.is # "number"
  <2>1. "number" \notin DOMAIN TypeOfKind  BY <1>3
  <2>2. v.is = "number" => PacketType(v) = NumberType(v)  BY <2>1 DEF PacketType
  <2> QED  BY <2>2 DEF NumberType
<1>5. CASE v.is = "typed"
  <2>1. v.is \notin DOMAIN TypeOfKind  BY <1>3, <1>5
  <2>2. v.of \in DOMAIN ShortCodes  BY <1>5, <2>1 DEF PacketType, NoPacket
  <2>3. PacketType(v) \notin IntegerTypes  BY DEF IntegerTypes
  <2>4. TextOf(v) = Text(v.n, "bytes")  BY <1>5, <2>3 DEF TextOf
  <2> QED  BY <1>2, <1>5, <2>2, <2>4
<1>6. CASE v.is # "typed"
  <2>1. v.is \in DOMAIN TypeOfKind /\ PacketType(v) = TypeOfKind[v.is]
    BY <1>4, <1>6 DEF PacketType, NoPacket
  <2>2. v.is = "arraybuffer"  BY <1>3, <2>1 DEF TypeOfKind
  <2>3. PacketType(v) \notin IntegerTypes  BY DEF IntegerTypes
  <2>4. TextOf(v) = Text(v.n, "bytes")  BY <2>2, <2>3 DEF TextOf
  <2> QED  BY <1>2, <2>2, <2>4
<1> QED  BY <1>5, <1>6

(* The content of an ArrayBuffer, out of a list only as it was written.    *)
LEMMA ArrayBufferContentThere ==
  ASSUME NEW f, NEW a, NEW v \in AllValues, NEW c, NEW b, PacketIsAt(f, a, v, c, b),
         PacketType(v) = "ArrayBufferWithSize",
         NEW r, Snug(r, f),
         NEW size, size = Total(f), At(r, size, Total(a) + HeaderSizeOf(v)),
         NEW inner, NEW read,
         read = ReadContent(r, MemoryOfFields(f), inner, PacketType(v), ContentSizeOf(v, c))
  PROVE  Reads(read, r, f, size, (Total(a) + HeaderSizeOf(v)) + ContentSizeOf(v, c), v)
<1> DEFINE type == PacketType(v)
           n == ContentSizeOf(v, c)
           hs == HeaderSizeOf(v)
           code == ShortCodeOf(v)
           S == ShortCodeField(code)
           C == Content(v.n, TextOf(v))
           memory == MemoryOfFields(f)
           h == HeaderFields(PacketType(v), DynamicSize(c.length, v))
           s == <<S>>
           k == <<C>>
           behind == <<Footer>> \o b
           ah == a \o h
           ahs == ah \o s
           more == k \o behind
           coded == NumberBy(r, ShortCodeSize)
<1>1. /\ Total(a) \in Nat /\ Total(b) \in Nat /\ n \in Nat /\ hs \in {2, 6}
      /\ FooterLength = 1
      /\ Total(f) = Total(a) + (hs + n + FooterLength) + Total(b)
  BY PacketBounds
<1>2. type \in DynamicTypes /\ type # "ArrayWithSize" BY KindsOfTypes
<1>3. hs = DynamicHeaderSize /\ n = ShortCodeSize + v.n /\ ShortCodeSize = 1
  BY <1>2 DEF HeaderSizeOf, ContentSizeOf, DynamicSize, ShortCodeSize
<1>4. /\ ah \in Seq(Fields)
      /\ Total(ah) = Total(a) + DynamicHeaderSize
      /\ ContentFields(v, c) \in Seq(Fields)
      /\ behind \in Seq(Fields)
      /\ f = (ah \o ContentFields(v, c)) \o behind
  <2>1. DynamicPieces(f, a, v, c, ah, behind)  BY <1>2, DynamicFieldsThere
  <2> QED  BY <2>1 DEF DynamicPieces
<1>5. ContentFields(v, c) = s \o k  BY <1>2 DEF ContentFields
<1>6. /\ v.n \in Nat /\ code \in Nat
  BY <1>2, TypesOfValues DEF ShortCodeOf
<1>7. C \in Fields /\ S \in Fields  BY <1>6, FieldsOfPackets
<1>8. /\ C.size = v.n /\ C.says = TextOf(v) /\ C.name = "content"
      /\ S.size = ShortCodeSize /\ S.says = code /\ S.name = "shortCode"
  BY DEF Content, ShortCodeField, Field
<1> HIDE DEF ah, behind, C, S, code, coded, n, hs
<1>9. s \in Seq(Fields) /\ k \in Seq(Fields) /\ Total(s) = S.size
      /\ Len(s) = 1 /\ s[1] = S
  BY <1>7, SizedFields, TotalOne
<1> HIDE DEF s, k
<1>10. /\ (ah \o s) \o k = ah \o (s \o k)
       /\ ah \o s \in Seq(Fields)
  BY ONLY <1>4, <1>9, FieldsAssociate, SMTT(30)
<1>10a. more \in Seq(Fields)  BY ONLY <1>4, <1>9, FieldsAssociate
<1>11. f = (ahs \o k) \o behind  BY <1>4, <1>5, <1>10
<1>12. (ahs \o k) \o behind = ahs \o more
  <2> HIDE DEF ahs
  <2>1. ahs \in Seq(Fields)  BY <1>10 DEF ahs
  <2> QED  BY ONLY <2>1, <1>4, <1>9, FieldsAssociate, ZenonT(60)
<1>13. Among(f, ah, S, more)  BY <1>4, <1>7, <1>10a, <1>11, <1>12 DEF Among, s
<1>14. Among(f, ahs, C, behind)  BY <1>4, <1>7, <1>10, <1>11 DEF Among, k
<1>15. Total(ahs) = Total(ah) + ShortCodeSize /\ Total(ah) = Total(a) + hs
  BY <1>3, <1>4, <1>8, <1>9, TotalTogether
<1>16. ahs = <<>> \/ ahs[Len(ahs)].name # "type"
  <2>1. /\ Len(ah) \in Nat /\ Len(ahs) = Len(ah) + Len(s)
        /\ \A i \in 1 .. Len(s) : ahs[Len(ah) + i] = s[i]
    BY <1>4, <1>9, TwoFields
  <2>2. ahs[Len(ahs)] = S  BY <1>9, <2>1
  <2> QED  BY <1>8, <2>2
<1> HIDE DEF ahs, more
<1>17. /\ At(coded, size, Total(ahs)) /\ Keeps(r, coded, f)
       /\ Says(memory, NumberOut(r, ShortCodeSize)) = code
  <2>1. S.size > 0 /\ S.name # "footer"  BY <1>3, <1>8
  <2>2. At(r, size, Total(ah)) /\ Total(ah) + S.size <= size
    <3>1. At(r, size, Total(ah))  BY <1>15 DEF hs
    <3>2. Total(ah) + S.size <= size  BY <1>1, <1>3, <1>6, <1>8, <1>15
    <3> QED  BY <3>1, <3>2
  <2>3. coded = NumberBy(r, S.size)  BY <1>8 DEF coded
  <2>4. /\ At(coded, size, Total(ah) + S.size) /\ Keeps(r, coded, f)
        /\ Says(memory, NumberOut(r, S.size)) = S.says
    BY <1>13, <2>1, <2>2, <2>3, NumberThere
  <2> QED  BY <1>8, <1>15, <2>4
<1>18. Snug(coded, f)  BY <1>17 DEF Keeps
<1> DEFINE q == ArrayBufferBy(coded, v.n)
           text == IF v.n = 0 THEN EmptyText ELSE Says(memory, ArrayBufferOut(coded, v.n))
<1>19. Total(ahs) + v.n <= size /\ Total(ahs) < size /\ Total(ahs) + v.n
          = (Total(a) + hs) + n
  BY <1>1, <1>3, <1>6, <1>15
<1>20. At(q, size, (Total(a) + hs) + n) /\ Keeps(r, q, f)
  <2>1. At(q, size, Total(ahs) + C.size) /\ Keeps(coded, q, f)
    <3>1. Total(ahs) + C.size <= size  BY <1>8, <1>19
    <3>2. q = ArrayBufferBy(coded, C.size)  BY <1>8
    <3> HIDE DEF q
    <3> QED  BY <1>8, <1>14, <1>17, <1>19, <3>1, <3>2, BehindArrayBuffer
  <2> HIDE DEF q
  <2> QED  BY <1>8, <1>17, <1>19, <2>1, KeepsTwice
<1>21. text = IF v.n = 0 THEN EmptyText ELSE TextOf(v)
  <2>1. CASE v.n = 0  BY <2>1
  <2>2. CASE v.n > 0
    <3>1. Total(ahs) + C.size <= size /\ C.size > 0  BY <1>8, <1>19, <2>2
    <3>2. Says(memory, ArrayBufferOut(coded, C.size)) = C.says
      BY <1>8, <1>14, <1>16, <1>17, <1>18, <3>1, ArrayBufferThere
    <3> QED  BY <1>8, <2>2, <3>2
  <2> QED  BY <1>6, <2>1, <2>2
<1> HIDE DEF q, text
<1>22. read = Gives(IF code = 0 THEN Value("arraybuffer", v.n, text.of)
                    ELSE IF text.of = "garbage" THEN Value("typed", v.n, text.of)
                    ELSE Value("typed", v.n, ConstructorOf(code)), q)
  <2>1. n - ShortCodeSize = v.n  BY <1>3, <1>6
  <2>2. read = ReadArrayBuffer(r, memory, n)
    <3> HIDE DEF memory
    <3>1. read = ReadContent(r, memory, inner, "ArrayBufferWithSize", n)  BY DEF n, memory
    <3> QED  BY <3>1, ContentOfType
  <2> HIDE DEF memory
  <2> QED  BY <1>17, <2>1, <2>2 DEF ReadArrayBuffer, coded, q, text
<1>23. /\ v.is \in {"typed", "arraybuffer"}
       /\ v = Value(v.is, v.n, v.of)
       /\ TextOf(v) = Text(v.n, "bytes")
       /\ v.is = "typed" => v.of \in DOMAIN ShortCodes
  BY ArrayBuffersRead
<1>24. text.of = IF v.n = 0 THEN "empty" ELSE "bytes"
  BY <1>21, <1>23 DEF EmptyText, Text
<1>25. read.value = v
  <2>1. CASE v.is = "typed"
    <3>1. v.of # "BigUint64Float32ArrayArray"  BY <2>1, ValuesAssumption
    <3>2. code # 0 /\ ConstructorOf(code) = v.of
      BY <1>23, <2>1, <3>1, CodesOfClasses DEF code, ShortCodeOf
    <3>3. text.of # "garbage"  BY <1>24
    <3> QED  BY <1>22, <1>23, <2>1, <3>2, <3>3 DEF Gives
  <2>2. CASE v.is = "arraybuffer"
    <3>1. code = 0  BY <2>2 DEF code, ShortCodeOf
    <3>2. v.of = text.of  BY <1>24, <2>2, ValuesAssumption
    <3> QED  BY <1>22, <1>23, <2>2, <3>1, <3>2 DEF Gives
  <2> QED  BY <1>23, <2>1, <2>2
<1>26. read.reader = q  BY <1>22 DEF Gives
<1> QED  BY <1>20, <1>25, <1>26 DEF Reads, hs, n

(* The values nested so deep, from those nested less deep.                 *)
LEMMA NestedLevels ==
  \A d \in 0 .. MaxNesting :
    NestedIn[d] = {v \in AllValues :
                     \A k \in DOMAIN v.elements : d > 0 /\ v.elements[k] \in NestedIn[d - 1]}
<1> DEFINE Level(d, inner) == {v \in AllValues :
                                \A k \in DOMAIN v.elements :
                                  d > 0 /\ v.elements[k] \in inner}
           Levels(g, n) == g = [d \in 0 .. n |-> Level(d, g[d - 1])]
<1>0. MaxNesting \in Nat  BY CodecAssumption
<1>1. \E g : Levels(g, MaxNesting)
  <2>9. \A x, y : Level(0, x) = Level(0, y)  OBVIOUS
  <2> HIDE DEF Level
  <2> DEFINE S == {n \in 0 .. MaxNesting : \E g : Levels(g, n)}
  <2>1. 0 \in S
    <3> DEFINE one == [d \in 0 .. 0 |-> Level(0, 0)]
    <3>1. \A d \in 0 .. 0 : Level(d, one[d - 1]) = Level(0, 0)
      <4>1. \A d \in 0 .. 0 : d = 0  OBVIOUS
      <4> HIDE DEF one
      <4> QED  BY <2>9, <4>1
    <3>3. Levels(one, 0)  BY <3>1
    <3> HIDE DEF one
    <3>2. \E g : Levels(g, 0)  BY <3>3
    <3> QED  BY <1>0, <3>2
  <2>2. ASSUME NEW n \in 0 .. MaxNesting - 1, n \in S PROVE n + 1 \in S
    <3>1. PICK g : Levels(g, n)  BY <2>2
    <3> DEFINE h == [d \in 0 .. n + 1 |-> IF d = n + 1 THEN Level(n + 1, g[n]) ELSE g[d]]
    <3>2. \A d \in 0 .. n : g[d] = Level(d, g[d - 1])  BY <3>1
    <3>3. ASSUME NEW d \in 0 .. n + 1 PROVE h[d] = Level(d, h[d - 1])
      <4>1. CASE d = n + 1
        <5>1. d - 1 = n /\ n \in 0 .. n + 1 /\ n # n + 1  BY <4>1
        <5>2. h[d] = Level(n + 1, g[n]) /\ h[d - 1] = g[n]  BY <4>1, <5>1
        <5> QED  BY <4>1, <5>1, <5>2
      <4>2. CASE d \in 1 .. n
        <5>1. /\ d # n + 1 /\ d - 1 # n + 1 /\ d - 1 \in 0 .. n + 1 /\ d \in 0 .. n
          BY <4>2
        <5>2. h[d] = g[d] /\ h[d - 1] = g[d - 1]  BY <5>1
        <5>3. g[d] = Level(d, g[d - 1])  BY <3>2, <5>1
        <5> QED  BY <5>1, <5>2, <5>3
      <4>3. CASE d = 0
        <5>1. h[d] = g[d] /\ d \in 0 .. n  BY <4>3
        <5>2. g[d] = Level(0, g[d - 1])  BY <3>2, <4>3, <5>1
        <5> HIDE DEF h
        <5>3. Level(0, g[d - 1]) = Level(0, h[d - 1])  BY <2>9
        <5> QED  BY <4>3, <5>1, <5>2, <5>3
      <4> QED  BY <4>1, <4>2, <4>3
    <3>4. h = [d \in 0 .. n + 1 |-> h[d]]  OBVIOUS
    <3> HIDE DEF h
    <3>5. Levels(h, n + 1)  BY <3>3, <3>4
    <3> QED  BY <1>0, <3>5
  <2> HIDE DEF S
  <2>3. 0 .. MaxNesting \subseteq S  BY <1>0, <2>1, <2>2, IntervalInduction
  <2>4. MaxNesting \in S  BY <1>0, <2>3
  <2> QED  BY <2>4 DEF S
<1>2. Levels(NestedIn, MaxNesting)  BY <1>1 DEF NestedIn
<1>3. \A d \in 0 .. MaxNesting : NestedIn[d] = Level(d, NestedIn[d - 1])
  <2> HIDE DEF Level
  <2> QED  BY <1>2
<1> QED  BY <1>3

(* Those with an ArrayBuffer in them, likewise.                            *)
LEMMA HoldingLevels ==
  \A d \in 0 .. MaxNesting :
    HoldingNested[d] =
      {v \in AllValues :
         \/ PacketType(v) = "ArrayBufferWithSize"
         \/ \E k \in DOMAIN v.elements : d # 0 /\ v.elements[k] \in HoldingNested[d - 1]}
<1> DEFINE Level(d, inner) == {v \in AllValues :
                                \/ PacketType(v) = "ArrayBufferWithSize"
                                \/ \E k \in DOMAIN v.elements :
                                     v.elements[k] \in IF d = 0 THEN {} ELSE inner}
           Levels(g, n) == g = [d \in 0 .. n |-> Level(d, g[d - 1])]
<1>0. MaxNesting \in Nat  BY CodecAssumption
<1>1. \E g : Levels(g, MaxNesting)
  <2>9. \A x, y : Level(0, x) = Level(0, y)  OBVIOUS
  <2> HIDE DEF Level
  <2> DEFINE S == {n \in 0 .. MaxNesting : \E g : Levels(g, n)}
  <2>1. 0 \in S
    <3> DEFINE one == [d \in 0 .. 0 |-> Level(0, 0)]
    <3>1. \A d \in 0 .. 0 : Level(d, one[d - 1]) = Level(0, 0)
      <4>1. \A d \in 0 .. 0 : d = 0  OBVIOUS
      <4> HIDE DEF one
      <4> QED  BY <2>9, <4>1
    <3>3. Levels(one, 0)  BY <3>1
    <3> HIDE DEF one
    <3>2. \E g : Levels(g, 0)  BY <3>3
    <3> QED  BY <1>0, <3>2
  <2>2. ASSUME NEW n \in 0 .. MaxNesting - 1, n \in S PROVE n + 1 \in S
    <3>1. PICK g : Levels(g, n)  BY <2>2
    <3> DEFINE h == [d \in 0 .. n + 1 |-> IF d = n + 1 THEN Level(n + 1, g[n]) ELSE g[d]]
    <3>2. \A d \in 0 .. n : g[d] = Level(d, g[d - 1])  BY <3>1
    <3>3. ASSUME NEW d \in 0 .. n + 1 PROVE h[d] = Level(d, h[d - 1])
      <4>1. CASE d = n + 1
        <5>1. d - 1 = n /\ n \in 0 .. n + 1 /\ n # n + 1  BY <4>1
        <5>2. h[d] = Level(n + 1, g[n]) /\ h[d - 1] = g[n]  BY <4>1, <5>1
        <5> QED  BY <4>1, <5>1, <5>2
      <4>2. CASE d \in 1 .. n
        <5>1. /\ d # n + 1 /\ d - 1 # n + 1 /\ d - 1 \in 0 .. n + 1 /\ d \in 0 .. n
          BY <4>2
        <5>2. h[d] = g[d] /\ h[d - 1] = g[d - 1]  BY <5>1
        <5>3. g[d] = Level(d, g[d - 1])  BY <3>2, <5>1
        <5> QED  BY <5>1, <5>2, <5>3
      <4>3. CASE d = 0
        <5>1. h[d] = g[d] /\ d \in 0 .. n  BY <4>3
        <5>2. g[d] = Level(0, g[d - 1])  BY <3>2, <4>3, <5>1
        <5> HIDE DEF h
        <5>3. Level(0, g[d - 1]) = Level(0, h[d - 1])  BY <2>9
        <5> QED  BY <4>3, <5>1, <5>2, <5>3
      <4> QED  BY <4>1, <4>2, <4>3
    <3>4. h = [d \in 0 .. n + 1 |-> h[d]]  OBVIOUS
    <3> HIDE DEF h
    <3>5. Levels(h, n + 1)  BY <3>3, <3>4
    <3> QED  BY <1>0, <3>5
  <2> HIDE DEF S
  <2>3. 0 .. MaxNesting \subseteq S  BY <1>0, <2>1, <2>2, IntervalInduction
  <2>4. MaxNesting \in S  BY <1>0, <2>3
  <2> QED  BY <2>4 DEF S
<1>2. Levels(HoldingNested, MaxNesting)  BY <1>1 DEF HoldingNested
<1>3. \A d \in 0 .. MaxNesting : HoldingNested[d] = Level(d, HoldingNested[d - 1])
  <2> HIDE DEF Level
  <2> QED  BY <1>2
<1>4. ASSUME NEW d \in 0 .. MaxNesting
      PROVE  HoldingNested[d] =
               {v \in AllValues :
                  \/ PacketType(v) = "ArrayBufferWithSize"
                  \/ \E k \in DOMAIN v.elements :
                       d # 0 /\ v.elements[k] \in HoldingNested[d - 1]}
  <2>1. CASE d = 0  BY <1>3, <2>1
  <2>2. CASE d # 0  BY <1>3, <2>2
  <2> QED  BY <2>1, <2>2
<1> QED  BY <1>4

(* Behind a field with bytes there is one with bytes before.               *)
LEMMA SolidBehind ==
  ASSUME NEW a \in Seq(Fields), NEW s \in Seq(Fields), s # <<>>, Solid(s)
  PROVE  Solid(a \o s) /\ a \o s # <<>>
<1> DEFINE t == a \o s
<1>1. /\ t \in Seq(Fields) /\ Len(a) \in Nat /\ Len(s) \in Nat /\ Len(t) = Len(a) + Len(s)
      /\ \A k \in 1 .. Len(s) : t[Len(a) + k] = s[k]
  BY TwoFields
<1> HIDE DEF t
<1>2. Len(s) \in 1 .. Len(s)  BY <1>1
<1>3. t[Len(t)] = s[Len(s)]  BY <1>1, <1>2
<1>4. t # <<>>  BY <1>1, <1>2
<1>5. s[Len(s)].size > 0  BY DEF Solid
<1>6. Solid(t)  BY <1>3, <1>5 DEF Solid
<1> QED  BY <1>4, <1>6 DEF t

(* A packet ends with a footer.                                            *)
LEMMA SolidPacket ==
  ASSUME NEW v \in AllValues, NEW c, Counted(c), PacketType(v) # NoPacket
  PROVE  Solid(PacketFields(v, c)) /\ PacketFields(v, c) # <<>>
<1> DEFINE type == PacketType(v)
           e == <<Footer>>
<1>1. type \in ValidTypes  BY TypesOfValues
<1>2. e \in Seq(Fields) /\ e # <<>> /\ Solid(e)
  <2>1. Footer \in Fields /\ Footer.size > 0
    BY FieldsOfPackets DEF Footer, Field, FooterLength
  <2> QED  BY <2>1 DEF Solid
<1>3. CASE type \in FixedTypes
  <2> DEFINE C == Content(FixedContentSize(type), TextOf(v))
  <2>1. PacketFields(v, c) = <<TypeField(type), C, Footer>>
    BY <1>3 DEF PacketFields, Block
  <2>2. Footer.size > 0  BY DEF Footer, Field, FooterLength
  <2> HIDE DEF C
  <2> QED  BY <2>1, <2>2 DEF Solid
<1>4. CASE type \notin FixedTypes
  <2> DEFINE h == HeaderFields(type, DynamicSize(c.length, v))
             k == ContentFields(v, c)
             hk == h \o k
  <2>1. PacketFields(v, c) = h \o (k \o e)  BY <1>4 DEF PacketFields
  <2>2. PacketIsAt(<<>> \o PacketFields(v, c) \o <<>>, <<>>, v, c, <<>>)
    <3>1. <<>> \in Seq(Fields)  OBVIOUS
    <3> QED  BY <3>1 DEF PacketIsAt
  <2>3. type \in DynamicTypes  BY <1>1, <1>4, KindsOfTypes
  <2>4. DynamicSize(c.length, v) \in Nat /\ k \in Seq(Fields)
    <3>1. DynamicSize(c.length, v) \in Nat  BY <2>2, <2>3, DynamicFieldsThere
    <3>2. \E ah, behind : DynamicPieces(<<>> \o PacketFields(v, c) \o <<>>, <<>>, v, c,
                                        ah, behind)
      BY <2>2, <2>3, DynamicFieldsThere
    <3> QED  BY <3>1, <3>2 DEF DynamicPieces
  <2>5. h \in Seq(Fields)
    <3>1. TypeField(type) \in Fields /\ SizeField(DynamicSize(c.length, v)) \in Fields
      BY <1>1, <2>4, FieldsOfPackets
    <3> QED  BY <3>1 DEF HeaderFields
  <2> HIDE DEF h, k, e
  <2>6. h \o (k \o e) = hk \o e /\ hk \in Seq(Fields)
    BY ONLY <1>2, <2>4, <2>5, FieldsAssociate
  <2> HIDE DEF hk
  <2>7. Solid(hk \o e) /\ hk \o e # <<>>  BY <1>2, <2>6, SolidBehind
  <2> QED  BY <2>1, <2>6, <2>7
<1> QED  BY <1>3, <1>4

(* The fields of what is written of the first k elements, some others, and *)
(* all of them.                                                            *)
ElementsUpTo(w, k, c) ==
  /\ Counted(w[k])
  /\ FieldsIn(w[k]) \in Seq(Fields) /\ FieldsIn(w[k]) # <<>> /\ Solid(FieldsIn(w[k]))
  /\ Total(FieldsIn(w[k])) = w[k].length /\ w[k].length \in Nat
  /\ \E more \in Seq(Fields) : FieldsIn(c) = FieldsIn(w[k]) \o more

(* The content of an array is a count and the packets of its elements.     *)
ElementsIn(w, v, contents, c) ==
  LET es == v.elements
  IN /\ FieldsIn(w[0]) = <<CountField(Len(es))>>
     /\ w[0].length = CountSize
     /\ c = w[Len(es)]
     /\ \A k \in 0 .. Len(es) : ElementsUpTo(w, k, c)
     /\ \A k \in 1 .. Len(es) :
          /\ FieldsIn(w[k]) = FieldsIn(w[k - 1]) \o PacketFields(es[k], contents[es[k]])
          /\ w[k].length = w[k - 1].length
                             + BytelengthWith(contents[es[k]].length, es[k])

(* It is.                                                                  *)
LEMMA ElementFields ==
  ASSUME ElementsHavePackets, NEW v \in AllValues, NEW contents,
         \A u \in AllValues : Counted(contents[u]),
         NEW c, c = ContentWith(contents, v)
  PROVE  \E w : ElementsIn(w, v, contents, c)
<1> DEFINE es == v.elements
           N == Len(es)
           F(x) == FieldsIn(x)
           P(k) == PacketFields(es[k], contents[es[k]])
<1>1. es \in Seq(AllValues)  BY TypesOfValues
<1>2. N \in Nat /\ \A k \in 1 .. N : es[k] \in AllValues /\ PacketType(es[k]) # NoPacket
  <2>1. \A k \in 1 .. N : k \in DOMAIN v.elements /\ es[k] \in AllValues  BY <1>1
  <2> QED  BY <1>1, <2>1 DEF ElementsHavePackets
<1>3. PICK w : /\ w[0] = NewArrayContent(N)
               /\ \A k \in 1 .. N : w[k] = WriteWith(w[k - 1], es[k], contents[es[k]])
               /\ ContentWith(contents, v) = w[N]
  BY <1>1, ContentSteps
<1> HIDE DEF es, N
<1>4. /\ Counted(w[0]) /\ F(w[0]) = <<CountField(N)>> /\ w[0].length = CountSize
      /\ CountField(N) \in Fields /\ CountField(N).size > 0
  <2> DEFINE x == NewArrayContent(N)
             b == <<CountField(N)>>
  <2>1. Counted(x) /\ x.length = CountSize  BY <1>2, NewContentCounts
  <2>2. b \in Seq(Fields)  BY <1>2, FieldsOfPackets
  <2>3. x = WriteBuffer(NewBufferListWriter, b)  BY DEF NewArrayContent
  <2>4. Counted(NewBufferListWriter) /\ FieldsIn(NewBufferListWriter) = <<>>
    BY NewListCounts, FlattenNothing DEF FieldsIn
  <2> HIDE DEF b, x
  <2>5. Longer(NewBufferListWriter, x, <<b>>)  BY <2>2, <2>3, <2>4, WriteBufferLonger
  <2>6. <<b>> \in Seq(Seq(Fields)) /\ FlattenSeq(<<b>>) = b  BY <2>2, FlattenOne
  <2> DEFINE bb == <<b>>
  <2> HIDE DEF bb
  <2>7. bb \in Seq(Seq(Fields)) /\ FlattenSeq(bb) = b /\ Longer(NewBufferListWriter, x, bb)
    BY <2>5, <2>6 DEF bb
  <2>8. FieldsIn(x) = <<>> \o b  BY <2>4, <2>7, LongerFields
  <2>9. <<>> \o b = b  BY <2>2
  <2>10. CountField(N) \in Fields  BY <1>2, FieldsOfPackets
  <2>11. CountField(N).size > 0  BY DEF CountField, Field, CountSize
  <2> QED  BY <1>3, <2>1, <2>8, <2>9, <2>10, <2>11 DEF x, b
<1> DEFINE Right(k) == /\ Counted(w[k])
                       /\ F(w[k]) \in Seq(Fields) /\ F(w[k]) # <<>> /\ Solid(F(w[k]))
                       /\ \A j \in 0 .. k :
                            /\ F(w[j]) \in Seq(Fields)
                            /\ \E more \in Seq(Fields) : F(w[k]) = F(w[j]) \o more
           S == {k \in 0 .. N : Right(k)}
<1>5. 0 \in S
  <2>1. F(w[0]) \in Seq(Fields) /\ F(w[0]) # <<>> /\ Solid(F(w[0]))
    BY <1>4 DEF Solid
  <2>2. F(w[0]) = F(w[0]) \o <<>> /\ <<>> \in Seq(Fields)
    <3> HIDE DEF F
    <3> QED  BY <2>1
  <2>3. \A j \in 0 .. 0 : j = 0  OBVIOUS
  <2>4. \A j \in 0 .. 0 : /\ F(w[j]) \in Seq(Fields)
                          /\ \E more \in Seq(Fields) : F(w[0]) = F(w[j]) \o more
    <3> HIDE DEF F
    <3> QED  BY <2>1, <2>2, <2>3
  <2>5. 0 \in 0 .. N  BY <1>2
  <2> HIDE DEF F
  <2> QED  BY <1>4, <2>1, <2>4, <2>5
<1>6. ASSUME NEW k \in 1 .. N, Counted(w[k - 1])
      PROVE  /\ Counted(w[k])
             /\ F(w[k]) = F(w[k - 1]) \o P(k)
             /\ P(k) \in Seq(Fields) /\ P(k) # <<>> /\ Solid(P(k))
             /\ F(w[k - 1]) \in Seq(Fields)
             /\ w[k].length = w[k - 1].length + BytelengthWith(contents[es[k]].length, es[k])
  <2>1. es[k] \in AllValues /\ PacketType(es[k]) # NoPacket /\ Counted(contents[es[k]])
    BY <1>2
  <2>2. w[k] = WriteWith(w[k - 1], es[k], contents[es[k]])  BY <1>3
  <2>3. P(k) \in Seq(Fields) /\ P(k) # <<>> /\ Solid(P(k))
    BY <2>1, PacketFieldsSize, SolidPacket
  <2>4. /\ Counted(w[k])
        /\ F(w[k - 1]) \in Seq(Fields)
        /\ F(w[k]) = F(w[k - 1]) \o P(k)
        /\ w[k].length = w[k - 1].length + BytelengthWith(contents[es[k]].length, es[k])
    <3> DEFINE x == w[k - 1]
               u == es[k]
               d == contents[es[k]]
    <3> HIDE DEF x, u, d
    <3>1. Counted(x) /\ u \in AllValues /\ Counted(d)  BY <1>6, <2>1 DEF x, u, d
    <3>2. /\ Counted(WriteWith(x, u, d))
          /\ FieldsIn(x) \in Seq(Fields)
          /\ FieldsIn(WriteWith(x, u, d)) = FieldsIn(x) \o PacketFields(u, d)
          /\ WriteWith(x, u, d).length = x.length + BytelengthWith(d.length, u)
      BY <3>1, WritesFields
    <3>3. w[k] = WriteWith(x, u, d)  BY <2>2 DEF x, u, d
    <3> QED  BY <3>2, <3>3 DEF x, u, d
  <2> QED  BY <2>3, <2>4
<1>7. ASSUME NEW k \in 0 .. N - 1, k \in S PROVE k + 1 \in S
  <2>1. k + 1 \in 1 .. N /\ (k + 1) - 1 = k /\ k + 1 \in 0 .. N  BY <1>2
  <2>2. Right(k)  BY <1>7
  <2> DEFINE g == P(k + 1)
             h == F(w[k])
             hg == F(w[k + 1])
  <2>3. /\ Counted(w[k + 1]) /\ hg = h \o g
        /\ g \in Seq(Fields) /\ g # <<>> /\ Solid(g)
        /\ h \in Seq(Fields)
    BY <1>6, <2>1, <2>2
  <2> HIDE DEF g, h
  <2>4. hg # <<>> /\ Solid(hg) /\ hg \in Seq(Fields)
    BY <2>3, SolidBehind, FieldsAssociate
  <2>5. ASSUME NEW j \in 0 .. k + 1
        PROVE  /\ F(w[j]) \in Seq(Fields)
               /\ \E more \in Seq(Fields) : hg = F(w[j]) \o more
    <3> HIDE DEF F
    <3>1. CASE j = k + 1
      <4>1. hg = hg \o <<>> /\ <<>> \in Seq(Fields)
        <5> HIDE DEF hg
        <5> QED  BY <2>4
      <4> QED  BY <2>4, <3>1, <4>1
    <3>2. CASE j # k + 1
      <4>1. j \in 0 .. k  BY <3>2
      <4>2. PICK more \in Seq(Fields) : h = F(w[j]) \o more  BY <2>2, <4>1 DEF h
      <4>3. F(w[j]) \in Seq(Fields)  BY <2>2, <4>1
      <4>4. hg = (F(w[j]) \o more) \o g  BY <2>3, <4>2
      <4>5. /\ (F(w[j]) \o more) \o g = F(w[j]) \o (more \o g)
            /\ more \o g \in Seq(Fields)
        BY ONLY <2>3, <4>3, more \in Seq(Fields), FieldsAssociate
      <4> QED  BY <4>3, <4>4, <4>5
    <3> QED  BY <3>1, <3>2
  <2> QED  BY <2>1, <2>3, <2>4, <2>5 DEF F
<1> HIDE DEF S
<1>8. 0 .. N \subseteq S  BY <1>2, <1>5, <1>7, IntervalInduction
<1> HIDE DEF Right
<1>9. \A k \in 0 .. N : Right(k)  BY <1>8 DEF S
<1>10. ASSUME NEW k \in 0 .. N PROVE ElementsUpTo(w, k, c)
  <2>1. Right(k) /\ Right(N) /\ N \in 0 .. N  BY <1>2, <1>9
  <2>2. c = w[N]  BY <1>3 DEF N, es
  <2>3. \E more \in Seq(Fields) : F(c) = F(w[k]) \o more
    <3> HIDE DEF F
    <3> QED  BY <1>2, <2>1, <2>2 DEF Right
  <2>4. Total(F(w[k])) = w[k].length /\ w[k].length \in Nat
    BY <2>1 DEF Right, FieldsIn, Counted, Length, Lists
  <2> QED  BY <2>1, <2>3, <2>4 DEF Right, ElementsUpTo
<1>11. ASSUME NEW k \in 1 .. N
       PROVE  /\ F(w[k]) = F(w[k - 1]) \o P(k)
              /\ w[k].length = w[k - 1].length
                                 + BytelengthWith(contents[es[k]].length, es[k])
  <2>1. k - 1 \in 0 .. N  BY <1>2
  <2>2. Counted(w[k - 1])  BY <1>9, <2>1 DEF Right
  <2> QED  BY <1>6, <2>2
<1>12. c = w[N]  BY <1>3 DEF N, es
<1>13. ElementsIn(w, v, contents, c)
  BY <1>4, <1>10, <1>11, <1>12 DEF ElementsIn, N, es
<1> QED  BY <1>13

(***************************************************************************)
(* Packets where they were written                                         *)
(***************************************************************************)

(* Where a reader is behind a packet: the last byte of all is not passed.  *)
EndAt(f, end) == IF end < Total(f) THEN end ELSE end - 1

(* What is in the packet of v is read wherever that packet is.             *)
ReadsPacket(inner, f, v, c, holds) ==
  \A a, b, r :
    /\ PacketIsAt(f, a, v, c, b) /\ Solid(a) /\ At(r, Total(f), Total(a))
    /\ holds => Snug(r, f)
    => Reads(inner[r], r, f, Total(f), EndAt(f, Total(a) + BytelengthWith(c.length, v)), v)

(* An element behind others in the content of an array.                    *)
ElementIsAt(f, ah, behind, w, k, u, d, c) ==
  /\ ElementsUpTo(w, k - 1, c) /\ ElementsUpTo(w, k, c)
  /\ u \in AllValues /\ PacketType(u) # NoPacket /\ Counted(d)
  /\ FieldsIn(w[k]) = FieldsIn(w[k - 1]) \o PacketFields(u, d)
  /\ w[k].length = w[k - 1].length + BytelengthWith(d.length, u)
  /\ ah \in Seq(Fields) /\ behind \in Seq(Fields) /\ Total(behind) > 0
  /\ f = (ah \o FieldsIn(c)) \o behind

(* A packet ends before what is behind it.                                 *)
LEMMA PacketEnds ==
  ASSUME NEW f, NEW a, NEW v \in AllValues, NEW c, NEW b, PacketIsAt(f, a, v, c, b)
  PROVE  /\ Total(f) = Total(a) + BytelengthWith(c.length, v) + Total(b)
         /\ Total(a) \in Nat /\ Total(b) \in Nat
<1> DEFINE n == ContentSizeOf(v, c)
           hs == HeaderSizeOf(v)
           B == BytelengthWith(c.length, v)
<1>1. /\ Total(a) \in Nat /\ Total(b) \in Nat /\ n \in Nat /\ hs \in {2, 6}
      /\ FooterLength = 1
      /\ Total(f) = Total(a) + (hs + n + FooterLength) + Total(b)
      /\ B = hs + n + FooterLength
  BY PacketBounds
<1> QED  BY <1>1

(* Its packet is there, and it is not the last bytes.                      *)
LEMMA ElementPlace ==
  ASSUME NEW f, NEW ah, NEW behind, NEW w, NEW k, NEW u, NEW d, NEW c,
         ElementIsAt(f, ah, behind, w, k, u, d, c)
  PROVE  \E a, b : /\ PacketIsAt(f, a, u, d, b) /\ Solid(a)
                   /\ Total(a) = Total(ah) + w[k - 1].length
                   /\ Total(a) + BytelengthWith(d.length, u) = Total(ah) + w[k].length
                   /\ EndAt(f, Total(a) + BytelengthWith(d.length, u))
                        = Total(ah) + w[k].length
<1> DEFINE t == FieldsIn(w[k - 1])
           p == PacketFields(u, d)
           T == Seq(Fields)
<1>1. /\ t \in T /\ t # <<>> /\ Solid(t) /\ Total(t) = w[k - 1].length
      /\ w[k - 1].length \in Nat
  BY DEF ElementIsAt, ElementsUpTo
<1>2. p \in T /\ Total(p) = BytelengthWith(d.length, u)
  <2>1. u \in AllValues /\ Counted(d)  BY DEF ElementIsAt
  <2> QED  BY <2>1, PacketFieldsSize
<1>3. PICK more \in T : FieldsIn(c) = (t \o p) \o more
  BY DEF ElementIsAt, ElementsUpTo
<1>4. /\ ah \in T /\ behind \in T /\ Total(behind) > 0
      /\ f = (ah \o FieldsIn(c)) \o behind
      /\ w[k].length = w[k - 1].length + BytelengthWith(d.length, u)
      /\ u \in AllValues /\ PacketType(u) # NoPacket /\ Counted(d)
  BY DEF ElementIsAt
<1> HIDE DEF t, p
<1>5. (t \o p) \o more = t \o (p \o more)  BY ONLY <1>1, <1>2, more \in T, FieldsAssociate, SMTT(30)
<1>6. f = (ah \o (t \o (p \o more))) \o behind
  <2> HIDE DEF T
  <2> QED  BY <1>3, <1>4, <1>5
<1>7. Rearranged(ah, t, p, more, behind)
  BY ONLY <1>1, <1>2, <1>4, more \in T, PiecesTogether
<1>8. /\ f = ((ah \o t) \o p) \o (more \o behind)
      /\ ah \o t \in T /\ more \o behind \in T
  BY <1>6, <1>7 DEF Rearranged
<1> DEFINE a == ah \o t
           b == more \o behind
<1>9. Total(a) = Total(ah) + Total(t) /\ Total(ah) \in Nat
  BY ONLY <1>1, <1>4, TotalTogether
<1>10. Total(b) = Total(more) + Total(behind) /\ Total(more) \in Nat /\ Total(behind) \in Nat
  BY ONLY <1>4, more \in T, TotalTogether
<1>11. Solid(a)
  BY ONLY <1>1, <1>4, SolidBehind
<1> HIDE DEF a, b
<1>12. PacketIsAt(f, a, u, d, b)
  BY <1>4, <1>8 DEF PacketIsAt, p, a, b
<1> DEFINE B == BytelengthWith(d.length, u)
           n == w[k - 1].length
           m == w[k].length
<1>13. Total(f) = Total(a) + B + Total(b) /\ Total(a) \in Nat /\ Total(b) \in Nat /\ B \in Nat
  <2>1. Total(f) = Total(a) + B + Total(b) /\ Total(a) \in Nat /\ Total(b) \in Nat
    BY <1>4, <1>12, PacketEnds
  <2>2. Total(p) \in Nat  BY <1>2, TotalTogether
  <2> QED  BY <1>2, <2>1, <2>2
<1> DEFINE F == Total(f)
           A == Total(a)
           bb == Total(b)
           H == Total(ah)
<1>14. /\ A = H + n /\ H \in Nat /\ n \in Nat /\ m = n + B /\ B \in Nat
       /\ F = A + B + bb /\ bb > 0 /\ bb \in Nat /\ A \in Nat
  BY <1>1, <1>4, <1>9, <1>10, <1>13
<1> HIDE DEF A, bb, H, n, m, B
<1>15. A + B < F => EndAt(f, A + B) = A + B  BY DEF EndAt, F
<1> HIDE DEF F
<1>16. A + B = H + m /\ A + B < F  BY <1>14
<1>17. EndAt(f, A + B) = H + m  BY <1>15, <1>16
<1> QED  BY <1>11, <1>12, <1>14, <1>16, <1>17 DEF F, A, bb, H, n, m, B

(* What a weaker promise asks of the reader a stronger one does.           *)
LEMMA ReadsWithMore ==
  ASSUME NEW inner, NEW f, NEW v, NEW c, NEW some, NEW more, some => more,
         ReadsPacket(inner, f, v, c, some)
  PROVE  ReadsPacket(inner, f, v, c, more)
BY DEF ReadsPacket

(* Elements with the next one are one more.                                *)
LEMMA OneMoreOfThem ==
  ASSUME NEW T, NEW es \in Seq(T), NEW k \in 1 .. Len(es), NEW m \in 1 .. k
  PROVE  Append(SubSeq(es, m, k - 1), es[k]) = SubSeq(es, m, k)
<1> DEFINE s == SubSeq(es, m, k - 1)
           t == SubSeq(es, m, k)
           x == es[k]
           n == k - m
<1>0. n \in Nat /\ k = n + m /\ m \in Nat /\ m > 0  OBVIOUS
<1>1. s \in Seq(T) /\ Len(s) = n /\ \A i \in 1 .. n : s[i] = es[(m + i) - 1]
  OBVIOUS
<1>2. t \in Seq(T) /\ Len(t) = n + 1 /\ \A i \in 1 .. n + 1 : t[i] = es[(m + i) - 1]
  OBVIOUS
<1>3. x \in T  OBVIOUS
<1> HIDE DEF s, t, x
<1> HIDE DEF n
<1>4. /\ Append(s, x) \in Seq(T) /\ Len(Append(s, x)) = n + 1
      /\ \A i \in 1 .. n + 1 : Append(s, x)[i] = IF i = n + 1 THEN x ELSE s[i]
  BY <1>0, <1>1, <1>3
<1>5. \A i \in 1 .. n + 1 : Append(s, x)[i] = t[i]
  <2>1. \A i \in 1 .. n + 1 : i # n + 1 => i \in 1 .. n  BY <1>0
  <2>2. n + 1 \in 1 .. n + 1 /\ (m + (n + 1)) - 1 = k  BY <1>0
  <2>3. t[n + 1] = x  BY <1>2, <2>2 DEF x
  <2> QED  BY <1>1, <1>2, <1>4, <2>1, <2>3
<1>6. Append(s, x) = t  BY <1>0, <1>2, <1>4, <1>5
<1> QED  BY <1>6 DEF s, t, x

(* Reading up to an element of an array gives the elements up to there.    *)
Gathered(x, r, f, es, m, k, pos) ==
  /\ x.value = ArrayOf(SubSeq(es, m, k))
  /\ At(x.reader, Total(f), pos)
  /\ Keeps(r, x.reader, f)

(* Reading one more gives one more.                                        *)
LEMMA OneMoreRead ==
  ASSUME NEW f, NEW ah, NEW behind, NEW w, NEW es \in Seq(AllValues), NEW k \in 1 .. Len(es),
         NEW m \in 1 .. k,
         NEW u, u = es[k], NEW d, NEW c, ElementIsAt(f, ah, behind, w, k, u, d, c),
         NEW r, NEW q, NEW holds, holds => Snug(r, f),
         NEW inner, ReadsPacket(inner, f, u, d, holds),
         NEW x, Gathered(x, r, f, es, m, k - 1, Total(ah) + w[k - 1].length),
         q = x.reader, NEW y, y = WithElement(x, inner[q])
  PROVE  Gathered(y, r, f, es, m, k, Total(ah) + w[k].length)
<1> DEFINE read == inner[q]
           H == Total(ah)
           from == w[k - 1].length
           to == w[k].length
           size == Total(f)
<1>1. /\ x.value = ArrayOf(SubSeq(es, m, k - 1))
      /\ At(q, size, H + from)
      /\ Keeps(r, q, f)
  BY DEF Gathered
<1>2. PICK a, b : /\ PacketIsAt(f, a, u, d, b) /\ Solid(a)
                  /\ Total(a) = H + from
                  /\ EndAt(f, Total(a) + BytelengthWith(d.length, u)) = H + to
  BY ElementPlace
<1>3. holds => Snug(q, f)  BY <1>1 DEF Keeps
<1> HIDE DEF H, from, to, size
<1>4. At(q, Total(f), Total(a))  BY <1>1, <1>2 DEF size
<1>5. Reads(read, q, f, Total(f), EndAt(f, Total(a) + BytelengthWith(d.length, u)), u)
  BY <1>2, <1>3, <1>4 DEF ReadsPacket
<1>6. read.value = u /\ At(read.reader, size, H + to) /\ Keeps(q, read.reader, f)
  BY <1>2, <1>5 DEF Reads, size
<1> HIDE DEF read
<1>7. Keeps(r, read.reader, f)  BY <1>1, <1>6, KeepsTwice
<1>8. y = Gives(ArrayOf(Append(x.value.elements, read.value)), read.reader)
  BY DEF WithElement, read
<1> DEFINE s == SubSeq(es, m, k - 1)
<1>9. x.value.elements = s  BY <1>1 DEF ArrayOf
<1>10. Append(s, u) = SubSeq(es, m, k)  BY OneMoreOfThem
<1> HIDE DEF s
<1>11. y.value = ArrayOf(SubSeq(es, m, k)) /\ y.reader = read.reader
  BY <1>6, <1>8, <1>9, <1>10 DEF Gives
<1> QED  BY <1>6, <1>7, <1>11 DEF Gathered, H, to, size

(* The content of an array in its packet.                                  *)
ArrayIsThere(f, v, contents, c, w, ah, behind) ==
  /\ ElementsIn(w, v, contents, c)
  /\ v = ArrayOf(v.elements)
  /\ \A u \in AllValues : Counted(contents[u])
  /\ ah \in Seq(Fields) /\ behind \in Seq(Fields) /\ Total(behind) > 0
  /\ f = (ah \o FieldsIn(c)) \o behind

(* Each of the elements is read where its packet is.                       *)
ElementsRead(inner, f, v, contents, holds) ==
  \A k \in DOMAIN v.elements :
    ReadsPacket(inner, f, v.elements[k], contents[v.elements[k]], holds)

(* An element of an array is behind those before it.                       *)
LEMMA ElementOfArray ==
  ASSUME ElementsHavePackets,
         NEW f, NEW v \in AllValues, NEW contents, NEW c, NEW w, NEW ah, NEW behind,
         ArrayIsThere(f, v, contents, c, w, ah, behind), NEW k \in 1 .. Len(v.elements)
  PROVE  ElementIsAt(f, ah, behind, w, k, v.elements[k], contents[v.elements[k]], c)
<1> DEFINE es == v.elements
           N == Len(es)
<1>0. /\ ElementsIn(w, v, contents, c)
      /\ \A u \in AllValues : Counted(contents[u])
      /\ ah \in Seq(Fields) /\ behind \in Seq(Fields) /\ Total(behind) > 0
      /\ f = (ah \o FieldsIn(c)) \o behind
  BY DEF ArrayIsThere
<1>1. es \in Seq(AllValues) /\ N \in Nat /\ DOMAIN es = 1 .. N
  BY TypesOfValues
<1>2. /\ \A j \in 0 .. N : ElementsUpTo(w, j, c)
      /\ \A j \in 1 .. N :
           /\ FieldsIn(w[j]) = FieldsIn(w[j - 1]) \o PacketFields(es[j], contents[es[j]])
           /\ w[j].length = w[j - 1].length
                              + BytelengthWith(contents[es[j]].length, es[j])
  BY <1>0 DEF ElementsIn
<1>3. es[k] \in AllValues /\ k \in DOMAIN v.elements  BY <1>1
<1>4. PacketType(es[k]) # NoPacket  BY <1>3 DEF ElementsHavePackets
<1>5. k - 1 \in 0 .. N /\ k \in 0 .. N  BY <1>1
<1>6. ElementsUpTo(w, k - 1, c) /\ ElementsUpTo(w, k, c)  BY <1>2, <1>5
<1>7. Counted(contents[es[k]])  BY <1>0, <1>3
<1>8. /\ FieldsIn(w[k]) = FieldsIn(w[k - 1]) \o PacketFields(es[k], contents[es[k]])
      /\ w[k].length = w[k - 1].length + BytelengthWith(contents[es[k]].length, es[k])
  BY <1>2
<1> DEFINE u == es[k]
           d == contents[u]
<1> HIDE DEF es, N
<1>9. ElementIsAt(f, ah, behind, w, k, u, d, c)
  BY <1>0, <1>3, <1>4, <1>6, <1>7, <1>8 DEF ElementIsAt
<1> QED  BY <1>9 DEF u, d, es

(* The elements of an array, one after another, from one of them on.       *)
LEMMA ElementsBetween ==
  ASSUME ElementsHavePackets,
         NEW f, NEW v \in AllValues, NEW contents, NEW c, NEW w, NEW ah, NEW behind,
         ArrayIsThere(f, v, contents, c, w, ah, behind),
         NEW inner, NEW holds, ElementsRead(inner, f, v, contents, holds),
         NEW m \in Nat, NEW j \in Nat, m + j <= Len(v.elements),
         NEW r, At(r, Total(f), Total(ah) + w[m].length), holds => Snug(r, f),
         NEW read, read = ReadElements(r, inner, j)
  PROVE  Gathered(read, r, f, v.elements, m + 1, m + j, Total(ah) + w[m + j].length)
<1> DEFINE es == v.elements
           N == Len(es)
<1>1. es \in Seq(AllValues) /\ N \in Nat /\ DOMAIN es = 1 .. N
  BY TypesOfValues
<1>4. ASSUME NEW k \in 1 .. N
      PROVE  /\ ElementIsAt(f, ah, behind, w, k, es[k], contents[es[k]], c)
             /\ ReadsPacket(inner, f, es[k], contents[es[k]], holds)
  <2>1. k \in DOMAIN v.elements /\ k \in 1 .. Len(v.elements)  BY <1>1
  <2>2. ReadsPacket(inner, f, es[k], contents[es[k]], holds)  BY <2>1 DEF ElementsRead
  <2>3. ElementIsAt(f, ah, behind, w, k, es[k], contents[es[k]], c)
    BY <2>1, ElementOfArray
  <2> QED  BY <2>2, <2>3
<1>5. PICK g : /\ g[0] = Gives(ArrayOf(<<>>), r)
               /\ \A i \in 1 .. j : g[i] = WithElement(g[i - 1], inner[g[i - 1].reader])
               /\ ReadElements(r, inner, j) = g[j]
  BY ONLY j \in Nat, ElementSteps
<1>0. m + j <= N  OBVIOUS
<1> HIDE DEF es, N
<1> DEFINE Right(i) == Gathered(g[i], r, f, es, m + 1, m + i, Total(ah) + w[m + i].length)
           S == {i \in 0 .. j : Right(i)}
<1>6. Right(0)
  <2>1. g[0].value = ArrayOf(<<>>) /\ g[0].reader = r  BY <1>5 DEF Gives
  <2>2. SubSeq(es, m + 1, m) = <<>> /\ m + 0 = m  BY <1>1
  <2>3. Keeps(r, r, f)  BY KeepsSame
  <2> QED  BY <2>1, <2>2, <2>3 DEF Gathered
<1>7. ASSUME NEW i \in 1 .. j, Right(i - 1) PROVE Right(i)
  <2> DEFINE k == m + i
             x == g[i - 1]
             u == es[k]
             d == contents[es[k]]
             y == g[i]
             q == x.reader
             first == m + 1
  <2>0. k \in 1 .. N /\ m + (i - 1) = k - 1 /\ first \in 1 .. k  BY <1>0, <1>1
  <2>1. /\ ElementIsAt(f, ah, behind, w, k, u, d, c)
        /\ ReadsPacket(inner, f, u, d, holds)
    BY <1>4, <2>0
  <2>2. k \in 1 .. Len(es)  BY <2>0 DEF N
  <2>3. Gathered(x, r, f, es, first, k - 1, Total(ah) + w[k - 1].length)  BY <1>7, <2>0
  <2>4. y = WithElement(x, inner[q])  BY <1>5
  <2>5. u = es[k] /\ q = x.reader  OBVIOUS
  <2> HIDE DEF x, u, d, y, k, q, first
  <2>6. Gathered(y, r, f, es, first, k, Total(ah) + w[k].length)
    BY <1>1, <2>0, <2>1, <2>2, <2>3, <2>4, <2>5, OneMoreRead
  <2> QED  BY <2>6 DEF y, k, first
<1> HIDE DEF Right
<1>8. 0 \in S  BY <1>6
<1>9. ASSUME NEW i \in 0 .. j - 1, i \in S PROVE i + 1 \in S
  <2>1. i + 1 \in 1 .. j /\ (i + 1) - 1 = i /\ i + 1 \in 0 .. j  OBVIOUS
  <2>2. Right(i)  BY <1>9
  <2> QED  BY <1>7, <2>1, <2>2
<1> HIDE DEF S
<1>10. 0 .. j \subseteq S  BY <1>8, <1>9, IntervalInduction
<1>11. j \in 0 .. j  OBVIOUS
<1>12. Right(j)  BY <1>10, <1>11 DEF S
<1>13. read = g[j]  BY <1>5
<1> QED  BY <1>12, <1>13 DEF Right, es

(* All of them.                                                            *)
LEMMA ElementsThere ==
  ASSUME ElementsHavePackets,
         NEW f, NEW v \in AllValues, NEW contents, NEW c, NEW w, NEW ah, NEW behind,
         ArrayIsThere(f, v, contents, c, w, ah, behind),
         NEW inner, NEW holds, ElementsRead(inner, f, v, contents, holds),
         NEW r, At(r, Total(f), Total(ah) + CountSize), holds => Snug(r, f),
         NEW read, read = ReadElements(r, inner, Len(v.elements))
  PROVE  Reads(read, r, f, Total(f), Total(ah) + c.length, v)
<1> DEFINE es == v.elements
           N == Len(es)
           m == 0
<1>1. es \in Seq(AllValues) /\ N \in Nat  BY TypesOfValues
<1>2. w[0].length = CountSize /\ c = w[N]  BY DEF ArrayIsThere, ElementsIn
<1>3. At(r, Total(f), Total(ah) + w[m].length)  BY <1>2
<1>4. m \in Nat /\ m + N <= Len(v.elements) /\ m + 1 = 1 /\ m + N = N /\ N \in Nat  BY <1>1
<1>5. read = ReadElements(r, inner, N)  OBVIOUS
<1> HIDE DEF m, N
<1>6. Gathered(read, r, f, v.elements, m + 1, m + N, Total(ah) + w[m + N].length)
  BY <1>3, <1>4, <1>5, ElementsBetween
<1>7. v = ArrayOf(es)  BY DEF ArrayIsThere
<1>8. SubSeq(es, 1, N) = es  BY <1>1 DEF N
<1> QED  BY <1>2, <1>4, <1>6, <1>7, <1>8 DEF Gathered, Reads

(* The size of one field.                                                  *)
LEMMA TotalOfOne ==
  ASSUME NEW x \in Fields
  PROVE  Total(<<x>>) = x.size /\ <<x>> \in Seq(Fields)
BY SizedFields, TotalOne

(* The content of an array, with its count first.                          *)
CountAt(f, a, v, c, ah, behind, more) ==
  /\ Total(ah) = Total(a) + HeaderSizeOf(v)
  /\ ah \in Seq(Fields) /\ behind \in Seq(Fields) /\ Total(behind) > 0
  /\ f = (ah \o FieldsIn(c)) \o behind
  /\ Among(f, ah, CountField(Len(v.elements)), more)
  /\ Total(ah) + CountSize <= Total(f)
  /\ ContentSizeOf(v, c) = c.length

(* What is before the count of an array, and what is behind it.            *)
LEMMA CountThere ==
  ASSUME ElementsHavePackets,
         NEW f, NEW a, NEW v \in AllValues, NEW c, NEW b, PacketIsAt(f, a, v, c, b),
         PacketType(v) = "ArrayWithSize",
         NEW contents, NEW w, ElementsIn(w, v, contents, c)
  PROVE  \E ah, behind, more : CountAt(f, a, v, c, ah, behind, more)
<1> DEFINE N == Len(v.elements)
           x == CountField(N)
           T == Seq(Fields)
           one == <<x>>
<1>1. N \in Nat  BY TypesOfValues
<1>2. /\ x \in Fields /\ x.size = CountSize /\ CountSize \in Nat
      /\ one \in T /\ Total(one) = CountSize
  <2>1. x \in Fields  BY <1>1, FieldsOfPackets
  <2>2. x.size = CountSize /\ CountSize \in Nat  BY DEF CountField, Field, CountSize
  <2> HIDE DEF x
  <2> QED  BY <2>1, <2>2, TotalOfOne
<1>3. PICK ah, behind : DynamicPieces(f, a, v, c, ah, behind) /\ Total(behind) > 0
  <2> DEFINE A == a \o HeaderFields(PacketType(v), DynamicSize(c.length, v))
             B == <<Footer>> \o b
  <2>1. PacketType(v) \in DynamicTypes  BY KindsOfTypes
  <2>2. DynamicPieces(f, a, v, c, A, B)  BY <2>1, DynamicFieldsThere
  <2>3. Total(B) > 0
    <3>1. Footer \in Fields /\ Footer.size = 1
      BY FieldsOfPackets DEF Footer, Field, FooterLength
    <3>2. <<Footer>> \in T /\ Total(<<Footer>>) = 1  BY <3>1, TotalOfOne
    <3>3. b \in T  BY DEF PacketIsAt
    <3> DEFINE e == <<Footer>>
    <3> HIDE DEF e
    <3>4. e \in T /\ Total(e) = 1  BY <3>2 DEF e
    <3>5. Total(e \o b) = Total(e) + Total(b) /\ Total(b) \in Nat
      BY ONLY <3>3, <3>4, TotalTogether
    <3> QED  BY <3>4, <3>5 DEF e
  <2> HIDE DEF A, B
  <2> QED  BY <2>2, <2>3
<1>4. /\ ah \in T /\ behind \in T
      /\ Total(ah) = Total(a) + DynamicHeaderSize
      /\ f = (ah \o FieldsIn(c)) \o behind
  BY <1>3 DEF DynamicPieces, ContentFields
<1>5. HeaderSizeOf(v) = DynamicHeaderSize /\ ContentSizeOf(v, c) = c.length
  BY KindsOfTypes DEF HeaderSizeOf, ContentSizeOf, DynamicSize
<1>6. PICK more \in T : FieldsIn(c) = one \o more
  <2>1. FieldsIn(w[0]) = one  BY DEF ElementsIn
  <2>2. 0 \in 0 .. N  BY <1>1
  <2>3. ElementsUpTo(w, 0, c)  BY <2>2 DEF ElementsIn
  <2>4. \E more \in T : FieldsIn(c) = FieldsIn(w[0]) \o more  BY <2>3 DEF ElementsUpTo
  <2> QED  BY <2>1, <2>4
<1> DEFINE rest == more \o behind
           fl == FieldsIn(c)
<1> HIDE DEF one, x
<1> HIDE DEF T
<1>7. ah \o (one \o more) = (ah \o one) \o more /\ ah \o one \in T
  <2>1. ah \in Seq(Fields) /\ one \in Seq(Fields) /\ more \in Seq(Fields)
    BY <1>2, <1>4 DEF T
  <2>2. ah \o (one \o more) = (ah \o one) \o more /\ ah \o one \in Seq(Fields)
    BY ONLY <2>1, FieldsAssociate
  <2> QED  BY <2>2 DEF T
<1>8. ((ah \o one) \o more) \o behind = (ah \o one) \o rest /\ rest \in T
  BY ONLY <1>4, <1>7, more \in T, FieldsAssociate DEF T, rest
<1>9. f = (ah \o one) \o rest
  <2> HIDE DEF rest
  <2> QED  BY <1>4, <1>6, <1>7, <1>8
<1> HIDE DEF rest
<1>10. Among(f, ah, x, rest)
  BY <1>2, <1>4, <1>8, <1>9 DEF Among, one, T
<1>11. Total(ah) + CountSize <= Total(f)
  <2> DEFINE h == ah \o one
  <2>1. Total(h) = Total(ah) + Total(one) /\ Total(ah) \in Nat
    BY ONLY <1>2, <1>4, TotalTogether DEF T, h
  <2> HIDE DEF h
  <2>2. f = h \o rest /\ h \in T /\ rest \in T  BY <1>7, <1>8, <1>9 DEF h
  <2>3. Total(f) = Total(h) + Total(rest) /\ Total(rest) \in Nat
    BY ONLY <2>2, TotalTogether DEF T
  <2> QED  BY <1>2, <2>1, <2>3
<1> QED  BY <1>3, <1>4, <1>5, <1>10, <1>11 DEF CountAt, x, T

(* An array whose count has been read, from there on.                      *)
ArrayBegun(f, a, v, contents, c, w, ah, behind, r, q) ==
  /\ ArrayIsThere(f, v, contents, c, w, ah, behind)
  /\ Total(ah) = Total(a) + HeaderSizeOf(v)
  /\ ContentSizeOf(v, c) = c.length
  /\ w[0].length = CountSize
  /\ CountOut(r, MemoryOfFields(f)) = Len(v.elements)
  /\ At(q, Total(f), Total(ah) + CountSize)
  /\ Keeps(r, q, f)

(* Its count is read.                                                      *)
LEMMA ArrayBegins ==
  ASSUME ElementsHavePackets,
         NEW f, NEW a, NEW v \in AllValues, NEW c, NEW b, PacketIsAt(f, a, v, c, b),
         PacketType(v) = "ArrayWithSize",
         NEW contents, \A u \in AllValues : Counted(contents[u]),
         c = ContentWith(contents, v),
         NEW r, At(r, Total(f), Total(a) + HeaderSizeOf(v)),
         NEW q, q = NumberBy(r, CountSize)
  PROVE  \E w, ah, behind : ArrayBegun(f, a, v, contents, c, w, ah, behind, r, q)
<1> DEFINE N == Len(v.elements)
           memory == MemoryOfFields(f)
           x == CountField(N)
           size == Total(f)
<1>1. PICK w : ElementsIn(w, v, contents, c)  BY ElementFields
<1>2. PICK ah, behind, more : CountAt(f, a, v, c, ah, behind, more)
  BY ONLY ElementsHavePackets, v \in AllValues, PacketIsAt(f, a, v, c, b),
          PacketType(v) = "ArrayWithSize", <1>1, CountThere
<1>3. /\ Total(ah) = Total(a) + HeaderSizeOf(v)
      /\ ah \in Seq(Fields) /\ behind \in Seq(Fields) /\ Total(behind) > 0
      /\ f = (ah \o FieldsIn(c)) \o behind
      /\ Among(f, ah, CountField(Len(v.elements)), more)
      /\ Total(ah) + CountSize <= Total(f)
      /\ ContentSizeOf(v, c) = c.length
  BY <1>2 DEF CountAt
<1>4. x.size = CountSize /\ CountSize > 0 /\ x.name = "count" /\ x.says = N
  BY DEF CountField, Field, CountSize
<1>5. Among(f, ah, x, more)  BY <1>3
<1> HIDE DEF x, size
<1>6. At(r, size, Total(ah))  BY <1>3 DEF size
<1>7. /\ x.size > 0 /\ x.name # "footer" /\ Total(ah) + x.size <= size
      /\ q = NumberBy(r, x.size)
  BY <1>3, <1>4 DEF size
<1>8. /\ At(q, size, Total(ah) + x.size)
      /\ Keeps(r, q, f)
      /\ Says(MemoryOfFields(f), NumberOut(r, x.size)) = x.says
  BY ONLY <1>5, <1>6, <1>7, NumberThere
<1>9. CountOut(r, memory) = N  BY <1>4, <1>8 DEF CountOut
<1>11. v = ArrayOf(v.elements)
  <2>1. v.is = "array"  BY TypesOfValues
  <2> QED  BY <2>1, CodecAssumption
<1>12. At(q, Total(f), Total(ah) + CountSize)  BY <1>4, <1>8 DEF size
<1>13. ArrayIsThere(f, v, contents, c, w, ah, behind)
  BY <1>1, <1>3, <1>11 DEF ArrayIsThere
<1>14. w[0].length = CountSize  BY <1>1 DEF ElementsIn
<1>15. ArrayBegun(f, a, v, contents, c, w, ah, behind, r, q)
  BY <1>3, <1>8, <1>9, <1>12, <1>13, <1>14 DEF ArrayBegun
<1> QED  BY <1>15

(* The content of an array.                                                *)
LEMMA ArrayContentThere ==
  ASSUME ElementsHavePackets,
         NEW f, NEW a, NEW v \in AllValues, NEW c, NEW b, PacketIsAt(f, a, v, c, b),
         PacketType(v) = "ArrayWithSize",
         NEW contents, \A u \in AllValues : Counted(contents[u]),
         c = ContentWith(contents, v),
         NEW inner, NEW holds, ElementsRead(inner, f, v, contents, holds),
         NEW r, holds => Snug(r, f),
         NEW size, size = Total(f), At(r, size, Total(a) + HeaderSizeOf(v)),
         NEW read,
         read = ReadContent(r, MemoryOfFields(f), inner, PacketType(v), ContentSizeOf(v, c))
  PROVE  Reads(read, r, f, size, (Total(a) + HeaderSizeOf(v)) + ContentSizeOf(v, c), v)
<1> DEFINE q == NumberBy(r, CountSize)
<1>1. read = ReadElements(q, inner, CountOut(r, MemoryOfFields(f)))
  BY ContentOfType
<1>2. q = NumberBy(r, CountSize) /\ At(r, Total(f), Total(a) + HeaderSizeOf(v))  OBVIOUS
<1> HIDE DEF q
<1>3. PICK w, ah, behind : ArrayBegun(f, a, v, contents, c, w, ah, behind, r, q)
  BY <1>2, ArrayBegins
<1>4. /\ ArrayIsThere(f, v, contents, c, w, ah, behind)
      /\ Total(ah) = Total(a) + HeaderSizeOf(v)
      /\ ContentSizeOf(v, c) = c.length
      /\ CountOut(r, MemoryOfFields(f)) = Len(v.elements)
      /\ At(q, Total(f), Total(ah) + CountSize)
      /\ Keeps(r, q, f)
  BY <1>3 DEF ArrayBegun
<1>5. read = ReadElements(q, inner, Len(v.elements))  BY <1>1, <1>4
<1>6. holds => Snug(q, f)  BY <1>4 DEF Keeps
<1>7. Reads(read, q, f, Total(f), Total(ah) + c.length, v)
  BY <1>4, <1>5, <1>6, ElementsThere
<1>8. Keeps(r, read.reader, f)  BY <1>4, <1>7, KeepsTwice DEF Reads
<1> QED  BY <1>4, <1>7, <1>8 DEF Reads

(***************************************************************************)
(* Every value is read                                                     *)
(***************************************************************************)

(* What the packet of v takes to be read: its elements are, and an         *)
(* ArrayBuffer asks for the buffers as they were written.                  *)
Readies(inner, f, v, contents, c, holds) ==
  /\ PacketType(v) = "ArrayWithSize" =>
       /\ c = ContentWith(contents, v)
       /\ \A u \in AllValues : Counted(contents[u])
       /\ ElementsRead(inner, f, v, contents, holds)
  /\ PacketType(v) = "ArrayBufferWithSize" => holds

(* The content of a packet, whatever its type.                             *)
LEMMA ContentThere ==
  ASSUME ElementsHavePackets,
         NEW f, NEW v \in AllValues, NEW contents, NEW c, NEW inner, NEW holds,
         Readies(inner, f, v, contents, c, holds),
         NEW a, NEW b, PacketIsAt(f, a, v, c, b),
         NEW r, holds => Snug(r, f),
         NEW size, size = Total(f), At(r, size, Total(a) + HeaderSizeOf(v)),
         NEW read,
         read = ReadContent(r, MemoryOfFields(f), inner, PacketType(v), ContentSizeOf(v, c))
  PROVE  Reads(read, r, f, size, (Total(a) + HeaderSizeOf(v)) + ContentSizeOf(v, c), v)
<1>1. PacketType(v) \in ValidTypes  BY PacketBounds
<1>2. CASE PacketType(v) \in FixedTypes
  BY <1>2, FixedContentThere
<1>3. CASE PacketType(v) \in BufferTypes
  BY <1>3, BufferContentThere
<1>4. CASE PacketType(v) = "ArrayBufferWithSize"
  <2>1. Snug(r, f)  BY <1>4 DEF Readies
  <2> QED  BY <1>4, <2>1, ArrayBufferContentThere
<1>5. CASE PacketType(v) = "ArrayWithSize"
  <2>1. /\ c = ContentWith(contents, v)
        /\ \A u \in AllValues : Counted(contents[u])
        /\ ElementsRead(inner, f, v, contents, holds)
    BY <1>5 DEF Readies
  <2> QED  BY <1>5, <2>1, ArrayContentThere
<1> QED  BY <1>1, <1>2, <1>3, <1>4, <1>5, KindsOfTypes

(* read, of a packet that was written there.                               *)
LEMMA PacketThere ==
  ASSUME ElementsHavePackets,
         NEW f, NEW v \in AllValues, NEW contents, NEW c, NEW inner, NEW holds,
         Readies(inner, f, v, contents, c, holds),
         NEW a, NEW b, PacketIsAt(f, a, v, c, b), Solid(a),
         NEW r, At(r, Total(f), Total(a)), holds => Snug(r, f),
         NEW read,
         read = ReadBehind(ReadHeader(r, MemoryOfFields(f).headers), MemoryOfFields(f), inner)
  PROVE  Reads(read, r, f, Total(f), EndAt(f, Total(a) + BytelengthWith(c.length, v)), v)
<1> DEFINE memory == MemoryOfFields(f)
           header == ReadHeader(r, memory.headers)
           hs == HeaderSizeOf(v)
           n == ContentSizeOf(v, c)
           size == Total(f)
           A == Total(a)
           B == BytelengthWith(c.length, v)
           content == ReadContent(header.reader, memory, inner, PacketType(v), n)
<1>1. /\ A \in Nat /\ Total(b) \in Nat /\ n \in Nat /\ hs \in {2, 6} /\ FooterLength = 1
      /\ B = hs + n + FooterLength
      /\ size = A + (hs + n + FooterLength) + Total(b)
  BY PacketBounds
<1>2. /\ header.header = RawHeader(PacketType(v), hs, n)
      /\ At(header.reader, size, A + hs)
      /\ Keeps(r, header.reader, f)
  BY PacketHeaderThere
<1>3. header.header.type = PacketType(v) /\ header.header.contentSize = n
  BY <1>2 DEF RawHeader
<1>4. read = BehindFooter(content)
  BY <1>1, <1>3 DEF ReadBehind
<1> HIDE DEF header
<1>5. holds => Snug(header.reader, f)  BY <1>2 DEF Keeps
<1>6. Reads(content, header.reader, f, size, (A + hs) + n, v)
  BY <1>2, <1>5, ContentThere
<1> HIDE DEF content, hs, n, size, A, B
<1> DEFINE pos == (A + hs) + n
           q == content.reader
           p == SkipBy(q, FooterLength)
<1>7. /\ At(q, Total(f), pos) /\ pos < Total(f) /\ FooterLength \in Nat
      /\ pos + FooterLength <= Total(f) /\ pos \in Nat
  BY <1>1, <1>6 DEF Reads, size
<1>8. content.value = v /\ Keeps(header.reader, q, f)  BY <1>6 DEF Reads
<1>9. /\ A + B = pos + FooterLength /\ A + B - 1 = pos /\ pos \in Nat
      /\ A \in Nat /\ B \in Nat /\ FooterLength = 1
  BY <1>1
<1> HIDE DEF pos, q
<1>10. /\ At(p, Total(f), IF pos + FooterLength < Total(f) THEN pos + FooterLength ELSE pos)
       /\ Keeps(q, p, f)
  BY <1>7, SkipThere
<1>11. EndAt(f, A + B)
         = IF pos + FooterLength < Total(f) THEN pos + FooterLength ELSE pos
  <2> DEFINE e == A + B
             last == pos + FooterLength
  <2>1. e = last /\ e - 1 = pos  BY <1>9
  <2> HIDE DEF e, last
  <2>2. EndAt(f, e) = IF last < Total(f) THEN last ELSE pos  BY <2>1 DEF EndAt
  <2> QED  BY <2>2 DEF e, last
<1>12. Keeps(r, p, f)  BY <1>2, <1>8, <1>10, KeepsTwice
<1>13. read.value = v /\ read.reader = p
  BY <1>4, <1>8 DEF BehindFooter, Gives, q
<1>14. Reads(read, r, f, Total(f), EndAt(f, A + B), v)
  BY <1>10, <1>11, <1>12, <1>13 DEF Reads
<1> QED  BY <1>14 DEF A, B

(* Values nested so deep are read where their packets are.                 *)
ReadsLevel(inner, f, d) ==
  \A v \in NestedIn[d] :
    PacketType(v) # NoPacket =>
      ReadsPacket(inner, f, v, ContentsNested[d][v], v \in HoldingNested[d])

(* If those nested less deep are, those that hold them can be read.        *)
LEMMA LevelReadies ==
  ASSUME ElementsHavePackets, NEW f, NEW d \in 0 .. MaxNesting, NEW inner,
         d > 0 => ReadsLevel(inner, f, d - 1), NEW v \in NestedIn[d]
  PROVE  \E contents : Readies(inner, f, v, contents, ContentsNested[d][v],
                               v \in HoldingNested[d])
<1>1. MaxNesting \in Nat  BY CodecAssumption
<1>2. v \in AllValues /\ \A k \in DOMAIN v.elements : d > 0 /\ v.elements[k] \in NestedIn[d - 1]
  BY NestedLevels
<1>3. v.elements \in Seq(AllValues)  BY <1>2, TypesOfValues
<1> DEFINE e == IF d = 0 THEN 0 ELSE d - 1
           contents == ContentsNested[e]
           c == ContentsNested[d][v]
<1>4. e \in 0 .. MaxNesting /\ (d > 0 => e = d - 1)  BY <1>1
<1> HIDE DEF e
<1>5. \A u \in AllValues : Counted(contents[u])  BY <1>4, LevelsAreCounted
<1>6. c = ContentWith(contents, v)
  <2>1. Counted(c)  BY <1>2, LevelsAreCounted
  <2>2. CASE d = 0
    <3> DEFINE es == v.elements
    <3>1. DOMAIN es = {}  BY <1>2, <2>2
    <3>2. Len(es) = 0
      <4>1. es \in Seq(AllValues) /\ Len(es) \in Nat /\ DOMAIN es = 1 .. Len(es)  BY <1>3
      <4> HIDE DEF es
      <4>2. Len(es) > 0 => 1 \in DOMAIN es  BY <4>1
      <4> QED  BY <3>1, <4>1, <4>2
    <3>3. ContentWith(contents, v) = NewArrayContent(0)
      <4>1. PICK w : /\ w[0] = NewArrayContent(Len(es))
                     /\ ContentWith(contents, v) = w[Len(es)]
        BY <1>3, ContentSteps
      <4> HIDE DEF es, contents
      <4> QED  BY <3>2, <4>1
    <3>4. c = NewArrayContent(0)  BY <1>2, <2>2, ContentsLevels
    <3> QED  BY <2>1, <3>3, <3>4
  <2>3. CASE d # 0
    <3>1. d \in 1 .. MaxNesting /\ e = d - 1  BY <1>4, <2>3
    <3>2. ContentsNested[d] = [u \in AllValues |-> ContentWith(ContentsNested[d - 1], u)]
      BY <3>1, ContentsLevels
    <3>3. c = ContentWith(ContentsNested[d - 1], v)  BY <1>2, <3>2
    <3> QED  BY <2>1, <3>1, <3>3
  <2> QED  BY <2>2, <2>3
<1> DEFINE holds == v \in HoldingNested[d]
<1>7. PacketType(v) = "ArrayBufferWithSize" => holds  BY <1>2, HoldingLevels
<1>8. ElementsRead(inner, f, v, contents, holds)
  <2> SUFFICES ASSUME NEW k \in DOMAIN v.elements
               PROVE  ReadsPacket(inner, f, v.elements[k], contents[v.elements[k]], holds)
    BY DEF ElementsRead
  <2> DEFINE u == v.elements[k]
             some == u \in HoldingNested[e]
  <2>1. d > 0 /\ u \in NestedIn[d - 1] /\ e = d - 1  BY <1>2, <1>4
  <2>2. PacketType(u) # NoPacket  BY <1>2 DEF ElementsHavePackets
  <2>3. ReadsLevel(inner, f, e)  BY <2>1
  <2>4. u \in NestedIn[e]  BY <2>1
  <2>5. some => holds
    <3>1. u \in HoldingNested[d - 1] => v \in HoldingNested[d]
      BY <1>2, <2>1, HoldingLevels
    <3> QED  BY <2>1, <3>1
  <2> HIDE DEF u
  <2>6. ReadsPacket(inner, f, u, contents[u], some)  BY <2>2, <2>3, <2>4 DEF ReadsLevel
  <2> HIDE DEF contents, some, holds
  <2>7. ReadsPacket(inner, f, u, contents[u], holds)  BY <2>5, <2>6, ReadsWithMore
  <2> QED  BY <2>7 DEF u
<1> HIDE DEF contents, c, holds
<1>9. Readies(inner, f, v, contents, c, holds)
  BY <1>5, <1>6, <1>7, <1>8 DEF Readies
<1> QED  BY <1>9 DEF c, holds

(* If those nested less deep are, so are those that hold them.             *)
LEMMA ReadsOneLevel ==
  ASSUME ElementsHavePackets, NEW f, NEW d \in 0 .. MaxNesting, NEW inner,
         d > 0 => ReadsLevel(inner, f, d - 1),
         NEW outer,
         outer = [r \in AnyReader |->
                    ReadBehind(ReadHeader(r, MemoryOfFields(f).headers), MemoryOfFields(f),
                               inner)]
  PROVE  ReadsLevel(outer, f, d)
<1>1. SUFFICES ASSUME NEW v \in NestedIn[d], PacketType(v) # NoPacket
               PROVE  ReadsPacket(outer, f, v, ContentsNested[d][v], v \in HoldingNested[d])
  BY DEF ReadsLevel
<1> DEFINE c == ContentsNested[d][v]
           holds == v \in HoldingNested[d]
<1>2. v \in AllValues  BY NestedLevels
<1>3. PICK contents : Readies(inner, f, v, contents, c, holds)  BY LevelReadies
<1> HIDE DEF c, holds
<1>4. ASSUME NEW a, NEW b, NEW r, PacketIsAt(f, a, v, c, b), Solid(a),
              At(r, Total(f), Total(a)), holds => Snug(r, f)
       PROVE  Reads(outer[r], r, f, Total(f), EndAt(f, Total(a) + BytelengthWith(c.length, v)),
                    v)
  <2> DEFINE read == ReadBehind(ReadHeader(r, MemoryOfFields(f).headers), MemoryOfFields(f),
                                inner)
             x == outer[r]
  <2>1. r \in AnyReader  BY <1>4, AtReader
  <2>2. x = read  BY <2>1
  <2> HIDE DEF x
  <2>3. Reads(x, r, f, Total(f), EndAt(f, Total(a) + BytelengthWith(c.length, v)), v)
    BY <1>2, <1>3, <1>4, <2>2, PacketThere
  <2> QED  BY <2>3 DEF x
<1>5. ReadsPacket(outer, f, v, c, holds)  BY <1>4 DEF ReadsPacket
<1> QED  BY <1>5 DEF c, holds

(* Reading reads what is nested however deep.                              *)
LEMMA ReadsEveryLevel ==
  ASSUME ElementsHavePackets, NEW f, NEW d \in 0 .. MaxNesting
  PROVE  ReadsLevel(Reading(MemoryOfFields(f)), f, d)
<1> DEFINE memory == MemoryOfFields(f)
<1>1. MaxNesting \in Nat  BY CodecAssumption
<1>2. PICK nested :
        /\ \A e \in 1 .. MaxNesting + 1 :
             nested[e] = [r \in AnyReader |->
                            ReadBehind(ReadHeader(r, memory.headers), memory, nested[e - 1])]
        /\ Reading(memory) = nested[MaxNesting + 1]
  BY ReadingLevels
<1> DEFINE Right(n) == \A e \in n + 1 .. MaxNesting + 1 : ReadsLevel(nested[e], f, n)
           S == {n \in 0 .. MaxNesting : Right(n)}
<1>3. ASSUME NEW n \in 0 .. MaxNesting, n > 0 => Right(n - 1)
      PROVE  Right(n)
  <2> SUFFICES ASSUME NEW e \in n + 1 .. MaxNesting + 1 PROVE ReadsLevel(nested[e], f, n)
    OBVIOUS
  <2> DEFINE inner == nested[e - 1]
             outer == nested[e]
  <2>1. e \in 1 .. MaxNesting + 1 /\ (n > 0 => e - 1 \in (n - 1) + 1 .. MaxNesting + 1)
    BY <1>1
  <2>2. outer = [r \in AnyReader |->
                   ReadBehind(ReadHeader(r, MemoryOfFields(f).headers), MemoryOfFields(f),
                              inner)]
    BY <1>2, <2>1
  <2>3. n > 0 => ReadsLevel(inner, f, n - 1)  BY <1>3, <2>1
  <2> HIDE DEF inner, outer
  <2>4. ReadsLevel(outer, f, n)  BY <2>2, <2>3, ReadsOneLevel
  <2> QED  BY <2>4 DEF outer
<1>4. 0 \in S
  <2>1. 0 \in 0 .. MaxNesting /\ ~(0 > 0)  BY <1>1
  <2> HIDE DEF Right
  <2> QED  BY <1>3, <2>1
<1>5. ASSUME NEW n \in 0 .. MaxNesting - 1, n \in S PROVE n + 1 \in S
  <2>1. n + 1 \in 0 .. MaxNesting /\ (n + 1) - 1 = n  BY <1>1
  <2>2. Right(n)  BY <1>5
  <2> HIDE DEF Right
  <2> QED  BY <1>3, <2>1, <2>2
<1> HIDE DEF S
<1>6. 0 .. MaxNesting \subseteq S  BY <1>1, <1>4, <1>5, IntervalInduction
<1>7. Right(d)  BY <1>6 DEF S
<1>8. MaxNesting + 1 \in d + 1 .. MaxNesting + 1  BY <1>1
<1> QED  BY <1>2, <1>7, <1>8

(* read gives the value that was written, wherever its packet is: with     *)
(* what is in it at every level, and the reader is behind it.              *)
LEMMA EveryValueIsRead ==
  ASSUME ElementsHavePackets, NEW f, NEW v \in AllValues, PacketType(v) # NoPacket
  PROVE  ReadsPacket(Reading(MemoryOfFields(f)), f, v, Contents[v], HoldsArrayBuffer(v))
<1> DEFINE memory == MemoryOfFields(f)
<1>1. MaxNesting \in 0 .. MaxNesting /\ v \in NestedIn[MaxNesting]  BY CodecAssumption
<1>2. ReadsLevel(Reading(memory), f, MaxNesting)  BY <1>1, ReadsEveryLevel
<1> HIDE DEF memory
<1>3. ReadsPacket(Reading(memory), f, v, ContentsNested[MaxNesting][v],
                  v \in HoldingNested[MaxNesting])
  BY <1>1, <1>2 DEF ReadsLevel
<1> QED
  BY <1>3 DEF Contents, HoldsArrayBuffer, HoldingArrayBuffer, memory

(* So can the content of a packet, when its header was read.               *)
LEMMA EveryValueReadies ==
  ASSUME ElementsHavePackets, NEW f, NEW v \in AllValues
  PROVE  \E contents : Readies(Reading(MemoryOfFields(f)), f, v, contents, Contents[v],
                               HoldsArrayBuffer(v))
<1> DEFINE inner == Reading(MemoryOfFields(f))
           d == MaxNesting
<1>1. d \in Nat /\ d \in 0 .. MaxNesting /\ v \in NestedIn[d]  BY CodecAssumption
<1>2. d > 0 => ReadsLevel(inner, f, d - 1)
  <2>1. d > 0 => d - 1 \in 0 .. MaxNesting  BY <1>1
  <2> QED  BY <2>1, ReadsEveryLevel
<1> HIDE DEF inner, d
<1>3. \E contents : Readies(inner, f, v, contents, ContentsNested[d][v],
                            v \in HoldingNested[d])
  BY <1>1, <1>2, LevelReadies
<1> QED  BY <1>3 DEF inner, d, Contents, HoldsArrayBuffer, HoldingArrayBuffer

(***************************************************************************)
(* How the buffers of packets are cut                                      *)
(***************************************************************************)

(* The first of what is put together.                                      *)
LEMMA FirstOfTwo ==
  ASSUME NEW T, NEW s \in Seq(T), NEW t \in Seq(T)
  PROVE  /\ Len(s) \in Nat /\ Len(t) \in Nat
         /\ s \o t \in Seq(T) /\ Len(s \o t) = Len(s) + Len(t)
         /\ \A k \in 0 .. Len(s) : /\ SubSeq(s \o t, 1, k) = SubSeq(s, 1, k)
                                   /\ SubSeq(s, 1, k) \in Seq(T)
         /\ \A k \in 0 .. Len(t) : /\ SubSeq(s \o t, 1, Len(s) + k) = s \o SubSeq(t, 1, k)
                                   /\ SubSeq(t, 1, k) \in Seq(T)
<1> DEFINE u == s \o t
           m == Len(s)
           n == Len(t)
<1>1. /\ m \in Nat /\ n \in Nat /\ u \in Seq(T) /\ Len(u) = m + n
      /\ \A k \in 1 .. m : u[k] = s[k]
      /\ \A k \in 1 .. n : u[m + k] = t[k]
  OBVIOUS
<1> HIDE DEF u
<1>2. ASSUME NEW k \in 0 .. m
      PROVE  SubSeq(u, 1, k) = SubSeq(s, 1, k) /\ SubSeq(s, 1, k) \in Seq(T)
  <2> DEFINE x == SubSeq(u, 1, k)
             y == SubSeq(s, 1, k)
  <2>1. x \in Seq(T) /\ Len(x) = k /\ \A i \in 1 .. k : x[i] = u[i]  BY <1>1
  <2>2. y \in Seq(T) /\ Len(y) = k /\ \A i \in 1 .. k : y[i] = s[i]  BY <1>1
  <2> HIDE DEF x, y
  <2>3. \A i \in 1 .. k : x[i] = y[i]  BY <1>1, <2>1, <2>2
  <2>4. x = y  BY <2>1, <2>2, <2>3, SeqEqual
  <2> QED  BY <2>2, <2>4 DEF x, y
<1>3. ASSUME NEW k \in 0 .. n
      PROVE  SubSeq(u, 1, m + k) = s \o SubSeq(t, 1, k) /\ SubSeq(t, 1, k) \in Seq(T)
  <2> DEFINE x == SubSeq(u, 1, m + k)
             y == SubSeq(t, 1, k)
             z == s \o y
  <2>1. x \in Seq(T) /\ Len(x) = m + k /\ \A i \in 1 .. m + k : x[i] = u[i]  BY <1>1
  <2>2. y \in Seq(T) /\ Len(y) = k /\ \A i \in 1 .. k : y[i] = t[i]  BY <1>1
  <2> HIDE DEF x, y
  <2>3. /\ z \in Seq(T) /\ Len(z) = m + k
        /\ \A i \in 1 .. m : z[i] = s[i]
        /\ \A i \in 1 .. k : z[m + i] = y[i]
    <3>1. Len(y) = k /\ y \in Seq(T)  BY <2>2
    <3>2. /\ z \in Seq(T) /\ Len(z) = m + Len(y)
          /\ \A i \in 1 .. m : z[i] = s[i]
          /\ \A i \in 1 .. Len(y) : z[m + i] = y[i]
      BY <3>1
    <3> QED  BY <3>1, <3>2
  <2> HIDE DEF z, m, n
  <2>4. ASSUME NEW i \in 1 .. m + k PROVE x[i] = z[i]
    <3>1. CASE i \in 1 .. m
      <4>1. x[i] = u[i] /\ u[i] = s[i] /\ z[i] = s[i]  BY <1>1, <2>1, <2>3, <3>1
      <4> QED  BY <4>1
    <3>2. CASE i \notin 1 .. m
      <4> DEFINE j == i - m
      <4>1. j \in 1 .. k /\ j \in 1 .. n /\ i = m + j  BY <1>1, <3>2
      <4> HIDE DEF j
      <4>2. u[m + j] = t[j] /\ y[j] = t[j] /\ z[m + j] = y[j]  BY <1>1, <2>2, <2>3, <4>1
      <4>3. x[i] = u[i]  BY <2>1
      <4> QED  BY <4>1, <4>2, <4>3
    <3> QED  BY <3>1, <3>2
  <2>5. x = z  BY <2>1, <2>3, <2>4, SeqEqual
  <2> QED  BY <2>2, <2>5 DEF x, y, z
<1> QED  BY <1>1, <1>2, <1>3 DEF u

(* The places of fields put together.                                      *)
LEMMA PlacesOfTwo ==
  ASSUME NEW f \in Seq(Fields), NEW g \in Seq(Fields)
  PROVE  LET h == f \o g
         IN /\ \A k \in 1 .. Len(f) : PlaceOf(h, k).lo = PlaceOf(f, k).lo
                                      /\ PlaceOf(h, k).hi = PlaceOf(f, k).hi
            /\ \A k \in 1 .. Len(g) :
                 /\ PlaceOf(h, Len(f) + k).lo = Total(f) + PlaceOf(g, k).lo
                 /\ PlaceOf(h, Len(f) + k).hi = Total(f) + PlaceOf(g, k).hi
<1> DEFINE h == f \o g
           n == Len(f)
<1>1. /\ n \in Nat /\ Len(g) \in Nat /\ h \in Seq(Fields) /\ Len(h) = n + Len(g)
      /\ \A k \in 0 .. n : SubSeq(h, 1, k) = SubSeq(f, 1, k)
      /\ \A k \in 0 .. Len(g) : /\ SubSeq(h, 1, n + k) = f \o SubSeq(g, 1, k)
                                /\ SubSeq(g, 1, k) \in Seq(Fields)
  BY FirstOfTwo
<1>2. /\ \A k \in 1 .. n : h[k] = f[k]
      /\ \A k \in 1 .. Len(g) : h[n + k] = g[k]
  BY TwoFields
<1> HIDE DEF h
<1>3. ASSUME NEW k \in 1 .. n
      PROVE  PlaceOf(h, k).lo = PlaceOf(f, k).lo /\ PlaceOf(h, k).hi = PlaceOf(f, k).hi
  <2>1. k - 1 \in 0 .. n  BY <1>1
  <2>2. SubSeq(h, 1, k - 1) = SubSeq(f, 1, k - 1) /\ h[k] = f[k]  BY <1>1, <1>2, <2>1
  <2> QED  BY <2>2 DEF PlaceOf
<1>4. ASSUME NEW k \in 1 .. Len(g)
      PROVE  /\ PlaceOf(h, n + k).lo = Total(f) + PlaceOf(g, k).lo
             /\ PlaceOf(h, n + k).hi = Total(f) + PlaceOf(g, k).hi
  <2> DEFINE s == SubSeq(g, 1, k - 1)
  <2>1. k - 1 \in 0 .. Len(g) /\ n + (k - 1) = (n + k) - 1  BY <1>1
  <2>2. SubSeq(h, 1, (n + k) - 1) = f \o s /\ s \in Seq(Fields) /\ h[n + k] = g[k]
    BY <1>1, <1>2, <2>1
  <2> HIDE DEF s
  <2>3. Total(f \o s) = Total(f) + Total(s) /\ Total(f) \in Nat /\ Total(s) \in Nat
    BY <2>2, TotalTogether
  <2>4. g[k].size \in Nat
    <3>1. g[k] \in Fields  OBVIOUS
    <3> QED  BY <3>1, SizedFields
  <2>5. /\ PlaceOf(h, n + k).lo = Total(f \o s)
        /\ PlaceOf(h, n + k).hi = Total(f \o s) + g[k].size
        /\ PlaceOf(g, k).lo = Total(s)
        /\ PlaceOf(g, k).hi = Total(s) + g[k].size
    BY <2>2 DEF PlaceOf, s
  <2> QED  BY <2>3, <2>4, <2>5
<1> QED  BY <1>3, <1>4 DEF h

(* The places of buffers put together.                                     *)
LEMMA BuffersOfTwo ==
  ASSUME NEW s \in Seq(Seq(Fields)), NEW t \in Seq(Seq(Fields))
  PROVE  LET d == Places(s \o t)
         IN /\ Len(d) = Len(s) + Len(t) /\ Len(s) \in Nat /\ Len(t) \in Nat
            /\ \A k \in 1 .. Len(s) : /\ d[k].lo = Places(s)[k].lo
                                      /\ d[k].hi = Places(s)[k].hi
            /\ \A k \in 1 .. Len(t) : /\ d[Len(s) + k].lo = Length(s) + Places(t)[k].lo
                                      /\ d[Len(s) + k].hi = Length(s) + Places(t)[k].hi
<1> DEFINE T == Seq(Fields)
           u == s \o t
           m == Len(s)
           n == Len(t)
<1>1. s \in Seq(T) /\ t \in Seq(T)  OBVIOUS
<1> HIDE DEF T
<1>2. /\ m \in Nat /\ n \in Nat /\ u \in Seq(T) /\ Len(u) = m + n
      /\ \A k \in 0 .. m : SubSeq(u, 1, k) = SubSeq(s, 1, k)
      /\ \A k \in 0 .. n : /\ SubSeq(u, 1, m + k) = s \o SubSeq(t, 1, k)
                           /\ SubSeq(t, 1, k) \in Seq(T)
  BY <1>1, FirstOfTwo
<1> HIDE DEF u
<1>3. DOMAIN u = 1 .. m + n /\ DOMAIN s = 1 .. m /\ DOMAIN t = 1 .. n  BY <1>1, <1>2
<1>4. \A k \in 0 .. n : Length(SubSeq(u, 1, m + k)) = Length(s) + Length(SubSeq(t, 1, k))
  BY <1>2, LengthConcat DEF T
<1>5. /\ Len(Places(u)) = m + n
      /\ \A k \in 1 .. m + n : /\ Places(u)[k].lo = Length(SubSeq(u, 1, k - 1))
                               /\ Places(u)[k].hi = Length(SubSeq(u, 1, k))
  <2>1. m + n \in Nat  BY <1>2
  <2> HIDE DEF m, n
  <2> QED  BY <1>3, <2>1 DEF Places
<1>6. /\ \A k \in 1 .. m : /\ Places(s)[k].lo = Length(SubSeq(s, 1, k - 1))
                           /\ Places(s)[k].hi = Length(SubSeq(s, 1, k))
      /\ \A k \in 1 .. n : /\ Places(t)[k].lo = Length(SubSeq(t, 1, k - 1))
                           /\ Places(t)[k].hi = Length(SubSeq(t, 1, k))
  BY <1>3 DEF Places
<1> HIDE DEF m, n
<1>7. ASSUME NEW k \in 1 .. m
      PROVE  Places(u)[k].lo = Places(s)[k].lo /\ Places(u)[k].hi = Places(s)[k].hi
  <2>1. k \in 0 .. m /\ k - 1 \in 0 .. m /\ k \in 1 .. m + n  BY <1>2
  <2>2. SubSeq(u, 1, k) = SubSeq(s, 1, k) /\ SubSeq(u, 1, k - 1) = SubSeq(s, 1, k - 1)
    BY <1>2, <2>1
  <2> QED  BY <1>5, <1>6, <2>1, <2>2
<1>8. ASSUME NEW k \in 1 .. n
      PROVE  /\ Places(u)[m + k].lo = Length(s) + Places(t)[k].lo
             /\ Places(u)[m + k].hi = Length(s) + Places(t)[k].hi
  <2>1. k \in 0 .. n /\ k - 1 \in 0 .. n /\ m + k \in 1 .. m + n /\ (m + k) - 1 = m + (k - 1)
    BY <1>2
  <2>2. /\ Length(SubSeq(u, 1, m + k)) = Length(s) + Length(SubSeq(t, 1, k))
        /\ Length(SubSeq(u, 1, m + (k - 1))) = Length(s) + Length(SubSeq(t, 1, k - 1))
    BY <1>4, <2>1
  <2> QED  BY <1>5, <1>6, <2>1, <2>2
<1> QED  BY <1>2, <1>5, <1>7, <1>8 DEF u, m, n

(* Buffers follow one another.                                             *)
LEMMA PlacesSpread ==
  ASSUME NEW s \in Seq(Seq(Fields)), s # <<>>
  PROVE  Spread(Places(s), Length(s))
<1> DEFINE n == Len(s)
           Upto(k) == Length(SubSeq(s, 1, k))
           b == Places(s)
<1>1. n \in Nat /\ n # 0 /\ DOMAIN s = 1 .. n  OBVIOUS
<1>2. \A k \in 0 .. n : SubSeq(s, 1, k) \in Seq(Seq(Fields))
  <2> DEFINE T == Seq(Fields)
  <2>1. s \in Seq(T)  OBVIOUS
  <2> HIDE DEF T
  <2>2. \A k \in 0 .. n : SubSeq(s, 1, k) \in Seq(T)  BY <1>1, <2>1
  <2> QED  BY <2>2 DEF T
<1>3. \A k \in 0 .. n : Upto(k) \in Nat  BY <1>2, LengthConcat
<1>4. Upto(0) = 0
  <2>1. SubSeq(s, 1, 0) = <<>>  OBVIOUS
  <2> QED  BY <2>1, FlattenNothing, TotalNothing DEF Length
<1>5. Upto(n) = Length(s)
  <2>1. SubSeq(s, 1, n) = s  OBVIOUS
  <2> QED  BY <2>1
<1>6. \A k \in 1 .. n : Upto(k - 1) <= Upto(k)
  <2>1. ASSUME NEW k \in 1 .. n PROVE Upto(k - 1) <= Upto(k)
    <3> DEFINE front == SubSeq(s, 1, k - 1)
               last == <<s[k]>>
    <3>1. SubSeq(s, 1, k) = front \o last
      <4> DEFINE T == Seq(Fields)
      <4>1. s \in Seq(T)  OBVIOUS
      <4> HIDE DEF T
      <4> QED  BY <1>1, <4>1
    <3>2. k - 1 \in 0 .. n  OBVIOUS
    <3>3. front \in Seq(Seq(Fields))  BY <1>2, <3>2
    <3>4. last \in Seq(Seq(Fields))  OBVIOUS
    <3> HIDE DEF front, last
    <3>5. Length(front \o last) = Length(front) + Length(last)
          /\ Length(front) \in Nat /\ Length(last) \in Nat
      BY <3>3, <3>4, LengthConcat
    <3>6. Length(front) <= Length(front \o last)  BY <3>5
    <3> QED  BY <3>1, <3>6 DEF front
  <2> QED  BY <2>1
<1>7. b = [k \in 1 .. n |-> [lo |-> Upto(k - 1), hi |-> Upto(k)]]  BY <1>1 DEF Places
<1>8. Len(b) = n /\ \A k \in 1 .. n : b[k].lo = Upto(k - 1) /\ b[k].hi = Upto(k)
  BY <1>1, <1>7
<1>9. b \in Seq(Buffer)
  <2> HIDE DEF Upto
  <2>1. \A k \in 1 .. n : [lo |-> Upto(k - 1), hi |-> Upto(k)] \in Buffer
    BY <1>3 DEF Buffer
  <2> QED  BY <1>1, <1>7, <2>1
<1> HIDE DEF n, Upto, b
<1>10. b # <<>>  BY <1>1, <1>8
<1>11. Contiguous(b)
  <2>1. ASSUME NEW k \in 1 .. n - 1 PROVE b[k].hi = b[k + 1].lo
    <3>1. k \in 1 .. n /\ k + 1 \in 1 .. n /\ (k + 1) - 1 = k  BY <1>1
    <3> QED  BY <1>8, <3>1
  <2> QED  BY <1>8, <2>1 DEF Contiguous
<1>12. 1 \in 1 .. n /\ n \in 1 .. n /\ 1 - 1 = 0  BY <1>1
<1>13. b[1].lo = 0 /\ b[Len(b)].hi = Length(s)  BY <1>4, <1>5, <1>8, <1>12
<1>14. \A k \in 1 .. Len(b) : b[k].lo <= b[k].hi  BY <1>6, <1>8
<1>15. Spread(b, Length(s))  BY <1>9, <1>10, <1>11, <1>13, <1>14 DEF Spread
<1> QED  BY <1>15 DEF b

(* Buffers that are tidy, and the last of them has bytes.                  *)
Orderly(s) ==
  /\ s \in Seq(Seq(Fields))
  /\ Tidy(Places(s), FlattenSeq(s))
  /\ s = <<>> \/ Total(s[Len(s)]) > 0

(* The last buffer ends where all end, after the others.                   *)
LEMMA LastBuffer ==
  ASSUME NEW s \in Seq(Seq(Fields)), s # <<>>, Total(s[Len(s)]) > 0
  PROVE  LET b == Places(s)
         IN /\ Len(b) = Len(s) /\ Len(s) \in Nat
            /\ \A k \in 1 .. Len(s) : /\ b[k].lo \in Nat /\ b[k].hi \in Nat
                                      /\ b[k].lo = b[k].hi => b[k].lo < Length(s)
<1> DEFINE b == Places(s)
           n == Len(s)
           T == Seq(Fields)
<1>1. s \in Seq(T) /\ n \in Nat /\ n > 0 /\ DOMAIN s = 1 .. n /\ s[n] \in T  OBVIOUS
<1>2. Len(b) = n /\ b[n].lo = Length(SubSeq(s, 1, n - 1)) /\ b[n].hi = Length(SubSeq(s, 1, n))
  BY <1>1 DEF Places
<1>3. Spread(b, Length(s)) /\ Length(s) \in Nat  BY PlacesSpread, LengthConcat
<1>4. /\ \A k \in 1 .. n : b[k].lo \in Nat /\ b[k].hi \in Nat /\ b[k].lo <= b[k].hi
      /\ \A k \in 1 .. n - 1 : b[k].hi = b[k + 1].lo
  BY <1>2, <1>3, SpreadBuffers
<1>5. b[n].lo < b[n].hi /\ b[n].hi = Length(s)
  <2> DEFINE front == SubSeq(s, 1, n - 1)
             one == <<s[n]>>
  <2>1. b[n].hi = Length(s)  BY <1>2, <1>3 DEF Spread
  <2>2. s = front \o one /\ front \in Seq(T) /\ one \in Seq(T)
    <3> HIDE DEF T
    <3>1. ASSUME NEW k \in 1 .. n
          PROVE  /\ SubSeq(s, 1, k) = SubSeq(s, 1, k - 1) \o <<s[k]>>
                 /\ SubSeq(s, 1, k - 1) \in Seq(T) /\ <<s[k]>> \in Seq(T)
      BY <1>1
    <3>2. n \in 1 .. n /\ SubSeq(s, 1, n) = s  BY <1>1
    <3> QED  BY <3>1, <3>2
  <2>3. Length(one) = Total(s[n])  BY <1>1, LengthOne
  <2> HIDE DEF one
  <2>4. Length(front \o one) = Length(front) + Length(one) /\ Length(front) \in Nat
    BY <2>2, LengthConcat
  <2>5. Length(one) \in Nat  BY <2>2, LengthConcat
  <2> HIDE DEF front
  <2>6. Length(s) = Length(front) + Length(one)  BY <2>2, <2>4
  <2> QED  BY <1>2, <2>1, <2>3, <2>4, <2>5, <2>6 DEF front
<1> HIDE DEF b, n
<1>6. ASSUME NEW k \in 1 .. n, b[k].lo = b[k].hi
      PROVE  b[k].lo < Length(s)
  <2>1. k # n /\ n \in 1 .. n
    <3>1. n \in 1 .. n  BY <1>1
    <3>2. b[n].lo \in Nat /\ b[n].hi \in Nat  BY <1>4, <3>1
    <3>3. b[n].lo # b[n].hi  BY <1>5, <3>2
    <3> QED  BY <1>6, <3>1, <3>3
  <2> DEFINE S == {j \in k + 1 .. n : b[k].hi <= b[j].lo}
  <2>2. k + 1 \in S
    <3>1. k \in 1 .. n - 1 /\ k + 1 \in k + 1 .. n /\ k + 1 \in 1 .. n  BY <1>1, <2>1
    <3>2. b[k].hi = b[k + 1].lo /\ b[k].hi \in Nat  BY <1>4, <3>1
    <3> QED  BY <3>1, <3>2
  <2>3. ASSUME NEW j \in k + 1 .. n - 1, j \in S PROVE j + 1 \in S
    <3>1. j \in 1 .. n /\ j + 1 \in 1 .. n /\ j \in 1 .. n - 1 /\ j + 1 \in k + 1 .. n
      BY <1>1
    <3>2. b[k].hi <= b[j].lo /\ b[j].lo <= b[j].hi /\ b[j].hi = b[j + 1].lo
      BY <1>4, <2>3, <3>1
    <3>3. b[k].hi \in Nat /\ b[j].lo \in Nat /\ b[j].hi \in Nat  BY <1>4, <3>1
    <3> QED  BY <3>1, <3>2, <3>3
  <2> HIDE DEF S
  <2>4. k + 1 .. n \subseteq S
    <3>1. k + 1 \in Nat /\ n \in Nat  BY <1>1, <2>1
    <3> QED  BY <2>2, <2>3, <3>1, IntervalInduction
  <2>5. n \in k + 1 .. n  BY <1>1, <2>1
  <2>6. b[k].hi <= b[n].lo  BY <2>4, <2>5 DEF S
  <2>7. b[k].hi \in Nat /\ b[n].lo \in Nat /\ b[n].hi \in Nat  BY <1>4, <2>1
  <2> QED  BY <1>5, <1>6, <2>6, <2>7
<1> QED  BY <1>1, <1>2, <1>4, <1>6 DEF b, n

(* A field ends where all fields end, or before.                           *)
LEMMA FieldWithin ==
  ASSUME NEW f \in Seq(Fields), NEW k \in 1 .. Len(f)
  PROVE  /\ PlaceOf(f, k).lo \in Nat /\ PlaceOf(f, k).hi \in Nat /\ Total(f) \in Nat
         /\ PlaceOf(f, k).hi = PlaceOf(f, k).lo + f[k].size /\ f[k].size \in Nat
         /\ PlaceOf(f, k).hi <= Total(f)
<1> DEFINE T == Fields
           a == SubSeq(f, 1, k)
           z == SubSeq(f, k + 1, Len(f))
<1>1. f \in Seq(T) /\ k \in 1 .. Len(f) /\ Len(f) \in Nat  OBVIOUS
<1> HIDE DEF T
<1>2. f = a \o z /\ a \in Seq(T) /\ z \in Seq(T)  BY <1>1
<1> HIDE DEF a, z
<1>3. Total(a \o z) = Total(a) + Total(z) /\ Total(a) \in Nat /\ Total(z) \in Nat
  BY <1>2, TotalTogether DEF T
<1>4. /\ PlaceOf(f, k).lo \in Nat /\ f[k].size \in Nat
      /\ PlaceOf(f, k).hi = PlaceOf(f, k).lo + f[k].size
      /\ PlaceOf(f, k).hi = Total(a)
  BY PlaceOfField DEF a
<1>5. Total(f) = Total(a) + Total(z)  BY <1>2, <1>3
<1> QED  BY <1>3, <1>4, <1>5

(* The fields and the buffers of both are where they were, those of the    *)
(* second behind all of the first.                                         *)
Shifted(h, d, f, b, g, e) ==
  /\ Len(h) = Len(f) + Len(g) /\ Len(d) = Len(b) + Len(e)
  /\ Len(f) \in Nat /\ Len(g) \in Nat /\ Len(b) \in Nat /\ Len(e) \in Nat /\ Total(f) \in Nat
  /\ \A k \in 1 .. Len(f) :
       /\ h[k] = f[k]
       /\ PlaceOf(h, k).lo = PlaceOf(f, k).lo /\ PlaceOf(h, k).hi = PlaceOf(f, k).hi
       /\ PlaceOf(f, k).lo \in Nat /\ PlaceOf(f, k).hi \in Nat
       /\ f[k].size > 0 => PlaceOf(f, k).lo < Total(f)
  /\ \A k \in 1 .. Len(g) :
       /\ h[Len(f) + k] = g[k]
       /\ PlaceOf(h, Len(f) + k).lo = Total(f) + PlaceOf(g, k).lo
       /\ PlaceOf(h, Len(f) + k).hi = Total(f) + PlaceOf(g, k).hi
       /\ PlaceOf(g, k).lo \in Nat /\ PlaceOf(g, k).hi \in Nat
  /\ \A m \in 1 .. Len(b) :
       /\ d[m].lo = b[m].lo /\ d[m].hi = b[m].hi
       /\ b[m].lo \in Nat /\ b[m].hi \in Nat
       /\ b[m].lo = b[m].hi => b[m].lo < Total(f)
  /\ \A m \in 1 .. Len(e) :
       /\ d[Len(b) + m].lo = Total(f) + e[m].lo /\ d[Len(b) + m].hi = Total(f) + e[m].hi
       /\ e[m].lo \in Nat /\ e[m].hi \in Nat

(* The first or the second.                                                *)
LEMMA OneOfTwo ==
  ASSUME NEW n \in Nat, NEW m \in Nat, NEW k \in 1 .. n + m
  PROVE  k \in 1 .. n \/ \E j \in 1 .. m : k = n + j
<1>1. CASE k > n
  <2>1. k - n \in 1 .. m /\ k = n + (k - n)  BY <1>1
  <2> QED  BY <2>1
<1> QED  BY <1>1

(* No field is cut: what holds of two lists of buffers holds of both      *)
(* together.                                                               *)
LEMMA UncutTogether ==
  ASSUME NEW h, NEW d, NEW f, NEW b, NEW g, NEW e, Shifted(h, d, f, b, g, e),
         Uncut(b, f), Uncut(e, g)
  PROVE  Uncut(d, h)
<1> DEFINE n == Len(f)
           l == Len(b)
<1>1. ASSUME NEW k \in 1 .. n, h[k].size > 0
      PROVE  \E m \in 1 .. Len(d) : InBuffer(d, h, m, k)
  <2>1. PICK m \in 1 .. l : InBuffer(b, f, m, k)  BY <1>1 DEF Uncut, Shifted
  <2>2. m \in 1 .. Len(d)  BY DEF Shifted
  <2>3. InBuffer(d, h, m, k)  BY <2>1 DEF InBuffer, Shifted
  <2> QED  BY <2>2, <2>3
<1>2. ASSUME NEW k \in 1 .. Len(g), h[n + k].size > 0
      PROVE  \E m \in 1 .. Len(d) : InBuffer(d, h, m, n + k)
  <2>1. PICK m \in 1 .. Len(e) : InBuffer(e, g, m, k)  BY <1>2 DEF Uncut, Shifted
  <2>2. l + m \in 1 .. Len(d)  BY DEF Shifted
  <2>3. /\ d[l + m].lo = Total(f) + e[m].lo /\ d[l + m].hi = Total(f) + e[m].hi
        /\ e[m].lo \in Nat /\ e[m].hi \in Nat
        /\ PlaceOf(h, n + k).lo = Total(f) + PlaceOf(g, k).lo
        /\ PlaceOf(h, n + k).hi = Total(f) + PlaceOf(g, k).hi
        /\ PlaceOf(g, k).lo \in Nat /\ PlaceOf(g, k).hi \in Nat /\ Total(f) \in Nat
    BY DEF Shifted
  <2> DEFINE i == l + m
             j == n + k
  <2> HIDE DEF i, j
  <2>4. /\ d[i].lo = Total(f) + e[m].lo /\ d[i].hi = Total(f) + e[m].hi
        /\ PlaceOf(h, j).lo = Total(f) + PlaceOf(g, k).lo
        /\ PlaceOf(h, j).hi = Total(f) + PlaceOf(g, k).hi
    BY <2>3 DEF i, j
  <2>5. e[m].lo <= PlaceOf(g, k).lo /\ PlaceOf(g, k).hi <= e[m].hi
    BY <2>1 DEF InBuffer
  <2> DEFINE t == Total(f)
             x == e[m].lo
             y == e[m].hi
             p == PlaceOf(g, k).lo
             q == PlaceOf(g, k).hi
  <2>7. /\ x \in Nat /\ y \in Nat /\ p \in Nat /\ q \in Nat /\ t \in Nat
        /\ x <= p /\ q <= y
        /\ d[i].lo = t + x /\ d[i].hi = t + y
        /\ PlaceOf(h, j).lo = t + p /\ PlaceOf(h, j).hi = t + q
    BY <2>3, <2>4, <2>5
  <2> HIDE DEF t, x, y, p, q
  <2>8. t + x <= t + p /\ t + q <= t + y  BY <2>7
  <2>6. InBuffer(d, h, i, j)  BY <2>7, <2>8 DEF InBuffer
  <2> QED  BY <2>2, <2>6 DEF i, j
<1>3. Len(h) = n + Len(g) /\ n \in Nat /\ Len(g) \in Nat  BY DEF Shifted
<1> HIDE DEF n, l
<1>4. ASSUME NEW k \in 1 .. Len(h), h[k].size > 0
      PROVE  \E m \in 1 .. Len(d) : InBuffer(d, h, m, k)
  <2>1. k \in 1 .. n \/ \E j \in 1 .. Len(g) : k = n + j  BY <1>3, OneOfTwo
  <2> QED  BY <1>1, <1>2, <1>4, <2>1
<1> QED  BY <1>4 DEF Uncut

(* The same of what comes behind an empty buffer.                          *)
LEMMA FootersTogether ==
  ASSUME NEW h, NEW d, NEW f, NEW b, NEW g, NEW e, Shifted(h, d, f, b, g, e),
         FootersBehindEmpty(b, f), FootersBehindEmpty(e, g)
  PROVE  FootersBehindEmpty(d, h)
<1> DEFINE n == Len(f)
           l == Len(b)
<1>1. ASSUME NEW m \in 1 .. Len(d), NEW k \in 1 .. Len(h),
             d[m].lo = d[m].hi, h[k].size > 0, PlaceOf(h, k).lo = d[m].lo
      PROVE  h[k].name = "footer"
  <2>1. /\ Len(h) = n + Len(g) /\ n \in Nat /\ Len(g) \in Nat
        /\ Len(d) = l + Len(e) /\ l \in Nat /\ Len(e) \in Nat
    BY DEF Shifted
  <2>2. CASE m \in 1 .. l /\ k \in 1 .. n
    <3>1. /\ d[m].lo = b[m].lo /\ d[m].hi = b[m].hi /\ h[k] = f[k]
          /\ PlaceOf(h, k).lo = PlaceOf(f, k).lo
      BY <2>2 DEF Shifted
    <3>2. b[m].lo = b[m].hi /\ f[k].size > 0 /\ PlaceOf(f, k).lo = b[m].lo
      BY <1>1, <3>1
    <3> QED  BY <2>2, <3>1, <3>2 DEF FootersBehindEmpty
  <2>3. ASSUME NEW i \in 1 .. Len(e), m = l + i, k \in 1 .. n
        PROVE  FALSE
    <3>1. /\ PlaceOf(f, k).lo < Total(f) /\ PlaceOf(f, k).lo \in Nat
          /\ PlaceOf(h, k).lo = PlaceOf(f, k).lo
          /\ d[l + i].lo = Total(f) + e[i].lo /\ e[i].lo \in Nat /\ Total(f) \in Nat
      BY <1>1, <2>3 DEF Shifted
    <3> HIDE DEF l
    <3> QED  BY <1>1, <2>3, <3>1
  <2>4. ASSUME NEW j \in 1 .. Len(g), k = n + j, m \in 1 .. l
        PROVE  FALSE
    <3>1. /\ PlaceOf(h, n + j).lo = Total(f) + PlaceOf(g, j).lo
          /\ PlaceOf(g, j).lo \in Nat /\ Total(f) \in Nat
          /\ d[m].lo = b[m].lo /\ d[m].hi = b[m].hi /\ b[m].lo \in Nat
          /\ b[m].lo = b[m].hi => b[m].lo < Total(f)
      BY <2>4 DEF Shifted
    <3> HIDE DEF n
    <3>2. b[m].lo < Total(f)  BY <1>1, <3>1
    <3>3. PlaceOf(h, n + j).lo = b[m].lo  BY <1>1, <2>4, <3>1
    <3> QED  BY <3>1, <3>2, <3>3
  <2>5. ASSUME NEW j \in 1 .. Len(g), k = n + j, NEW i \in 1 .. Len(e), m = l + i
        PROVE  h[k].name = "footer"
    <3>1. /\ PlaceOf(h, n + j).lo = Total(f) + PlaceOf(g, j).lo
          /\ PlaceOf(g, j).lo \in Nat /\ Total(f) \in Nat /\ h[n + j] = g[j]
          /\ d[l + i].lo = Total(f) + e[i].lo /\ d[l + i].hi = Total(f) + e[i].hi
          /\ e[i].lo \in Nat /\ e[i].hi \in Nat
      BY DEF Shifted
    <3> HIDE DEF n, l
    <3>2. /\ d[l + i].lo = d[l + i].hi /\ PlaceOf(h, n + j).lo = d[l + i].lo
          /\ h[n + j].size > 0
      BY <1>1, <2>5
    <3>3. e[i].lo = e[i].hi
      <4> DEFINE p == e[i].lo
                 q == e[i].hi
                 t == Total(f)
      <4>1. p \in Nat /\ q \in Nat /\ t \in Nat /\ t + p = t + q  BY <3>1, <3>2
      <4> HIDE DEF p, q, t
      <4>2. p = q  BY <4>1
      <4> QED  BY <4>2 DEF p, q
    <3>4. PlaceOf(g, j).lo = e[i].lo
      <4> DEFINE p == PlaceOf(g, j).lo
                 q == e[i].lo
                 t == Total(f)
      <4>1. t + p = t + q  BY <3>1, <3>2
      <4>2. t \in Nat /\ p \in Nat /\ q \in Nat  BY <3>1
      <4> HIDE DEF t, p, q
      <4>3. p = q  BY <4>1, <4>2
      <4> QED  BY <4>3 DEF p, q
    <3>5. g[j].size > 0  BY <3>1, <3>2
    <3> QED  BY <2>5, <3>1, <3>3, <3>4, <3>5 DEF FootersBehindEmpty
  <2> HIDE DEF n, l
  <2>6. m \in 1 .. l \/ \E i \in 1 .. Len(e) : m = l + i  BY <2>1, OneOfTwo
  <2>7. k \in 1 .. n \/ \E j \in 1 .. Len(g) : k = n + j  BY <2>1, OneOfTwo
  <2> QED  BY <2>2, <2>3, <2>4, <2>5, <2>6, <2>7
<1> QED  BY <1>1 DEF FootersBehindEmpty

(* The same of the contents that begin a buffer.                           *)
LEMMA ContentsTogether ==
  ASSUME NEW h, NEW d, NEW f, NEW b, NEW g, NEW e, Shifted(h, d, f, b, g, e),
         ContentsBegin(b, f), ContentsBegin(e, g)
  PROVE  ContentsBegin(d, h)
<1> DEFINE n == Len(f)
           l == Len(b)
<1>0. /\ Len(h) = n + Len(g) /\ n \in Nat /\ Len(g) \in Nat
      /\ Len(d) = l + Len(e) /\ l \in Nat /\ Len(e) \in Nat
  BY DEF Shifted
<1>1. ASSUME NEW k \in 1 .. n, h[k].size > 0, h[k].name = "content",
             k = 1 \/ h[k - 1].name # "type"
      PROVE  \E m \in 1 .. Len(d) : BeginsBuffer(d, h, m, k)
  <2>1. h[k] = f[k]  BY DEF Shifted
  <2>2. k = 1 \/ f[k - 1].name # "type"
    <3>1. CASE k # 1
      <4>1. k - 1 \in 1 .. n  BY <1>0, <3>1
      <4>2. h[k - 1] = f[k - 1]  BY <4>1 DEF Shifted
      <4> QED  BY <1>1, <4>2
    <3> QED  BY <3>1
  <2>3. PICK m \in 1 .. l : BeginsBuffer(b, f, m, k)
    BY <1>1, <2>1, <2>2 DEF ContentsBegin
  <2>4. m \in 1 .. Len(d)  BY <1>0
  <2>5. BeginsBuffer(d, h, m, k)  BY <2>3 DEF BeginsBuffer, Shifted
  <2> QED  BY <2>4, <2>5
<1>2. ASSUME NEW k \in 1 .. Len(g), h[n + k].size > 0, h[n + k].name = "content",
             n + k = 1 \/ h[(n + k) - 1].name # "type"
      PROVE  \E m \in 1 .. Len(d) : BeginsBuffer(d, h, m, n + k)
  <2>1. h[n + k] = g[k]  BY DEF Shifted
  <2>2. k = 1 \/ g[k - 1].name # "type"
    <3>1. CASE k # 1
      <4>1. k - 1 \in 1 .. Len(g) /\ n + (k - 1) = (n + k) - 1 /\ n + k # 1
        BY <1>0, <3>1
      <4>2. h[n + (k - 1)] = g[k - 1]  BY <4>1 DEF Shifted
      <4> QED  BY <1>2, <4>1, <4>2
    <3> QED  BY <3>1
  <2>3. PICK m \in 1 .. Len(e) : BeginsBuffer(e, g, m, k)
    BY <1>2, <2>1, <2>2 DEF ContentsBegin
  <2>4. l + m \in 1 .. Len(d)  BY <1>0
  <2>5. /\ d[l + m].lo = Total(f) + e[m].lo /\ d[l + m].hi = Total(f) + e[m].hi
        /\ e[m].lo \in Nat /\ e[m].hi \in Nat
        /\ PlaceOf(h, n + k).lo = Total(f) + PlaceOf(g, k).lo
        /\ PlaceOf(g, k).lo \in Nat /\ Total(f) \in Nat
    BY DEF Shifted
  <2> HIDE DEF n, l
  <2>6. BeginsBuffer(d, h, l + m, n + k)  BY <2>3, <2>5 DEF BeginsBuffer
  <2> QED  BY <2>4, <2>6
<1> HIDE DEF n, l
<1>3. ASSUME NEW k \in 1 .. Len(h), h[k].size > 0, h[k].name = "content",
             k = 1 \/ h[k - 1].name # "type"
      PROVE  \E m \in 1 .. Len(d) : BeginsBuffer(d, h, m, k)
  <2>1. k \in 1 .. n \/ \E j \in 1 .. Len(g) : k = n + j  BY <1>0, OneOfTwo
  <2> QED  BY <1>1, <1>2, <1>3, <2>1
<1> QED  BY <1>3 DEF ContentsBegin

(* Orderly buffers behind orderly buffers.                                 *)
LEMMA OrderlyTogether ==
  ASSUME NEW s, Orderly(s), NEW t, Orderly(t)
  PROVE  Orderly(s \o t)
<1> DEFINE T == Seq(Fields)
<1>1. s \in Seq(T) /\ t \in Seq(T)  BY DEF Orderly
<1> HIDE DEF T
<1>2. CASE s = <<>>
  <2>1. s \o t = t  BY <1>1, <1>2
  <2> QED  BY <2>1
<1>3. CASE t = <<>>
  <2>1. s \o t = s  BY <1>1, <1>3
  <2> QED  BY <2>1
<1>4. CASE s # <<>> /\ t # <<>>
  <2> DEFINE u == s \o t
             h == FlattenSeq(u)
             f == FlattenSeq(s)
             g == FlattenSeq(t)
             d == Places(u)
             b == Places(s)
             e == Places(t)
  <2>1. /\ Len(s) \in Nat /\ Len(t) \in Nat /\ Len(s) > 0 /\ Len(t) > 0
        /\ u \in Seq(T) /\ Len(u) = Len(s) + Len(t) /\ u # <<>>
        /\ \A k \in 1 .. Len(t) : u[Len(s) + k] = t[k]
    BY <1>1, <1>4
  <2>2. u[Len(u)] = t[Len(t)]
    <3>1. Len(t) \in 1 .. Len(t)  BY <2>1
    <3> HIDE DEF u
    <3> QED  BY <2>1, <3>1
  <2>3. Total(t[Len(t)]) > 0 /\ Total(s[Len(s)]) > 0  BY <1>4 DEF Orderly
  <2>4. /\ s \in Seq(Seq(Fields)) /\ t \in Seq(Seq(Fields)) /\ u \in Seq(Seq(Fields))
    BY <1>1, <2>1 DEF T
  <2>5. f \in Seq(Fields) /\ g \in Seq(Fields) /\ h = f \o g
    BY <2>4, FieldsTogether, FieldsAlone
  <2>6. Total(f) = Length(s) /\ Total(f) \in Nat
    BY <2>4, LengthConcat DEF Length
  <2>7. /\ Len(b) = Len(s)
        /\ \A k \in 1 .. Len(s) : /\ b[k].lo \in Nat /\ b[k].hi \in Nat
                                  /\ b[k].lo = b[k].hi => b[k].lo < Length(s)
    BY <1>4, <2>3, <2>4, LastBuffer
  <2>8. /\ Len(e) = Len(t)
        /\ \A k \in 1 .. Len(t) : e[k].lo \in Nat /\ e[k].hi \in Nat
    BY <1>4, <2>3, <2>4, LastBuffer
  <2>9. /\ Len(d) = Len(s) + Len(t)
        /\ \A k \in 1 .. Len(s) : d[k].lo = b[k].lo /\ d[k].hi = b[k].hi
        /\ \A k \in 1 .. Len(t) : /\ d[Len(s) + k].lo = Length(s) + e[k].lo
                                  /\ d[Len(s) + k].hi = Length(s) + e[k].hi
    BY <2>4, BuffersOfTwo
  <2> HIDE DEF u, f, g, d, b, e
  <2>10. /\ Len(f \o g) = Len(f) + Len(g) /\ Len(f) \in Nat /\ Len(g) \in Nat
         /\ \A k \in 1 .. Len(f) : (f \o g)[k] = f[k]
         /\ \A k \in 1 .. Len(g) : (f \o g)[Len(f) + k] = g[k]
    BY <2>5, TwoFields
  <2>11. /\ \A k \in 1 .. Len(f) : /\ PlaceOf(f \o g, k).lo = PlaceOf(f, k).lo
                                   /\ PlaceOf(f \o g, k).hi = PlaceOf(f, k).hi
         /\ \A k \in 1 .. Len(g) :
              /\ PlaceOf(f \o g, Len(f) + k).lo = Total(f) + PlaceOf(g, k).lo
              /\ PlaceOf(f \o g, Len(f) + k).hi = Total(f) + PlaceOf(g, k).hi
    BY <2>5, PlacesOfTwo
  <2>12. \A k \in 1 .. Len(f) : /\ PlaceOf(f, k).lo \in Nat /\ PlaceOf(f, k).hi \in Nat
                                /\ f[k].size > 0 => PlaceOf(f, k).lo < Total(f)
    BY <2>5, FieldWithin
  <2>13. \A k \in 1 .. Len(g) : PlaceOf(g, k).lo \in Nat /\ PlaceOf(g, k).hi \in Nat
    BY <2>5, FieldWithin
  <2> HIDE DEF h
  <2>14. Shifted(h, d, f, b, g, e)
    <3>1. /\ Len(h) = Len(f) + Len(g) /\ Len(d) = Len(b) + Len(e)
          /\ Len(f) \in Nat /\ Len(g) \in Nat /\ Len(b) \in Nat /\ Len(e) \in Nat
          /\ Total(f) \in Nat
      BY <2>1, <2>5, <2>6, <2>7, <2>8, <2>9, <2>10
    <3>2. \A m \in 1 .. Len(b) :
            /\ d[m].lo = b[m].lo /\ d[m].hi = b[m].hi
            /\ b[m].lo \in Nat /\ b[m].hi \in Nat
            /\ b[m].lo = b[m].hi => b[m].lo < Total(f)
      BY <2>6, <2>7, <2>9
    <3>3. \A m \in 1 .. Len(e) :
            /\ d[Len(b) + m].lo = Total(f) + e[m].lo /\ d[Len(b) + m].hi = Total(f) + e[m].hi
            /\ e[m].lo \in Nat /\ e[m].hi \in Nat
      BY <2>6, <2>7, <2>8, <2>9
    <3>4. \A k \in 1 .. Len(f) :
            /\ h[k] = f[k]
            /\ PlaceOf(h, k).lo = PlaceOf(f, k).lo /\ PlaceOf(h, k).hi = PlaceOf(f, k).hi
            /\ PlaceOf(f, k).lo \in Nat /\ PlaceOf(f, k).hi \in Nat
            /\ f[k].size > 0 => PlaceOf(f, k).lo < Total(f)
      BY <2>5, <2>10, <2>11, <2>12
    <3>5. \A k \in 1 .. Len(g) :
            /\ h[Len(f) + k] = g[k]
            /\ PlaceOf(h, Len(f) + k).lo = Total(f) + PlaceOf(g, k).lo
            /\ PlaceOf(h, Len(f) + k).hi = Total(f) + PlaceOf(g, k).hi
            /\ PlaceOf(g, k).lo \in Nat /\ PlaceOf(g, k).hi \in Nat
      BY <2>5, <2>10, <2>11, <2>13
    <3> QED  BY <3>1, <3>2, <3>3, <3>4, <3>5 DEF Shifted
  <2>15. Tidy(b, f) /\ Tidy(e, g)  BY DEF Orderly, b, e, f, g
  <2>16. Tidy(d, h)
    BY <2>14, <2>15, UncutTogether, FootersTogether, ContentsTogether DEF Tidy
  <2> QED  BY <2>2, <2>3, <2>4, <2>16 DEF Orderly, d, h, u
<1> QED  BY <1>2, <1>3, <1>4

(* A buffer of its own, with bytes and with no content that a type is not  *)
(* before, or with one field.                                              *)
LEMMA OrderlyBuffer ==
  ASSUME NEW b \in Seq(Fields), Total(b) > 0,
         \/ Len(b) = 1
         \/ \A k \in 1 .. Len(b) : b[k].name = "content" => k # 1 /\ b[k - 1].name = "type"
  PROVE  Orderly(<<b>>)
<1> DEFINE s == <<b>>
           d == Places(s)
<1>1. s \in Seq(Seq(Fields)) /\ Len(s) = 1 /\ s[1] = b /\ s # <<>>  OBVIOUS
<1>2. FlattenSeq(s) = b  BY FlattenOne
<1>3. Length(s) = Total(b) /\ Total(b) \in Nat
  BY <1>2, LengthOne, TotalTogether
<1>4. Spread(d, Total(b))  BY <1>1, <1>3, PlacesSpread
<1>5. Len(d) = 1 /\ DOMAIN s = 1 .. 1  BY <1>1 DEF Places
<1>6. d[1].lo = 0 /\ d[1].hi = Total(b)  BY <1>4, <1>5 DEF Spread
<1> HIDE DEF s, d
<1>7. \A k \in 1 .. Len(b) : /\ PlaceOf(b, k).lo \in Nat /\ PlaceOf(b, k).hi <= Total(b)
  BY FieldWithin
<1>8. Uncut(d, b)
  <2>1. 1 \in 1 .. Len(d)  BY <1>5
  <2>2. \A k \in 1 .. Len(b) : InBuffer(d, b, 1, k)  BY <1>6, <1>7 DEF InBuffer
  <2> QED  BY <2>1, <2>2 DEF Uncut
<1>9. FootersBehindEmpty(d, b)
  <2>1. \A m \in 1 .. Len(d) : d[m].lo # d[m].hi
    <3>1. ASSUME NEW m \in 1 .. Len(d) PROVE d[m].lo # d[m].hi
      <4>1. m = 1  BY <1>5
      <4> QED  BY <1>3, <1>6, <4>1
    <3> QED  BY <3>1
  <2> QED  BY <2>1 DEF FootersBehindEmpty
<1>10. ContentsBegin(d, b)
  <2>1. CASE Len(b) = 1
    <3>1. BeginsBuffer(d, b, 1, 1)
      <4>1. SubSeq(b, 1, 1 - 1) = <<>>  OBVIOUS
      <4>2. PlaceOf(b, 1).lo = 0  BY <4>1, TotalNothing DEF PlaceOf
      <4> QED  BY <1>3, <1>6, <4>2 DEF BeginsBuffer
    <3>2. 1 \in 1 .. Len(d) /\ \A k \in 1 .. Len(b) : k = 1  BY <1>5, <2>1
    <3> QED  BY <3>1, <3>2 DEF ContentsBegin
  <2>2. CASE \A k \in 1 .. Len(b) : b[k].name = "content" => k # 1 /\ b[k - 1].name = "type"
    BY <2>2 DEF ContentsBegin
  <2> QED  BY <2>1, <2>2
<1>11. Tidy(d, b)  BY <1>8, <1>9, <1>10 DEF Tidy
<1> QED  BY <1>1, <1>2, <1>11 DEF Orderly, d

(* A field in a buffer of its own.                                         *)
LEMMA OrderlyField ==
  ASSUME NEW x \in Fields, x.size > 0
  PROVE  Orderly(<<<<x>>>>)
<1> DEFINE b == <<x>>
<1>1. b \in Seq(Fields) /\ Len(b) = 1  OBVIOUS
<1>2. Total(b) = x.size  BY TotalOfOne
<1> HIDE DEF b
<1>3. Orderly(<<b>>)  BY <1>1, <1>2, OrderlyBuffer
<1> QED  BY <1>3 DEF b

(* A packet in one block.                                                  *)
LEMMA OrderlyBlock ==
  ASSUME NEW v \in AllValues, NEW type \in FixedTypes
  PROVE  Orderly(<<Block(type, TextOf(v))>>)
<1> DEFINE b == Block(type, TextOf(v))
<1>1. b \in Seq(Fields) /\ Total(b) = FixedHeaderSize + FixedContentSize(type) + FooterLength
  BY FixedLonger, NewListCounts
<1>2. FixedContentSize(type) \in Nat
  BY DEF FixedContentSize, DoubleContentSize, IntegerContentSize, ZeroContentSize
<1>3. Total(b) > 0  BY <1>1, <1>2 DEF FixedHeaderSize, FooterLength
<1>4. Len(b) = 3 /\ b[1].name = "type" /\ b[3].name = "footer"
  BY DEF Block, TypeField, Footer, Field
<1> HIDE DEF b
<1>5. ASSUME NEW k \in 1 .. Len(b), b[k].name = "content"
      PROVE  k # 1 /\ b[k - 1].name = "type"
  <2>1. k \in 1 .. 3  BY <1>4
  <2>2. k # 1 /\ k # 3  BY <1>4, <1>5
  <2>3. k = 2  BY <2>1, <2>2
  <2> QED  BY <1>4, <2>3
<1>6. Orderly(<<b>>)  BY <1>1, <1>3, <1>5, OrderlyBuffer
<1> QED  BY <1>6 DEF b

(* The fields of a packet have bytes, but for its content.                 *)
LEMMA FramesHaveBytes ==
  /\ \A type \in ValidTypes : TypeField(type) \in Fields /\ TypeField(type).size > 0
  /\ \A n \in Nat : /\ SizeField(n) \in Fields /\ SizeField(n).size > 0
                    /\ CountField(n) \in Fields /\ CountField(n).size > 0
                    /\ ShortCodeField(n) \in Fields /\ ShortCodeField(n).size > 0
  /\ Footer \in Fields /\ Footer.size > 0 /\ Footer.name = "footer"
<1>1. /\ \A type \in ValidTypes : TypeField(type).size > 0
      /\ \A n \in Nat : /\ SizeField(n).size > 0
                        /\ CountField(n).size > 0
                        /\ ShortCodeField(n).size > 0
      /\ Footer.size > 0 /\ Footer.name = "footer"
  BY DEF TypeField, SizeField, CountField, ShortCodeField, Footer, Field,
         FixedHeaderSize, ContentFieldSize, CountSize, ShortCodeSize, FooterLength
<1> QED  BY <1>1, FieldsOfPackets

(* A content, of no bytes perhaps, and the footer behind it.               *)
LEMMA OrderlyContent ==
  ASSUME NEW x \in Fields, x.name = "content"
  PROVE  Orderly(<<<<x>>>> \o <<<<Footer>>>>)
<1>0. Footer \in Fields /\ Footer.size > 0 /\ Footer.name = "footer"  BY FramesHaveBytes
<1>1. Orderly(<<<<Footer>>>>)  BY <1>0, OrderlyField
<1>2. CASE x.size > 0
  BY <1>1, <1>2, OrderlyField, OrderlyTogether
<1>3. CASE ~(x.size > 0)
  <2> DEFINE y == Footer
             b == <<x>>
             c == <<y>>
             s == <<b>>
             t == <<c>>
             d == Places(s \o t)
             h == b \o c
  <2>0. x.size = 0
    <3>1. x.size \in Nat  BY SizedFields
    <3> QED  BY <1>3, <3>1
  <2>1. b \in Seq(Fields) /\ c \in Seq(Fields) /\ Len(b) = 1 /\ Len(c) = 1
        /\ b[1] = x /\ c[1] = y
    BY <1>0
  <2>2. Total(b) = 0 /\ Total(c) = y.size /\ y.size \in Nat
    BY <1>0, <2>0, TotalOfOne, SizedFields
  <2> HIDE DEF y, b, c
  <2>3. /\ s \in Seq(Seq(Fields)) /\ t \in Seq(Seq(Fields)) /\ s # <<>> /\ t # <<>>
        /\ Len(s) = 1 /\ Len(t) = 1
        /\ FlattenSeq(s) = b /\ FlattenSeq(t) = c
        /\ Length(s) = 0 /\ Length(t) = y.size
    BY <2>1, <2>2, FlattenOne, LengthOne
  <2>4. /\ s \o t \in Seq(Seq(Fields)) /\ FlattenSeq(s \o t) = h
    BY <2>3, FieldsTogether
  <2>5. s \o t = <<b, c>>  BY <2>1, TwoInOne
  <2>6. Len(s \o t) = 2 /\ (s \o t)[2] = c  BY <2>5
  <2>7. /\ Len(h) = 2 /\ h[1] = x /\ h[2] = y
    <3>1. /\ Len(h) = Len(b) + Len(c)
          /\ \A k \in 1 .. Len(b) : h[k] = b[k]
          /\ \A k \in 1 .. Len(c) : h[Len(b) + k] = c[k]
      BY <2>1, TwoFields
    <3>2. 1 \in 1 .. Len(b) /\ 1 \in 1 .. Len(c) /\ Len(b) + 1 = 2  BY <2>1
    <3> QED  BY <2>1, <3>1, <3>2
  <2>8. PlaceOf(h, 2).lo = 0 /\ PlaceOf(h, 2).hi = y.size
    <3>0. \A k \in 1 .. Len(c) : /\ PlaceOf(h, Len(b) + k).lo = Total(b) + PlaceOf(c, k).lo
                                 /\ PlaceOf(h, Len(b) + k).hi = Total(b) + PlaceOf(c, k).hi
      BY <2>1, PlacesOfTwo
    <3>1. /\ PlaceOf(h, Len(b) + 1).lo = Total(b) + PlaceOf(c, 1).lo
          /\ PlaceOf(h, Len(b) + 1).hi = Total(b) + PlaceOf(c, 1).hi
      <4>1. 1 \in 1 .. Len(c)  BY <2>1
      <4> QED  BY <3>0, <4>1
    <3>2. SubSeq(c, 1, 1 - 1) = <<>>  BY <2>1
    <3>3. PlaceOf(c, 1).lo = 0 /\ PlaceOf(c, 1).hi = y.size
      <4>1. PlaceOf(c, 1).lo = 0  BY <3>2, TotalNothing DEF PlaceOf
      <4>2. PlaceOf(c, 1).hi = PlaceOf(c, 1).lo + c[1].size  BY DEF PlaceOf
      <4> QED  BY <2>1, <2>2, <4>1, <4>2
    <3> QED  BY <2>1, <2>2, <3>1, <3>3
  <2>9. Len(d) = 2 /\ d[2].lo = 0 /\ d[2].hi = y.size
    <3>0. /\ Len(d) = Len(s) + Len(t)
          /\ \A k \in 1 .. Len(t) : /\ d[Len(s) + k].lo = Length(s) + Places(t)[k].lo
                                    /\ d[Len(s) + k].hi = Length(s) + Places(t)[k].hi
      BY <2>3, BuffersOfTwo
    <3>1. /\ Len(d) = Len(s) + Len(t)
          /\ d[Len(s) + 1].lo = Length(s) + Places(t)[1].lo
          /\ d[Len(s) + 1].hi = Length(s) + Places(t)[1].hi
      <4>1. 1 \in 1 .. Len(t)  BY <2>3
      <4> QED  BY <3>0, <4>1
    <3>2. Spread(Places(t), Length(t))  BY <2>3, PlacesSpread
    <3>3. Len(Places(t)) = 1  BY <2>3 DEF Places
    <3>4. Places(t)[1].lo = 0 /\ Places(t)[1].hi = y.size
      BY <2>3, <3>2, <3>3 DEF Spread
    <3> QED  BY <2>2, <2>3, <3>1, <3>4
  <2> HIDE DEF d, h
  <2>10. \A k \in 1 .. Len(h) : h[k].size > 0 => k = 2
    <3>1. \A k \in 1 .. 2 : k # 2 => k = 1  OBVIOUS
    <3> QED  BY <2>0, <2>7, <3>1
  <2>11. Uncut(d, h)
    <3>1. InBuffer(d, h, 2, 2)  BY <2>2, <2>8, <2>9 DEF InBuffer
    <3>2. 2 \in 1 .. Len(d)  BY <2>9
    <3> QED  BY <2>10, <3>1, <3>2 DEF Uncut
  <2>12. FootersBehindEmpty(d, h)
    <3>1. h[2].name = "footer"  BY <1>0, <2>7 DEF y
    <3> QED  BY <2>10, <3>1 DEF FootersBehindEmpty
  <2>13. ContentsBegin(d, h)
    <3>1. h[2].name # "content"  BY <1>0, <2>7 DEF y
    <3> QED  BY <2>10, <3>1 DEF ContentsBegin
  <2>14. Total((s \o t)[Len(s \o t)]) > 0  BY <1>0, <2>2, <2>6 DEF y
  <2>15. Tidy(d, h)  BY <2>11, <2>12, <2>13 DEF Tidy
  <2>16. Orderly(s \o t)  BY <2>4, <2>14, <2>15 DEF Orderly, d
  <2> QED  BY <2>16 DEF y, b, c
<1> QED  BY <1>2, <1>3

(* The header of a packet of dynamic size, in two buffers.                 *)
LEMMA OrderlyHeader ==
  ASSUME NEW type \in ValidTypes, NEW n \in Nat
  PROVE  Orderly(HeaderBuffers(type, n))
<1> DEFINE x == TypeField(type)
           y == SizeField(n)
<1>1. x \in Fields /\ x.size > 0 /\ y \in Fields /\ y.size > 0  BY FramesHaveBytes
<1> HIDE DEF x, y
<1>2. Orderly(<<<<x>>>>) /\ Orderly(<<<<y>>>>)  BY <1>1, OrderlyField
<1>3. Orderly(<<<<x>>>> \o <<<<y>>>>)  BY <1>2, OrderlyTogether
<1>4. <<<<x>>>> \o <<<<y>>>> = <<<<x>>, <<y>>>>
  <2> DEFINE a == <<x>>
             b == <<y>>
  <2>1. a \in Seq(Fields) /\ b \in Seq(Fields)  BY <1>1
  <2> HIDE DEF a, b
  <2>2. <<a>> \o <<b>> = <<a, b>>  BY <2>1, TwoInOne
  <2> QED  BY <2>2 DEF a, b
<1> QED  BY <1>3, <1>4 DEF HeaderBuffers, x, y

(* A packet is written in an orderly way behind what is.                   *)
LEMMA OrderlyWrite ==
  ASSUME NEW w, Counted(w), Orderly(w.buffers), NEW v \in AllValues,
         NEW c, Counted(c), Orderly(c.buffers)
  PROVE  Orderly(WriteWith(w, v, c).buffers)
<1> DEFINE type == PacketType(v)
           x == WriteWith(w, v, c)
<1>0. /\ type \in ValidTypes \cup {NoPacket}
      /\ type \in DynamicTypes \ {"ArrayWithSize"} => v.n \in Nat
      /\ v.is = "typed" /\ type = "ArrayBufferWithSize" => ShortCodes[v.of] \in Nat
  BY TypesOfValues
<1>1. ASSUME NEW s, Longer(w, x, s), Orderly(s)
      PROVE  Orderly(x.buffers)
  BY <1>1, OrderlyTogether DEF Longer
<1>2. CASE type = NoPacket
  <2>1. x = w  BY <1>2, KindsOfTypes DEF WriteWith, NoPacket, BufferTypes
  <2> QED  BY <2>1
<1>3. CASE type \in FixedTypes
  <2>1. /\ type # NoPacket /\ type \notin DynamicTypes /\ type # "ArrayWithSize"
        /\ type # "ArrayBufferWithSize" /\ type \notin BufferTypes
    BY <1>3, KindsOfTypes
  <2>2. x = WriteFixedContent(w, type, TextOf(v))  BY <2>1 DEF WriteWith
  <2>3. Longer(w, x, <<Block(type, TextOf(v))>>)  BY <1>3, <2>2, FixedLonger
  <2> QED  BY <1>1, <1>3, <2>3, OrderlyBlock
<1>4. ASSUME type \in ValidTypes, NEW n \in Nat, NEW rest, Orderly(rest),
             Longer(w, x, HeaderBuffers(type, n) \o rest)
      PROVE  Orderly(x.buffers)
  <2>1. Orderly(HeaderBuffers(type, n))  BY <1>4, OrderlyHeader
  <2>2. Orderly(HeaderBuffers(type, n) \o rest)  BY <1>4, <2>1, OrderlyTogether
  <2> QED  BY <1>1, <1>4, <2>2
<1>5. CASE type = "ArrayWithSize"
  <2>1. x = WriteDynamicContent(w, type, c) /\ type \in ValidTypes
    BY <1>5, KindsOfTypes DEF WriteWith, NoPacket, BufferTypes
  <2>2. c.length \in Nat  BY DEF Counted, Lists
  <2>3. PICK rest \in Seq(Seq(Fields)) :
          /\ Longer(w, WriteDynamicContent(w, type, c), HeaderBuffers(type, c.length) \o rest)
          /\ rest = c.buffers \o <<<<Footer>>>>
    BY <2>1, DynamicContentLonger
  <2>4. Orderly(<<<<Footer>>>>)  BY FramesHaveBytes, OrderlyField
  <2>5. Orderly(rest)  BY <2>3, <2>4, OrderlyTogether
  <2> DEFINE n == c.length
  <2>6. n \in Nat /\ type \in ValidTypes /\ Longer(w, x, HeaderBuffers(type, n) \o rest)
    BY <2>1, <2>2, <2>3
  <2> HIDE DEF x, n, type
  <2>7. Orderly(x.buffers)  BY <1>4, <2>5, <2>6
  <2> QED  BY <2>7 DEF x
<1>6. CASE type = "ArrayBufferWithSize"
  <2> DEFINE code == ShortCodeOf(v)
  <2>1. x = WriteArrayBuffer(w, code, v.n, TextOf(v)) /\ type \in ValidTypes
    BY <1>6, KindsOfTypes DEF WriteWith, NoPacket, BufferTypes, ShortCodeOf
  <2>2. code \in Nat /\ v.n \in Nat
    BY <1>0, <1>6, KindsOfTypes DEF ShortCodeOf
  <2> HIDE DEF code
  <2>3. PICK rest \in Seq(Seq(Fields)) :
          /\ Longer(w, WriteArrayBuffer(w, code, v.n, TextOf(v)),
                    HeaderBuffers("ArrayBufferWithSize", ShortCodeSize + v.n) \o rest)
          /\ rest = (<<<<ShortCodeField(code)>>>> \o <<<<Content(v.n, TextOf(v))>>>>)
                      \o <<<<Footer>>>>
    BY <2>2, ArrayBufferLonger
  <2> DEFINE a == <<<<ShortCodeField(code)>>>>
             b == <<<<Content(v.n, TextOf(v))>>>>
             z == <<<<Footer>>>>
  <2>4. Orderly(a)  BY <2>2, FramesHaveBytes, OrderlyField
  <2>5. Orderly(b \o z)
    <3>1. Content(v.n, TextOf(v)) \in Fields  BY <2>2, FieldsOfPackets
    <3>2. Content(v.n, TextOf(v)).name = "content"  BY DEF Content, Field
    <3> QED  BY <3>1, <3>2, OrderlyContent
  <2>6. a \in Seq(Seq(Fields)) /\ b \in Seq(Seq(Fields)) /\ z \in Seq(Seq(Fields))
    <3>1. Content(v.n, TextOf(v)) \in Fields /\ ShortCodeField(code) \in Fields
          /\ Footer \in Fields
      BY <2>2, FieldsOfPackets
    <3> QED  BY <3>1
  <2> HIDE DEF a, b, z
  <2>7. (a \o b) \o z = a \o (b \o z)  BY <2>6, ListsAssociate
  <2>8. Orderly(a \o (b \o z))  BY <2>4, <2>5, OrderlyTogether
  <2>9. Orderly(rest)  BY <2>3, <2>7, <2>8 DEF a, b, z
  <2>10. ShortCodeSize + v.n \in Nat  BY <2>2 DEF ShortCodeSize
  <2> DEFINE n == ShortCodeSize + v.n
  <2>11. n \in Nat /\ type \in ValidTypes /\ Longer(w, x, HeaderBuffers(type, n) \o rest)
    BY <1>6, <2>1, <2>3, <2>10
  <2> HIDE DEF x, n, type
  <2>12. Orderly(x.buffers)  BY <1>4, <2>9, <2>11
  <2> QED  BY <2>12 DEF x
<1>7. CASE type \in BufferTypes
  <2>1. /\ x = WriteDynamicBuffer(w, type, v.n, TextOf(v)) /\ type \in ValidTypes
        /\ type \in DynamicTypes \ {"ArrayWithSize"}
    BY <1>7, KindsOfTypes DEF WriteWith, NoPacket, BufferTypes
  <2>2. v.n \in Nat  BY <1>0, <2>1
  <2>3. PICK rest \in Seq(Seq(Fields)) :
          /\ Longer(w, WriteDynamicBuffer(w, type, v.n, TextOf(v)),
                    HeaderBuffers(type, v.n) \o rest)
          /\ rest = <<<<Content(v.n, TextOf(v))>>>> \o <<<<Footer>>>>
    BY <2>1, <2>2, DynamicBufferLonger
  <2>4. Orderly(rest)
    <3>1. Content(v.n, TextOf(v)) \in Fields  BY <2>2, FieldsOfPackets
    <3>2. Content(v.n, TextOf(v)).name = "content"  BY DEF Content, Field
    <3> QED  BY <2>3, <3>1, <3>2, OrderlyContent
  <2> DEFINE n == v.n
  <2>5. n \in Nat /\ type \in ValidTypes /\ Longer(w, x, HeaderBuffers(type, n) \o rest)
    BY <2>1, <2>2, <2>3
  <2> HIDE DEF x, n, type
  <2>6. Orderly(x.buffers)  BY <1>4, <2>4, <2>5
  <2> QED  BY <2>6 DEF x
<1> QED  BY <1>0, <1>2, <1>3, <1>5, <1>6, <1>7, KindsOfTypes

(* The content of an array begins in an orderly way.                       *)
LEMMA OrderlyNewContent ==
  ASSUME NEW count \in Nat
  PROVE  Orderly(NewArrayContent(count).buffers)
<1> DEFINE x == CountField(count)
<1>1. x \in Fields /\ x.size > 0  BY FramesHaveBytes
<1>2. NewArrayContent(count) = WriteBuffer(NewBufferListWriter, <<x>>)
  BY DEF NewArrayContent
<1> HIDE DEF x
<1>3. <<x>> \in Seq(Fields)  BY <1>1
<1>4. Longer(NewBufferListWriter, NewArrayContent(count), <<<<x>>>>)
  BY <1>2, <1>3, NewListCounts, WriteBufferLonger
<1>5. NewArrayContent(count).buffers = <<>> \o <<<<x>>>>
  BY <1>4, NewListCounts DEF Longer
<1>6. <<>> \o <<<<x>>>> = <<<<x>>>>  OBVIOUS
<1> QED  BY <1>1, <1>5, <1>6, OrderlyField

(* And goes on so, element by element.                                     *)
LEMMA OrderlyElements ==
  ASSUME NEW contents, \A u \in AllValues : Counted(contents[u]) /\ Orderly(contents[u].buffers),
         NEW v \in AllValues
  PROVE  Orderly(ContentWith(contents, v).buffers)
<1> DEFINE es == v.elements
           n == Len(es)
<1>1. es \in Seq(AllValues) /\ n \in Nat  BY TypesOfValues
<1>2. PICK f : /\ f[0] = NewArrayContent(n)
               /\ \A k \in 1 .. n : f[k] = WriteWith(f[k - 1], es[k], contents[es[k]])
               /\ ContentWith(contents, v) = f[n]
  BY <1>1, ContentSteps
<1>3. \A k \in 1 .. n : es[k] \in AllValues  BY <1>1
<1> HIDE DEF es, n
<1> DEFINE S == {k \in 0 .. n : Counted(f[k]) /\ Orderly(f[k].buffers)}
<1>4. 0 \in S
  BY <1>1, <1>2, NewContentCounts, OrderlyNewContent
<1>5. ASSUME NEW k \in 0 .. n - 1, k \in S PROVE k + 1 \in S
  <2> DEFINE w == f[k]
             u == es[k + 1]
             c == contents[es[k + 1]]
  <2>1. k + 1 \in 1 .. n /\ (k + 1) - 1 = k /\ k + 1 \in 0 .. n  BY <1>1
  <2>2. f[k + 1] = WriteWith(w, u, c) /\ u \in AllValues  BY <1>2, <1>3, <2>1
  <2>3. Counted(w) /\ Orderly(w.buffers) /\ Counted(c) /\ Orderly(c.buffers)
    BY <1>3, <1>5, <2>1
  <2> HIDE DEF w, u, c
  <2>4. Orderly(WriteWith(w, u, c).buffers)  BY <2>2, <2>3, OrderlyWrite
  <2>5. Counted(WriteWith(w, u, c))  BY <2>2, <2>3, WritesFields
  <2> QED  BY <2>1, <2>2, <2>4, <2>5
<1> HIDE DEF S
<1>6. 0 .. n \subseteq S  BY <1>1, <1>4, <1>5, IntervalInduction
<1>7. n \in S  BY <1>1, <1>6
<1> QED  BY <1>2, <1>7 DEF S

(* So is the content of every array, however deep arrays are in it.        *)
LEMMA OrderlyContents == \A v \in AllValues : Orderly(Contents[v].buffers)
<1> DEFINE N == MaxNesting
           S == {d \in 0 .. N : \A v \in AllValues : Orderly(ContentsNested[d][v].buffers)}
<1>0. N \in Nat  BY CodecAssumption
<1>1. /\ ContentsNested[0] = [v \in AllValues |-> NewArrayContent(0)]
      /\ \A d \in 1 .. N :
           ContentsNested[d] = [v \in AllValues |-> ContentWith(ContentsNested[d - 1], v)]
  BY ContentsLevels
<1>2. \A d \in 0 .. N, v \in AllValues : Counted(ContentsNested[d][v])  BY LevelsAreCounted
<1> HIDE DEF N
<1>3. 0 \in S
  BY <1>0, <1>1, OrderlyNewContent
<1>4. ASSUME NEW d \in 0 .. N - 1, d \in S PROVE d + 1 \in S
  <2> DEFINE inner == ContentsNested[d]
  <2>1. d + 1 \in 1 .. N /\ (d + 1) - 1 = d /\ d + 1 \in 0 .. N /\ d \in 0 .. N  BY <1>0
  <2>2. \A u \in AllValues : Counted(inner[u]) /\ Orderly(inner[u].buffers)
    BY <1>2, <1>4, <2>1
  <2>3. ContentsNested[d + 1] = [v \in AllValues |-> ContentWith(inner, v)]
    BY <1>1, <2>1
  <2> HIDE DEF inner
  <2>4. \A v \in AllValues : Orderly(ContentWith(inner, v).buffers)
    BY <2>2, OrderlyElements
  <2> QED  BY <2>1, <2>3, <2>4
<1> HIDE DEF S
<1>5. 0 .. N \subseteq S  BY <1>0, <1>3, <1>4, IntervalInduction
<1>6. N \in S  BY <1>0, <1>5
<1> QED  BY <1>6 DEF S, N, Contents

(* The buffers of a packet are orderly.                                    *)
LEMMA OrderlyWritten ==
  ASSUME NEW v \in AllValues
  PROVE  Orderly(Written(<<v>>))
<1> DEFINE w == NewBufferListWriter
           c == Contents[v]
<1>1. Written(<<v>>) = WriteWith(w, v, c).buffers  BY WrittenOne DEF WriteValue
<1>2. Counted(w) /\ w.buffers = <<>>  BY NewListCounts
<1>3. Counted(c) /\ Orderly(c.buffers)  BY ContentsAreCounted, OrderlyContents
<1>4. Orderly(<<>>)
  <2>1. Len(Places(<<>>)) = 0  BY DEF Places
  <2>2. FlattenSeq(<<>>) = <<>>  BY FlattenNothing
  <2>3. <<>> \in Seq(Seq(Fields))  OBVIOUS
  <2>4. Len(<<>>) = 0  OBVIOUS
  <2> QED  BY <2>1, <2>2, <2>3, <2>4 DEF Orderly, Tidy, Uncut, FootersBehindEmpty, ContentsBegin
<1> HIDE DEF w, c
<1>5. Orderly(WriteWith(w, v, c).buffers)  BY <1>2, <1>3, <1>4, OrderlyWrite
<1> QED  BY <1>1, <1>5

(***************************************************************************)
(* Parts of arrays                                                         *)
(***************************************************************************)

(* A packet that is passed over: the reader is behind it.                  *)
PassesTo(done, r, f, pos) ==
  done.passed /\ At(done.reader, Total(f), pos) /\ Keeps(r, done.reader, f)

(* A packet that is not the last is passed over, whatever it holds.        *)
LEMMA PacketPassed ==
  ASSUME NEW f, NEW a, NEW v \in AllValues, NEW c, NEW b, PacketIsAt(f, a, v, c, b),
         Solid(a), Total(a) + BytelengthWith(c.length, v) < Total(f),
         NEW r, At(r, Total(f), Total(a)),
         NEW done, done = ByPass(r, MemoryOfFields(f))
  PROVE  PassesTo(done, r, f, Total(a) + BytelengthWith(c.length, v))
<1> DEFINE memory == MemoryOfFields(f)
           header == ReadHeader(r, memory.headers)
           hs == HeaderSizeOf(v)
           n == ContentSizeOf(v, c)
           size == Total(f)
           A == Total(a)
           B == BytelengthWith(c.length, v)
<1>1. /\ A \in Nat /\ Total(b) \in Nat /\ n \in Nat /\ hs \in {2, 6} /\ FooterLength = 1
      /\ B = hs + n + FooterLength
      /\ size = A + (hs + n + FooterLength) + Total(b)
  BY PacketBounds
<1>0. A + B < size  OBVIOUS
<1>2. /\ header.header = RawHeader(PacketType(v), hs, n)
      /\ At(header.reader, size, A + hs)
      /\ Keeps(r, header.reader, f)
  BY PacketHeaderThere
<1>3. header.header.contentSize = n  BY <1>2 DEF RawHeader
<1> DEFINE step == n + FooterLength
           pos == A + hs
           q == header.reader
           p == SkipBy(q, step)
<1>4. done = Passed(TRUE, p)
  <2>1. done = Pass(header)  BY DEF ByPass
  <2> HIDE DEF header, n
  <2>2. header.header.contentSize >= 0  BY <1>1, <1>3
  <2> QED  BY <1>3, <2>1, <2>2 DEF Pass, header
<1> HIDE DEF header, hs, n, A, B, q
<1>5. pos < Total(f) /\ step \in Nat /\ pos + step <= Total(f) /\ pos \in Nat
  BY <1>1 DEF size
<1>6. At(q, Total(f), pos) /\ Keeps(r, q, f)  BY <1>2 DEF q, size
<1>7. A + B = pos + step /\ A + B < Total(f)  BY <1>0, <1>1 DEF size
<1> HIDE DEF step, pos
<1>8. /\ At(p, Total(f), IF pos + step < Total(f) THEN pos + step ELSE pos)
      /\ Keeps(q, p, f)
  BY <1>5, <1>6, SkipThere
<1>9. At(p, Total(f), A + B)  BY <1>7, <1>8
<1> HIDE DEF p
<1>10. Keeps(r, p, f)  BY <1>6, <1>8, KeepsTwice
<1>11. done.passed /\ done.reader = p  BY <1>4 DEF Passed
<1>12. PassesTo(done, r, f, A + B)  BY <1>8, <1>9, <1>10, <1>11 DEF PassesTo
<1> QED  BY <1>12 DEF A, B

(* An element of an array is.                                              *)
LEMMA ElementPassed ==
  ASSUME NEW f, NEW ah, NEW behind, NEW w, NEW k, NEW u, NEW d, NEW c,
         ElementIsAt(f, ah, behind, w, k, u, d, c),
         NEW r, At(r, Total(f), Total(ah) + w[k - 1].length),
         NEW done, done = ByPass(r, MemoryOfFields(f))
  PROVE  PassesTo(done, r, f, Total(ah) + w[k].length)
<1> DEFINE H == Total(ah)
           from == w[k - 1].length
           to == w[k].length
<1>1. PICK a, b : /\ PacketIsAt(f, a, u, d, b) /\ Solid(a)
                  /\ Total(a) = H + from
                  /\ Total(a) + BytelengthWith(d.length, u) = H + to
                  /\ EndAt(f, Total(a) + BytelengthWith(d.length, u)) = H + to
  BY ElementPlace
<1>2. u \in AllValues /\ Counted(d)  BY DEF ElementIsAt
<1> DEFINE B == BytelengthWith(d.length, u)
<1>5. Total(a) \in Nat /\ B \in Nat
  <2>1. /\ Total(a) \in Nat /\ ContentSizeOf(u, d) \in Nat
        /\ HeaderSizeOf(u) \in {2, 6} /\ FooterLength = 1
        /\ B = HeaderSizeOf(u) + ContentSizeOf(u, d) + FooterLength
    BY <1>1, <1>2, PacketBounds
  <2> QED  BY <2>1
<1> HIDE DEF B
<1>6. Total(a) + B < Total(f)
  <2> DEFINE e == Total(a) + B
  <2>1. EndAt(f, e) = e  BY <1>1 DEF B
  <2>2. e \in Nat  BY <1>5
  <2> HIDE DEF e
  <2>3. e < Total(f)  BY <2>1, <2>2 DEF EndAt
  <2> QED  BY <2>3 DEF e
<1> HIDE DEF H, from, to
<1>3. At(r, Total(f), Total(a))  BY <1>1 DEF H, from
<1>4. PassesTo(done, r, f, Total(a) + BytelengthWith(d.length, u))
  BY <1>1, <1>2, <1>3, <1>6, PacketPassed DEF B
<1> QED  BY <1>1, <1>4 DEF H, to

(* The first elements of an array are passed over one after another.       *)
LEMMA ElementsPassed ==
  ASSUME ElementsHavePackets,
         NEW f, NEW v \in AllValues, NEW contents, NEW c, NEW w, NEW ah, NEW behind,
         ArrayIsThere(f, v, contents, c, w, ah, behind),
         NEW n \in 0 .. Len(v.elements),
         NEW r, At(r, Total(f), Total(ah) + w[0].length),
         NEW done, done = ByPassMany(r, MemoryOfFields(f), n)
  PROVE  PassesTo(done, r, f, Total(ah) + w[n].length)
<1> DEFINE es == v.elements
           N == Len(es)
           memory == MemoryOfFields(f)
<1>1. N \in Nat  BY TypesOfValues
<1>2. n \in Nat /\ n <= N  BY <1>1
<1>3. PICK g : OneByOne(g, r, memory, n)  BY <1>2, ByPassSteps
<1>4. ASSUME NEW k \in 1 .. N
      PROVE  ElementIsAt(f, ah, behind, w, k, es[k], contents[es[k]], c)
  BY ElementOfArray
<1> HIDE DEF es, N, memory
<1> DEFINE Right(k) == PassesTo(g[k], r, f, Total(ah) + w[k].length)
           S == {k \in 0 .. n : Right(k)}
<1>5. Right(0)
  <2>1. g[0] = Passed(TRUE, r)  BY <1>3 DEF OneByOne
  <2>2. Keeps(r, r, f)  BY KeepsSame
  <2> QED  BY <2>1, <2>2 DEF Passed, PassesTo
<1>6. ASSUME NEW k \in 1 .. n, Right(k - 1) PROVE Right(k)
  <2> DEFINE q == g[k - 1].reader
             u == es[k]
             d == contents[es[k]]
             done1 == ByPass(q, memory)
  <2>1. k \in 1 .. N  BY <1>1, <1>2
  <2>2. /\ g[k - 1].passed /\ At(q, Total(f), Total(ah) + w[k - 1].length)
        /\ Keeps(r, q, f)
    BY <1>6 DEF PassesTo
  <2>3. g[k] = done1  BY <1>3, <2>2 DEF OneByOne
  <2>4. ElementIsAt(f, ah, behind, w, k, u, d, c)  BY <1>4, <2>1
  <2>5. done1 = ByPass(q, MemoryOfFields(f))  BY DEF memory
  <2> HIDE DEF q, u, d, done1
  <2>6. PassesTo(done1, q, f, Total(ah) + w[k].length)  BY <2>2, <2>4, <2>5, ElementPassed
  <2>7. Keeps(r, done1.reader, f)  BY <2>2, <2>6, KeepsTwice DEF PassesTo
  <2> QED  BY <2>3, <2>6, <2>7 DEF PassesTo
<1> HIDE DEF Right
<1>7. 0 \in S  BY <1>2, <1>5
<1>8. ASSUME NEW k \in 0 .. n - 1, k \in S PROVE k + 1 \in S
  <2>1. k + 1 \in 1 .. n /\ k + 1 \in 0 .. n /\ (k + 1) - 1 = k  BY <1>2
  <2>2. Right(k)  BY <1>8
  <2> DEFINE i == k + 1
  <2>3. i - 1 = k /\ i \in 1 .. n  BY <2>1
  <2> HIDE DEF i
  <2>4. Right(i)  BY <1>6, <2>2, <2>3
  <2> QED  BY <2>1, <2>4 DEF i
<1> HIDE DEF S
<1>9. 0 .. n \subseteq S  BY <1>2, <1>7, <1>8, IntervalInduction
<1>10. n \in 0 .. n  BY <1>2
<1>11. Right(n)  BY <1>9, <1>10 DEF S
<1>12. done = g[n]  BY <1>3 DEF OneByOne, memory
<1> QED  BY <1>11, <1>12 DEF Right

(* The packet of an array, and a reader behind its header.                 *)
ArrayAhead(f, v, contents, holds, r) ==
  \E a, b :
    LET c == ContentWith(contents, v)
    IN /\ PacketIsAt(f, a, v, c, b) /\ PacketType(v) = "ArrayWithSize"
       /\ \A u \in AllValues : Counted(contents[u])
       /\ ElementsRead(Reading(MemoryOfFields(f)), f, v, contents, holds)
       /\ At(r, Total(f), Total(a) + HeaderSizeOf(v))
       /\ holds => Snug(r, f)

(* The count has been read, and so many elements have been passed over.    *)
CountedAhead(f, v, contents, c, w, ah, behind, holds, r, q) ==
  /\ ArrayIsThere(f, v, contents, c, w, ah, behind)
  /\ ElementsRead(Reading(MemoryOfFields(f)), f, v, contents, holds)
  /\ CountOut(r, MemoryOfFields(f)) = Len(v.elements)
  /\ At(q, Total(f), Total(ah) + w[0].length)
  /\ Keeps(r, q, f)
  /\ holds => Snug(q, f)

(* The count of an array is read.                                          *)
LEMMA CountIsRead ==
  ASSUME ElementsHavePackets,
         NEW f, NEW v \in AllValues, NEW contents, NEW holds, NEW r,
         ArrayAhead(f, v, contents, holds, r),
         NEW q, q = NumberBy(r, CountSize)
  PROVE  \E c, w, ah, behind : CountedAhead(f, v, contents, c, w, ah, behind, holds, r, q)
<1> DEFINE c == ContentWith(contents, v)
<1>1. PICK a, b :
        /\ PacketIsAt(f, a, v, c, b) /\ PacketType(v) = "ArrayWithSize"
        /\ \A u \in AllValues : Counted(contents[u])
        /\ ElementsRead(Reading(MemoryOfFields(f)), f, v, contents, holds)
        /\ At(r, Total(f), Total(a) + HeaderSizeOf(v))
        /\ holds => Snug(r, f)
  BY DEF ArrayAhead
<1>2. c = ContentWith(contents, v)  OBVIOUS
<1> HIDE DEF c
<1>3. PICK w, ah, behind : ArrayBegun(f, a, v, contents, c, w, ah, behind, r, q)
  BY <1>1, <1>2, ArrayBegins
<1>4. /\ ArrayIsThere(f, v, contents, c, w, ah, behind)
      /\ w[0].length = CountSize
      /\ CountOut(r, MemoryOfFields(f)) = Len(v.elements)
      /\ At(q, Total(f), Total(ah) + CountSize)
      /\ Keeps(r, q, f)
  BY <1>3 DEF ArrayBegun
<1>5. holds => Snug(q, f)  BY <1>1, <1>4 DEF Keeps
<1>6. At(q, Total(f), Total(ah) + w[0].length)  BY <1>4
<1>7. CountedAhead(f, v, contents, c, w, ah, behind, holds, r, q)
  BY <1>1, <1>4, <1>5, <1>6 DEF CountedAhead
<1> QED  BY <1>7

(* parseArrayAt gives the element, whatever is passed over to it.          *)
LEMMA ArrayAtThere ==
  ASSUME ElementsHavePackets,
         NEW f, NEW v \in AllValues, NEW contents, NEW holds, NEW r,
         ArrayAhead(f, v, contents, holds, r), NEW index \in Nat,
         NEW read, read = ReadArrayAt(r, MemoryOfFields(f), index)
  PROVE  /\ read.value = IF index < Len(v.elements) THEN v.elements[index + 1] ELSE Undefined
         /\ Keeps(r, read.reader, f)
<1> DEFINE q == NumberBy(r, CountSize)
           memory == MemoryOfFields(f)
           N == Len(v.elements)
<1>1. PICK c, w, ah, behind : CountedAhead(f, v, contents, c, w, ah, behind, holds, r, q)
  BY CountIsRead
<1>2. /\ ArrayIsThere(f, v, contents, c, w, ah, behind)
      /\ ElementsRead(Reading(memory), f, v, contents, holds)
      /\ CountOut(r, memory) = N
      /\ At(q, Total(f), Total(ah) + w[0].length)
      /\ Keeps(r, q, f)
      /\ holds => Snug(q, f)
  BY <1>1 DEF CountedAhead
<1>3. v.elements \in Seq(AllValues) /\ N \in Nat /\ DOMAIN v.elements = 1 .. N
  BY TypesOfValues
<1>4. CASE index >= N
  <2>1. read = Gives(Undefined, q)  BY <1>2, <1>4 DEF ReadArrayAt
  <2>2. ~(index < N)  BY <1>3, <1>4
  <2> QED  BY <1>2, <2>1, <2>2 DEF Gives
<1>5. CASE index < N
  <2> DEFINE done == ByPassMany(q, memory, index)
             p == done.reader
             k == index + 1
             u == v.elements[k]
             d == contents[u]
  <2>1. read = ElementBehind(done, memory)
    <3>1. ~(index >= N)  BY <1>3, <1>5
    <3> HIDE DEF memory
    <3> QED  BY <1>2, <3>1 DEF ReadArrayAt, memory
  <2>2. index \in 0 .. Len(v.elements) /\ k \in 1 .. Len(v.elements) /\ k - 1 = index
    BY <1>3, <1>5
  <2> HIDE DEF q
  <2>3. done = ByPassMany(q, MemoryOfFields(f), index)  OBVIOUS
  <2> HIDE DEF done
  <2>4. PassesTo(done, q, f, Total(ah) + w[index].length)
    BY <1>2, <2>2, <2>3, ElementsPassed
  <2>5. /\ done.passed /\ At(p, Total(f), Total(ah) + w[k - 1].length) /\ Keeps(q, p, f)
    BY <2>2, <2>4 DEF PassesTo
  <2>6. read = Reading(memory)[p]  BY <2>1, <2>5 DEF ElementBehind, ReadValue
  <2>7. ElementIsAt(f, ah, behind, w, k, u, d, c)  BY <1>2, <2>2, ElementOfArray
  <2>8. ReadsPacket(Reading(memory), f, u, d, holds)
    BY <1>2, <1>3, <2>2 DEF ElementsRead
  <2>9. holds => Snug(p, f)  BY <1>2, <2>5 DEF Keeps
  <2> HIDE DEF p, u, d
  <2>10. PICK x, y : /\ PacketIsAt(f, x, u, d, y) /\ Solid(x)
                     /\ Total(x) = Total(ah) + w[k - 1].length
    BY <2>7, ElementPlace
  <2>11. At(p, Total(f), Total(x))  BY <2>5, <2>10
  <2>12. Reads(Reading(memory)[p], p, f, Total(f),
               EndAt(f, Total(x) + BytelengthWith(d.length, u)), u)
    BY <2>8, <2>9, <2>10, <2>11 DEF ReadsPacket
  <2>13. read.value = u /\ Keeps(p, read.reader, f)  BY <2>6, <2>12 DEF Reads
  <2>14. Keeps(r, read.reader, f)  BY <1>2, <2>5, <2>13, KeepsTwice
  <2> QED  BY <1>5, <2>13, <2>14 DEF u
<1> QED  BY <1>3, <1>4, <1>5

(* The part of an array that its reader gives for these bounds.            *)
PartOf(es, start, end) ==
  LET skipped == IF start > 0 THEN start ELSE 0
  IN IF start >= Len(es) \/ end <= start THEN ArrayOf(<<>>)
     ELSE IF end < skipped THEN RangeError
     ELSE ArrayOf(SubSeq(es, skipped + 1, end))

(* Elements are passed over, and those behind them are read.               *)
LEMMA PartThere ==
  ASSUME ElementsHavePackets,
         NEW f, NEW v \in AllValues, NEW contents, NEW c, NEW w, NEW ah, NEW behind,
         NEW holds, NEW r, NEW q, CountedAhead(f, v, contents, c, w, ah, behind, holds, r, q),
         NEW start \in Int, NEW end \in Int, end <= Len(v.elements),
         NEW read,
         read = ReadBetween(q, MemoryOfFields(f), Len(v.elements), start, end)
  PROVE  read.value = PartOf(v.elements, start, end) /\ Keeps(r, read.reader, f)
<1> DEFINE memory == MemoryOfFields(f)
           es == v.elements
           N == Len(es)
           m == IF start > 0 THEN start ELSE 0
           done == ByPassMany(q, memory, m)
<1>2. /\ ArrayIsThere(f, v, contents, c, w, ah, behind)
      /\ ElementsRead(Reading(memory), f, v, contents, holds)
      /\ At(q, Total(f), Total(ah) + w[0].length)
      /\ Keeps(r, q, f)
      /\ holds => Snug(q, f)
  BY DEF CountedAhead
<1>3. es \in Seq(AllValues) /\ N \in Nat  BY TypesOfValues
<1>4. m \in Nat  OBVIOUS
<1>5. CASE start >= N \/ end <= start
  <2>1. read = Gives(ArrayOf(<<>>), q)
    <3> HIDE DEF memory, m
    <3> QED  BY <1>3, <1>5 DEF ReadBetween, memory
  <2>2. PartOf(es, start, end) = ArrayOf(<<>>)  BY <1>5 DEF PartOf
  <2> QED  BY <1>2, <2>1, <2>2 DEF Gives
<1>6. CASE start < N /\ end > start /\ end < m
  <2>1. ~(start >= N \/ end <= start)  BY <1>3, <1>6
  <2>2. read = Gives(RangeError, q)  BY <1>6, <2>1 DEF ReadBetween
  <2>3. PartOf(es, start, end) = RangeError  BY <1>6, <2>1 DEF PartOf
  <2> QED  BY <1>2, <2>2, <2>3 DEF Gives
<1>7. CASE start < N /\ end > start /\ ~(end < m)
  <2> DEFINE j == end - m
             p == done.reader
  <2>1. ~(start >= N \/ end <= start)  BY <1>3, <1>7
  <2>2. read = ElementsBehind(done, memory, j)
    BY <1>7, <2>1 DEF ReadBetween
  <2>3. PartOf(es, start, end) = ArrayOf(SubSeq(es, m + 1, end))  BY <1>7, <2>1 DEF PartOf
  <2>4. j \in Nat /\ m + j = end /\ m \in 0 .. N /\ m + j <= N  BY <1>3, <1>4, <1>7
  <2>5. done = ByPassMany(q, MemoryOfFields(f), m) /\ m \in 0 .. Len(v.elements)  BY <2>4
  <2>6. m + j <= Len(v.elements)  BY <2>4
  <2> HIDE DEF done, m, j, N, es
  <2>7. PassesTo(done, q, f, Total(ah) + w[m].length)  BY <1>2, <2>5, ElementsPassed
  <2>8. done.passed /\ At(p, Total(f), Total(ah) + w[m].length) /\ Keeps(q, p, f)
    BY <2>7 DEF PassesTo
  <2>9. read = ReadElements(p, Reading(memory), j)  BY <2>2, <2>8 DEF ElementsBehind
  <2>10. holds => Snug(p, f)  BY <1>2, <2>8 DEF Keeps
  <2> DEFINE inner == Reading(memory)
  <2>11. ElementsRead(inner, f, v, contents, holds)  BY <1>2
  <2> HIDE DEF p, inner
  <2>12. Gathered(read, p, f, v.elements, m + 1, m + j, Total(ah) + w[m + j].length)
    BY <1>2, <1>4, <2>4, <2>6, <2>8, <2>9, <2>10, <2>11, ElementsBetween DEF p, inner
  <2>13. read.value = ArrayOf(SubSeq(es, m + 1, m + j)) /\ Keeps(p, read.reader, f)
    BY <2>12 DEF Gathered, es
  <2>14. Keeps(r, read.reader, f)
    <3>1. Keeps(q, p, f)  BY <2>8 DEF p
    <3> QED  BY <1>2, <2>13, <3>1, KeepsTwice
  <2> QED  BY <2>3, <2>4, <2>13, <2>14 DEF es
<1> QED  BY <1>3, <1>5, <1>6, <1>7

(* The bounds of a slice, counted from the first element.                  *)
LEMMA SliceBounded ==
  ASSUME NEW n \in Nat, NEW start \in Int \cup {NoLen}, NEW end \in Int \cup {NoLen}
  PROVE  /\ StartOf(start, n) \in Int
         /\ StartOf(start, n) = IF start = NoLen THEN 0 ELSE IF start < 0 THEN n + start
                                ELSE start
         /\ EndOfSlice(end, n) \in Int /\ EndOfSlice(end, n) <= n
         /\ EndOfSlice(end, n) = IF end = NoLen THEN n ELSE IF end < 0 THEN n + end
                                 ELSE IF end < n THEN end ELSE n
<1>1. StartOf(start, n) = IF start = NoLen THEN 0 ELSE IF start < 0 THEN n + start ELSE start
  <2>1. CASE start = NoLen  BY <2>1 DEF StartOf
  <2>2. CASE start # NoLen  BY <2>2 DEF StartOf
  <2> QED  BY <2>1, <2>2
<1>2. EndOfSlice(end, n) = IF end = NoLen THEN n ELSE IF end < 0 THEN n + end
                           ELSE IF end < n THEN end ELSE n
  <2>1. CASE end = NoLen  BY <2>1 DEF EndOfSlice
  <2>2. CASE end # NoLen  BY <2>2 DEF EndOfSlice
  <2> QED  BY <2>1, <2>2
<1>3. StartOf(start, n) \in Int
  <2>1. CASE start = NoLen  BY <1>1, <2>1
  <2>2. CASE start # NoLen
    <3>1. start \in Int  BY <2>2
    <3> QED  BY <1>1, <2>2, <3>1
  <2> QED  BY <2>1, <2>2
<1>4. EndOfSlice(end, n) \in Int /\ EndOfSlice(end, n) <= n
  <2>1. CASE end = NoLen  BY <1>2, <2>1
  <2>2. CASE end # NoLen
    <3>1. end \in Int  BY <2>2
    <3> QED  BY <1>2, <2>2, <3>1
  <2> QED  BY <2>1, <2>2
<1> QED  BY <1>1, <1>2, <1>3, <1>4

(* parseArraySlice gives the part of the array that its bounds say.        *)
LEMMA ArraySliceThere ==
  ASSUME ElementsHavePackets,
         NEW f, NEW v \in AllValues, NEW contents, NEW holds, NEW r,
         ArrayAhead(f, v, contents, holds, r),
         NEW start \in Int \cup {NoLen}, NEW end \in Int \cup {NoLen},
         NEW read, read = ReadArraySlice(r, MemoryOfFields(f), start, end)
  PROVE  /\ read.value = PartOf(v.elements, StartOf(start, Len(v.elements)),
                                EndOfSlice(end, Len(v.elements)))
         /\ Keeps(r, read.reader, f)
<1> DEFINE q == NumberBy(r, CountSize)
           N == Len(v.elements)
           s == StartOf(start, N)
           e == EndOfSlice(end, N)
<1>1. PICK c, w, ah, behind : CountedAhead(f, v, contents, c, w, ah, behind, holds, r, q)
  BY CountIsRead
<1>2. CountOut(r, MemoryOfFields(f)) = N  BY <1>1 DEF CountedAhead
<1>3. N \in Nat  BY TypesOfValues
<1>4. s \in Int /\ e \in Int /\ e <= Len(v.elements)  BY <1>3, SliceBounded
<1>5. read = ReadBetween(q, MemoryOfFields(f), Len(v.elements), s, e)
  BY <1>2 DEF ReadArraySlice, SliceCounted
<1> HIDE DEF q, s, e
<1>6. read.value = PartOf(v.elements, s, e) /\ Keeps(r, read.reader, f)
  BY <1>1, <1>4, <1>5, PartThere
<1> QED  BY <1>6 DEF s, e

(***************************************************************************)
(* Where a reading begins                                                  *)
(***************************************************************************)

(* What is written of a value is its packet and nothing else.              *)
LEMMA ValueFields ==
  ASSUME NEW v \in AllValues, PacketType(v) # NoPacket
  PROVE  LET f == FlattenSeq(Written(<<v>>))
             c == Contents[v]
         IN /\ PacketIsAt(f, <<>>, v, c, <<>>)
            /\ Solid(<<>>)
            /\ Total(<<>>) = 0
            /\ Total(f) = Bytelength(v)
            /\ HeaderOf(v) = RawHeader(PacketType(v), HeaderSizeOf(v), ContentSizeOf(v, c))
<1> DEFINE f == FlattenSeq(Written(<<v>>))
           c == Contents[v]
           w == NewBufferListWriter
           x == WriteWith(w, v, c)
           g == PacketFields(v, c)
           none == <<>>
<1>1. Counted(w) /\ w.buffers = <<>>  BY NewListCounts
<1>2. Counted(c) /\ c.length = ContentBytelengths[v]  BY ContentsAreCounted
<1>3. f = FieldsIn(x)  BY WrittenOne DEF WriteValue, FieldsIn
<1>4. FieldsIn(w) = none  BY <1>1, FlattenNothing DEF FieldsIn
<1> HIDE DEF f, c, w, x, g
<1>5. FieldsIn(x) = FieldsIn(w) \o g  BY <1>1, <1>2, WritesFields DEF x, g
<1>6. g \in Seq(Fields) /\ Total(g) = BytelengthWith(c.length, v)
  BY <1>2, PacketFieldsSize DEF g
<1>7. f = g  BY <1>3, <1>4, <1>5, <1>6
<1>8. none \in Seq(Fields) /\ f = (none \o g) \o none  BY <1>6, <1>7
<1>9. PacketIsAt(f, none, v, c, none)  BY <1>2, <1>8 DEF PacketIsAt, g
<1>10. Total(f) = Bytelength(v)  BY <1>2, <1>6, <1>7 DEF Bytelength
<1>11. HeaderOf(v) = RawHeader(PacketType(v), HeaderSizeOf(v), ContentSizeOf(v, c))
  BY <1>2 DEF HeaderOf, HeaderSizeOf, ContentSizeOf
<1> QED  BY <1>9, <1>10, <1>11, TotalNothing DEF Solid, f, c

(* A new list is neat.                                                     *)
LEMMA NewListNeat ==
  ASSUME NEW b, NEW size \in Nat, Spread(b, size), NEW to \in Nat, to < size,
         NEW f, Tidy(b, f)
  PROVE  Snug(NewBufferListReader(b, to), f)
<1> DEFINE x == NewBufferListReader(b, 0)
           r == NewBufferListReader(b, to)
           len == FoldLeft(LAMBDA sum, buffer : sum + Size(buffer), 0, b)
           y == [NewReader EXCEPT !.buffers = b, !.length = len]
<1>1. At(x, size, 0) /\ IsList(x) /\ x.buffers = b  BY ListReaderAt
<1>2. x = Seek(y, 0) /\ r = Seek(y, to)  BY DEF NewBufferListReader
<1>3. y.offset = 0
  <2> HIDE DEF len
  <2> QED  BY DEF NewReader
<1> HIDE DEF x, r, y
<1>4. x = y  BY <1>2, <1>3 DEF Seek, SeekThrows
<1>5. x.offset = 0 /\ 0 < size /\ 0 + to <= size /\ 0 + to = to /\ ListAt(x, size, 0)
  BY <1>1, AtPlace
<1>6. r = SkipBy(x, to)
  <2>1. r = Seek(x, to)  BY <1>2, <1>4
  <2>2. SkipBy(x, to) = SeekTo(x, to)  BY <1>5 DEF SkipBy
  <2> QED  BY <1>1, <2>1, <2>2 DEF SeekTo
<1>7. Keeps(x, r, f)  BY <1>1, <1>5, <1>6, SkipThere
<1>8. Neat(x)
  <2>1. x.curBufferOffset = 0
    <3>1. /\ x.curBufferIndex \in 1 .. Len(x.buffers)
          /\ x.curBufferOffset \in Nat
          /\ x.buffers[x.curBufferIndex].lo + x.curBufferOffset = 0
      <4>1. 0 \in Nat  OBVIOUS
      <4> QED  BY <1>5, <4>1, StandsInBuffer
    <3>2. x.buffers[x.curBufferIndex].lo \in Nat
      <4>1. Spread(x.buffers, size)  BY <1>5 DEF ListAt
      <4> QED  BY <3>1, <4>1, SpreadBuffers
    <3> DEFINE lo == x.buffers[x.curBufferIndex].lo
               place == x.curBufferOffset
    <3> HIDE DEF lo, place
    <3>3. lo \in Nat /\ place \in Nat /\ lo + place = 0 => place = 0  OBVIOUS
    <3> QED  BY <3>1, <3>2, <3>3 DEF lo, place
  <2> QED  BY <2>1 DEF Neat
<1>9. Snug(x, f)  BY <1>1, <1>8 DEF Snug
<1> QED  BY <1>7, <1>9 DEF Keeps, r

(* The header of a packet is read in front of it.                          *)
LEMMA HeaderInFront ==
  ASSUME NEW f, NEW a, NEW v \in AllValues, NEW c, NEW b, PacketIsAt(f, a, v, c, b),
         Solid(a), NEW r, At(r, Total(f), Total(a)),
         NEW read, read = ReadHeader(r, MemoryOfFields(f).headers)
  PROVE  read.header = RawHeader(PacketType(v), HeaderSizeOf(v), ContentSizeOf(v, c))
<1> DEFINE size == Total(f)
<1>1. At(read.reader, size, Total(a) + HeaderSizeOf(v))
      /\ read.header = RawHeader(PacketType(v), HeaderSizeOf(v), ContentSizeOf(v, c))
  BY PacketHeaderThere
<1> QED  BY <1>1
=============================================================================
