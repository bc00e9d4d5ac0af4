------------------------- MODULE PacketDecoder_proofs -------------------------
(***************************************************************************)
(* The safety of IpcPacketSocketDecoder, for any packets, any sizes of     *)
(* chunks and any listeners that throw: between two packets the reader     *)
(* stands where the next one starts, so it takes out what was put in.      *)
(***************************************************************************)
EXTENDS PacketDecoder, Buffers_proofs

SentPacket == [type : ValidTypes \cup {Foreign}, contentSize : Nat, start : Nat]

(* Where the n-th packet ends, and the next one starts. *)
After(n) == IF n = 0 THEN 0 ELSE EndOf(sent[n])

(* Packets follow one another on the stream, without a gap.                *)
Laid ==
  /\ sent \in Seq(SentPacket)
  /\ \A k \in 1 .. Len(sent) : sent[k].start = After(k - 1)
  /\ \A j, k \in 1 .. Len(sent) : j < k => EndOf(sent[j]) <= sent[k].start
  /\ arrived \in Nat /\ arrived <= Written

(* The header a whole packet is received with. *)
HeaderOf(p) == DeclareHeader(p.type, p.contentSize)

(* No packet can be delivered, before more bytes arrive or ever.           *)
Blocked ==
  LET n == Len(delivered)
  IN \/ n = Len(sent)
     \/ sent[n + 1].type = Foreign
     \/ EndOf(sent[n + 1]) > arrived

(* q is r with its cursor moved and its buffers merged, at most.           *)
Follows(q, r) ==
  /\ Sound(q, arrived)
  /\ q.length = r.length
  /\ q.contexts = r.contexts
  /\ BaseOf(q, arrived) = BaseOf(r, arrived)
  /\ r.timestamp <= q.timestamp
  /\ q.timestamp = r.timestamp => q.buffers = r.buffers

(***************************************************************************)
(* Headers                                                                 *)
(***************************************************************************)

(* The sizes a header of each kind declares.                               *)
LEMMA DeclaredSizes ==
  ASSUME NEW p \in SentPacket
  PROVE  /\ p.type = Foreign =>
              /\ DeclareHeader(p.type, -1) = InvalidRawHeader
              /\ WireSize(p) = p.contentSize + 3
         /\ p.type \in DynamicTypes =>
              /\ DeclareHeader(p.type, -1) = RawHeader(p.type, 6, -1)
              /\ HeaderOf(p) = RawHeader(p.type, 6, p.contentSize)
              /\ WireSize(p) = p.contentSize + 7
         /\ p.type \in ValidTypes \ DynamicTypes =>
              \E size \in Nat :
                /\ DeclareHeader(p.type, -1) = RawHeader(p.type, 2, size)
                /\ HeaderOf(p) = RawHeader(p.type, 2, size)
                /\ WireSize(p) = size + 3
         /\ p.type = Foreign \/ p.type \in ValidTypes
         /\ p.contentSize \in Nat /\ p.start \in Nat
<1>1. /\ p.type = Foreign \/ p.type \in ValidTypes
      /\ p.contentSize \in Nat /\ p.start \in Nat
  BY DEF SentPacket
<1>0. /\ p.type \in DoubleTypes => /\ p.type \notin IntegerTypes
                                  /\ p.type \notin EmptyTypes
                                  /\ p.type \notin DynamicTypes
      /\ p.type \in IntegerTypes => /\ p.type \notin EmptyTypes
                                   /\ p.type \notin DynamicTypes
      /\ p.type \in EmptyTypes => p.type \notin DynamicTypes
      /\ p.type \in ValidTypes => p.type # Foreign
  BY DEF Foreign, DoubleTypes, IntegerTypes, EmptyTypes, DynamicTypes, ValidTypes
<1>2. CASE p.type = Foreign
  BY <1>1, <1>2 DEF Foreign, DeclareHeader, DoubleTypes, IntegerTypes, EmptyTypes,
                    DynamicTypes, ValidTypes, WireSize, FixedHeaderSize, FooterLength
<1>3. CASE p.type \in DynamicTypes
  <2>1. /\ p.type \notin DoubleTypes /\ p.type \notin IntegerTypes
        /\ p.type \notin EmptyTypes /\ p.type # Foreign
    BY <1>0, <1>3 DEF ValidTypes
  <2>2. \A size : DeclareHeader(p.type, size) = RawHeader(p.type, 6, size)
    BY <1>3, <2>1 DEF DeclareHeader, DynamicHeaderSize, FixedHeaderSize, ContentFieldSize
  <2>3. WireSize(p) = PacketSize(RawHeader(p.type, 6, p.contentSize))
    BY <2>1, <2>2 DEF WireSize
  <2>4. WireSize(p) = p.contentSize + 7
    BY <1>1, <2>3 DEF PacketSize, RawHeader, FooterLength
  <2> QED  BY <1>1, <1>3, <2>1, <2>2, <2>4 DEF HeaderOf
<1>4. CASE p.type \in ValidTypes \ DynamicTypes
  <2>1. PICK size \in Nat :
          \A given : DeclareHeader(p.type, given) = RawHeader(p.type, 2, size)
    <3>1. CASE p.type \in DoubleTypes
      <4>1. \A given : DeclareHeader(p.type, given) = RawHeader(p.type, 2, 8)
        BY <1>0, <3>1 DEF DeclareHeader, FixedHeaderSize, DoubleContentSize
      <4> QED  BY <4>1
    <3>2. CASE p.type \in IntegerTypes
      <4>1. \A given : DeclareHeader(p.type, given) = RawHeader(p.type, 2, 4)
        BY <1>0, <3>2 DEF DeclareHeader, FixedHeaderSize, IntegerContentSize
      <4> QED  BY <4>1
    <3>3. CASE p.type \in EmptyTypes
      <4>1. \A given : DeclareHeader(p.type, given) = RawHeader(p.type, 2, 0)
        BY <1>0, <3>3 DEF DeclareHeader, FixedHeaderSize, ZeroContentSize
      <4> QED  BY <4>1
    <3> QED  BY <1>4, <3>1, <3>2, <3>3 DEF ValidTypes
  <2>2. p.type # Foreign  BY <1>0, <1>4
  <2>3. WireSize(p) = size + 3
    BY <1>1, <2>1, <2>2 DEF WireSize, PacketSize, RawHeader, FooterLength
  <2> QED  BY <1>1, <1>4, <2>1, <2>2, <2>3 DEF HeaderOf
<1> QED  BY <1>1, <1>2, <1>3, <1>4 DEF ValidTypes

(* A packet takes three bytes at least: no two start at the same place.    *)
LEMMA PacketBounds ==
  ASSUME NEW p \in SentPacket
  PROVE  /\ WireSize(p) \in Nat /\ WireSize(p) >= 3
         /\ EndOf(p) \in Nat /\ EndOf(p) = p.start + WireSize(p)
         /\ p.start \in Nat
<1>1. WireSize(p) \in Nat /\ WireSize(p) >= 3  BY DeclaredSizes DEF ValidTypes
<1>2. p.start \in Nat  BY DEF SentPacket
<1> QED  BY <1>1, <1>2 DEF EndOf

(* Where the packets that were sent begin and end.                         *)
LEMMA SentBounds ==
  ASSUME Laid
  PROVE  /\ Len(sent) \in Nat
         /\ Written = After(Len(sent))
         /\ \A k \in 1 .. Len(sent) :
              /\ sent[k] \in SentPacket
              /\ sent[k].start \in Nat /\ EndOf(sent[k]) \in Nat
              /\ WireSize(sent[k]) \in Nat /\ WireSize(sent[k]) >= 3
              /\ EndOf(sent[k]) = sent[k].start + WireSize(sent[k])
              /\ EndOf(sent[k]) <= Written
<1>1. Len(sent) \in Nat /\ \A k \in 1 .. Len(sent) : sent[k] \in SentPacket
  BY DEF Laid
<1>2. Written = After(Len(sent))
  BY <1>1 DEF Laid, Written, After, Last
<1>3. \A k \in 1 .. Len(sent) :
        /\ sent[k].start \in Nat /\ EndOf(sent[k]) \in Nat
        /\ WireSize(sent[k]) \in Nat /\ WireSize(sent[k]) >= 3
        /\ EndOf(sent[k]) = sent[k].start + WireSize(sent[k])
  BY <1>1, PacketBounds
<1>4. ASSUME NEW k \in 1 .. Len(sent) PROVE EndOf(sent[k]) <= Written
  <2> DEFINE l == Len(sent)
  <2>1. l \in 1 .. l /\ Written = EndOf(sent[l])  BY <1>1, <1>2 DEF After
  <2>2. CASE k = l  BY <2>1, <2>2, <1>3
  <2>3. CASE k < l
    <3>1. EndOf(sent[k]) <= sent[l].start  BY <2>1, <2>3 DEF Laid
    <3> QED  BY <2>1, <3>1, <1>3
  <2> QED  BY <1>1, <2>2, <2>3
<1> QED  BY <1>1, <1>2, <1>3, <1>4

(* The two bytes at the start of a packet are its header. *)
LEMMA HeaderIsThere ==
  ASSUME Laid, NEW k \in 1 .. Len(sent)
  PROVE  PacketAt(sent, sent[k].start) = sent[k]
<1> DEFINE j == CHOOSE i \in 1 .. Len(sent) : sent[i].start = sent[k].start
<1>1. j \in 1 .. Len(sent) /\ sent[j].start = sent[k].start  OBVIOUS
<1>2. PacketAt(sent, sent[k].start) = sent[j]  BY DEF PacketAt
<1> HIDE DEF j
<1>3. ~(j < k)
  <2> SUFFICES ASSUME j < k PROVE FALSE  OBVIOUS
  <2>1. EndOf(sent[j]) <= sent[k].start  BY <1>1 DEF Laid
  <2> QED  BY <1>1, <2>1, SentBounds
<1>5. ~(k < j)
  <2> SUFFICES ASSUME k < j PROVE FALSE  OBVIOUS
  <2>1. EndOf(sent[k]) <= sent[j].start  BY <1>1 DEF Laid
  <2> QED  BY <1>1, <2>1, SentBounds
<1>4. j = k  BY <1>1, <1>3, <1>5, SentBounds
<1> QED  BY <1>2, <1>4

(***************************************************************************)
(* The reader, at a header and behind it                                   *)
(***************************************************************************)

(* A BufferListReader is read by the methods of its class.                 *)
LEMMA ListMethods ==
  ASSUME NEW r, Sound(r, arrived), NEW len
  PROVE  /\ NumberOut(r, len) = ReadOut(r, len)
         /\ NumberBy(r, len) = Consolidate(r, len)
         /\ AtEOF(r, len) <=> r.offset + len > r.length
<1>1. IsList(r)  BY DEF Sound, Reader, IsList
<1> QED  BY <1>1 DEF NumberOut, NumberBy, AtEOF, LengthOf

(* A reader that was not used follows itself.                              *)
LEMMA FollowsItself ==
  ASSUME NEW r, Sound(r, arrived)
  PROVE  Follows(r, r)
<1>1. r.timestamp \in Nat  BY DEF Sound, Reader
<1> QED  BY <1>1 DEF Follows

(* A number that is there is read from where the cursor is. *)
LEMMA NumberReads ==
  ASSUME NEW r, NEW q, Sound(r, arrived), Follows(q, r),
         NEW len \in Nat \ {0}, ~AtEOF(q, len)
  PROVE  /\ Follows(NumberBy(q, len), r)
         /\ NumberBy(q, len).offset = q.offset + len
         /\ NumberOut(q, len).lo = PositionOf(q, arrived)
<1> DEFINE n == NumberBy(q, len)
<1>1. Sound(q, arrived)  BY DEF Follows
<1>2. q.offset + len <= q.length
  BY <1>1, ListMethods, OffsetInLength
<1>3. /\ Sound(n, arrived)
      /\ n.offset = q.offset + len
      /\ n.length = q.length
      /\ n.contexts = q.contexts
      /\ BaseOf(n, arrived) = BaseOf(q, arrived)
      /\ q.timestamp <= n.timestamp
      /\ n.timestamp = q.timestamp => n.buffers = q.buffers
      /\ ReadOut(q, len) = [lo |-> PositionOf(q, arrived),
                            hi |-> PositionOf(q, arrived) + len]
  BY <1>1, <1>2, ListMethods, ConsolidateReads
<1> HIDE DEF n
<1>4. /\ r.timestamp \in Nat /\ q.timestamp \in Nat /\ n.timestamp \in Nat
  BY <1>1, <1>3 DEF Sound, Reader
<1>5. Follows(n, r)
  <2>1. n.timestamp = r.timestamp => n.buffers = r.buffers
    BY <1>3, <1>4 DEF Follows
  <2>2. r.timestamp <= n.timestamp  BY <1>3, <1>4 DEF Follows
  <2> QED  BY <1>3, <2>1, <2>2 DEF Follows
<1>6. NumberOut(q, len).lo = PositionOf(q, arrived)  BY <1>1, <1>3, ListMethods
<1> QED  BY <1>3, <1>5, <1>6 DEF n

(* setContext comes back to where the reading of the header began.         *)
LEMMA RewindReturns ==
  ASSUME NEW r, NEW q, Sound(r, arrived), Follows(q, r),
         q = r \/ r.offset < r.length,
         NEW back, back = SetContext(q, GetContext(r))
  PROVE  /\ Sound(back, arrived)
         /\ back.offset = r.offset
         /\ back.length = r.length
         /\ back.contexts = r.contexts
         /\ BaseOf(back, arrived) = BaseOf(r, arrived)
         /\ PositionOf(back, arrived) = PositionOf(r, arrived)
<1> DEFINE context == GetContext(r)
<1>1. /\ context.timestamp = r.timestamp /\ context.offset = r.offset
      /\ context.curBufferIndex = r.curBufferIndex
      /\ context.curOffset = r.curBufferOffset
  BY DEF GetContext
<1>2. context \in Context  BY DEF GetContext, Context, Sound, Reader
<1> HIDE DEF context
<1>3. ASSUME context.timestamp = q.timestamp
      PROVE  SamePlace(q, context.offset, context.curBufferIndex, context.curOffset)
  <2>1. q.buffers = r.buffers /\ q.length = r.length
    BY <1>1, <1>3 DEF Follows
  <2> QED  BY <1>1, <2>1 DEF Sound, CursorOf, SamePlace
<1>4. ASSUME context.timestamp # q.timestamp
      PROVE  context.offset < q.length
  BY <1>1, <1>4 DEF Follows
<1>5. /\ Sound(back, arrived)
      /\ back.offset = context.offset
      /\ back.length = q.length
      /\ back.contexts = q.contexts
      /\ BaseOf(back, arrived) = BaseOf(q, arrived)
  <2>1. back = SetContext(q, context)  BY DEF context
  <2>2. Sound(q, arrived)  BY DEF Follows
  <2> QED  BY <1>2, <1>3, <1>4, <2>1, <2>2, SetContextRestores
<1> QED  BY <1>1, <1>5 DEF Follows, PositionOf

(* ReadHeader says what the next packet is when it is all there, and else  *)
(* that it is not valid.                                                   *)
WholePacket(n, header) ==
  /\ n < Len(sent)
  /\ sent[n + 1].type \in ValidTypes
  /\ EndOf(sent[n + 1]) <= arrived
  /\ header = HeaderOf(sent[n + 1])

NoPacket(n, header) ==
  /\ header = InvalidRawHeader
  /\ \/ n = Len(sent)
     \/ sent[n + 1].type = Foreign
     \/ EndOf(sent[n + 1]) > arrived

(* Where a packet begins ReadHeader finds all of it or nothing, and in the *)
(* second case what it read can be given back.                             *)
LEMMA HeaderRead ==
  ASSUME Laid, NEW n \in 0 .. Len(sent), NEW r, Sound(r, arrived),
         PositionOf(r, arrived) = After(n),
         NEW read, read = ReadHeader(r, sent)
  PROVE  /\ Follows(read.reader, r)
         /\ read.reader = r \/ r.offset < r.length
         /\ WholePacket(n, read.header) \/ NoPacket(n, read.header)
<1> DEFINE p == sent[n + 1]
           typed == NumberBy(r, 2)
           sized == NumberBy(typed, 4)
           header == DeclareHeader(PacketAt(sent, NumberOut(r, 2).lo).type, -1)
<1>1. /\ r.offset \in Nat /\ r.length \in Nat /\ arrived \in Nat
      /\ Len(sent) \in Nat /\ After(n) \in Nat
      /\ r.length - r.offset = arrived - After(n)
  BY Positions, OffsetInLength, SentBounds DEF Laid, After
<1>2. n < Len(sent) =>
        /\ p \in SentPacket /\ After(n) = p.start
        /\ WireSize(p) \in Nat /\ WireSize(p) >= 3
        /\ EndOf(p) = After(n) + WireSize(p)
  <2> SUFFICES ASSUME n < Len(sent)
               PROVE  /\ p \in SentPacket /\ After(n) = p.start
                      /\ WireSize(p) \in Nat /\ WireSize(p) >= 3
                      /\ EndOf(p) = After(n) + WireSize(p)
    OBVIOUS
  <2>1. n + 1 \in 1 .. Len(sent) /\ (n + 1) - 1 = n  BY <1>1
  <2>2. sent[n + 1].start = After(n)  BY <2>1 DEF Laid
  <2> QED  BY <2>1, <2>2, SentBounds
<1>3. ReadHeader(r, sent) =
        CASE AtEOF(r, 2) -> Partial(r)
          [] ~AtEOF(r, 2) /\ IsNotValid(header) ->
               [header |-> header, reader |-> typed]
          [] ~AtEOF(r, 2) /\ header.headerSize = 6 ->
               IF AtEOF(typed, 4)
               THEN Partial(typed)
               ELSE Complete(sized, [header EXCEPT !.contentSize =
                      PacketAt(sent, NumberOut(r, 2).lo).contentSize])
          [] OTHER -> Complete(typed, header)
  BY DEF ReadHeader, FixedHeaderSize, ContentFieldSize, DynamicHeaderSize
<1>4. \A q : Partial(q).header = InvalidRawHeader /\ Partial(q).reader = q
  BY DEF Partial, DeclareHeader, DoubleTypes, IntegerTypes, EmptyTypes, DynamicTypes
<1>5. CASE AtEOF(r, 2)
  <2>1. read = Partial(r)  BY <1>3, <1>5
  <2>2. NoPacket(n, read.header)
    BY <1>1, <1>2, <1>4, <1>5, <2>1, ListMethods DEF NoPacket
  <2> QED  BY <1>4, <2>1, <2>2, FollowsItself
<1>6. CASE ~AtEOF(r, 2)
  <2>1. r.offset + 2 <= r.length  BY <1>1, <1>6, ListMethods
  <2>2. n < Len(sent)  BY <1>1, <2>1, SentBounds DEF Laid
  <2>3. /\ Follows(typed, r) /\ typed.offset = r.offset + 2
        /\ NumberOut(r, 2).lo = After(n)
    BY <1>6, FollowsItself, NumberReads
  <2>4. PacketAt(sent, NumberOut(r, 2).lo) = p
    <3>1. n + 1 \in 1 .. Len(sent)  BY <1>1, <2>2
    <3>2. PacketAt(sent, sent[n + 1].start) = sent[n + 1]  BY <1>1, <3>1, HeaderIsThere
    <3>3. NumberOut(r, 2).lo = sent[n + 1].start  BY <1>2, <2>2, <2>3
    <3> QED  BY <3>2, <3>3
  <2>5. header = DeclareHeader(p.type, -1)  BY <2>4
  <2>6. /\ p \in SentPacket /\ EndOf(p) = After(n) + WireSize(p)
        /\ WireSize(p) \in Nat
    BY <1>2, <2>2
  <2> HIDE DEF header, p, typed
  <2>7. \A q : Sound(q, arrived) /\ Follows(q, r) =>
          \A h : /\ Complete(q, h).reader = q
                 /\ Complete(q, h).header =
                      IF q.offset + (h.contentSize + 1) > r.length
                      THEN InvalidRawHeader ELSE h
    BY <1>4, ListMethods DEF Complete, FooterLength, Follows
  <2>8. CASE p.type = Foreign
    <3>1. header = InvalidRawHeader  BY <2>5, <2>6, <2>8, DeclaredSizes
    <3>2. read = [header |-> header, reader |-> typed]
      BY <1>3, <1>6, <3>1 DEF IsNotValid, InvalidRawHeader
    <3>3. NoPacket(n, read.header)  BY <2>8, <3>1, <3>2 DEF NoPacket, p
    <3> QED  BY <1>1, <2>1, <2>3, <3>2, <3>3
  <2>9. CASE p.type \in DynamicTypes
    <3> DEFINE full == [header EXCEPT !.contentSize = p.contentSize]
    <3>1. /\ header = RawHeader(p.type, 6, -1)
          /\ HeaderOf(p) = RawHeader(p.type, 6, p.contentSize)
          /\ WireSize(p) = p.contentSize + 7 /\ p.contentSize \in Nat
          /\ p.type # Foreign /\ p.type # "NotValid"
      BY <2>5, <2>6, <2>9, DeclaredSizes DEF DynamicTypes, Foreign
    <3>2. ~IsNotValid(header) /\ header.headerSize = 6
      BY <3>1 DEF IsNotValid, RawHeader
    <3>3. full = HeaderOf(p) /\ full.contentSize = p.contentSize
      BY <3>1 DEF RawHeader
    <3> HIDE DEF full
    <3>4. read = IF AtEOF(typed, 4) THEN Partial(typed) ELSE Complete(sized, full)
      BY <1>3, <1>6, <2>4, <3>2 DEF full
    <3>5. Sound(typed, arrived) /\ typed.length = r.length  BY <2>3 DEF Follows
    <3>6. CASE AtEOF(typed, 4)
      <4>1. read = Partial(typed)  BY <3>4, <3>6
      <4>2. typed.offset + 4 > r.length  BY <3>5, <3>6, ListMethods
      <4>3. r.offset + 6 > r.length  BY <1>1, <2>3, <4>2
      <4>5. EndOf(p) > arrived
        <5>1. EndOf(p) = After(n) + (p.contentSize + 7)  BY <2>6, <3>1
        <5>2. p.contentSize \in Nat  BY <3>1
        <5> QED  BY <1>1, <4>3, <5>1, <5>2, SMTT(30)
      <4>4. NoPacket(n, read.header)  BY <1>4, <4>1, <4>5 DEF NoPacket, p
      <4> QED  BY <1>1, <1>4, <2>1, <2>3, <4>1, <4>4
    <3>7. CASE ~AtEOF(typed, 4)
      <4>1. read = Complete(sized, full)  BY <3>4, <3>7
      <4>2. Follows(sized, r) /\ sized.offset = r.offset + 6
        BY <1>1, <2>3, <3>7, NumberReads
      <4> HIDE DEF sized
      <4>3. Sound(sized, arrived)  BY <4>2 DEF Follows
      <4>4. /\ read.reader = sized
            /\ read.header = IF sized.offset + (full.contentSize + 1) > r.length
                             THEN InvalidRawHeader ELSE full
        BY <2>7, <4>1, <4>2, <4>3
      <4>5. sized.offset + (full.contentSize + 1) > r.length <=> EndOf(p) > arrived
        <5>1. EndOf(p) = After(n) + (p.contentSize + 7)  BY <2>6, <3>1
        <5>2. PICK size \in Nat : size = p.contentSize  BY <3>1
        <5>3. sized.offset = r.offset + 6 /\ full.contentSize = size
          BY <3>3, <4>2, <5>2
        <5>4. EndOf(p) = After(n) + (size + 7)  BY <5>1, <5>2
        <5> QED  BY <1>1, <5>3, <5>4, SMTT(30)
      <4>6. CASE EndOf(p) > arrived
        BY <1>1, <2>1, <4>2, <4>4, <4>5, <4>6 DEF NoPacket, p
      <4>7. CASE ~(EndOf(p) > arrived)
        <5>1. read.header = HeaderOf(p) /\ EndOf(p) <= arrived
          BY <1>1, <2>6, <3>3, <4>4, <4>5, <4>7
        <5>2. WholePacket(n, read.header)
          BY <2>2, <2>9, <5>1 DEF WholePacket, ValidTypes, p
        <5> QED  BY <1>1, <2>1, <4>2, <4>4, <5>2
      <4> QED  BY <4>6, <4>7
    <3> QED  BY <3>6, <3>7
  <2>10. CASE p.type \in ValidTypes \ DynamicTypes
    <3>1. PICK size \in Nat :
            /\ header = RawHeader(p.type, 2, size)
            /\ HeaderOf(p) = RawHeader(p.type, 2, size)
            /\ WireSize(p) = size + 3
      BY <2>5, <2>6, <2>10, DeclaredSizes
    <3>2. p.type # "NotValid"
      BY <2>10 DEF ValidTypes, DoubleTypes, IntegerTypes, EmptyTypes, DynamicTypes
    <3>3. ~IsNotValid(header) /\ header.headerSize = 2 /\ header.contentSize = size
      BY <3>1, <3>2 DEF IsNotValid, RawHeader
    <3>4. read = Complete(typed, header)  BY <1>3, <1>6, <3>3
    <3>5. Sound(typed, arrived)  BY <2>3 DEF Follows
    <3>6. /\ read.reader = typed
          /\ read.header = IF typed.offset + (size + 1) > r.length
                           THEN InvalidRawHeader ELSE header
      BY <2>3, <2>7, <3>3, <3>4, <3>5
    <3>7. typed.offset + (size + 1) > r.length <=> EndOf(p) > arrived
      BY <1>1, <2>3, <2>6, <3>1, SMTT(30)
    <3>8. CASE EndOf(p) > arrived
      BY <1>1, <2>1, <2>3, <3>6, <3>7, <3>8 DEF NoPacket, p
    <3>9. CASE ~(EndOf(p) > arrived)
      <4>1. read.header = HeaderOf(p) /\ EndOf(p) <= arrived
        BY <1>1, <2>6, <3>1, <3>6, <3>7, <3>9
      <4>2. WholePacket(n, read.header)
        BY <2>2, <2>10, <4>1 DEF WholePacket, p
      <4> QED  BY <1>1, <2>1, <2>3, <3>6, <4>2
    <3> QED  BY <3>8, <3>9
  <2> QED  BY <2>6, <2>8, <2>9, <2>10, DeclaredSizes DEF ValidTypes
<1> QED  BY <1>5, <1>6

(***************************************************************************)
(* The invariant                                                           *)
(***************************************************************************)

(* Between two packets the reader stands where the next one starts.        *)
Reading ==
  /\ Sound(reader, arrived)
  /\ reader.contexts = <<>>
  /\ PositionOf(reader, arrived) = After(Len(delivered))

ReceivedOf(p) ==
  [type |-> p.type, contentSize |-> HeaderOf(p).contentSize,
   bytes |-> [lo |-> p.start, hi |-> EndOf(p)]]

DeliveredRight ==
  /\ delivered \in Seq(Received)
  /\ Len(delivered) <= Len(sent)
  /\ \A k \in 1 .. Len(delivered) :
       /\ sent[k].type \in ValidTypes
       /\ EndOf(sent[k]) <= arrived
       /\ delivered[k] = ReceivedOf(sent[k])

(* What 'packet[]' is still to bring is in packets. *)
BatchedRight ==
  /\ packets \in Seq(Received) /\ batched \in Seq(Received)
  /\ ~threw => /\ delivered = batched \o packets
               /\ pc = "idle" => packets = <<>>

(* The loop of handleData ends by a listener that throws, or when no       *)
(* packet is left.                                                         *)
LoopEnds ==
  /\ open \in BOOLEAN /\ failed \in BOOLEAN
  /\ cutShort \in BOOLEAN /\ threw \in BOOLEAN
  /\ pc \in {"idle", "decode", "check", "batch"}
  /\ packet = InvalidRawHeader
  /\ cutShort => pc = "idle"
  /\ pc # "idle" => open
  /\ pc # "decode" /\ ~cutShort => Blocked

LittleIsDead(r) == r.offset <= ReduceThreshold \/ 2 * r.offset <= r.length

(* What was taken out since the last reduce is in packets. *)
Reduced == ~threw /\ packets = <<>> => LittleIsDead(reader)

IInv ==
  /\ Laid
  /\ Reading
  /\ DeliveredRight
  /\ BatchedRight
  /\ LoopEnds
  /\ Reduced

(* Nothing was sent and nothing was decoded.                               *)
LEMMA InitInv == Init => IInv
<1> SUFFICES ASSUME Init PROVE IInv  OBVIOUS
<1>1. /\ sent = <<>> /\ arrived = 0 /\ open = TRUE /\ pc = "idle"
      /\ reader = NewReader /\ packet = InvalidRawHeader
      /\ packets = <<>> /\ delivered = <<>> /\ batched = <<>>
      /\ failed = FALSE /\ cutShort = FALSE /\ threw = FALSE
  BY DEF Init
<1>2. Len(<<>>) = 0 /\ 1 .. 0 = {}  OBVIOUS
<1>3. NewReader = ResetReader(NewReader) /\ NewReader.timestamp \in Nat
  BY DEF ResetReader, NewReader
<1>4. /\ Sound(reader, arrived) /\ BaseOf(reader, arrived) = 0
      /\ reader.offset = 0 /\ reader.contexts = <<>>
  BY <1>1, <1>3, ResetSound
<1>5. Laid
  <2>1. sent \in Seq(SentPacket)  BY <1>1
  <2> QED  BY <1>1, <1>2, <2>1 DEF Laid, Written
<1>6. Reading  BY <1>1, <1>2, <1>4 DEF Reading, PositionOf, After
<1>7. DeliveredRight
  <2>1. delivered \in Seq(Received)  BY <1>1
  <2> QED  BY <1>1, <1>2, <2>1 DEF DeliveredRight
<1>8. BatchedRight
  <2>1. packets \in Seq(Received) /\ batched \in Seq(Received)  BY <1>1
  <2>2. delivered = batched \o packets  BY <1>1
  <2> QED  BY <1>1, <2>1, <2>2 DEF BatchedRight
<1>9. LoopEnds  BY <1>1, <1>2 DEF LoopEnds, Blocked
<1>10. Reduced
  BY <1>4, ReduceThresholdAssumption DEF Reduced, LittleIsDead
<1> QED  BY <1>5, <1>6, <1>7, <1>8, <1>9, <1>10 DEF IInv

(* The other end writes behind what it has written. *)
LEMMA SendStep ==
  ASSUME IInv, NEW given \in Packets, Send(given)
  PROVE  IInv'
<1> DEFINE new == [type |-> given.type, contentSize |-> given.contentSize,
                   start |-> Written]
           l == Len(sent)
<1>1. /\ sent' = Append(sent, new)
      /\ UNCHANGED <<arrived, open, pc, reader, packet, packets, delivered, batched,
                     failed, cutShort, threw>>
  BY DEF Send, network, decoder, observed
<1>2. /\ l \in Nat /\ Written = After(l) /\ Written \in Nat
      /\ arrived \in Nat /\ arrived <= Written
      /\ sent \in Seq(SentPacket)
  BY SentBounds DEF IInv, Laid, After
<1>3. new \in SentPacket
  BY <1>2, DecoderAssumption DEF SentPacket
<1> HIDE DEF new
<1>4. new.start = Written  BY DEF new
<1>5. /\ sent' \in Seq(SentPacket) /\ Len(sent') = l + 1
      /\ \A k \in 1 .. l : sent'[k] = sent[k]
      /\ sent'[l + 1] = new
  BY <1>1, <1>2, <1>3
<1>6. EndOf(new) \in Nat /\ EndOf(new) >= Written + 3
  BY <1>2, <1>3, <1>4, PacketBounds
<1>7. \A k \in 0 .. l : After(k)' = After(k)
  BY <1>2, <1>5 DEF After
<1>8. Written' = EndOf(new)
  <2>1. sent' # <<>> /\ Last(sent') = new  BY <1>2, <1>5 DEF Last
  <2> QED  BY <2>1 DEF Written
<1>9. Laid'
  <2>1. ASSUME NEW k \in 1 .. l + 1 PROVE sent'[k].start = After(k - 1)'
    <3>1. CASE k = l + 1  BY <1>2, <1>4, <1>5, <1>7, <3>1
    <3>2. CASE k # l + 1
      <4>1. k \in 1 .. l /\ k - 1 \in 0 .. l  BY <1>2, <3>2
      <4> QED  BY <1>5, <1>7, <4>1 DEF IInv, Laid
    <3> QED  BY <3>1, <3>2
  <2>2. ASSUME NEW j \in 1 .. l + 1, NEW k \in 1 .. l + 1, j < k
        PROVE  EndOf(sent'[j]) <= sent'[k].start
    <3>1. j \in 1 .. l /\ sent'[j] = sent[j]  BY <1>2, <1>5, <2>2
    <3>2. CASE k = l + 1
      BY <1>4, <1>5, <3>1, <3>2, SentBounds DEF IInv
    <3>3. CASE k # l + 1
      <4>1. k \in 1 .. l  BY <1>2, <3>3
      <4> QED  BY <1>5, <2>2, <3>1, <4>1 DEF IInv, Laid
    <3> QED  BY <3>2, <3>3
  <2>3. arrived' \in Nat /\ arrived' <= Written'  BY <1>1, <1>2, <1>6, <1>8
  <2> QED  BY <1>5, <2>1, <2>2, <2>3 DEF Laid
<1>10. /\ Len(delivered) \in 0 .. l /\ \A k \in 1 .. Len(delivered) : k \in 1 .. l
  BY <1>2 DEF IInv, DeliveredRight
<1>11. Reading'  BY <1>1, <1>7, <1>10 DEF IInv, Reading
<1>12. DeliveredRight'  BY <1>1, <1>2, <1>5, <1>10 DEF IInv, DeliveredRight
<1>13. Blocked => Blocked'
  <2> SUFFICES ASSUME Blocked PROVE Blocked'  OBVIOUS
  <2>1. CASE Len(delivered) = l
    BY <1>1, <1>2, <1>5, <1>6, <2>1 DEF Blocked
  <2>2. CASE Len(delivered) # l
    <3>1. Len(delivered) + 1 \in 1 .. l  BY <1>2, <1>10, <2>2
    <3> QED  BY <1>1, <1>5, <2>2, <3>1 DEF Blocked
  <2> QED  BY <2>1, <2>2
<1> QED
  BY <1>1, <1>9, <1>11, <1>12, <1>13
     DEF IInv, BatchedRight, LoopEnds, Reduced, LittleIsDead

(* A chunk is appended, and moves nothing. *)
LEMMA HandleDataStep ==
  ASSUME IInv, NEW size \in ChunkSizes, HandleData(size)
  PROVE  IInv'
<1>1. /\ open /\ pc = "idle" /\ arrived' = arrived + size /\ arrived + size <= Written
      /\ reader' = AppendBuffer(reader, [lo |-> arrived, hi |-> arrived + size])
      /\ packets' = <<>> /\ failed' = FALSE /\ cutShort' = FALSE /\ pc' = "decode"
      /\ UNCHANGED <<sent, open, packet, delivered, batched, threw>>
  BY DEF HandleData, sender
<1>2. size \in Nat \ {0}  BY DecoderAssumption
<1>3. /\ Sound(reader, arrived) /\ arrived \in Nat /\ sent \in Seq(SentPacket)
      /\ reader.offset \in Nat /\ reader.length \in Nat
  BY OffsetInLength DEF IInv, Reading, Laid
<1>0. /\ Sound(reader', arrived + size) /\ reader'.offset = reader.offset
      /\ reader'.length = reader.length + size /\ reader'.contexts = reader.contexts
      /\ BaseOf(reader', arrived + size) = BaseOf(reader, arrived)
  <2>1. reader' = AppendBuffer(reader, [lo |-> arrived, hi |-> arrived + size])
    BY <1>1
  <2>2. Sound(reader, arrived)  BY <1>3
  <2> QED  BY ONLY <1>2, <2>1, <2>2, AppendSound
<1>4. /\ Sound(reader', arrived') /\ reader'.offset = reader.offset
      /\ reader'.length = reader.length + size /\ reader'.contexts = reader.contexts
      /\ BaseOf(reader', arrived') = BaseOf(reader, arrived)
  BY <1>0, <1>1
<1>5. Laid'  BY <1>1, <1>2, <1>3 DEF IInv, Laid, Written, After
<1>6. Reading'  BY <1>1, <1>4 DEF IInv, Reading, PositionOf, After
<1>7. DeliveredRight'
  <2>1. ASSUME NEW k \in 1 .. Len(delivered) PROVE EndOf(sent[k]) <= arrived'
    <3>1. k \in 1 .. Len(sent) /\ EndOf(sent[k]) <= arrived
      BY DEF IInv, DeliveredRight, Laid
    <3>2. EndOf(sent[k]) \in Nat  BY <3>1, SentBounds DEF IInv
    <3> QED  BY <1>1, <1>2, <1>3, <3>1, <3>2
  <2> QED  BY <1>1, <2>1 DEF IInv, DeliveredRight
<1>8. BatchedRight'
  <2>1. packets' \in Seq(Received)  BY <1>1
  <2>2. ~threw => delivered = batched \o packets'  BY <1>1 DEF IInv, BatchedRight
  <2> QED  BY <1>1, <2>1, <2>2 DEF IInv, BatchedRight
<1>9. LoopEnds'  BY <1>1 DEF IInv, LoopEnds
<1>10. Reduced'
  <2> SUFFICES ASSUME ~threw PROVE LittleIsDead(reader')
    BY <1>1 DEF Reduced
  <2>1. LittleIsDead(reader)  BY <1>1 DEF IInv, BatchedRight, Reduced
  <2> QED  BY <1>2, <1>3, <1>4, <2>1, ReduceThresholdAssumption DEF LittleIsDead
<1> QED  BY <1>5, <1>6, <1>7, <1>8, <1>9, <1>10 DEF IInv

(* A packet that is all there is taken out, byte for byte. *)
LEMMA DecodePacketStep ==
  ASSUME IInv, DecodePacket
  PROVE  /\ IInv'
         /\ open /\ UNCHANGED <<sent, open>>
         /\ Len(delivered) < Len(sent)
         /\ LET p == sent[Len(delivered) + 1]
            IN p.type \in ValidTypes /\ delivered' = Append(delivered, ReceivedOf(p))
<1> DEFINE n == Len(delivered)
           p == sent[n + 1]
           read == ReadHeader(reader, sent)
           back == Rewound(read)
           size == PacketSize(read.header)
           list == ReadListOut(back, Taken(back, size))
           received == ReceivedAs(read.header, list)
<1>1. /\ pc = "decode" /\ read.header.contentSize >= 0
      /\ reader' = ReadListBy(back, Taken(back, size))
      /\ packets' = Append(packets, received)
      /\ delivered' = Append(delivered, received)
      /\ packet' = InvalidRawHeader
      /\ \/ UNCHANGED <<pc, cutShort, threw>>
         \/ pc' = "idle" /\ cutShort' = TRUE /\ threw' = TRUE
      /\ UNCHANGED <<sent, arrived, open, batched, failed>>
  BY DEF DecodePacket, sender, network
<1>2. /\ Laid /\ Sound(reader, arrived) /\ PositionOf(reader, arrived) = After(n)
      /\ reader.contexts = <<>>
      /\ Len(sent) \in Nat /\ n \in 0 .. Len(sent) /\ delivered \in Seq(Received)
  BY SentBounds DEF IInv, Reading, DeliveredRight
<1>3. /\ Follows(read.reader, reader)
      /\ read.reader = reader \/ reader.offset < reader.length
      /\ WholePacket(n, read.header) \/ NoPacket(n, read.header)
  BY <1>2, HeaderRead
<1>4. back = SetContext(read.reader, GetContext(reader))  BY DEF Rewound
<1> HIDE DEF read, back
<1>5. WholePacket(n, read.header)
  BY <1>1, <1>3 DEF NoPacket, InvalidRawHeader
<1>6. /\ n + 1 \in 1 .. Len(sent) /\ (n + 1) - 1 = n /\ n < Len(sent)
      /\ p.type \in ValidTypes /\ EndOf(p) <= arrived /\ read.header = HeaderOf(p)
  BY <1>2, <1>5 DEF WholePacket
<1>7. /\ p \in SentPacket /\ p.start = After(n) /\ p.start \in Nat
      /\ EndOf(p) = p.start + WireSize(p) /\ WireSize(p) \in Nat \ {0}
  <2>1. p.start = After((n + 1) - 1)  BY <1>2, <1>6 DEF Laid
  <2> QED  BY <1>2, <1>6, <2>1, SentBounds
<1>8. /\ size = WireSize(p) /\ HeaderOf(p).type = p.type
      /\ HeaderOf(p).contentSize \in Nat
  <2>1. CASE p.type \in DynamicTypes
    <3>1. PICK length \in Nat : /\ HeaderOf(p) = RawHeader(p.type, 6, length)
                                /\ WireSize(p) = length + 7
      BY <1>6, <1>7, <2>1, DeclaredSizes
    <3> QED  BY <1>6, <3>1 DEF PacketSize, RawHeader, FooterLength
  <2>2. CASE p.type \in ValidTypes \ DynamicTypes
    <3>1. PICK length \in Nat : /\ HeaderOf(p) = RawHeader(p.type, 2, length)
                                /\ WireSize(p) = length + 3
      BY <1>6, <1>7, <2>2, DeclaredSizes
    <3> QED  BY <1>6, <3>1 DEF PacketSize, RawHeader, FooterLength
  <2> QED  BY <1>6, <2>1, <2>2
<1> HIDE DEF size, p
<1>9. /\ Sound(back, arrived) /\ back.contexts = <<>>
      /\ PositionOf(back, arrived) = After(n)
  BY <1>2, <1>3, <1>4, RewindReturns
<1>10. /\ back.offset \in Nat /\ back.length \in Nat
       /\ back.length - back.offset = arrived - After(n) /\ arrived \in Nat
       /\ PositionOf(back, arrived) = BaseOf(back, arrived) + back.offset
       /\ BaseOf(back, arrived) \in Nat
  BY <1>9, Positions, OffsetInLength
<1>11. size \in Nat \ {0} /\ back.offset + size <= back.length
  BY <1>6, <1>7, <1>8, <1>10
<1>12. Taken(back, size) = size
  BY <1>10, <1>11, NoLenAssumption DEF Taken, AdjustEnd
<1>13. /\ Sound(reader', arrived) /\ reader'.offset = back.offset + size
       /\ reader'.contexts = <<>> /\ BaseOf(reader', arrived) = BaseOf(back, arrived)
  BY <1>1, <1>9, <1>11, <1>12, ReadListMoves
<1>14. PositionOf(reader', arrived) = EndOf(p)
  BY <1>7, <1>8, <1>9, <1>10, <1>11, <1>13 DEF PositionOf
<1>15. Whole(list) = [lo |-> p.start, hi |-> EndOf(p)]
  <2>1. list = ReadListOut(back, size)  BY <1>12
  <2> HIDE DEF list
  <2>2. /\ Contiguous(list) /\ list[1].lo = PositionOf(back, arrived)
        /\ list[Len(list)].hi = PositionOf(back, arrived) + size
    BY <1>9, <1>11, <2>1, ListPieces
  <2> QED  BY <1>7, <1>8, <1>9, <2>2 DEF Whole
<1> HIDE DEF list
<1>16. received = ReceivedOf(p)
  BY <1>6, <1>8, <1>15 DEF ReceivedAs, ReceivedOf
<1>17. ReceivedOf(p) \in Received
  BY <1>6, <1>7, <1>8 DEF ReceivedOf, Received, Bytes
<1> HIDE DEF received
<1>18. /\ delivered' \in Seq(Received) /\ Len(delivered') = n + 1
       /\ \A k \in 1 .. n : delivered'[k] = delivered[k]
       /\ delivered'[n + 1] = ReceivedOf(p)
  BY <1>1, <1>2, <1>16, <1>17
<1>19. Laid'  BY <1>1, <1>2 DEF Laid, Written, After
<1>20. Reading'
  <2>1. After(n + 1) = EndOf(p)  BY <1>6 DEF After, p
  <2>2. PositionOf(reader', arrived') = After(Len(delivered))'
    BY <1>1, <1>14, <1>18, <2>1 DEF After
  <2> QED  BY <1>1, <1>13, <2>2 DEF Reading
<1>21. DeliveredRight'
  <2>1. ASSUME NEW k \in 1 .. n + 1
        PROVE  /\ sent[k].type \in ValidTypes /\ EndOf(sent[k]) <= arrived
               /\ delivered'[k] = ReceivedOf(sent[k])
    <3>1. CASE k = n + 1  BY <1>6, <1>18, <3>1 DEF p
    <3>2. CASE k # n + 1
      <4>1. k \in 1 .. n  BY <1>2, <3>2
      <4> QED  BY <1>18, <4>1 DEF IInv, DeliveredRight
    <3> QED  BY <3>1, <3>2
  <2>2. n + 1 <= Len(sent)  BY <1>6
  <2> QED  BY <1>1, <1>18, <2>1, <2>2 DEF DeliveredRight
<1>22. BatchedRight'
  <2>1. /\ packets \in Seq(Received) /\ batched \in Seq(Received)
        /\ received \in Received
    BY <1>16, <1>17 DEF IInv, BatchedRight
  <2>2. packets' \in Seq(Received)  BY <1>1, <2>1
  <2>3. batched \o Append(packets, received) = Append(batched \o packets, received)
    BY <2>1
  <2>4. ASSUME ~threw' PROVE delivered' = batched' \o packets' /\ pc' # "idle"
    <3>1. ~threw /\ pc' = pc  BY <1>1, <2>4
    <3>2. delivered = batched \o packets  BY <3>1 DEF IInv, BatchedRight
    <3> QED  BY <1>1, <2>3, <3>1, <3>2
  <2> QED  BY <1>1, <2>1, <2>2, <2>4 DEF BatchedRight
<1>23. LoopEnds'
  <2>1. CASE UNCHANGED <<pc, cutShort, threw>>  BY <1>1, <2>1 DEF IInv, LoopEnds
  <2>2. CASE pc' = "idle" /\ cutShort' = TRUE /\ threw' = TRUE
    BY <1>1, <2>2 DEF IInv, LoopEnds
  <2> QED  BY <1>1, <2>1, <2>2
<1>24. Reduced'
  <2>1. packets' # <<>>
    <3>1. Len(packets') > 0  BY <1>1 DEF IInv, BatchedRight
    <3> QED  BY <3>1
  <2> QED  BY <2>1 DEF Reduced
<1> QED
  BY <1>1, <1>6, <1>16, <1>19, <1>20, <1>21, <1>22, <1>23, <1>24
     DEF IInv, LoopEnds, p

(* Nothing is taken out when no packet is all there. *)
LEMMA DecodeNothingStep ==
  ASSUME IInv, DecodeNothing
  PROVE  IInv' /\ UNCHANGED <<sent, delivered, open>>
<1> DEFINE n == Len(delivered)
           read == ReadHeader(reader, sent)
           back == Rewound(read)
<1>1. /\ pc = "decode" /\ read.header.contentSize < 0
      /\ reader' = back /\ packet' = read.header /\ pc' = "check"
      /\ UNCHANGED <<sent, arrived, open, packets, delivered, batched, failed,
                     cutShort, threw>>
  BY DEF DecodeNothing, sender, network, observed
<1>2. /\ Laid /\ Sound(reader, arrived) /\ PositionOf(reader, arrived) = After(n)
      /\ reader.contexts = <<>>
      /\ Len(sent) \in Nat /\ n \in 0 .. Len(sent)
  BY SentBounds DEF IInv, Reading, DeliveredRight
<1>3. /\ Follows(read.reader, reader)
      /\ read.reader = reader \/ reader.offset < reader.length
      /\ WholePacket(n, read.header) \/ NoPacket(n, read.header)
  BY <1>2, HeaderRead
<1>4. back = SetContext(read.reader, GetContext(reader))  BY DEF Rewound
<1> HIDE DEF read, back
<1>5. NoPacket(n, read.header)
  <2> SUFFICES ASSUME WholePacket(n, read.header) PROVE FALSE  BY <1>3
  <2> DEFINE p == sent[n + 1]
  <2>1. /\ p \in SentPacket /\ p.type \in ValidTypes /\ read.header = HeaderOf(p)
    BY <1>2, SentBounds DEF WholePacket
  <2> HIDE DEF p
  <2>2. HeaderOf(p).contentSize \in Nat
    <3>1. CASE p.type \in DynamicTypes
      <4>1. PICK size \in Nat : HeaderOf(p) = RawHeader(p.type, 6, size)
        BY <2>1, <3>1, DeclaredSizes
      <4> QED  BY <4>1 DEF RawHeader
    <3>2. CASE p.type \in ValidTypes \ DynamicTypes
      <4>1. PICK size \in Nat : HeaderOf(p) = RawHeader(p.type, 2, size)
        BY <2>1, <3>2, DeclaredSizes
      <4> QED  BY <4>1 DEF RawHeader
    <3> QED  BY <2>1, <3>1, <3>2
  <2> QED  BY <1>1, <2>1, <2>2
<1>6. /\ Sound(reader', arrived) /\ reader'.contexts = <<>>
      /\ reader'.offset = reader.offset /\ reader'.length = reader.length
      /\ PositionOf(reader', arrived) = After(n)
  BY <1>1, <1>2, <1>3, <1>4, RewindReturns
<1>7. Laid'  BY <1>1, <1>2 DEF Laid, Written, After
<1>8. Reading'  BY <1>1, <1>6 DEF Reading, After
<1>9. DeliveredRight'  BY <1>1 DEF IInv, DeliveredRight
<1>10. BatchedRight'  BY <1>1 DEF IInv, BatchedRight
<1>11. LoopEnds'
  <2>1. Blocked'  BY <1>1, <1>5 DEF NoPacket, Blocked
  <2>2. packet' = InvalidRawHeader  BY <1>1, <1>5 DEF NoPacket
  <2> QED  BY <1>1, <2>1, <2>2 DEF IInv, LoopEnds
<1>12. Reduced'  BY <1>1, <1>6 DEF IInv, Reduced, LittleIsDead
<1> QED  BY <1>1, <1>7, <1>8, <1>9, <1>10, <1>11, <1>12 DEF IInv

(* What a step that leaves the stream and the packets alone preserves. *)
LEMMA StreamStays ==
  ASSUME IInv, UNCHANGED <<sent, arrived, delivered>>
  PROVE  /\ Laid' /\ DeliveredRight' /\ (Blocked => Blocked')
         /\ reader' = reader => Reading'
<1>1. Laid'  BY DEF IInv, Laid, Written, After
<1>2. DeliveredRight'  BY DEF IInv, DeliveredRight
<1>3. Blocked => Blocked'  BY DEF Blocked
<1>4. reader' = reader => Reading'  BY DEF IInv, Reading, After
<1> QED  BY <1>1, <1>2, <1>3, <1>4

(* The handler of a foreign header, if it throws, ends the event.          *)
LEMMA CheckHeaderStep ==
  ASSUME IInv, CheckHeader
  PROVE  IInv' /\ UNCHANGED <<sent, delivered, open>>
<1>1. /\ pc = "check" /\ failed' \in BOOLEAN
      /\ \/ pc' = "batch" /\ threw' = threw
         \/ pc' = "idle" /\ threw' = TRUE
      /\ UNCHANGED <<sent, arrived, open, reader, packet, packets, delivered, batched,
                     cutShort>>
  BY DEF CheckHeader, sender, network, IsNotValid
<1>2. Laid' /\ DeliveredRight' /\ Reading' /\ (Blocked => Blocked')
  BY <1>1, StreamStays
<1>3. BatchedRight'  BY <1>1 DEF IInv, BatchedRight
<1>4. LoopEnds'
  <2>1. CASE pc' = "batch" /\ threw' = threw
    BY <1>1, <1>2, <2>1 DEF IInv, LoopEnds
  <2>2. CASE pc' = "idle" /\ threw' = TRUE
    BY <1>1, <1>2, <2>2 DEF IInv, LoopEnds
  <2> QED  BY <1>1, <2>1, <2>2
<1>5. Reduced'  BY <1>1 DEF IInv, Reduced
<1> QED  BY <1>1, <1>2, <1>3, <1>4, <1>5 DEF IInv

(* The batch goes to the handler as it was read.                           *)
LEMMA EmitPacketsStep ==
  ASSUME IInv, EmitPackets
  PROVE  IInv' /\ UNCHANGED <<sent, delivered, open>>
<1>1. /\ pc = "batch" /\ batched' = batched \o packets /\ pc' = "idle"
      /\ \/ reader' = ReduceReader(reader) /\ threw' = threw
         \/ reader' = reader /\ threw' = TRUE
      /\ packets' = <<>>
      /\ UNCHANGED <<sent, arrived, open, packet, delivered, failed, cutShort>>
  BY DEF EmitPackets, sender, network
<1>2. /\ Sound(reader, arrived) /\ reader.contexts = <<>>
      /\ PositionOf(reader, arrived) = After(Len(delivered))
  BY DEF IInv, Reading
<1>3. Laid' /\ DeliveredRight' /\ (Blocked => Blocked')
  BY <1>1, StreamStays
<1>4. Reading'
  <2>1. CASE reader' = reader  BY <1>1, <2>1, StreamStays
  <2>2. CASE reader' = ReduceReader(reader)
    <3>1. /\ Sound(reader', arrived) /\ reader'.contexts = <<>>
          /\ PositionOf(reader', arrived) = After(Len(delivered))
      BY <1>2, <2>2, ReduceSound
    <3> QED  BY <1>1, <3>1 DEF Reading, After
  <2> QED  BY <1>1, <2>1, <2>2
<1>5. BatchedRight'
  <2>1. packets \in Seq(Received) /\ batched \in Seq(Received)
    BY DEF IInv, BatchedRight
  <2>2. batched \o packets \in Seq(Received)  BY <2>1
  <2>3. packets' \in Seq(Received)  BY <1>1
  <2>4. batched' \o packets' = batched \o packets  BY <1>1, <2>2
  <2>5. ASSUME ~threw' PROVE delivered' = batched' \o packets'
    BY <1>1, <2>4, <2>5 DEF IInv, BatchedRight
  <2> QED  BY <1>1, <2>2, <2>3, <2>5 DEF BatchedRight
<1>6. LoopEnds'
  <2>1. CASE threw' = threw  BY <1>1, <1>3, <2>1 DEF IInv, LoopEnds
  <2>2. CASE threw' = TRUE  BY <1>1, <1>3, <2>2 DEF IInv, LoopEnds
  <2> QED  BY <1>1, <2>1, <2>2
<1>7. Reduced'
  <2>1. CASE reader' = ReduceReader(reader)
    BY <1>2, <2>1, ReduceTrims DEF Reduced, LittleIsDead
  <2>2. CASE threw' = TRUE  BY <2>2 DEF Reduced
  <2> QED  BY <1>1, <2>1, <2>2
<1> QED  BY <1>1, <1>3, <1>4, <1>5, <1>6, <1>7 DEF IInv

(* The steps that change neither the stream nor what came out of it. *)
LEMMA OtherSteps ==
  ASSUME IInv, Close \/ NoPackets \/ UNCHANGED vars
  PROVE  /\ IInv'
         /\ UNCHANGED <<sent, delivered>>
         /\ open' = open \/ (open /\ open' = FALSE)
<1>1. /\ UNCHANGED <<sent, arrived, reader, packet, packets, delivered, batched,
                     failed, cutShort, threw>>
      /\ \/ pc' = pc \/ (pc = "batch" /\ packets = <<>> /\ pc' = "idle")
      /\ open' = open \/ (open /\ open' = FALSE /\ pc = "idle" /\ pc' = "idle")
  BY DEF Close, NoPackets, vars, sender, network, decoder, observed
<1>2. Laid' /\ DeliveredRight' /\ Reading' /\ (Blocked => Blocked')
  BY <1>1, StreamStays
<1>3. BatchedRight'  BY <1>1 DEF IInv, BatchedRight
<1>4. LoopEnds'
  <2>1. open' \in BOOLEAN  BY <1>1 DEF IInv, LoopEnds
  <2>2. /\ pc' \in {"idle", "decode", "check", "batch"}
        /\ cutShort' => pc' = "idle"
        /\ pc' # "idle" => open'
        /\ pc' # "decode" /\ ~cutShort' => Blocked'
    BY <1>1, <1>2 DEF IInv, LoopEnds
  <2> QED  BY <1>1, <2>1, <2>2 DEF IInv, LoopEnds
<1>5. Reduced'  BY <1>1 DEF IInv, Reduced
<1> QED  BY <1>1, <1>2, <1>3, <1>4, <1>5 DEF IInv

(* Every step of the sender and of the decoder keeps the invariant.        *)
LEMMA NextInv ==
  ASSUME IInv, [Next]_vars
  PROVE  IInv'
BY SendStep, HandleDataStep, DecodePacketStep, DecodeNothingStep, CheckHeaderStep,
   EmitPacketsStep, OtherSteps DEF Next, Decode

(***************************************************************************)
(* What the invariant says                                                 *)
(***************************************************************************)
LEMMA InvTypes == IInv => TypeOK
<1> SUFFICES ASSUME IInv PROVE TypeOK  OBVIOUS
<1>1. reader.buffers \in Seq(Buffer)  BY DEF IInv, Reading, Sound, Reader
<1>2. sent \in Seq([type : ValidTypes \cup {Foreign}, contentSize : Nat, start : Nat])
  BY DEF IInv, Laid, SentPacket
<1> QED
  BY <1>1, <1>2 DEF IInv, Laid, DeliveredRight, BatchedRight, LoopEnds, TypeOK

(* What the invariant says of the packets delivered.                       *)
LEMMA InvDelivers == IInv => DeliversWhatWasSent
<1> SUFFICES ASSUME IInv PROVE DeliversWhatWasSent  OBVIOUS
<1>1. ASSUME NEW k \in 1 .. Len(delivered)
      PROVE  /\ delivered[k].type = sent[k].type
             /\ delivered[k].bytes = [lo |-> sent[k].start, hi |-> EndOf(sent[k])]
  <2>1. delivered[k] = ReceivedOf(sent[k])  BY DEF IInv, DeliveredRight
  <2> QED  BY <2>1 DEF ReceivedOf
<1> QED  BY <1>1 DEF IInv, DeliveredRight, DeliversWhatWasSent

(* No packet is readable behind the one that blocks. *)
LEMMA InvDeliversAtOnce == IInv => DeliversAtOnce
<1> SUFFICES ASSUME IInv, pc = "idle", ~cutShort, NEW k \in 1 .. Len(sent),
                    Readable(k), ~(k <= Len(delivered))
             PROVE  FALSE
  BY DEF DeliversAtOnce
<1> DEFINE n == Len(delivered)
<1>1. Blocked  BY DEF IInv, LoopEnds
<1>2. /\ Len(sent) \in Nat /\ n \in 0 .. Len(sent) /\ Laid /\ arrived \in Nat
  BY SentBounds DEF IInv, DeliveredRight, Laid
<1>3. n + 1 \in 1 .. k /\ n + 1 \in 1 .. Len(sent)  BY <1>2
<1>4. sent[n + 1].type # Foreign
  BY <1>3 DEF Readable, Foreign, ValidTypes, DoubleTypes, IntegerTypes, EmptyTypes,
              DynamicTypes
<1>5. EndOf(sent[n + 1]) <= EndOf(sent[k])
  <2>1. CASE n + 1 = k  BY <1>2, <2>1, SentBounds
  <2>2. CASE n + 1 < k
    <3>1. EndOf(sent[n + 1]) <= sent[k].start  BY <1>2, <1>3, <2>2 DEF Laid
    <3> QED  BY <1>2, <1>3, <3>1, SentBounds
  <2> QED  BY <1>2, <1>3, <2>1, <2>2
<1>6. EndOf(sent[n + 1]) <= arrived
  <2>1. EndOf(sent[k]) <= arrived  BY DEF Readable
  <2>2. EndOf(sent[k]) \in Nat /\ EndOf(sent[n + 1]) \in Nat
    BY <1>2, <1>3, SentBounds
  <2> QED  BY <1>2, <1>5, <2>1, <2>2
<1> QED  BY <1>1, <1>2, <1>3, <1>4, <1>6, SentBounds DEF Blocked

(* What it says of the batches.                                            *)
LEMMA InvBatches == IInv => BatchesWhatWasDelivered
<1> SUFFICES ASSUME IInv, pc = "idle", ~threw PROVE batched = delivered
  BY DEF BatchesWhatWasDelivered
<1>1. batched \in Seq(Received) /\ delivered = batched \o packets /\ packets = <<>>
  BY DEF IInv, BatchedRight
<1> QED  BY <1>1

(* What it says of the bytes that are held for nothing.                    *)
LEMMA InvBounded == IInv => DeadBytesAreBounded
BY DEF IInv, BatchedRight, Reduced, LittleIsDead, DeadBytesAreBounded

(***************************************************************************)
(* The channel                                                             *)
(***************************************************************************)

(* A packet of a fixed type has the content size of its type: no program   *)
(* can write another.                                                      *)
Declared ==
  \A p \in Packets :
    p.type \in ValidTypes => DeclareHeader(p.type, p.contentSize).contentSize = p.contentSize

(* What is on the stream are packets that can be written. *)
Known == \A k \in 1 .. Len(sent) : Content(sent[k]) \in Packets

(* Packets come out of the bytes in the same order as they went in. *)
LEMMA ContentsAppended ==
  ASSUME NEW T, NEW list \in Seq(T), NEW p \in T
  PROVE  [k \in 1 .. Len(Append(list, p)) |-> Content(Append(list, p)[k])]
           = Append([k \in 1 .. Len(list) |-> Content(list[k])], Content(p))
<1> DEFINE contents == [k \in 1 .. Len(list) |-> Content(list[k])]
           longer == [k \in 1 .. Len(list) + 1 |-> Content(Append(list, p)[k])]
<1>1. Len(list) \in Nat /\ Len(Append(list, p)) = Len(list) + 1  OBVIOUS
<1>2. contents \in Seq({Content(e) : e \in T}) /\ Len(contents) = Len(list)
  BY <1>1
<1>3. \A k \in 1 .. Len(list) : longer[k] = contents[k]  BY <1>1
<1>4. longer[Len(list) + 1] = Content(p)  BY <1>1
<1>5. longer \in Seq({Content(e) : e \in T}) /\ Len(longer) = Len(list) + 1
  <2>1. \A k \in 1 .. Len(list) + 1 : Append(list, p)[k] \in T  BY <1>1
  <2> QED  BY <1>1, <2>1
<1>6. Content(p) \in {Content(e) : e \in T}  OBVIOUS
<1> HIDE DEF contents, longer
<1>7. longer = Append(contents, Content(p))
  BY <1>1, <1>2, <1>3, <1>4, <1>5, <1>6
<1> QED  BY <1>1, <1>7 DEF contents, longer

(* The channel begins with nothing in it.                                  *)
LEMMA InitRefines == Init => Channel!Init /\ Known
<1> SUFFICES ASSUME Init PROVE Channel!Init /\ Known  OBVIOUS
<1>1. sent = <<>> /\ delivered = <<>> /\ open = TRUE  BY DEF Init
<1>2. Len(<<>>) = 0 /\ 1 .. 0 = {}  OBVIOUS
<1>3. Known  BY <1>1, <1>2 DEF Known
<1>4. [k \in 1 .. Len(<<>>) |-> Content(<<>>[k])] = <<>>  BY <1>2
<1> QED  BY <1>1, <1>3, <1>4 DEF Channel!Init

(* Sending is sending into the channel.                                    *)
LEMMA SendRefines ==
  ASSUME IInv, Known, NEW given \in Packets, Send(given)
  PROVE  Channel!Send /\ Known'
<1> DEFINE new == [type |-> given.type, contentSize |-> given.contentSize,
                   start |-> Written]
<1>1. sent' = Append(sent, new) /\ UNCHANGED <<delivered, open>>
  BY DEF Send, network, decoder, observed
<1>2. sent \in Seq(SentPacket) /\ Len(sent) \in Nat /\ Written \in Nat
  BY SentBounds DEF IInv, Laid, After
<1>3. new \in SentPacket  BY <1>2, DecoderAssumption DEF SentPacket
<1>4. Content(new) = given
  <2>1. given \in [type : ValidTypes \cup {Foreign}, contentSize : Nat]
    BY DecoderAssumption
  <2> QED  BY <2>1 DEF Content
<1> HIDE DEF new
<1>5. [k \in 1 .. Len(sent') |-> Content(sent'[k])]
        = Append([k \in 1 .. Len(sent) |-> Content(sent[k])], given)
  BY <1>1, <1>2, <1>3, <1>4, ContentsAppended
<1>6. Known'
  <2> SUFFICES ASSUME NEW k \in 1 .. Len(sent') PROVE Content(sent'[k]) \in Packets
    BY DEF Known
  <2>1. Len(sent') = Len(sent) + 1 /\ sent'[Len(sent) + 1] = new
        /\ \A j \in 1 .. Len(sent) : sent'[j] = sent[j]
    BY <1>1, <1>2, <1>3
  <2>2. CASE k = Len(sent) + 1  BY <1>4, <2>1, <2>2
  <2>3. CASE k \in 1 .. Len(sent)  BY <2>1, <2>3 DEF Known
  <2> QED  BY <1>2, <2>1, <2>2, <2>3
<1> QED  BY <1>1, <1>5, <1>6 DEF Channel!Send

(* A packet taken out of the reader is the next of the channel.            *)
LEMMA DecodeRefines ==
  ASSUME Declared, IInv, Known, DecodePacket
  PROVE  Channel!Deliver /\ Known'
<1> DEFINE n == Len(delivered)
           p == sent[n + 1]
           inside == [k \in 1 .. Len(sent) |-> Content(sent[k])]
           outside == [k \in 1 .. Len(delivered) |-> Content(delivered[k])]
<1>1. /\ open /\ UNCHANGED <<sent, open>> /\ n < Len(sent)
      /\ p.type \in ValidTypes /\ delivered' = Append(delivered, ReceivedOf(p))
      /\ IInv'
  BY DecodePacketStep
<1>2. /\ Len(sent) \in Nat /\ n \in Nat /\ delivered \in Seq(Received)
      /\ n + 1 \in 1 .. Len(sent) /\ sent \in Seq(SentPacket)
  BY <1>1, SentBounds DEF IInv, Laid, DeliveredRight
<1>3. Content(p) \in Packets /\ p \in SentPacket  BY <1>2 DEF Known
<1>4. Content(ReceivedOf(p)) = Content(p)
  <2>1. Content(p).type = p.type /\ Content(p).contentSize = p.contentSize
    BY DEF Content
  <2> HIDE DEF p
  <2>2. HeaderOf(p).contentSize = p.contentSize
    BY <1>1, <1>3, <2>1 DEF Declared, HeaderOf
  <2> QED  BY <2>2 DEF Content, ReceivedOf
<1>5. ReceivedOf(p) \in Received
  <2>1. /\ delivered' \in Seq(Received) /\ Len(delivered') = n + 1
        /\ delivered'[n + 1] = ReceivedOf(p)
    BY <1>1, <1>2 DEF IInv, DeliveredRight
  <2>2. n + 1 \in 1 .. Len(delivered')  BY <1>2, <2>1
  <2> HIDE DEF p
  <2> QED  BY <2>1, <2>2
<1>6. [k \in 1 .. Len(delivered') |-> Content(delivered'[k])]
        = Append(outside, Content(p))
  <2> HIDE DEF p
  <2> QED  BY <1>1, <1>2, <1>4, <1>5, ContentsAppended
<1>7. Len(inside) = Len(sent) /\ Len(outside) = n  BY <1>2
<1>8. inside[n + 1] = Content(p)  BY <1>2
<1>9. Content(p) \in {q \in Packets : q.type # Foreign}
  <2>1. p.type # Foreign
    BY <1>1 DEF Foreign, ValidTypes, DoubleTypes, IntegerTypes, EmptyTypes, DynamicTypes
  <2>2. Content(p).type = p.type  BY DEF Content
  <2> QED  BY <1>3, <2>1, <2>2
<1>10. Known'  BY <1>1 DEF Known
<1> HIDE DEF p
<1>11. [k \in 1 .. Len(sent') |-> Content(sent'[k])] = inside  BY <1>1
<1> HIDE DEF inside, outside
<1> QED
  BY <1>1, <1>6, <1>7, <1>8, <1>9, <1>10, <1>11
     DEF Channel!Deliver, Channel!NextPacket, inside, outside

(* The steps that the channel does not see, and closing it.                *)
LEMMA NextRefines ==
  ASSUME Declared, IInv, Known, [Next]_vars
  PROVE  [Channel!Next]_(Channel!vars) /\ Known'
<1>1. ASSUME NEW given \in Packets, Send(given)
      PROVE  Channel!Next /\ Known'
  BY <1>1, SendRefines DEF Channel!Next
<1>2. CASE DecodePacket  BY <1>2, DecodeRefines DEF Channel!Next
<1>3. ASSUME UNCHANGED <<sent, delivered>>,
             open' = open \/ (open /\ open' = FALSE)
      PROVE  [Channel!Next]_(Channel!vars) /\ Known'
  <2>1. Known'  BY <1>3 DEF Known
  <2>2. CASE open' = open  BY <1>3, <2>1, <2>2 DEF Channel!vars
  <2>3. CASE open /\ open' = FALSE
    BY <1>3, <2>1, <2>3 DEF Channel!Next, Channel!Close
  <2> QED  BY <1>3, <2>2, <2>3
<1>4. ASSUME NEW size \in ChunkSizes, HandleData(size)
      PROVE  UNCHANGED <<sent, delivered, open>>
  BY <1>4 DEF HandleData, sender
<1> QED
  BY <1>1, <1>2, <1>3, <1>4, DecodeNothingStep, CheckHeaderStep, EmitPacketsStep,
     OtherSteps DEF Next, Decode

(***************************************************************************)
(* Theorems                                                                *)
(***************************************************************************)

(* The invariant, for any packets, chunks and listeners. *)
THEOREM DecoderInvariant == Spec => []IInv
<1>1. Init => IInv  BY InitInv
<1>2. IInv /\ [Next]_vars => IInv'  BY NextInv
<1> QED  BY <1>1, <1>2, PTL DEF Spec

(* Every variable has its type. *)
THEOREM DecoderTypes == Spec => []TypeOK
BY DecoderInvariant, InvTypes, PTL

(* However TCP cuts the bytes into chunks, handleData emits the packets    *)
(* that were sent, in order, with their types and exactly their bytes.     *)
THEOREM DeliversExactly == Spec => []DeliversWhatWasSent
BY DecoderInvariant, InvDelivers, PTL

(* When handleData returns, no whole packet is left in the reader.         *)
THEOREM NothingIsLeftBehind == Spec => []DeliversAtOnce
BY DecoderInvariant, InvDeliversAtOnce, PTL

(* 'packet[]' brings what 'packet' brought. *)
THEOREM BatchesAreTheSame == Spec => []BatchesWhatWasDelivered
BY DecoderInvariant, InvBatches, PTL

(* The bytes read already and still held are bounded by reduce.            *)
THEOREM DeadBytesStayBounded == Spec => []DeadBytesAreBounded
BY DecoderInvariant, InvBounded, PTL

(* Every step of the decoder and of the stream is one of a channel of      *)
(* packets or none: the safety of ImplementsChannel. That each packet      *)
(* comes out in the end is not in it.                                      *)
THEOREM DecoderIsSafeChannel ==
  ASSUME Declared
  PROVE  Spec => Channel!Init /\ [][Channel!Next]_(Channel!vars)
<1>1. Init => Channel!Init /\ Known  BY InitRefines
<1>2. IInv /\ Known /\ [Next]_vars => [Channel!Next]_(Channel!vars) /\ Known'
  BY NextRefines
<1> QED  BY <1>1, <1>2, DecoderInvariant, PTL DEF Spec
=============================================================================
