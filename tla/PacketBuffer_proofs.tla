------------------------- MODULE PacketBuffer_proofs -------------------------
(***************************************************************************)
(* What the packets are for any values nested in one another and any       *)
(* number of packets: the packets that share an array know it, and their   *)
(* header, their bytes and what is parsed of them are those of their value.*)
(***************************************************************************)
EXTENDS PacketBuffer, PacketCodec_proofs

(***************************************************************************)
(* What arrives                                                            *)
(***************************************************************************)

(* What arrives in pieces begins with the first byte.                      *)
LEMMA ChunksBegin ==
  ASSUME NEW cuts \in SUBSET Nat, NEW size \in Int
  PROVE  Chunks(cuts, size)[1].lo = 0
<1> DEFINE early == {cut \in cuts : cut < size}
           ends == early \cup {size}
           end(k) == IF k = 0 THEN 0
                     ELSE CHOOSE e \in ends : Cardinality({d \in ends : d <= e}) = k
           chunks == [k \in 1 .. Cardinality(ends) |-> [lo |-> end(k - 1), hi |-> end(k)]]
<1>1. IsFiniteSet(early)
  <2>1. IsFiniteSet(0 .. size)  BY FS_Interval
  <2>2. ASSUME NEW cut \in early PROVE cut \in 0 .. size
    <3>1. cut \in Nat /\ cut < size  BY <2>2
    <3> QED  BY <3>1
  <2>3. early \in SUBSET (0 .. size)  BY <2>2
  <2> HIDE DEF early
  <2> QED  BY <2>1, <2>3, FS_Subset
<1>2. IsFiniteSet(ends)  BY <1>1, FS_AddElement
<1>3. Cardinality(ends) \in Nat /\ Cardinality(ends) # 0
  <2>1. ends # {}  OBVIOUS
  <2> HIDE DEF ends
  <2>2. Cardinality(ends) \in Nat  BY <1>2, FS_CardinalityType
  <2>3. Cardinality(ends) # 0  BY <1>2, <2>1, FS_EmptySet
  <2> QED  BY <2>2, <2>3
<1>4. Chunks(cuts, size) = chunks  BY DEF Chunks
<1>5. end(1 - 1) = 0  OBVIOUS
<1> HIDE DEF end, ends
<1>6. 1 \in 1 .. Cardinality(ends)  BY <1>3
<1>7. chunks[1] = [lo |-> end(1 - 1), hi |-> end(1)]  BY <1>6
<1> QED  BY <1>4, <1>5, <1>7

(***************************************************************************)
(* The packets                                                             *)
(***************************************************************************)

(* A packet in step with its bytes, when it is valid, has the header of    *)
(* the packet of its value; one buffer is all an IpcPacketBuffer has.      *)
Told(packet) ==
  packet.inStep /\ ~IsNotValid(packet.header) =>
    PacketType(packet.value) # NoPacket /\ packet.header = HeaderOf(packet.value)

Coherent(packet) ==
  /\ packet = Packet(packet.class, packet.header, packet.buffers, packet.value,
                     packet.inStep)
  /\ packet.class \in Classes
  /\ packet.header.type \in ValidTypes \cup {"NotValid"}
  /\ packet.value \in Values \cup {Undefined}
  /\ packet.inStep \in BOOLEAN
  /\ packet.class # "IpcPacketBufferList" => Len(packet.buffers) = 1
  /\ Told(packet)

(* Who shares an array shares it with all who do, and is a list.           *)
Shared ==
  /\ sharing \in [P -> SUBSET P]
  /\ \A p \in P :
       /\ p \in sharing[p]
       /\ \A q \in sharing[p] : /\ sharing[q] = sharing[p]
                                /\ packets[q].buffers = packets[p].buffers
       /\ ~IsBufferList(p) => sharing[p] = {p}

IInv ==
  /\ packets = [p \in P |-> packets[p]]
  /\ \A p \in P : Coherent(packets[p])
  /\ Shared
  /\ work \subseteq Values

(* The array of p is its own from now on.                                  *)
LEMMA OwnArray ==
  ASSUME IInv, NEW p \in P, NEW packet, Coherent(packet),
         packet.class = packets[p].class,
         packets' = [packets EXCEPT ![p] = packet], Alone(p), work' = work
  PROVE  IInv'
<1>1. packets' = [q \in P |-> IF q = p THEN packet ELSE packets[q]]  BY DEF IInv
<1>2. sharing' = [q \in P |-> IF q = p THEN {p} ELSE sharing[q] \ {p}]  BY DEF Alone
<1>3. \A q \in P : packets'[q] = IF q = p THEN packet ELSE packets[q]  BY <1>1
<1>4. \A q \in P : sharing'[q] = IF q = p THEN {p} ELSE sharing[q] \ {p}  BY <1>2
<1>5. \A q \in P : IsBufferList(q)' = IsBufferList(q)  BY <1>3 DEF IsBufferList
<1>6. sharing \in [P -> SUBSET P]  BY DEF IInv, Shared
<1>7. \A q \in P : Coherent(packets'[q])  BY <1>3 DEF IInv
<1>8. ASSUME NEW q \in P
      PROVE  /\ q \in sharing'[q]
             /\ \A o \in sharing'[q] : /\ sharing'[o] = sharing'[q]
                                       /\ packets'[o].buffers = packets'[q].buffers
             /\ ~IsBufferList(q)' => sharing'[q] = {q}
  <2>1. /\ q \in sharing[q]
        /\ \A o \in sharing[q] : /\ sharing[o] = sharing[q]
                                 /\ packets[o].buffers = packets[q].buffers
        /\ ~IsBufferList(q) => sharing[q] = {q}
    BY DEF IInv, Shared
  <2>2. CASE q = p  BY <1>4, <2>2
  <2>3. CASE q # p
    <3>1. sharing'[q] = sharing[q] \ {p}  BY <1>4, <2>3
    <3>2. ASSUME NEW o \in sharing'[q]
          PROVE  sharing'[o] = sharing'[q] /\ packets'[o].buffers = packets'[q].buffers
      <4>1. o \in sharing[q] /\ o # p /\ o \in P  BY <1>6, <3>1
      <4>2. sharing'[o] = sharing[o] \ {p}  BY <1>4, <4>1
      <4>3. packets'[o] = packets[o] /\ packets'[q] = packets[q]  BY <1>3, <2>3, <4>1
      <4> QED  BY <2>1, <3>1, <4>1, <4>2, <4>3
    <3>3. ~IsBufferList(q)' => sharing'[q] = {q}  BY <1>5, <2>1, <2>3, <3>1
    <3> QED  BY <2>1, <2>3, <3>1, <3>2, <3>3
  <2> QED  BY <2>2, <2>3
<1>9. sharing' \in [P -> SUBSET P]  BY <1>2, <1>6
<1>10. Shared'  BY <1>8, <1>9 DEF Shared
<1>11. packets' = [q \in P |-> packets'[q]]  BY <1>1
<1>12. work' \subseteq Values  BY DEF IInv
<1> QED  BY <1>7, <1>10, <1>11, <1>12 DEF IInv

(* Only what is told of the bytes of p is another.                         *)
LEMMA SameArray ==
  ASSUME IInv, NEW p \in P, NEW packet, Coherent(packet),
         packet.class = packets[p].class, packet.buffers = packets[p].buffers,
         packets' = [packets EXCEPT ![p] = packet], sharing' = sharing, work' = work
  PROVE  IInv'
<1>1. packets' = [q \in P |-> IF q = p THEN packet ELSE packets[q]]  BY DEF IInv
<1>2. \A q \in P : packets'[q] = IF q = p THEN packet ELSE packets[q]  BY <1>1
<1>3. \A q \in P : IsBufferList(q)' = IsBufferList(q)  BY <1>2 DEF IsBufferList
<1>4. \A q \in P : packets'[q].buffers = packets[q].buffers  BY <1>2
<1>5. \A q \in P : Coherent(packets'[q])  BY <1>2 DEF IInv
<1>6. sharing \in [P -> SUBSET P]  BY DEF IInv, Shared
<1>7. ASSUME NEW q \in P
      PROVE  /\ q \in sharing'[q]
             /\ \A o \in sharing'[q] : /\ sharing'[o] = sharing'[q]
                                       /\ packets'[o].buffers = packets'[q].buffers
             /\ ~IsBufferList(q)' => sharing'[q] = {q}
  <2>1. /\ q \in sharing[q]
        /\ \A o \in sharing[q] : /\ sharing[o] = sharing[q]
                                 /\ packets[o].buffers = packets[q].buffers
        /\ ~IsBufferList(q) => sharing[q] = {q}
    BY DEF IInv, Shared
  <2>2. \A o \in sharing[q] : o \in P  BY <1>6
  <2> QED  BY <1>3, <1>4, <2>1, <2>2
<1>8. Shared'  BY <1>6, <1>7 DEF Shared
<1>9. packets' = [q \in P |-> packets'[q]]  BY <1>1
<1>10. work' \subseteq Values  BY DEF IInv
<1> QED  BY <1>5, <1>8, <1>9, <1>10 DEF IInv

(* All who share the array of p see it change.                             *)
LEMMA MergedArray ==
  ASSUME IInv, NEW p \in P, NEW buffers, MergeInPlace(p, buffers),
         ~IsBufferList(p) => buffers = packets[p].buffers
  PROVE  IInv'
<1>1. packets' = [q \in P |-> IF q \in sharing[p]
                              THEN [packets[q] EXCEPT !.buffers = buffers]
                              ELSE packets[q]]
  BY DEF MergeInPlace
<1>2. sharing' = sharing /\ work' = work  BY DEF MergeInPlace
<1>3. sharing \in [P -> SUBSET P]  BY DEF IInv, Shared
<1>4. \A q \in P : packets'[q] = IF q \in sharing[p]
                                 THEN [packets[q] EXCEPT !.buffers = buffers]
                                 ELSE packets[q]
  BY <1>1
<1>5. ASSUME NEW q \in P
      PROVE  /\ q \in sharing[q]
             /\ \A o \in sharing[q] : /\ sharing[o] = sharing[q]
                                      /\ packets[o].buffers = packets[q].buffers
             /\ ~IsBufferList(q) => sharing[q] = {q}
  BY DEF IInv, Shared
<1>6. ASSUME NEW q \in P
      PROVE  Coherent(packets'[q]) /\ packets'[q].class = packets[q].class
  <2>1. Coherent(packets[q])  BY DEF IInv
  <2>2. CASE q \notin sharing[p]  BY <1>4, <2>1, <2>2
  <2>3. CASE q \in sharing[p]
    <3> DEFINE x == packets[q]
               y == packets'[q]
    <3>1. x = [class |-> x.class, header |-> x.header, buffers |-> x.buffers,
               value |-> x.value, inStep |-> x.inStep]
      BY <2>1 DEF Coherent, Packet
    <3>2. y = [x EXCEPT !.buffers = buffers]  BY <1>4, <2>3
    <3> HIDE DEF x, y
    <3>3. y = [class |-> x.class, header |-> x.header, buffers |-> buffers,
               value |-> x.value, inStep |-> x.inStep]
      BY <3>1, <3>2
    <3>4. /\ y.class = x.class /\ y.header = x.header /\ y.buffers = buffers
          /\ y.value = x.value /\ y.inStep = x.inStep
      BY <3>3
    <3>5. y = Packet(y.class, y.header, y.buffers, y.value, y.inStep)
      BY <3>3, <3>4 DEF Packet
    <3>6. x.class # "IpcPacketBufferList" => Len(buffers) = 1
      <4>1. ~IsBufferList(q) => sharing[q] = {q} /\ Len(packets[q].buffers) = 1
        BY <1>5, <2>1 DEF Coherent, IsBufferList
      <4>2. sharing[q] = sharing[p] /\ p \in sharing[p]  BY <1>5, <2>3
      <4>3. ~IsBufferList(q) => p = q  BY <4>1, <4>2
      <4>4. ~IsBufferList(q) => Len(buffers) = 1  BY <4>1, <4>3
      <4> QED  BY <4>4 DEF IsBufferList, x
    <3>7. Told(x) => Told(y)  BY <3>4 DEF Told
    <3>8. Coherent(x)  BY <2>1 DEF x
    <3>9. Coherent(y)  BY <3>4, <3>5, <3>6, <3>7, <3>8 DEF Coherent
    <3> QED  BY <3>4, <3>9 DEF x, y
  <2> QED  BY <2>2, <2>3
<1>7. \A q \in P : IsBufferList(q)' = IsBufferList(q)  BY <1>6 DEF IsBufferList
<1>8. ASSUME NEW q \in P, NEW o \in sharing[q]
      PROVE  packets'[o].buffers = packets'[q].buffers
  <2>1. o \in P  BY <1>3
  <2>2. sharing[o] = sharing[q] /\ packets[o].buffers = packets[q].buffers  BY <1>5
  <2>3. q \in sharing[p] <=> o \in sharing[p]
    <3>1. q \in sharing[p] => sharing[q] = sharing[p]  BY <1>5
    <3>2. o \in sharing[p] => sharing[o] = sharing[p]  BY <1>5
    <3>3. q \in sharing[q] /\ o \in sharing[o]  BY <1>5, <2>1
    <3> QED  BY <2>2, <3>1, <3>2, <3>3
  <2>4. CASE q \in sharing[p]
    <3>1. \A x \in P : x \in sharing[p] => packets'[x].buffers = buffers
      <4>1. ASSUME NEW x \in P, x \in sharing[p] PROVE packets'[x].buffers = buffers
        <5>1. packets'[x] = [packets[x] EXCEPT !.buffers = buffers]  BY <1>4, <4>1
        <5>2. Coherent(packets[x])  BY DEF IInv
        <5> DEFINE z == packets[x]
        <5>3. z = [class |-> z.class, header |-> z.header, buffers |-> z.buffers,
                   value |-> z.value, inStep |-> z.inStep]
          BY <5>2 DEF Coherent, Packet
        <5> HIDE DEF z
        <5>4. [z EXCEPT !.buffers = buffers].buffers = buffers  BY <5>3
        <5> QED  BY <5>1, <5>4 DEF z
      <4> QED  BY <4>1
    <3> QED  BY <2>1, <2>3, <2>4, <3>1
  <2>5. CASE q \notin sharing[p]  BY <1>4, <2>1, <2>2, <2>3, <2>5
  <2> QED  BY <2>4, <2>5
<1>9. Shared'
  <2>1. ASSUME NEW q \in P
        PROVE  /\ q \in sharing'[q]
               /\ \A o \in sharing'[q] : /\ sharing'[o] = sharing'[q]
                                         /\ packets'[o].buffers = packets'[q].buffers
               /\ ~IsBufferList(q)' => sharing'[q] = {q}
    BY <1>2, <1>5, <1>7, <1>8
  <2>2. sharing' \in [P -> SUBSET P]  BY <1>2, <1>3
  <2> QED  BY <2>1, <2>2 DEF Shared
<1>10. packets' = [q \in P |-> packets'[q]]  BY <1>1
<1>11. work' \subseteq Values  BY <1>2 DEF IInv
<1> QED  BY <1>6, <1>9, <1>10, <1>11 DEF IInv

(* What makes a packet coherent.                                           *)
LEMMA PacketCoherent ==
  ASSUME NEW class \in Classes, NEW header, NEW buffers,
         NEW value \in Values \cup {Undefined}, NEW inStep \in BOOLEAN,
         header.type \in ValidTypes \cup {"NotValid"},
         class # "IpcPacketBufferList" => Len(buffers) = 1,
         inStep /\ header.type # "NotValid" =>
           PacketType(value) # NoPacket /\ header = HeaderOf(value)
  PROVE  Coherent(Packet(class, header, buffers, value, inStep))
<1> DEFINE packet == Packet(class, header, buffers, value, inStep)
<1>1. /\ packet.class = class /\ packet.header = header /\ packet.buffers = buffers
      /\ packet.value = value /\ packet.inStep = inStep
  BY DEF Packet
<1>2. packet = Packet(packet.class, packet.header, packet.buffers, packet.value,
                      packet.inStep)
  BY <1>1
<1> HIDE DEF packet
<1>3. Told(packet)  BY <1>1 DEF Told, IsNotValid
<1>4. Coherent(packet)  BY <1>1, <1>2, <1>3 DEF Coherent
<1> QED  BY <1>4 DEF packet

(* Joined, and the array of an empty packet, are one buffer.               *)
LEMMA OneBuffer ==
  /\ \A buffers : Len(Joined(buffers)) = 1
  /\ \A class \in Classes : class # "IpcPacketBufferList" => Len(NoBuffers(class)) = 1
<1>1. \A x : Len(<<x>>) = 1  OBVIOUS
<1> QED  BY <1>1 DEF Joined, NoBuffers, Classes

(* What is held by one of the packets in place of what it held.            *)
LEMMA HoldKeeps ==
  ASSUME IInv, NEW p \in P, NEW header, NEW buffers,
         NEW value \in Values \cup {Undefined}, NEW inStep \in BOOLEAN,
         Hold(p, header, buffers, value, inStep),
         header.type \in ValidTypes \cup {"NotValid"},
         packets[p].class # "IpcPacketBufferList" => Len(buffers) = 1,
         inStep /\ header.type # "NotValid" =>
           PacketType(value) # NoPacket /\ header = HeaderOf(value)
  PROVE  IInv'
<1> DEFINE packet == Packet(packets[p].class, header, buffers, value, inStep)
<1>1. packets[p].class \in Classes  BY DEF IInv, Coherent
<1>2. Coherent(packet)  BY <1>1, PacketCoherent
<1>3. packet.class = packets[p].class  BY DEF Packet
<1>4. packets' = [packets EXCEPT ![p] = packet] /\ Alone(p) /\ work' = work
  BY DEF Hold
<1> HIDE DEF packet
<1> QED  BY <1>2, <1>3, <1>4, OwnArray

(* The header of a value that is read is its own or none.                  *)
LEMMA ReadsHeader ==
  ASSUME NEW v \in Values, PacketType(v) # NoPacket, NEW r,
         NumberOut(r, FixedHeaderSize).lo = 0
  PROVE  LET header == ReadHeader(r, MemoryOf[v].headers).header
         IN /\ header.type \in ValidTypes \cup {"NotValid"}
            /\ header.type # "NotValid" => header = HeaderOf(v)
            /\ header.contentSize < 0 => header.type = "NotValid"
<1> DEFINE header == ReadHeader(r, MemoryOf[v].headers).header
<1>1. v \in AllValues  BY BufferAssumption
<1>2. MemoryOf[v] = Memory(<<v>>)  BY DEF MemoryOf
<1>3. header \in {InvalidRawHeader, HeaderOf(v)}  BY <1>1, <1>2, HeaderIsRead
<1>4. HeaderOf(v).type \in ValidTypes /\ HeaderOf(v).contentSize \in Nat
  BY <1>1, HeaderOfSize
<1>5. InvalidRawHeader.type = "NotValid"  BY DEF InvalidRawHeader
<1> HIDE DEF header
<1>6. /\ header.type \in ValidTypes \cup {"NotValid"}
      /\ header.type # "NotValid" => header = HeaderOf(v)
      /\ header.contentSize < 0 => header.type = "NotValid"
  BY <1>3, <1>4, <1>5
<1> QED  BY <1>6 DEF header

(***************************************************************************)
(* One lemma for each action                                               *)
(***************************************************************************)

(* The packets and what is shared of them at the start.                    *)
LEMMA InitIInv == Init => IInv
<1> SUFFICES ASSUME Init PROVE IInv  OBVIOUS
<1>1. packets \in [P -> {NewPacket(class) : class \in Classes}]
      /\ sharing = [p \in P |-> {p}]
  BY DEF Init
<1>2. work \subseteq Values  BY DEF Init
<1>3. Undefined \in Values \cup {Undefined}  OBVIOUS
<1>4. ASSUME NEW class \in Classes PROVE Coherent(NewPacket(class))
  <2>1. InvalidRawHeader.type = "NotValid"  BY DEF InvalidRawHeader
  <2>2. Coherent(Packet(class, InvalidRawHeader, NoBuffers(class), Undefined, TRUE))
    BY <1>3, <2>1, OneBuffer, PacketCoherent
  <2> QED  BY <2>2 DEF NewPacket
<1>5. \A p \in P : Coherent(packets[p])  BY <1>1, <1>4
<1>6. \A p \in P : sharing[p] = {p}  BY <1>1
<1>7. sharing \in [P -> SUBSET P]  BY <1>1
<1>8. Shared  BY <1>6, <1>7 DEF Shared
<1>9. packets = [p \in P |-> packets[p]]  BY <1>1
<1> QED  BY <1>2, <1>5, <1>8, <1>9 DEF IInv

(* serialize                                                               *)
LEMMA SerializeKeeps ==
  ASSUME IInv, NEW p \in P, NEW v \in work, Serialize(p, v)
  PROVE  IInv'
<1> DEFINE places == Places(WrittenOf[v])
           header == HeaderWritten(packets[p].header, v)
           buffers == IF IsBufferList(p) THEN places ELSE Joined(places)
           inStep == PacketType(v) # NoPacket
<1>1. v \in Values /\ v \in AllValues  BY BufferAssumption DEF IInv
<1>2. Hold(p, header, buffers, v, inStep)  BY DEF Serialize
<1>3. header = IF PacketType(v) = NoPacket THEN packets[p].header ELSE HeaderOf(v)
  BY <1>1, HeaderIsWritten
<1>4. PacketType(v) # NoPacket => HeaderOf(v).type \in ValidTypes
  BY <1>1, HeaderOfSize
<1>5. packets[p].header.type \in ValidTypes \cup {"NotValid"}  BY DEF IInv, Coherent
<1>6. packets[p].class # "IpcPacketBufferList" => Len(buffers) = 1
  BY OneBuffer DEF IsBufferList
<1>7. inStep \in BOOLEAN  OBVIOUS
<1>8. /\ header.type \in ValidTypes \cup {"NotValid"}
      /\ inStep /\ header.type # "NotValid" =>
           PacketType(v) # NoPacket /\ header = HeaderOf(v)
  BY <1>3, <1>4, <1>5
<1> HIDE DEF header, buffers, inStep
<1> QED  BY <1>1, <1>2, <1>6, <1>7, <1>8, HoldKeeps

(* decodeFromReader                                                        *)
LEMMA ReceiveKeeps ==
  ASSUME IInv, NEW p \in P, NEW v \in work, NEW cuts \in SUBSET Cuts,
         NEW missing \in 0 .. 1, Receive(p, v, cuts, missing)
  PROVE  IInv'
<1> DEFINE size == SizeOf(v) - missing
           r == NewBufferListReader(Chunks(cuts, size), 0)
           read == ReadHeader(r, MemoryOf[v].headers)
           class == packets[p].class
           taken == TakeOut(class, SetContext(read.reader, GetContext(r)),
                            PacketSize(read.header))
<1>1. v \in Values /\ v \in AllValues /\ PacketType(v) # NoPacket
  BY BufferAssumption DEF IInv, Receive
<1>2. size \in Int
  <2>1. WrittenOf[v] = Written(<<v>>)  BY <1>1 DEF WrittenOf
  <2>2. Written(<<v>>) \in Seq(Seq(Fields))  BY <1>1, PacketWritten
  <2>3. Length(Written(<<v>>)) \in Nat  BY <2>2, LengthConcat
  <2>4. SizeOf(v) \in Nat  BY <2>1, <2>3 DEF SizeOf
  <2> QED  BY <2>4
<1>3. cuts \in SUBSET Nat  BY BufferAssumption
<1> HIDE DEF size
<1>4. Chunks(cuts, size)[1].lo = 0  BY <1>2, <1>3, ChunksBegin
<1>5. NumberOut(r, FixedHeaderSize).lo = 0  BY <1>4, ListAtStart
<1>6. DecodeFromReader(p, v, r)  BY DEF Receive, size
<1> HIDE DEF r
<1>7. Decode(p, v, GetContext(r), read)  BY <1>6 DEF DecodeFromReader
<1>8. /\ read.header.type \in ValidTypes \cup {"NotValid"}
      /\ read.header.type # "NotValid" => read.header = HeaderOf(v)
      /\ read.header.contentSize < 0 => read.header.type = "NotValid"
  BY <1>1, <1>5, ReadsHeader
<1>9. class # "IpcPacketBufferList" => Len(taken) = 1
  <2>1. \A x : Len(<<x>>) = 1  OBVIOUS
  <2> QED  BY <2>1 DEF TakeOut
<1>10. class # "IpcPacketBufferList" => Len(NoBuffers(class)) = 1
  <2>1. class \in Classes  BY DEF IInv, Coherent
  <2> QED  BY <2>1, OneBuffer
<1>11. \/ Hold(p, read.header, taken, v, TRUE)
       \/ /\ ~(read.header.contentSize >= 0)
          /\ Hold(p, read.header, NoBuffers(class), Undefined, TRUE)
  BY <1>7 DEF Decode
<1>12. ~(read.header.contentSize >= 0) => read.header.type = "NotValid"
  <2> QED  BY <1>8, <1>1, HeaderOfSize
<1> HIDE DEF read, taken, class
<1>13. CASE Hold(p, read.header, taken, v, TRUE)
  BY <1>1, <1>8, <1>9, <1>13, HoldKeeps DEF class
<1>14. CASE /\ ~(read.header.contentSize >= 0)
            /\ Hold(p, read.header, NoBuffers(class), Undefined, TRUE)
  BY <1>8, <1>10, <1>12, <1>14, HoldKeeps DEF class
<1> QED  BY <1>11, <1>13, <1>14

(* decodeFromBuffer                                                        *)
LEMMA DecodeFromBufferKeeps ==
  ASSUME IInv, NEW p \in P, NEW v \in work, DecodeFromBuffer(p, v)
  PROVE  IInv'
<1> DEFINE buffer == [lo |-> 0, hi |-> SizeOf(v)]
           header == ReadHeader(NewBufferReader(buffer, 0), MemoryOf[v].headers).header
<1>1. v \in Values /\ PacketType(v) # NoPacket /\ Hold(p, header, <<buffer>>, v, TRUE)
  BY DEF IInv, DecodeFromBuffer
<1>2. NumberOut(NewBufferReader(buffer, 0), FixedHeaderSize).lo = 0  BY BufferAtStart
<1>3. /\ header.type \in ValidTypes \cup {"NotValid"}
      /\ header.type # "NotValid" => header = HeaderOf(v)
  BY <1>1, <1>2, ReadsHeader
<1>4. Len(<<buffer>>) = 1  OBVIOUS
<1> HIDE DEF header, buffer
<1> QED  BY <1>1, <1>3, <1>4, HoldKeeps

(* reset                                                                   *)
LEMMA ResetKeeps ==
  ASSUME IInv, NEW p \in P, Reset(p)
  PROVE  IInv'
<1>1. Hold(p, InvalidRawHeader, NoBuffers(packets[p].class), Undefined, TRUE)
  BY DEF Reset
<1>2. InvalidRawHeader.type = "NotValid"  BY DEF InvalidRawHeader
<1>3. packets[p].class \in Classes  BY DEF IInv, Coherent
<1> QED  BY <1>1, <1>2, <1>3, OneBuffer, HoldKeeps

(* A packet of coherent ones is the record of its fields.                  *)
LEMMA FieldsOfPacket ==
  ASSUME NEW x, Coherent(x)
  PROVE  x = [class |-> x.class, header |-> x.header, buffers |-> x.buffers,
              value |-> x.value, inStep |-> x.inStep]
BY DEF Coherent, Packet

(* What write leaves of a packet, told elsewhere.                           *)
LEMMA WrittenElsewhere ==
  ASSUME IInv, NEW p \in P, NEW v, WriteElsewhere(p, v)
  PROVE  LET x == packets[p]
         IN packets' = [packets EXCEPT
              ![p] = Packet(x.class, HeaderWritten(x.header, v), x.buffers, x.value,
                            x.inStep /\ PacketType(v) = NoPacket)]
<1> DEFINE x == packets[p]
           header == HeaderWritten(x.header, v)
           inStep == x.inStep /\ PacketType(v) = NoPacket
<1>1. x = [class |-> x.class, header |-> x.header, buffers |-> x.buffers,
           value |-> x.value, inStep |-> x.inStep]
  <2>1. Coherent(x)  BY DEF IInv
  <2> QED  BY <2>1, FieldsOfPacket
<1>2. packets' = [packets EXCEPT ![p].header = HeaderWritten(@, v),
                                 ![p].inStep = @ /\ PacketType(v) = NoPacket]
  BY DEF WriteElsewhere
<1>3. packets = [q \in P |-> packets[q]]  BY DEF IInv
<1>4. packets' = [packets EXCEPT ![p] = [[x EXCEPT !.header = header]
                                           EXCEPT !.inStep = inStep]]
  BY <1>1, <1>2, <1>3
<1> HIDE DEF x, header, inStep
<1>5. [[x EXCEPT !.header = header] EXCEPT !.inStep = inStep]
        = [class |-> x.class, header |-> header, buffers |-> x.buffers,
           value |-> x.value, inStep |-> inStep]
  <2> DEFINE y == [x EXCEPT !.header = header]
  <2>1. y = [class |-> x.class, header |-> header, buffers |-> x.buffers,
             value |-> x.value, inStep |-> x.inStep]
    BY <1>1
  <2> HIDE DEF y
  <2>2. [y EXCEPT !.inStep = inStep]
          = [class |-> x.class, header |-> header, buffers |-> x.buffers,
             value |-> x.value, inStep |-> inStep]
    BY <2>1
  <2> QED  BY <2>2 DEF y
<1>6. packets' = [packets EXCEPT ![p] = Packet(x.class, header, x.buffers, x.value, inStep)]
  BY <1>4, <1>5 DEF Packet
<1> QED  BY <1>6 DEF x, header, inStep

(* What read leaves of a packet, told elsewhere.                            *)
LEMMA ToldElsewhere ==
  ASSUME IInv, NEW p \in P, NEW header,
         packets' = [packets EXCEPT ![p].header = header, ![p].inStep = FALSE]
  PROVE  LET x == packets[p]
         IN packets' = [packets EXCEPT
              ![p] = Packet(x.class, header, x.buffers, x.value, FALSE)]
<1> DEFINE x == packets[p]
<1>1. x = [class |-> x.class, header |-> x.header, buffers |-> x.buffers,
           value |-> x.value, inStep |-> x.inStep]
  <2>1. Coherent(x)  BY DEF IInv
  <2> QED  BY <2>1, FieldsOfPacket
<1>2. packets = [q \in P |-> packets[q]]  BY DEF IInv
<1>3. packets' = [packets EXCEPT ![p] = [[x EXCEPT !.header = header]
                                           EXCEPT !.inStep = FALSE]]
  BY <1>1, <1>2
<1> HIDE DEF x
<1>4. [[x EXCEPT !.header = header] EXCEPT !.inStep = FALSE]
        = [class |-> x.class, header |-> header, buffers |-> x.buffers,
           value |-> x.value, inStep |-> FALSE]
  <2> DEFINE y == [x EXCEPT !.header = header]
  <2>1. y = [class |-> x.class, header |-> header, buffers |-> x.buffers,
             value |-> x.value, inStep |-> x.inStep]
    BY <1>1
  <2> HIDE DEF y
  <2>2. \A inStep : [y EXCEPT !.inStep = inStep]
          = [class |-> x.class, header |-> header, buffers |-> x.buffers,
             value |-> x.value, inStep |-> inStep]
    BY <2>1
  <2>3. [y EXCEPT !.inStep = FALSE]
          = [class |-> x.class, header |-> header, buffers |-> x.buffers,
             value |-> x.value, inStep |-> FALSE]
    BY <2>2
  <2> QED  BY <2>3 DEF y
<1>5. packets' = [packets EXCEPT ![p] = Packet(x.class, header, x.buffers, x.value, FALSE)]
  BY <1>3, <1>4 DEF Packet
<1> QED  BY <1>5 DEF x

(* What the getter buffer leaves of a packet.                               *)
LEMMA LookedAt ==
  ASSUME IInv, NEW p \in P, LookAtBuffer(p)
  PROVE  LET x == packets[p]
         IN packets' = [packets EXCEPT
              ![p] = Packet(x.class, x.header, Joined(x.buffers), x.value, x.inStep)]
<1> DEFINE x == packets[p]
           one == Joined(x.buffers)
<1>1. x = [class |-> x.class, header |-> x.header, buffers |-> x.buffers,
           value |-> x.value, inStep |-> x.inStep]
  <2>1. Coherent(x)  BY DEF IInv
  <2> QED  BY <2>1, FieldsOfPacket
<1>2. packets' = [packets EXCEPT ![p].buffers = Joined(@)]  BY DEF LookAtBuffer
<1>3. packets = [q \in P |-> packets[q]]  BY DEF IInv
<1>4. packets' = [packets EXCEPT ![p] = [x EXCEPT !.buffers = one]]  BY <1>2, <1>3
<1> HIDE DEF x, one
<1>5. [x EXCEPT !.buffers = one]
        = [class |-> x.class, header |-> x.header, buffers |-> one,
           value |-> x.value, inStep |-> x.inStep]
  BY <1>1
<1>6. packets' = [packets EXCEPT ![p] = Packet(x.class, x.header, one, x.value, x.inStep)]
  BY <1>4, <1>5 DEF Packet
<1> QED  BY <1>6 DEF x, one

(* setRawData of getRawData                                                *)
LEMMA CopyKeeps ==
  ASSUME IInv, NEW p \in P, NEW q \in P, CopyRawData(p, q)
  PROVE  IInv'
<1> DEFINE from == packets[q]
           one == Len(from.buffers) < 2
           alone == one \/ ~IsBufferList(p)
           buffers == IF alone THEN Joined(from.buffers) ELSE from.buffers
           packet == Packet(packets[p].class, from.header, buffers, from.value, from.inStep)
           all == sharing[q] \cup {p}
<1>1. p # q /\ packets' = [packets EXCEPT ![p] = packet] /\ work' = work
  BY DEF CopyRawData
<1>2. Coherent(packet)
  <2>1. Coherent(from) /\ packets[p].class \in Classes  BY DEF IInv, Coherent
  <2>2. packets[p].class # "IpcPacketBufferList" => Len(buffers) = 1
    BY OneBuffer DEF IsBufferList
  <2> HIDE DEF from, buffers
  <2> DEFINE header == from.header
             value == from.value
             inStep == from.inStep
  <2>3. /\ header.type \in ValidTypes \cup {"NotValid"}
        /\ value \in Values \cup {Undefined}
        /\ inStep \in BOOLEAN
        /\ inStep /\ header.type # "NotValid" =>
             PacketType(value) # NoPacket /\ header = HeaderOf(value)
    BY <2>1 DEF Coherent, Told, IsNotValid
  <2> HIDE DEF header, value, inStep
  <2>4. Coherent(Packet(packets[p].class, header, buffers, value, inStep))
    BY <2>1, <2>2, <2>3, PacketCoherent
  <2> QED  BY <2>4 DEF header, value, inStep
<1>3. packet.class = packets[p].class /\ packet.buffers = buffers  BY DEF Packet
<1>4. CASE alone
  <2>1. Alone(p)  BY <1>4 DEF CopyRawData
  <2> HIDE DEF packet
  <2> QED  BY <1>1, <1>2, <1>3, <2>1, OwnArray
<1>5. CASE ~alone
  <2>1. sharing' = [o \in P |-> IF o \in all THEN all ELSE sharing[o] \ {p}]
    BY <1>5 DEF CopyRawData
  <2>2. IsBufferList(p) /\ ~(Len(packets[q].buffers) < 2) /\ buffers = packets[q].buffers
    BY <1>5
  <2>3. IsBufferList(q)
    <3>1. packets[q].class # "IpcPacketBufferList" => Len(packets[q].buffers) = 1
      BY DEF IInv, Coherent
    <3>2. Len(packets[q].buffers) = 1 => Len(packets[q].buffers) < 2  OBVIOUS
    <3>3. ~(packets[q].class # "IpcPacketBufferList")  BY <2>2, <3>1, <3>2
    <3> QED  BY <3>3 DEF IsBufferList
  <2> HIDE DEF packet
  <2>4. packets' = [o \in P |-> IF o = p THEN packet ELSE packets[o]]
    BY <1>1 DEF IInv
  <2>5. \A o \in P : packets'[o] = IF o = p THEN packet ELSE packets[o]  BY <2>4
  <2>6. \A o \in P : IsBufferList(o)' = IsBufferList(o)  BY <1>3, <2>5 DEF IsBufferList
  <2>7. sharing \in [P -> SUBSET P]  BY DEF IInv, Shared
  <2>8. ASSUME NEW o \in P
        PROVE  /\ o \in sharing[o]
               /\ \A x \in sharing[o] : /\ sharing[x] = sharing[o]
                                        /\ packets[x].buffers = packets[o].buffers
               /\ ~IsBufferList(o) => sharing[o] = {o}
    BY DEF IInv, Shared
  <2>9. all \in SUBSET P /\ p \in all /\ q \in all  BY <2>7, <2>8
  <2>10. \A o \in P : sharing'[o] = IF o \in all THEN all ELSE sharing[o] \ {p}
    BY <2>1
  <2>11. \A o \in all : packets'[o].buffers = packets[q].buffers
    <3>1. ASSUME NEW o \in all PROVE packets'[o].buffers = packets[q].buffers
      <4>1. CASE o = p  BY <1>3, <2>2, <2>5, <4>1
      <4>2. CASE o # p
        <5>1. o \in sharing[q] /\ o \in P  BY <2>9, <4>2
        <5> QED  BY <2>5, <2>8, <4>2, <5>1
      <4> QED  BY <4>1, <4>2
    <3> QED  BY <3>1
  <2>12. \A o \in all : IsBufferList(o)
    <3>1. ASSUME NEW o \in sharing[q] PROVE IsBufferList(o)
      <4>1. o \in P /\ sharing[o] = sharing[q]  BY <2>7, <2>8
      <4>2. q \in sharing[o]  BY <2>8, <4>1
      <4>3. ~IsBufferList(o) => o = q  BY <2>8, <4>1, <4>2
      <4> QED  BY <2>3, <4>3
    <3> QED  BY <2>2, <3>1
  <2>13. \A o \in P : o \notin all => sharing[o] \cap sharing[q] = {}
    <3>1. ASSUME NEW o \in P, o \notin all, NEW x \in sharing[o], x \in sharing[q]
          PROVE  FALSE
      <4>2. sharing[x] = sharing[o] /\ sharing[x] = sharing[q]  BY <2>8, <3>1
      <4>3. o \in sharing[o]  BY <2>8
      <4> QED  BY <3>1, <4>2, <4>3
    <3> QED  BY <3>1
  <2>14. Shared'
    <3> HIDE DEF all
    <3>1. ASSUME NEW o \in P
          PROVE  /\ o \in sharing'[o]
                 /\ \A x \in sharing'[o] : /\ sharing'[x] = sharing'[o]
                                           /\ packets'[x].buffers = packets'[o].buffers
                 /\ ~IsBufferList(o)' => sharing'[o] = {o}
      <4>1. CASE o \in all
        <5>1. sharing'[o] = all  BY <2>10, <4>1
        <5>2. \A x \in all : x \in P /\ sharing'[x] = all  BY <2>9, <2>10
        <5>3. IsBufferList(o)'  BY <2>6, <2>12, <4>1
        <5> QED  BY <2>11, <4>1, <5>1, <5>2, <5>3
      <4>2. CASE o \notin all
        <5>1. sharing'[o] = sharing[o] \ {p} /\ o # p  BY <2>9, <2>10, <4>2
        <5>2. o \in sharing'[o]  BY <2>8, <5>1
        <5>3. ASSUME NEW x \in sharing'[o]
              PROVE  sharing'[x] = sharing'[o] /\ packets'[x].buffers = packets'[o].buffers
          <6>1. x \in sharing[o] /\ x # p /\ x \in P  BY <2>7, <5>1
          <6>2. x \notin all
            <7>1. x \notin sharing[q]  BY <2>13, <4>2, <6>1
            <7> QED  BY <6>1, <7>1 DEF all
          <6>3. sharing'[x] = sharing[x] \ {p}  BY <2>10, <6>1, <6>2
          <6>4. packets'[x] = packets[x] /\ packets'[o] = packets[o]
            BY <2>5, <5>1, <6>1
          <6> QED  BY <2>8, <5>1, <6>1, <6>3, <6>4
        <5>4. ~IsBufferList(o)' => sharing'[o] = {o}
          BY <2>6, <2>8, <5>1
        <5> QED  BY <5>2, <5>3, <5>4
      <4> QED  BY <4>1, <4>2
    <3>2. sharing' \in [P -> SUBSET P]
      <4>1. \A o \in P : (IF o \in all THEN all ELSE sharing[o] \ {p}) \in SUBSET P
        BY <2>7, <2>9
      <4> QED  BY <2>1, <4>1
    <3> QED  BY <3>1, <3>2 DEF Shared
  <2>15. \A o \in P : Coherent(packets'[o])  BY <1>2, <2>5 DEF IInv
  <2>16. packets' = [o \in P |-> packets'[o]]  BY <2>4
  <2>17. work' \subseteq Values  BY <1>1 DEF IInv
  <2> QED  BY <2>14, <2>15, <2>16, <2>17 DEF IInv
<1> QED  BY <1>4, <1>5

(* write of the packet, with a writer of the program's own                 *)
LEMMA WriteElsewhereKeeps ==
  ASSUME IInv, NEW p \in P, NEW v \in work, WriteElsewhere(p, v)
  PROVE  IInv'
<1> DEFINE x == packets[p]
           header == HeaderWritten(x.header, v)
           inStep == x.inStep /\ PacketType(v) = NoPacket
           packet == Packet(x.class, header, x.buffers, x.value, inStep)
<1>1. v \in AllValues  BY BufferAssumption DEF IInv
<1>2. Coherent(x)  BY DEF IInv
<1>3. header = IF PacketType(v) = NoPacket THEN x.header ELSE HeaderOf(v)
  BY <1>1, HeaderIsWritten
<1>4. PacketType(v) # NoPacket => HeaderOf(v).type \in ValidTypes
  BY <1>1, HeaderOfSize
<1>6. packets' = [packets EXCEPT ![p] = packet]  BY WrittenElsewhere
<1>7. packet.class = x.class /\ packet.buffers = x.buffers  BY DEF Packet
<1>8. sharing' = sharing /\ work' = work  BY DEF WriteElsewhere
<1>9. Coherent(packet)
  <2> HIDE DEF x
  <2>1. /\ x.class \in Classes
        /\ x.value \in Values \cup {Undefined}
        /\ x.class # "IpcPacketBufferList" => Len(x.buffers) = 1
        /\ x.header.type \in ValidTypes \cup {"NotValid"}
        /\ x.inStep /\ x.header.type # "NotValid" =>
             PacketType(x.value) # NoPacket /\ x.header = HeaderOf(x.value)
    BY <1>2 DEF Coherent, Told, IsNotValid
  <2>2. inStep \in BOOLEAN  OBVIOUS
  <2>3. /\ header.type \in ValidTypes \cup {"NotValid"}
        /\ inStep /\ header.type # "NotValid" =>
             PacketType(x.value) # NoPacket /\ header = HeaderOf(x.value)
    BY <1>3, <1>4, <2>1
  <2> HIDE DEF header, inStep
  <2> QED  BY <2>1, <2>2, <2>3, PacketCoherent
<1> HIDE DEF packet
<1> QED  BY <1>6, <1>7, <1>8, <1>9, SameArray

(* read of the packet, with a reader of the program's own                  *)
LEMMA ReadElsewhereKeeps ==
  ASSUME IInv, NEW p \in P, NEW v \in work, NEW missing \in 0 .. 1,
         ReadElsewhere(p, v, missing)
  PROVE  IInv'
<1> DEFINE x == packets[p]
           r == NewBufferReader([lo |-> 0, hi |-> SizeOf(v) - missing], 0)
           header == ReadHeader(r, MemoryOf[v].headers).header
           packet == Packet(x.class, header, x.buffers, x.value, FALSE)
<1>1. v \in Values /\ PacketType(v) # NoPacket  BY DEF IInv, ReadElsewhere
<1>2. Coherent(x)  BY DEF IInv
<1>3. NumberOut(r, FixedHeaderSize).lo = 0  BY BufferAtStart
<1>5. sharing' = sharing /\ work' = work  BY DEF ReadElsewhere
<1>6. packets' = [packets EXCEPT ![p].header = header, ![p].inStep = FALSE]
  BY DEF ReadElsewhere
<1> HIDE DEF r
<1>7. header.type \in ValidTypes \cup {"NotValid"}  BY <1>1, <1>3, ReadsHeader
<1> HIDE DEF header
<1>8. packets' = [packets EXCEPT ![p] = packet]  BY <1>6, ToldElsewhere
<1>9. packet.class = x.class /\ packet.buffers = x.buffers  BY DEF Packet
<1>10. Coherent(packet)
  <2> HIDE DEF x
  <2>1. /\ x.class \in Classes
        /\ x.value \in Values \cup {Undefined}
        /\ x.class # "IpcPacketBufferList" => Len(x.buffers) = 1
    BY <1>2 DEF Coherent
  <2> QED  BY <1>7, <2>1, PacketCoherent
<1> HIDE DEF packet
<1> QED  BY <1>5, <1>8, <1>9, <1>10, SameArray

(* The getter buffer                                                       *)
LEMMA LookAtBufferKeeps ==
  ASSUME IInv, NEW p \in P, LookAtBuffer(p)
  PROVE  IInv'
<1> DEFINE x == packets[p]
           packet == Packet(x.class, x.header, Joined(x.buffers), x.value, x.inStep)
<1>1. Coherent(x)  BY DEF IInv
<1>3. packets' = [packets EXCEPT ![p] = packet]  BY LookedAt
<1>4. packet.class = x.class  BY DEF Packet
<1>5. Coherent(packet)
  <2> HIDE DEF x
  <2> DEFINE header == x.header
             value == x.value
             inStep == x.inStep
  <2>1. /\ x.class \in Classes
        /\ value \in Values \cup {Undefined}
        /\ inStep \in BOOLEAN
        /\ header.type \in ValidTypes \cup {"NotValid"}
        /\ inStep /\ header.type # "NotValid" =>
             PacketType(value) # NoPacket /\ header = HeaderOf(value)
    BY <1>1 DEF Coherent, Told, IsNotValid
  <2> HIDE DEF header, value, inStep
  <2>2. Coherent(Packet(x.class, header, Joined(x.buffers), value, inStep))
    BY <2>1, OneBuffer, PacketCoherent
  <2> QED  BY <2>2 DEF header, value, inStep
<1>6. Alone(p) /\ work' = work  BY DEF LookAtBuffer
<1> HIDE DEF packet
<1> QED  BY <1>3, <1>4, <1>5, <1>6, OwnArray

(* parse, parseArrayLength, parseArrayAt, parseArraySlice                  *)
LEMMA MergesKeeps ==
  ASSUME IInv, NEW p \in P, NEW reader, Merges(p, reader)
  PROVE  IInv'
<1> DEFINE buffers == IF Len(packets[p].buffers) < 2 THEN packets[p].buffers
                                                     ELSE reader.buffers
<1>1. MergeInPlace(p, buffers)  BY DEF Merges
<1>2. ~IsBufferList(p) => buffers = packets[p].buffers
  <2>1. ~IsBufferList(p) => Len(packets[p].buffers) = 1  BY DEF IInv, Coherent, IsBufferList
  <2>2. Len(packets[p].buffers) = 1 => Len(packets[p].buffers) < 2  OBVIOUS
  <2>3. ~IsBufferList(p) => Len(packets[p].buffers) < 2  BY <2>1, <2>2
  <2> QED  BY <2>3
<1> HIDE DEF buffers
<1> QED  BY <1>1, <1>2, MergedArray

(***************************************************************************)
(* The bytes of a packet                                                   *)
(***************************************************************************)

(* One buffer of all the bytes.                                            *)
LEMMA OneSpread ==
  ASSUME NEW size \in Nat
  PROVE  Spread(<<[lo |-> 0, hi |-> size]>>, size)
<1> DEFINE b == [lo |-> 0, hi |-> size]
           s == <<b>>
<1>1. b \in Buffer  BY DEF Buffer
<1>2. s \in Seq(Buffer) /\ Len(s) = 1 /\ s[1] = b  BY <1>1
<1>3. b.lo = 0 /\ b.hi = size  OBVIOUS
<1> HIDE DEF b, s
<1>4. s # <<>>  BY <1>2
<1>5. 1 .. 1 - 1 = {} /\ \A k \in 1 .. 1 : k = 1  OBVIOUS
<1>6. Contiguous(s)  BY <1>2, <1>5 DEF Contiguous
<1>7. Spread(s, size)  BY <1>2, <1>3, <1>4, <1>5, <1>6 DEF Spread
<1> QED  BY <1>7 DEF s, b

(* Buffer.concat leaves the bytes as they are.                             *)
LEMMA JoinedSpread ==
  ASSUME NEW b, NEW size \in Nat, Spread(b, size)
  PROVE  Spread(Joined(b), size)
<1>1. b \in Seq(Buffer) /\ b # <<>> /\ Len(b) \in Nat \ {0}  BY SpreadBuffers DEF Spread
<1>2. CASE Len(b) < 2
  <2>1. Len(b) = 1
    <3>1. \A n \in Nat \ {0} : n < 2 => n = 1  OBVIOUS
    <3> QED  BY <1>1, <1>2, <3>1
  <2>2. b = <<b[1]>>  BY <1>1, <2>1
  <2>3. Joined(b) = b  BY <1>1, <1>2, <2>2 DEF Joined
  <2> QED  BY <2>3
<1>3. CASE ~(Len(b) < 2)
  <2>1. Joined(b) = <<[lo |-> 0, hi |-> size]>>  BY <1>3 DEF Joined, Concat, Spread
  <2> QED  BY <2>1, OneSpread
<1> QED  BY <1>2, <1>3

(* The buffers of the packet of a value.                                   *)
LEMMA WrittenSpread ==
  ASSUME NEW v \in AllValues, PacketType(v) # NoPacket
  PROVE  /\ Bytelength(v) \in Nat /\ Bytelength(v) >= FixedHeaderSize + FooterLength
         /\ Length(Written(<<v>>)) = Bytelength(v)
         /\ Spread(Places(Written(<<v>>)), Bytelength(v))
         /\ PacketSize(HeaderOf(v)) = Bytelength(v)
<1> DEFINE s == Written(<<v>>)
           h == HeaderOf(v)
<1>1. s \in Seq(Seq(Fields)) /\ Length(s) = Bytelength(v)  BY PacketWritten
<1>2. h.contentSize \in Nat /\ PacketSize(h) = Bytelength(v)
      /\ h.headerSize \in {FixedHeaderSize, DynamicHeaderSize}
  <2>1. h.headerSize \in {FixedHeaderSize, DynamicHeaderSize}
    <3>1. PacketType(v) \in ValidTypes  BY TypesOfValues
    <3> QED  BY <3>1 DEF HeaderOf, RawHeader, ValidTypes
  <2> QED  BY <2>1, HeaderOfSize
<1>3. Bytelength(v) \in Nat /\ Bytelength(v) >= FixedHeaderSize + FooterLength
  <2> HIDE DEF h
  <2> QED
    BY <1>2 DEF PacketSize, FixedHeaderSize, DynamicHeaderSize, ContentFieldSize, FooterLength
<1>4. s # <<>>
  <2>1. Length(<<>>) = 0  BY FlattenNothing, TotalNothing DEF Length
  <2> QED  BY <1>1, <1>3, <2>1 DEF FixedHeaderSize, FooterLength
<1> HIDE DEF s
<1>5. Spread(Places(s), Bytelength(v))  BY <1>1, <1>4, PlacesSpread
<1> QED  BY <1>1, <1>2, <1>3, <1>5 DEF s, h

(* How many of the numbers are not greater.                                *)
Rank(S, e) == Cardinality({d \in S : d <= e})

(* Of the numbers in a finite set there is a first, a second, and so on.   *)
LEMMA Ranks ==
  ASSUME NEW S \in SUBSET Nat, IsFiniteSet(S)
  PROVE  /\ Cardinality(S) \in Nat
         /\ \A e \in S : Rank(S, e) \in 1 .. Cardinality(S)
         /\ \A d, e \in S : Rank(S, d) < Rank(S, e) => d < e
         /\ \A d, e \in S : Rank(S, d) = Rank(S, e) => d = e
         /\ \A k \in 1 .. Cardinality(S) : \E e \in S : Rank(S, e) = k
<1> DEFINE N == Cardinality(S)
           Low(e) == {d \in S : d <= e}
           f == [e \in S |-> Rank(S, e)]
<1>1. N \in Nat  BY FS_CardinalityType
<1>2. \A e \in S : IsFiniteSet(Low(e)) /\ Cardinality(Low(e)) <= N
                   /\ Cardinality(Low(e)) \in Nat /\ Cardinality(Low(e)) # 0
  <2>1. ASSUME NEW e \in S
        PROVE  IsFiniteSet(Low(e)) /\ Cardinality(Low(e)) <= N
               /\ Cardinality(Low(e)) \in Nat /\ Cardinality(Low(e)) # 0
    <3>1. Low(e) \in SUBSET S /\ Low(e) # {}  OBVIOUS
    <3> HIDE DEF Low
    <3>2. IsFiniteSet(Low(e)) /\ Cardinality(Low(e)) <= N  BY <3>1, FS_Subset
    <3>3. Cardinality(Low(e)) \in Nat  BY <3>2, FS_CardinalityType
    <3>4. Cardinality(Low(e)) # 0  BY <3>1, <3>2, FS_EmptySet
    <3> QED  BY <3>2, <3>3, <3>4
  <2> QED  BY <2>1
<1>3. \A e \in S : Rank(S, e) = Cardinality(Low(e))  BY DEF Rank
<1>4. \A e \in S : Rank(S, e) \in 1 .. N
  <2> HIDE DEF Low, N
  <2> QED  BY <1>1, <1>2, <1>3
<1>5. \A d, e \in S : d <= e => Rank(S, d) <= Rank(S, e)
  <2>1. ASSUME NEW d \in S, NEW e \in S, d <= e PROVE Rank(S, d) <= Rank(S, e)
    <3>0. \A x \in S : x <= d => x <= e
      <4>1. \A x \in Nat : \A y \in Nat : \A z \in Nat : x <= y /\ y <= z => x <= z  OBVIOUS
      <4> QED  BY <2>1, <4>1
    <3>1. Low(d) \in SUBSET Low(e)  BY <3>0
    <3>2. IsFiniteSet(Low(e))  BY <1>2
    <3> HIDE DEF Low
    <3>3. Cardinality(Low(d)) <= Cardinality(Low(e))  BY <3>1, <3>2, FS_Subset
    <3> QED  BY <1>3, <3>3
  <2> QED  BY <2>1
<1>6. \A d, e \in S : d < e => Rank(S, d) # Rank(S, e)
  <2>1. ASSUME NEW d \in S, NEW e \in S, d < e, Rank(S, d) = Rank(S, e) PROVE FALSE
    <3>0. /\ \A x \in S : x <= d => x <= e
          /\ e <= e /\ ~(e <= d)
      <4>1. \A x \in Nat : \A y \in Nat : \A z \in Nat : x <= y /\ y < z => x <= z  OBVIOUS
      <4>2. d \in Nat /\ e \in Nat  OBVIOUS
      <4>3. e <= e /\ ~(e <= d)  BY <2>1, <4>2
      <4> QED  BY <2>1, <4>1, <4>3
    <3>1. Low(d) \in SUBSET Low(e) /\ e \in Low(e) /\ e \notin Low(d)  BY <3>0
    <3>2. IsFiniteSet(Low(e))  BY <1>2
    <3>3. Cardinality(Low(e)) = Cardinality(Low(d))  BY <1>3, <2>1
    <3> HIDE DEF Low
    <3>4. Low(e) = Low(d)  BY <3>1, <3>2, <3>3, FS_Subset
    <3> QED  BY <3>1, <3>4
  <2> QED  BY <2>1
<1>7. \A d, e \in S : Rank(S, d) = Rank(S, e) => d = e
  <2>1. \A d, e \in S : d < e \/ e < d \/ d = e  OBVIOUS
  <2> QED  BY <1>6, <2>1
<1>8. \A d, e \in S : Rank(S, d) < Rank(S, e) => d < e
  <2>1. ASSUME NEW d \in S, NEW e \in S, Rank(S, d) < Rank(S, e), ~(d < e) PROVE FALSE
    <3>1. e <= d  BY <2>1
    <3>2. Rank(S, e) <= Rank(S, d)  BY <1>5, <3>1
    <3>3. Rank(S, e) \in Nat /\ Rank(S, d) \in Nat  BY <1>4
    <3> QED  BY <2>1, <3>2, <3>3
  <2> QED  BY <2>1
<1>9. \A k \in 1 .. N : \E e \in S : Rank(S, e) = k
  <2> HIDE DEF N
  <2>1. f \in [S -> 1 .. N]  BY <1>4
  <2>2. \A d, e \in S : f[d] = f[e] => d = e  BY <1>7
  <2> DEFINE g == f
  <2>3. f \in Injection(S, 1 .. N)  BY <2>1, <2>2 DEF Injection, IsInjective
  <2>4. IsFiniteSet(1 .. N) /\ Cardinality(1 .. N) = N
    <3>1. 1 \in Int /\ N \in Int /\ (IF 1 > N THEN 0 ELSE N - 1 + 1) = N  BY <1>1
    <3> QED  BY <3>1, FS_Interval
  <2>5. Cardinality(S) = Cardinality(1 .. N)  BY <2>4 DEF N
  <2>6. f \in Surjection(S, 1 .. N)
    <3> HIDE DEF f
    <3> QED  BY <2>3, <2>4, <2>5, FS_Injection
  <2>7. \A k \in 1 .. N : \E e \in S : f[e] = k
    <3> HIDE DEF f
    <3> QED  BY <2>6 DEF Surjection
  <2> QED  BY <2>7
<1> QED  BY <1>1, <1>4, <1>7, <1>8, <1>9

(* What arrives in pieces is all the bytes, in order.                      *)
LEMMA ChunksSpread ==
  ASSUME NEW cuts \in SUBSET (Nat \ {0}), NEW size \in Nat
  PROVE  Spread(Chunks(cuts, size), size)
<1> DEFINE early == {cut \in cuts : cut < size}
           ends == early \cup {size}
           End(k) == IF k = 0 THEN 0
                     ELSE CHOOSE e \in ends : Cardinality({d \in ends : d <= e}) = k
           N == Cardinality(ends)
           b == Chunks(cuts, size)
<1>1. IsFiniteSet(ends) /\ ends \in SUBSET Nat /\ size \in ends /\ \A e \in ends : e <= size
  <2>1. ends \in SUBSET Nat /\ size \in ends /\ \A e \in ends : e <= size
    <3>1. ASSUME NEW e \in ends PROVE e \in Nat /\ e <= size
      <4>1. CASE e = size  BY <4>1
      <4>2. CASE e # size
        <5>1. e \in cuts /\ e < size  BY <4>2
        <5>2. e \in Nat  BY <5>1
        <5> QED  BY <5>1, <5>2
      <4> QED  BY <4>1, <4>2
    <3>2. size \in ends  OBVIOUS
    <3> HIDE DEF ends
    <3> QED  BY <3>1, <3>2
  <2> HIDE DEF ends
  <2>2. IsFiniteSet(ends)  BY <2>1, FS_BoundedSetOfNaturals
  <2> QED  BY <2>1, <2>2
<1>2. b = [k \in 1 .. N |-> [lo |-> End(k - 1), hi |-> End(k)]]  BY DEF Chunks
<1>3. N \in Nat /\ N # 0
  <2> HIDE DEF ends
  <2>1. N \in Nat  BY <1>1, FS_CardinalityType
  <2>2. N # 0  BY <1>1, FS_EmptySet
  <2> QED  BY <2>1, <2>2
<1>4. \A k \in 1 .. N : End(k) \in ends /\ Rank(ends, End(k)) = k
  <2> HIDE DEF ends
  <2>1. ASSUME NEW k \in 1 .. N PROVE End(k) \in ends /\ Rank(ends, End(k)) = k
    <3>1. \E e \in ends : Rank(ends, e) = k  BY <1>1, Ranks
    <3>2. End(k) = CHOOSE e \in ends : Rank(ends, e) = k  BY DEF Rank
    <3> HIDE DEF End
    <3> QED  BY <3>1, <3>2
  <2> QED  BY <2>1
<1>5. End(0) = 0  OBVIOUS
<1> HIDE DEF End, b, ends
<1>6. \A k \in 0 .. N : End(k) \in Nat
  <2>1. ASSUME NEW k \in 0 .. N PROVE End(k) \in Nat
    <3>1. CASE k = 0  BY <1>5, <3>1
    <3>2. CASE k # 0
      <4>1. k \in 1 .. N  BY <3>2
      <4> QED  BY <1>1, <1>4, <4>1
    <3> QED  BY <3>1, <3>2
  <2> QED  BY <2>1
<1>7. \A k \in 1 .. N : End(k - 1) <= End(k)
  <2>1. ASSUME NEW k \in 1 .. N PROVE End(k - 1) <= End(k)
    <3>1. CASE k = 1
      <4>1. End(k - 1) = 0  BY <1>5, <3>1
      <4>2. End(k) \in Nat  BY <1>6
      <4> QED  BY <4>1, <4>2
    <3>2. CASE k # 1
      <4>1. k - 1 \in 1 .. N /\ k - 1 < k  BY <1>3, <3>2
      <4>2. End(k - 1) \in ends /\ Rank(ends, End(k - 1)) = k - 1  BY <1>4, <4>1
      <4>3. End(k) \in ends /\ Rank(ends, End(k)) = k  BY <1>4
      <4>4. Rank(ends, End(k - 1)) < Rank(ends, End(k))  BY <4>1, <4>2, <4>3
      <4>5. End(k - 1) < End(k)  BY <1>1, <4>2, <4>3, <4>4, Ranks
      <4>6. End(k - 1) \in Nat /\ End(k) \in Nat  BY <1>1, <4>2, <4>3
      <4> QED  BY <4>5, <4>6
    <3> QED  BY <3>1, <3>2
  <2> QED  BY <2>1
<1>8. End(N) = size
  <2>1. N \in 1 .. N  BY <1>3
  <2>2. End(N) \in ends /\ Rank(ends, End(N)) = N  BY <1>4, <2>1
  <2>3. {d \in ends : d <= size} = ends  BY <1>1
  <2>4. Rank(ends, size) = N  BY <2>3 DEF Rank
  <2> HIDE DEF N
  <2>5. Rank(ends, End(N)) = Rank(ends, size)  BY <2>2, <2>4
  <2> QED  BY <1>1, <2>2, <2>5, Ranks
<1> HIDE DEF N
<1>9. Len(b) = N /\ \A k \in 1 .. N : b[k].lo = End(k - 1) /\ b[k].hi = End(k)
  BY <1>2, <1>3
<1>10. b \in Seq(Buffer)
  <2>1. ASSUME NEW k \in 1 .. N PROVE [lo |-> End(k - 1), hi |-> End(k)] \in Buffer
    <3>1. k - 1 \in 0 .. N /\ k \in 0 .. N  BY <1>3
    <3>2. End(k - 1) \in Nat /\ End(k) \in Nat  BY <1>6, <3>1
    <3> QED  BY <3>2 DEF Buffer
  <2> QED  BY <1>2, <1>3, <2>1
<1>11. b # <<>>  BY <1>3, <1>9
<1>12. Contiguous(b)
  <2>1. ASSUME NEW k \in 1 .. N - 1 PROVE b[k].hi = b[k + 1].lo
    <3>1. k \in 1 .. N /\ k + 1 \in 1 .. N /\ (k + 1) - 1 = k  BY <1>3
    <3> QED  BY <1>9, <3>1
  <2> QED  BY <1>9, <2>1 DEF Contiguous
<1>13. 1 \in 1 .. N /\ N \in 1 .. N /\ 1 - 1 = 0  BY <1>3
<1>14. b[1].lo = 0 /\ b[Len(b)].hi = size  BY <1>5, <1>8, <1>9, <1>13
<1>15. \A k \in 1 .. Len(b) : b[k].lo <= b[k].hi  BY <1>7, <1>9
<1>16. Spread(b, size)  BY <1>10, <1>11, <1>12, <1>14, <1>15 DEF Spread
<1> QED  BY <1>16 DEF b

(* What is not cut arrives in one piece.                                   *)
LEMMA OneChunk ==
  ASSUME NEW size \in Nat
  PROVE  Len(Chunks({}, size)) = 1
<1> DEFINE ends == {cut \in {} : cut < size} \cup {size}
           End(k) == IF k = 0 THEN 0
                     ELSE CHOOSE e \in ends : Cardinality({d \in ends : d <= e}) = k
<1>1. ends = {size}  OBVIOUS
<1>2. Cardinality(ends) = 1
  <2> HIDE DEF ends
  <2> QED  BY <1>1, FS_Singleton
<1>3. Chunks({}, size)
        = [k \in 1 .. Cardinality(ends) |-> [lo |-> End(k - 1), hi |-> End(k)]]
  BY DEF Chunks
<1> HIDE DEF ends, End
<1>4. Chunks({}, size) = [k \in 1 .. 1 |-> [lo |-> End(k - 1), hi |-> End(k)]]
  BY <1>2, <1>3
<1> QED  BY <1>4

(* All the bytes are taken by a list that is before the first of them.     *)
LEMMA TakesAll ==
  ASSUME NEW r, NEW size \in Nat \ {0}, ListAt(r, size, 0)
  PROVE  /\ Taken(r, size) = size
         /\ ReadOut(r, size) = [lo |-> 0, hi |-> size]
         /\ Spread(ReadListOut(r, size), size)
         /\ Len(ReadListOut(r, size)) \in Nat
         /\ Len(ReadListOut(r, size)) <= Len(r.buffers)
<1> DEFINE b == r.buffers
           i == r.curBufferIndex
           upto == r.curBufferOffset + size
           j == LastSpanned(r, size)
           m == j - i + 1
           out == ReadListOut(r, size)
<1>1. Taken(r, size) = size
  <2>1. r.offset = 0 /\ r.length = size  BY DEF ListAt
  <2>2. AdjustEnd(0, size, size) = size  BY NoLenAssumption DEF AdjustEnd
  <2> QED  BY <2>1, <2>2 DEF Taken
<1>2. ReadOut(r, size) = [lo |-> 0, hi |-> size]
  <2>1. 0 \in Nat /\ 0 < size /\ 0 + size <= size /\ 0 + size = size /\ size > 0
        /\ size \in Nat
    OBVIOUS
  <2> DEFINE q == Consolidate(r, size)
  <2>2. ListAt(r, size, 0) /\ q = Consolidate(r, size)  OBVIOUS
  <2> HIDE DEF q, b, i, upto, j, m, out
  <2>3. ReadOut(r, size) = [lo |-> 0, hi |-> 0 + size]
    BY ONLY <2>1, <2>2, ConsolidateAt
  <2> QED  BY <2>1, <2>3
<1>3. /\ i \in 1 .. Len(b) /\ b[i].lo = 0 /\ r.curBufferOffset = 0
      /\ Spread(b, size) /\ Len(b) \in Nat
  <2>1. 0 \in Nat /\ 0 < size /\ size \in Nat  OBVIOUS
  <2>2. i \in 1 .. Len(b) /\ r.curBufferOffset \in Nat /\ b[i].lo + r.curBufferOffset = 0
    BY <2>1, StandsInBuffer
  <2>3. Spread(b, size)  BY DEF ListAt
  <2>4. b[i].lo \in Nat /\ Len(b) \in Nat  BY <2>2, <2>3, SpreadBuffers
  <2> HIDE DEF b, i
  <2>5. \A x \in Nat : \A y \in Nat : x + y = 0 => x = 0 /\ y = 0  OBVIOUS
  <2> QED  BY <2>2, <2>3, <2>4, <2>5
<1>4. upto = size  BY <1>3
<1>5. /\ j \in i .. Len(b)
      /\ b[j].hi = size
  <2>1. j = FirstReaching(b, i, size)  BY <1>4 DEF LastSpanned
  <2> HIDE DEF b, i, j, upto
  <2>2. b[i].lo + size <= size /\ size \in Nat  BY <1>3
  <2>3. j \in i .. Len(b) /\ size <= b[j].hi - b[i].lo  BY <1>3, <2>1, <2>2, ReachesBytes
  <2>4. j \in 1 .. Len(b)  BY <1>3, <2>3
  <2>5. b[j].hi \in Nat /\ b[j].hi <= size  BY <1>3, <2>4, SpreadBuffers, SpreadOrder
  <2> QED  BY <1>3, <2>3, <2>5
<1>6. out = [p \in 1 .. m |->
               Subarray(b[i + p - 1], IF p = 1 THEN r.curBufferOffset ELSE 0,
                        upto - (b[i + p - 1].lo - b[i].lo))]
  BY DEF ReadListOut
<1> HIDE DEF b, i, j, upto, out
<1>7. m \in Nat /\ m # 0 /\ \A p \in 1 .. m : i + p - 1 \in 1 .. Len(b)
  BY <1>3, <1>5
<1>8. ASSUME NEW p \in 1 .. m
      PROVE  Subarray(b[i + p - 1], IF p = 1 THEN r.curBufferOffset ELSE 0,
                      upto - (b[i + p - 1].lo - b[i].lo)) = b[i + p - 1]
  <2> DEFINE x == b[i + p - 1]
  <2>1. i + p - 1 \in 1 .. Len(b)  BY <1>7
  <2>2. x \in Buffer /\ x.lo \in Nat /\ x.hi \in Nat /\ x.hi <= size
    BY <1>3, <2>1, SpreadBuffers, SpreadOrder
  <2>3. x = [lo |-> x.lo, hi |-> x.hi]  BY <2>2 DEF Buffer
  <2> HIDE DEF x
  <2>4. upto - (x.lo - b[i].lo) = size - x.lo  BY <1>3, <1>4, <2>2
  <2>5. (IF p = 1 THEN r.curBufferOffset ELSE 0) = 0  BY <1>3
  <2>6. Subarray(x, 0, size - x.lo) = [lo |-> x.lo, hi |-> x.hi]
    <3>2. x.lo + 0 = x.lo /\ x.lo + (size - x.lo) = size  BY <2>2
    <3>3. (IF size < x.hi THEN size ELSE x.hi) = x.hi  BY <2>2
    <3> QED  BY <3>2, <3>3 DEF Subarray
  <2>7. Subarray(x, IF p = 1 THEN r.curBufferOffset ELSE 0, upto - (x.lo - b[i].lo)) = x
    BY <2>3, <2>4, <2>5, <2>6
  <2> QED  BY <2>7 DEF x
<1>9. out = [p \in 1 .. m |-> b[i + p - 1]]  BY <1>6, <1>8
<1>10. Len(out) = m /\ \A p \in 1 .. m : out[p] = b[i + p - 1]  BY <1>7, <1>9
<1>11. out \in Seq(Buffer)
  <2>1. b \in Seq(Buffer)  BY <1>3 DEF Spread
  <2>2. \A p \in 1 .. m : b[i + p - 1] \in Buffer  BY <1>7, <2>1
  <2> HIDE DEF m
  <2> QED  BY <1>7, <1>9, <2>2
<1>12. out # <<>>  BY <1>7, <1>10
<1>13. \A p \in 1 .. Len(out) : out[p].lo <= out[p].hi
  <2>1. \A k \in 1 .. Len(b) : b[k].lo <= b[k].hi  BY <1>3, SpreadBuffers
  <2> HIDE DEF m
  <2> QED  BY <1>7, <1>10, <2>1
<1>14. Contiguous(out)
  <2>1. ASSUME NEW p \in 1 .. m - 1 PROVE out[p].hi = out[p + 1].lo
    <3>1. p \in 1 .. m /\ p + 1 \in 1 .. m  BY <1>7
    <3>2. i + p - 1 \in 1 .. Len(b) - 1 /\ (i + p - 1) + 1 = i + (p + 1) - 1
      <4>1. i + (p + 1) - 1 \in 1 .. Len(b)  BY <1>7, <3>1
      <4> QED  BY <1>3, <4>1
    <3>3. b[i + p - 1].hi = b[(i + p - 1) + 1].lo  BY <1>3, <3>2, SpreadBuffers
    <3> QED  BY <1>10, <3>1, <3>2, <3>3
  <2> QED  BY <1>10, <2>1 DEF Contiguous
<1>15. out[1].lo = 0
  <2>1. 1 \in 1 .. m /\ i + 1 - 1 = i  BY <1>3, <1>7
  <2> QED  BY <1>3, <1>10, <2>1
<1>16. out[Len(out)].hi = size
  <2>1. m \in 1 .. m /\ i + m - 1 = j  BY <1>3, <1>5, <1>7
  <2> QED  BY <1>5, <1>10, <2>1
<1>17. Spread(out, size)  BY <1>11, <1>12, <1>13, <1>14, <1>15, <1>16 DEF Spread
<1>18. m <= Len(b)  BY <1>3, <1>5
<1> QED  BY <1>1, <1>2, <1>7, <1>10, <1>17, <1>18 DEF out, b

(* A list goes back to the first byte, merged or not since.                *)
LEMMA GoesBack ==
  ASSUME NEW r, NEW size \in Nat, size >= 2, ListAt(r, size, 0), IsList(r),
         NEW q, Leads(r, q, size)
  PROVE  /\ ListAt(SetContext(q, GetContext(r)), size, 0)
         /\ SetContext(q, GetContext(r)).buffers = q.buffers
<1> DEFINE c == GetContext(r)
           back == SetContext(q, c)
<1>1. PICK at : At(q, size, at)  BY DEF Leads
<1>2. IsList(q) /\ (q.timestamp = r.timestamp => q.buffers = r.buffers)
  BY DEF Leads, Later
<1>3. ListAt(q, size, at)  BY <1>1, <1>2, AtPlace
<1>4. c.timestamp = r.timestamp /\ c.offset = 0 /\ c.curBufferIndex = r.curBufferIndex
      /\ c.curOffset = r.curBufferOffset
  BY DEF GetContext, ListAt
<1>5. 0 \in 0 .. size  OBVIOUS
<1> HIDE DEF c
<1>6. CASE c.timestamp = q.timestamp
  <2>1. back = MoveTo(q, 0, r.curBufferIndex, r.curBufferOffset)
    BY <1>4, <1>6 DEF SetContext
  <2>2. r.curBufferIndex \in Nat \ {0} /\ r.curBufferOffset \in Nat  BY DEF ListAt, Reader
  <2>3. q.buffers = r.buffers  BY <1>2, <1>4, <1>6
  <2>4. Stands(q.buffers, r.curBufferIndex, r.curBufferOffset, 0, size)
    BY <2>3 DEF ListAt
  <2> HIDE DEF back
  <2>5. At(back, size, 0) /\ IsList(back) /\ back.buffers = q.buffers
    BY <1>3, <1>5, <2>1, <2>2, <2>4, MovesAt
  <2> QED  BY <2>5, AtPlace DEF back, c
<1>7. CASE c.timestamp # q.timestamp
  <2> DEFINE near == MoveTo(q, 0, 1, 0)
  <2>1. q.length = size  BY <1>3 DEF ListAt
  <2>2. 0 < size \div 2  OBVIOUS
  <2>3. back = Seek(near, 0)  BY <1>4, <1>7, <2>1, <2>2 DEF SetContext, NearerEnd
  <2>4. Stands(q.buffers, 1, 0, 0, size)
    <3>1. Spread(q.buffers, size)  BY <1>3 DEF ListAt
    <3> DEFINE b == q.buffers
    <3>2. 1 \in 1 .. Len(b) /\ b[1].lo = 0 /\ b[1].lo <= b[1].hi /\ b[1].hi \in Nat
      BY <3>1, SpreadBuffers DEF Spread
    <3> HIDE DEF b
    <3>3. 0 <= Size(b[1]) /\ b[1].lo + 0 = 0  BY <3>2 DEF Size
    <3> QED  BY <3>2, <3>3 DEF Stands, b
  <2>5. 1 \in Nat \ {0} /\ 0 \in Nat  OBVIOUS
  <2> HIDE DEF near, back
  <2>6. At(near, size, 0) /\ IsList(near) /\ near.buffers = q.buffers
    BY <1>3, <1>5, <2>4, <2>5, MovesAt DEF near
  <2>7. ListAt(near, size, 0)  BY <2>6, AtPlace
  <2>8. Seek(near, 0) = near
    <3>1. near.offset = 0  BY <2>7 DEF ListAt
    <3> QED  BY <3>1 DEF Seek, SeekThrows, SeekAccepts
  <2> QED  BY <2>3, <2>6, <2>7, <2>8 DEF back, c
<1> QED  BY <1>6, <1>7

(* A list of one buffer has nothing to merge.                              *)
StaysOne(r, q) == IsList(r) /\ Len(r.buffers) = 1 => IsList(q) /\ q.buffers = r.buffers

(* It stays as it is when it is read.                                      *)
LEMMA LoneBuffer ==
  ASSUME NEW r, NEW size, NEW pos, At(r, size, pos),
         NEW len \in Nat, len > 0, pos + len <= size, NEW q, q = NumberBy(r, len)
  PROVE  StaysOne(r, q)
<1> SUFFICES ASSUME IsList(r), Len(r.buffers) = 1
             PROVE  IsList(q) /\ q.buffers = r.buffers
  BY DEF StaysOne
<1> DEFINE b == r.buffers
           i == r.curBufferIndex
           place == r.curBufferOffset
<1>1. size \in Nat /\ pos \in Nat /\ pos < size /\ ListAt(r, size, pos)  BY AtPlace
<1>2. r \in Reader /\ Spread(b, size)  BY <1>1 DEF ListAt
<1>3. i \in 1 .. Len(b) /\ place \in Nat /\ b[i].lo + place = pos  BY <1>1, StandsInBuffer
<1>4. i = 1  BY <1>3
<1>5. b[1].lo = 0 /\ b[1].hi = size  BY <1>2 DEF Spread
<1> HIDE DEF b, i, place
<1>6. place = pos  BY <1>1, <1>3, <1>4, <1>5
<1>7. Size(b[i]) = size  BY <1>1, <1>4, <1>5 DEF Size
<1>8. ~(place + len > Size(CurBuffer(r)))
  <2>1. Size(CurBuffer(r)) = size  BY <1>7 DEF CurBuffer, b, i
  <2> QED  BY <1>1, <1>6, <2>1
<1>9. q = ReadInBuffer(r, len)  BY <1>8 DEF NumberBy, Consolidate, place
<1>10. \A o, k, x : LET m == MoveTo(r, o, k, x) IN m.buffers = r.buffers /\ IsList(m)
  BY <1>2 DEF MoveTo, Reader, IsList
<1> QED  BY <1>9, <1>10 DEF ReadInBuffer

(* A header that has been read is behind the reader.                       *)
LEMMA BehindHeader ==
  ASSUME NEW r, NEW size, NEW pos, At(r, size, pos), NEW sent,
         NEW read, read = ReadHeader(r, sent), read.header.contentSize >= 0
  PROVE  /\ At(read.reader, size, pos + read.header.headerSize)
         /\ StaysOne(r, read.reader)
<1> DEFINE packet == PacketAt(sent, NumberOut(r, FixedHeaderSize).lo)
           typed == NumberBy(r, FixedHeaderSize)
           header == DeclareHeader(packet.type, -1)
           sized == [header EXCEPT !.contentSize = packet.contentSize]
           counted == NumberBy(typed, ContentFieldSize)
<1>0. size \in Nat /\ pos \in Nat /\ pos <= size
      /\ FixedHeaderSize \in Nat /\ FixedHeaderSize > 0
      /\ ContentFieldSize \in Nat /\ ContentFieldSize > 0
      /\ DynamicHeaderSize = FixedHeaderSize + ContentFieldSize
  BY AtPlace DEF FixedHeaderSize, ContentFieldSize, DynamicHeaderSize
<1>1. InvalidRawHeader.contentSize = -1 /\ ~(-1 >= 0)  BY DEF InvalidRawHeader
<1>2. \A q : Partial(q).header = InvalidRawHeader
  BY DEF Partial, DeclareHeader, DoubleTypes, IntegerTypes, EmptyTypes, DynamicTypes
<1>3. header \in {InvalidRawHeader,
                  RawHeader(packet.type, FixedHeaderSize, DoubleContentSize),
                  RawHeader(packet.type, FixedHeaderSize, IntegerContentSize),
                  RawHeader(packet.type, FixedHeaderSize, ZeroContentSize),
                  RawHeader(packet.type, DynamicHeaderSize, -1)}
  BY DEF DeclareHeader
<1>4. read = CASE AtEOF(r, FixedHeaderSize) -> Partial(r)
               [] ~AtEOF(r, FixedHeaderSize) /\ IsNotValid(header) ->
                    [header |-> header, reader |-> typed]
               [] /\ ~AtEOF(r, FixedHeaderSize)
                  /\ header.headerSize = DynamicHeaderSize ->
                    IF AtEOF(typed, ContentFieldSize)
                    THEN Partial(typed) ELSE Complete(counted, sized)
               [] OTHER -> Complete(typed, header)
  BY DEF ReadHeader
<1>5. \A q, h : Complete(q, h).header.contentSize >= 0 =>
        Complete(q, h) = [header |-> h, reader |-> q]
  BY <1>1, <1>2 DEF Complete
<1> HIDE DEF header, typed, counted, sized
<1>6. CASE AtEOF(r, FixedHeaderSize)  BY <1>1, <1>2, <1>4, <1>6
<1>7. CASE ~AtEOF(r, FixedHeaderSize)
  <2>1. pos + FixedHeaderSize <= size  BY <1>0, <1>7, BytesEnough
  <2>2. At(typed, size, pos + FixedHeaderSize)  BY <1>0, <2>1, NumberAt DEF typed
  <2>6. StaysOne(r, typed)  BY <1>0, <2>1, LoneBuffer DEF typed
  <2>3. CASE IsNotValid(header)
    <3>2. header = InvalidRawHeader \/ header.type = packet.type
      BY <1>3 DEF RawHeader
    <3>3. packet.type # "NotValid" \/ header = InvalidRawHeader
      BY DEF header, DeclareHeader, DoubleTypes, IntegerTypes, EmptyTypes, DynamicTypes
    <3>4. header = InvalidRawHeader  BY <2>3, <3>2, <3>3 DEF IsNotValid
    <3>5. header.headerSize # DynamicHeaderSize
      BY <3>4 DEF InvalidRawHeader, DynamicHeaderSize, FixedHeaderSize, ContentFieldSize
    <3>1. read = [header |-> header, reader |-> typed]  BY <1>4, <1>7, <2>3, <3>5
    <3> QED  BY <1>1, <3>1, <3>4
  <2>4. CASE ~IsNotValid(header) /\ header.headerSize = DynamicHeaderSize
    <3>1. read = IF AtEOF(typed, ContentFieldSize)
                 THEN Partial(typed) ELSE Complete(counted, sized)
      BY <1>4, <1>7, <2>4
    <3>2. ~AtEOF(typed, ContentFieldSize)  BY <1>1, <1>2, <3>1
    <3>3. read = [header |-> sized, reader |-> counted]  BY <1>5, <3>1, <3>2
    <3>4. (pos + FixedHeaderSize) + ContentFieldSize <= size
      BY <1>0, <2>2, <3>2, BytesEnough
    <3>5. At(counted, size, (pos + FixedHeaderSize) + ContentFieldSize)
      BY <1>0, <2>2, <3>4, NumberAt DEF counted
    <3>6. sized.headerSize = DynamicHeaderSize
      <4>1. header = [type |-> header.type, headerSize |-> header.headerSize,
                      contentSize |-> header.contentSize]
        BY <1>3 DEF RawHeader, InvalidRawHeader
      <4>2. sized.headerSize = header.headerSize  BY <4>1 DEF sized
      <4> QED  BY <2>4, <4>2
    <3>7. (pos + FixedHeaderSize) + ContentFieldSize = pos + DynamicHeaderSize  BY <1>0
    <3>8. StaysOne(typed, counted)  BY <1>0, <2>2, <3>4, LoneBuffer DEF counted
    <3>9. StaysOne(r, counted)  BY <2>6, <3>8 DEF StaysOne
    <3> QED  BY <3>3, <3>5, <3>6, <3>7, <3>9
  <2>5. CASE ~IsNotValid(header) /\ header.headerSize # DynamicHeaderSize
    <3>1. read = Complete(typed, header)  BY <1>4, <1>7, <2>5
    <3>2. read = [header |-> header, reader |-> typed]  BY <1>5, <3>1
    <3>3. header.headerSize = FixedHeaderSize
      BY <1>3, <2>5 DEF RawHeader, IsNotValid, InvalidRawHeader
    <3> QED  BY <2>2, <2>6, <3>2, <3>3
  <2> QED  BY <2>3, <2>4, <2>5
<1> QED  BY <1>6, <1>7

(* The reader that a packet is parsed with, behind its header.             *)
LEMMA ParserReady ==
  ASSUME NEW packet, Told(packet), packet.inStep, ~IsNotValid(packet.header),
         packet.value \in AllValues, Spread(packet.buffers, PacketSize(packet.header))
  PROVE  LET f == FlattenSeq(Written(<<packet.value>>))
             size == PacketSize(packet.header)
         IN /\ Ready(ParseReader(packet), f, packet.header.type, packet.header.contentSize,
                     size)
            /\ IsList(ParseReader(packet)) <=> ~(Len(packet.buffers) < 2)
            /\ size = Bytelength(packet.value)
            /\ At(ParseReader(packet), size, packet.header.headerSize)
<1> DEFINE v == packet.value
           h == packet.header
           b == packet.buffers
           f == FlattenSeq(Written(<<v>>))
           size == PacketSize(h)
           r == ParseReader(packet)
<1>1. PacketType(v) # NoPacket /\ h = HeaderOf(v)  BY DEF Told
<1>2. h.type = PacketType(v) /\ h.type \in ValidTypes /\ h.contentSize \in Nat
      /\ size = Bytelength(v)
  BY <1>1, HeaderOfSize
<1>3. /\ h = IF PacketType(v) \in DynamicTypes
             THEN RawHeader(PacketType(v), DynamicHeaderSize,
                            DynamicSize(ContentBytelengths[v], v))
             ELSE RawHeader(PacketType(v), FixedHeaderSize,
                            FixedContentSize(PacketType(v)))
  BY <1>1 DEF HeaderOf
<1>4. h.headerSize = IF PacketType(v) \in DynamicTypes THEN DynamicHeaderSize
                     ELSE FixedHeaderSize
  BY <1>3 DEF RawHeader
<1>5. h.headerSize \in Nat /\ size \in Nat
      /\ size = h.headerSize + h.contentSize + FooterLength /\ h.headerSize < size
  <2>1. h.headerSize \in Nat
    BY <1>4 DEF DynamicHeaderSize, FixedHeaderSize, ContentFieldSize
  <2>2. size = h.contentSize + (h.headerSize + FooterLength)  BY DEF PacketSize
  <2> HIDE DEF h, size
  <2> QED  BY <1>2, <2>1, <2>2 DEF FooterLength
<1>6. At(r, size, h.headerSize) /\ (IsList(r) <=> ~(Len(b) < 2))
  <2>1. Spread(b, size) /\ b \in Seq(Buffer) /\ b # <<>>  BY DEF Spread
  <2>2. CASE Len(b) < 2
    <3>1. Spread(Joined(b), size)  BY <1>5, <2>1, JoinedSpread
    <3>2. Joined(b)[1] = [lo |-> 0, hi |-> size]
      <4> DEFINE one == Joined(b)
      <4>1. Len(one) = 1  BY OneBuffer
      <4> HIDE DEF one
      <4>2. one[1].lo = 0 /\ one[1].hi = size /\ one[1] \in Buffer
        BY <3>1, <4>1 DEF Spread, one
      <4>3. one[1] = [lo |-> 0, hi |-> size]  BY <4>2 DEF Buffer
      <4> QED  BY <4>3 DEF one
    <3>3. r = NewBufferReader([lo |-> 0, hi |-> size], h.headerSize)
      BY <2>2, <3>2 DEF ParseReader
    <3>4. h.headerSize \in 0 .. size  BY <1>5
    <3> HIDE DEF h, size, r
    <3> QED  BY <1>5, <2>2, <3>3, <3>4, BufferReaderAt
  <2>3. CASE ~(Len(b) < 2)
    <3>1. r = NewBufferListReader(b, h.headerSize)  BY <2>3 DEF ParseReader
    <3> HIDE DEF h, size, r, b
    <3> QED  BY <1>5, <2>1, <2>3, <3>1, ListReaderAt
  <2> QED  BY <2>2, <2>3
<1>7. h.type \in DoubleTypes => h.contentSize = DoubleContentSize
  BY <1>2, <1>3 DEF RawHeader, FixedContentSize, DoubleTypes, IntegerTypes, DynamicTypes
<1>8. h.type \in IntegerTypes => h.contentSize = IntegerContentSize
  BY <1>2, <1>3 DEF RawHeader, FixedContentSize, DoubleTypes, IntegerTypes, DynamicTypes
<1>9. h.type = "ArrayBufferWithSize" => h.contentSize >= ShortCodeSize
  <2>1. ASSUME h.type = "ArrayBufferWithSize" PROVE h.contentSize >= ShortCodeSize
    <3>1. h.contentSize = DynamicSize(ContentBytelengths[v], v) /\ v.n \in Nat
      BY <1>2, <1>3, <2>1, TypesOfValues DEF RawHeader, DynamicTypes
    <3>2. h.contentSize = ShortCodeSize + v.n  BY <1>2, <2>1, <3>1 DEF DynamicSize
    <3> QED  BY <3>1, <3>2 DEF ShortCodeSize
  <2> QED  BY <2>1
<1>10. h.type = "ArrayWithSize" =>
         /\ h.contentSize >= CountSize
         /\ Says(MemoryOfFields(f), [lo |-> h.headerSize, hi |-> h.headerSize + CountSize])
              \in Nat
  <2>1. SUFFICES ASSUME h.type = "ArrayWithSize"
        PROVE /\ h.contentSize >= CountSize
              /\ Says(MemoryOfFields(f),
                      [lo |-> h.headerSize, hi |-> h.headerSize + CountSize]) \in Nat
    OBVIOUS
  <2>2. WellFramed(f)  BY WrittenIsFramed
  <2>3. 1 \in 1 .. Len(f) /\ ReadableAt(f, 1) /\ f[1].says = "ArrayWithSize"
        /\ f[2].says = h.contentSize
    <3>1. \E rest \in Seq(Seq(Fields)) :
            Written(<<v>>) = HeaderBuffers("ArrayWithSize", h.contentSize) \o rest
      <4>1. PacketType(v) \in DynamicTypes /\ PacketType(v) = "ArrayWithSize"
        BY <1>2, <2>1 DEF DynamicTypes
      <4>2. h.contentSize = DynamicSize(ContentBytelengths[v], v)
        BY <1>3, <4>1 DEF RawHeader
      <4> QED  BY <4>1, <4>2, PacketWritten
    <3>2. PICK rest \in Seq(Seq(Fields)) :
            Written(<<v>>) = HeaderBuffers("ArrayWithSize", h.contentSize) \o rest
      BY <3>1
    <3> DEFINE hf == HeaderFields("ArrayWithSize", h.contentSize)
               rf == FlattenSeq(rest)
               T == TypeField("ArrayWithSize")
               S == SizeField(h.contentSize)
    <3>3. /\ HeaderBuffers("ArrayWithSize", h.contentSize) \in Seq(Seq(Fields))
          /\ FlattenSeq(HeaderBuffers("ArrayWithSize", h.contentSize)) = hf
      BY <1>2, <2>1, HeaderFlat
    <3>4. f = hf \o rf /\ rf \in Seq(Fields)
      BY <3>2, <3>3, FieldsTogether, FieldsAlone
    <3>5. T \in Fields /\ S \in Fields  BY <1>2, <2>1, FieldsOfPackets
    <3>6. hf = <<T, S>>
      <4>1. hf = <<T>> \o <<S>>  BY DEF HeaderFields
      <4> QED  BY <4>1, TwoInOne
    <3> HIDE DEF hf, rf, T, S
    <3>7. hf \in Seq(Fields) /\ Len(hf) = 2 /\ hf[1] = T /\ hf[2] = S  BY <3>5, <3>6
    <3>8. /\ Len(f) = 2 + Len(rf) /\ Len(rf) \in Nat
          /\ \A k \in 1 .. 2 : f[k] = hf[k]
      <4> HIDE DEF f
      <4>1. Len(f) = Len(hf) + Len(rf) /\ Len(rf) \in Nat
            /\ \A k \in 1 .. Len(hf) : f[k] = hf[k]
        BY ONLY <3>4, <3>7, TwoFields
      <4> QED  BY <3>7, <4>1
    <3>9. f[1] = T /\ f[2] = S  BY <3>7, <3>8
    <3>10. T.name = "type" /\ T.says = "ArrayWithSize" /\ S.says = h.contentSize
      BY DEF T, S, TypeField, SizeField, Field
    <3>11. 1 \in 1 .. Len(f)  BY <3>8
    <3>12. ReadableAt(f, 1)  BY <2>2, <3>9, <3>10, <3>11 DEF WellFramed, DynamicTypes
    <3> QED  BY <3>9, <3>10, <3>11, <3>12
  <2>4. PlaceOf(f, 1).lo = 0
    <3>1. SubSeq(f, 1, 0) = <<>> /\ 1 - 1 = 0
      <4>1. f \in Seq(Fields)  BY <2>2 DEF WellFramed
      <4> HIDE DEF f
      <4> QED  BY <4>1
    <3>2. PlaceOf(f, 1).lo = Total(SubSeq(f, 1, 1 - 1))  BY DEF PlaceOf
    <3> QED  BY <3>1, <3>2, TotalNothing
  <2>5. h.headerSize = DynamicHeaderSize  BY <1>2, <1>4, <2>1 DEF DynamicTypes
  <2>6. 0 + DynamicHeaderSize = DynamicHeaderSize
    BY DEF DynamicHeaderSize, FixedHeaderSize, ContentFieldSize
  <2> HIDE DEF f, h
  <2>7. Says(MemoryOfFields(f), [lo |-> PlaceOf(f, 1).lo + DynamicHeaderSize,
                                 hi |-> (PlaceOf(f, 1).lo + DynamicHeaderSize) + CountSize])
          \in Nat
    BY <2>2, <2>3, CountBehindHeader
  <2>8. h.contentSize >= CountSize
    <3>1. f[1 + 1].says >= CountSize  BY <2>3 DEF ReadableAt
    <3>2. 1 + 1 = 2  OBVIOUS
    <3> QED  BY <2>3, <3>1, <3>2
  <2> QED  BY <2>4, <2>5, <2>6, <2>7, <2>8
<1>11. h.headerSize + h.contentSize + FooterLength <= size  BY <1>5
<1> HIDE DEF h, size, r, f, b
<1>12. Ready(r, f, h.type, h.contentSize, size)
  BY <1>2, <1>6, <1>7, <1>8, <1>9, <1>10, <1>11 DEF Ready
<1> QED  BY <1>2, <1>6, <1>12 DEF h, size, r, f, b

(* A packet in step that is valid has all its bytes, and one that is not   *)
(* has no two buffers to be merged.                                        *)
HasBytes(packet) ==
  packet.inStep =>
    IF IsNotValid(packet.header) THEN Len(packet.buffers) < 2
    ELSE Spread(packet.buffers, PacketSize(packet.header))

InBytes == \A p \in P : HasBytes(packets[p])

(* The empty array of a packet.                                            *)
LEMMA NoTwoBuffers ==
  ASSUME NEW class \in Classes
  PROVE  Len(NoBuffers(class)) < 2
<1>1. \A x : Len(<<x>>) = 1  OBVIOUS
<1>2. Len(<<>>) = 0 /\ 0 < 2 /\ 1 < 2  OBVIOUS
<1> QED  BY <1>1, <1>2 DEF NoBuffers

(* One packet is another; all others stay.                                 *)
LEMMA OtherBytes ==
  ASSUME IInv, InBytes, NEW p \in P, NEW packet, HasBytes(packet),
         packets' = [packets EXCEPT ![p] = packet]
  PROVE  InBytes'
<1>1. packets' = [q \in P |-> IF q = p THEN packet ELSE packets[q]]  BY DEF IInv
<1>2. \A q \in P : packets'[q] = IF q = p THEN packet ELSE packets[q]  BY <1>1
<1>3. \A q \in P : HasBytes(packets'[q])  BY <1>2 DEF InBytes
<1> QED  BY <1>3 DEF InBytes

(* What is held in place of what was held.                                 *)
LEMMA HoldBytes ==
  ASSUME IInv, InBytes, NEW p \in P, NEW header, NEW buffers, NEW value,
         NEW inStep \in BOOLEAN, Hold(p, header, buffers, value, inStep),
         inStep => IF header.type = "NotValid" THEN Len(buffers) < 2
                   ELSE Spread(buffers, PacketSize(header))
  PROVE  InBytes'
<1> DEFINE packet == Packet(packets[p].class, header, buffers, value, inStep)
<1>1. packets' = [packets EXCEPT ![p] = packet]  BY DEF Hold
<1>2. packet.header = header /\ packet.buffers = buffers /\ packet.inStep = inStep
  BY DEF Packet
<1> HIDE DEF packet
<1>3. HasBytes(packet)  BY <1>2 DEF HasBytes, IsNotValid
<1> QED  BY <1>1, <1>3, OtherBytes

(* serialize                                                               *)
LEMMA SerializeBytes ==
  ASSUME IInv, InBytes, NEW p \in P, NEW v \in work, Serialize(p, v)
  PROVE  InBytes'
<1> DEFINE places == Places(WrittenOf[v])
           header == HeaderWritten(packets[p].header, v)
           buffers == IF IsBufferList(p) THEN places ELSE Joined(places)
           inStep == PacketType(v) # NoPacket
<1>1. v \in Values /\ v \in AllValues  BY BufferAssumption DEF IInv
<1>2. Hold(p, header, buffers, v, inStep)  BY DEF Serialize
<1>3. inStep => /\ header = HeaderOf(v)
                /\ Spread(buffers, PacketSize(header))
                /\ header.type # "NotValid"
  <2>1. SUFFICES ASSUME inStep
        PROVE  header = HeaderOf(v) /\ Spread(buffers, PacketSize(header))
               /\ header.type # "NotValid"
    OBVIOUS
  <2>2. header = HeaderOf(v)  BY <1>1, <2>1, HeaderIsWritten
  <2>3. WrittenOf[v] = Written(<<v>>)  BY <1>1 DEF WrittenOf
  <2>4. Bytelength(v) \in Nat /\ Spread(places, Bytelength(v))
        /\ PacketSize(HeaderOf(v)) = Bytelength(v)
    BY <1>1, <2>1, <2>3, WrittenSpread
  <2>5. HeaderOf(v).type \in ValidTypes  BY <1>1, <2>1, HeaderOfSize
  <2> HIDE DEF places, header
  <2>6. Spread(Joined(places), Bytelength(v))  BY <2>4, JoinedSpread
  <2>7. header.type # "NotValid"
    BY <2>2, <2>5 DEF ValidTypes, DoubleTypes, IntegerTypes, EmptyTypes, DynamicTypes
  <2> QED  BY <2>2, <2>4, <2>6, <2>7
<1>4. inStep \in BOOLEAN  OBVIOUS
<1> HIDE DEF header, buffers, inStep
<1> QED  BY <1>2, <1>3, <1>4, HoldBytes

(* What a packet holds that has been received: all the bytes of v, in one  *)
(* buffer if they came in one, or nothing.                                 *)
Got(p, v, cuts, header, buffers, value) ==
  /\ Hold(p, header, buffers, value, TRUE)
  /\ header.type = "NotValid" => Len(buffers) < 2 /\ value = Undefined
  /\ header.type # "NotValid" =>
       /\ value = v
       /\ header = HeaderOf(v)
       /\ Spread(buffers, PacketSize(header))
       /\ cuts = {} => Len(buffers) < 2

(* decodeFromReader                                                        *)
LEMMA Received ==
  ASSUME IInv, NEW p \in P, NEW v \in work, NEW cuts \in SUBSET Cuts,
         NEW missing \in 0 .. 1, Receive(p, v, cuts, missing)
  PROVE  \E header, buffers, value : Got(p, v, cuts, header, buffers, value)
<1> DEFINE f == FlattenSeq(Written(<<v>>))
           size == SizeOf(v) - missing
           r == NewBufferListReader(Chunks(cuts, size), 0)
           read == ReadHeader(r, MemoryOf[v].headers)
           class == packets[p].class
           back == SetContext(read.reader, GetContext(r))
           taken == TakeOut(class, back, PacketSize(read.header))
<1>1. v \in Values /\ v \in AllValues /\ PacketType(v) # NoPacket
  BY BufferAssumption DEF IInv, Receive
<1>2. MemoryOf[v] = MemoryOfFields(f) /\ SizeOf(v) = Bytelength(v)
  BY <1>1, WrittenSpread DEF MemoryOf, Memory, SizeOf, WrittenOf
<1>3. Bytelength(v) \in Nat /\ Bytelength(v) >= 3 /\ PacketSize(HeaderOf(v)) = Bytelength(v)
  <2>1. /\ Bytelength(v) \in Nat /\ PacketSize(HeaderOf(v)) = Bytelength(v)
        /\ Bytelength(v) >= FixedHeaderSize + FooterLength
    BY <1>1, WrittenSpread
  <2>2. FixedHeaderSize + FooterLength = 3  BY DEF FixedHeaderSize, FooterLength
  <2> QED  BY <2>1, <2>2
<1>4. size \in Nat /\ size >= 2 /\ size <= Bytelength(v)  BY <1>2, <1>3
<1>5. cuts \in SUBSET (Nat \ {0})  BY BufferAssumption
<1>6. Decode(p, v, GetContext(r), read)
  BY DEF Receive, DecodeFromReader
<1>7. WellFramed(f)  BY <1>1, WrittenIsFramed
<1>8. At(r, size, 0) /\ IsList(r) /\ (cuts = {} => Len(r.buffers) = 1)
  <2> HIDE DEF size
  <2>1. Spread(Chunks(cuts, size), size)  BY <1>4, <1>5, ChunksSpread
  <2>2. At(r, size, 0) /\ IsList(r) /\ r.buffers = Chunks(cuts, size)
    BY <1>4, <2>1, ListReaderAt
  <2>3. cuts = {} => Len(Chunks(cuts, size)) = 1  BY <1>4, OneChunk
  <2> HIDE DEF r
  <2> QED  BY <2>2, <2>3
<1>9. Chunks(cuts, size)[1].lo = 0
  <2> HIDE DEF size
  <2> QED  BY <1>4, <1>5, ChunksSpread DEF Spread
<1>10. NumberOut(r, FixedHeaderSize).lo = 0  BY <1>9, ListAtStart
<1> HIDE DEF r, size
<1>11. HeaderLeads(r, read, f, size)  BY <1>2, <1>7, <1>8, HeaderIsThere
<1>12. read.header.type # "NotValid" => read.header = HeaderOf(v)
  BY <1>1, <1>10, ReadsHeader
<1>13. class \in Classes  BY DEF IInv, Coherent
<1>14. CASE read.header.contentSize >= 0
  <2>1. Hold(p, read.header, taken, v, TRUE)  BY <1>6, <1>14 DEF Decode
  <2>2. Ready(read.reader, f, read.header.type, read.header.contentSize, size)
        /\ Leads(r, read.reader, size)
    BY <1>11, <1>14 DEF HeaderLeads
  <2>3. PICK at :
          /\ At(read.reader, size, at)
          /\ read.header.contentSize \in Nat
          /\ at + read.header.contentSize + FooterLength <= size
          /\ read.header.type \in ValidTypes
    BY <2>2 DEF Ready
  <2>4. read.header = HeaderOf(v)
    BY <1>12, <2>3 DEF ValidTypes, DoubleTypes, IntegerTypes, EmptyTypes, DynamicTypes
  <2>5. at = read.header.headerSize /\ StaysOne(r, read.reader)
    <3>1. At(read.reader, size, 0 + read.header.headerSize) /\ StaysOne(r, read.reader)
      <4> DEFINE x == read
      <4>1. x = ReadHeader(r, MemoryOf[v].headers) /\ x.header.contentSize >= 0
        BY <1>14
      <4> HIDE DEF x
      <4>2. At(x.reader, size, 0 + x.header.headerSize) /\ StaysOne(r, x.reader)
        BY <1>8, <4>1, BehindHeader
      <4> QED  BY <4>2 DEF x
    <3>2. read.reader.offset = 0 + read.header.headerSize  BY <3>1, AtPlace
    <3>3. read.reader.offset = at  BY <2>3, AtPlace
    <3>4. read.header.headerSize \in Int
      BY <1>11 DEF HeaderLeads, FixedHeaderSize, DynamicHeaderSize, ContentFieldSize
    <3> HIDE DEF read
    <3> QED  BY <3>1, <3>2, <3>3, <3>4
  <2>6. PacketSize(read.header) = size
    <3> DEFINE a == read.header.headerSize
               n == read.header.contentSize
    <3>1. PacketSize(read.header) = n + (a + FooterLength)  BY DEF PacketSize
    <3>2. PacketSize(read.header) = Bytelength(v)  BY <1>3, <2>4
    <3>3. a \in Nat /\ n \in Nat /\ a + n + FooterLength <= size
      <4>1. at \in Nat  BY <2>3, AtPlace
      <4> QED  BY <2>3, <2>5, <4>1
    <3> HIDE DEF a, n
    <3> QED  BY <1>3, <1>4, <3>1, <3>2, <3>3 DEF FooterLength
  <2>7. ListAt(back, size, 0) /\ back.buffers = read.reader.buffers
    <3>1. ListAt(r, size, 0)  BY <1>8, AtPlace
    <3> HIDE DEF read
    <3> QED  BY <1>4, <1>8, <2>2, <3>1, GoesBack
  <2>8. Spread(taken, size) /\ (cuts = {} => Len(taken) < 2)
    <3>0. cuts = {} => Len(back.buffers) = 1  BY <1>8, <2>5, <2>7 DEF StaysOne
    <3> HIDE DEF back, read
    <3>1. size \in Nat \ {0}  BY <1>4
    <3>2. Taken(back, size) = size /\ ReadOut(back, size) = [lo |-> 0, hi |-> size]
          /\ Spread(ReadListOut(back, size), size)
          /\ Len(ReadListOut(back, size)) \in Nat
          /\ Len(ReadListOut(back, size)) <= Len(back.buffers)
      BY <2>7, <3>1, TakesAll
    <3> DEFINE all == [lo |-> 0, hi |-> size]
    <3>3. Spread(<<all>>, size)  BY <1>4, OneSpread
    <3>4. Len(<<all>>) = 1 /\ 1 < 2
      <4>1. \A x : Len(<<x>>) = 1  OBVIOUS
      <4> QED  BY <4>1
    <3>5. taken = ReadListOut(back, size) \/ taken = <<all>>
      BY <2>6, <3>2 DEF TakeOut
    <3> DEFINE n == Len(ReadListOut(back, size))
    <3>6. cuts = {} => n < 2
      <4> HIDE DEF n
      <4>1. cuts = {} => n \in Nat /\ n <= 1  BY <3>0, <3>2 DEF n
      <4> QED  BY <4>1
    <3> HIDE DEF taken, all
    <3> QED  BY <3>2, <3>3, <3>4, <3>5, <3>6
  <2>9. HeaderOf(v).type \in ValidTypes  BY <1>1, HeaderOfSize
  <2>10. read.header.type # "NotValid"
    BY <2>4, <2>9 DEF ValidTypes, DoubleTypes, IntegerTypes, EmptyTypes, DynamicTypes
  <2> DEFINE header == read.header
  <2>11. Hold(p, header, taken, v, TRUE) /\ header.type # "NotValid"
         /\ header = HeaderOf(v) /\ Spread(taken, PacketSize(header))
         /\ (cuts = {} => Len(taken) < 2)
    BY <2>1, <2>4, <2>6, <2>8, <2>10
  <2> HIDE DEF taken, header
  <2>12. Got(p, v, cuts, header, taken, v)  BY <2>11 DEF Got
  <2> QED  BY <2>12
<1>15. CASE ~(read.header.contentSize >= 0)
  <2>1. Hold(p, read.header, NoBuffers(class), Undefined, TRUE)  BY <1>6, <1>15 DEF Decode
  <2>2. read.header.type = "NotValid"
    <3>1. read.header.type # "NotValid" => read.header.contentSize \in Nat
      BY <1>1, <1>12, HeaderOfSize
    <3>2. read.header.contentSize \in Nat => read.header.contentSize >= 0
      <4> DEFINE n == read.header.contentSize
      <4> HIDE DEF n
      <4>1. n \in Nat => n >= 0  OBVIOUS
      <4> QED  BY <4>1 DEF n
    <3> QED  BY <1>15, <3>1, <3>2
  <2>3. Len(NoBuffers(class)) < 2  BY <1>13, NoTwoBuffers
  <2> DEFINE header == read.header
             none == NoBuffers(class)
  <2>4. Hold(p, header, none, Undefined, TRUE) /\ header.type = "NotValid" /\ Len(none) < 2
    BY <2>1, <2>2, <2>3
  <2> HIDE DEF header, none
  <2>5. Got(p, v, cuts, header, none, Undefined)  BY <2>4 DEF Got
  <2> QED  BY <2>5
<1> QED  BY <1>14, <1>15

(* So all its bytes are there.                                             *)
LEMMA ReceiveBytes ==
  ASSUME IInv, InBytes, NEW p \in P, NEW v \in work, NEW cuts \in SUBSET Cuts,
         NEW missing \in 0 .. 1, Receive(p, v, cuts, missing)
  PROVE  InBytes'
<1>1. PICK header, buffers, value : Got(p, v, cuts, header, buffers, value)  BY Received
<1>2. Hold(p, header, buffers, value, TRUE)  BY <1>1 DEF Got
<1>3. IF header.type = "NotValid" THEN Len(buffers) < 2
      ELSE Spread(buffers, PacketSize(header))
  BY <1>1 DEF Got
<1>4. TRUE \in BOOLEAN  OBVIOUS
<1> QED  BY <1>2, <1>3, <1>4, HoldBytes

(* decodeFromBuffer                                                        *)
LEMMA DecodeFromBufferBytes ==
  ASSUME IInv, InBytes, NEW p \in P, NEW v \in work, DecodeFromBuffer(p, v)
  PROVE  InBytes'
<1> DEFINE buffer == [lo |-> 0, hi |-> SizeOf(v)]
           header == ReadHeader(NewBufferReader(buffer, 0), MemoryOf[v].headers).header
           one == <<buffer>>
<1>1. v \in Values /\ v \in AllValues /\ PacketType(v) # NoPacket
      /\ Hold(p, header, one, v, TRUE)
  BY BufferAssumption DEF IInv, DecodeFromBuffer
<1>2. NumberOut(NewBufferReader(buffer, 0), FixedHeaderSize).lo = 0  BY BufferAtStart
<1>3. header.type # "NotValid" => header = HeaderOf(v)  BY <1>1, <1>2, ReadsHeader
<1>4. SizeOf(v) = Bytelength(v) /\ Bytelength(v) \in Nat
      /\ PacketSize(HeaderOf(v)) = Bytelength(v)
  BY <1>1, WrittenSpread DEF SizeOf, WrittenOf
<1>5. Spread(one, Bytelength(v))  BY <1>4, OneSpread
<1>6. Len(one) < 2
  <2>1. \A x : Len(<<x>>) = 1  OBVIOUS
  <2>2. 1 < 2  OBVIOUS
  <2> QED  BY <2>1, <2>2
<1>7. TRUE \in BOOLEAN  OBVIOUS
<1> HIDE DEF header, one
<1> QED  BY <1>1, <1>3, <1>4, <1>5, <1>6, <1>7, HoldBytes

(* reset                                                                   *)
LEMMA ResetBytes ==
  ASSUME IInv, InBytes, NEW p \in P, Reset(p)
  PROVE  InBytes'
<1>1. Hold(p, InvalidRawHeader, NoBuffers(packets[p].class), Undefined, TRUE)
  BY DEF Reset
<1>2. InvalidRawHeader.type = "NotValid"  BY DEF InvalidRawHeader
<1>3. packets[p].class \in Classes  BY DEF IInv, Coherent
<1>4. Len(NoBuffers(packets[p].class)) < 2  BY <1>3, NoTwoBuffers
<1>5. TRUE \in BOOLEAN  OBVIOUS
<1> DEFINE none == NoBuffers(packets[p].class)
<1> HIDE DEF none
<1>6. Hold(p, InvalidRawHeader, none, Undefined, TRUE) /\ Len(none) < 2
  BY <1>1, <1>4 DEF none
<1> QED  BY <1>2, <1>5, <1>6, HoldBytes

(* setRawData of getRawData                                                *)
LEMMA CopyBytes ==
  ASSUME IInv, InBytes, NEW p \in P, NEW q \in P, CopyRawData(p, q)
  PROVE  InBytes'
<1> DEFINE from == packets[q]
           alone == Len(from.buffers) < 2 \/ ~IsBufferList(p)
           buffers == IF alone THEN Joined(from.buffers) ELSE from.buffers
           packet == Packet(packets[p].class, from.header, buffers, from.value, from.inStep)
<1>1. packets' = [packets EXCEPT ![p] = packet]  BY DEF CopyRawData
<1>2. packet.header = from.header /\ packet.buffers = buffers
      /\ packet.inStep = from.inStep
  BY DEF Packet
<1>3. HasBytes(from) /\ Coherent(from)  BY DEF InBytes, IInv
<1> HIDE DEF packet, from
<1>4. HasBytes(packet)
  <2>1. SUFFICES ASSUME packet.inStep
        PROVE IF IsNotValid(packet.header) THEN Len(packet.buffers) < 2
              ELSE Spread(packet.buffers, PacketSize(packet.header))
    BY DEF HasBytes
  <2>2. IF IsNotValid(from.header) THEN Len(from.buffers) < 2
        ELSE Spread(from.buffers, PacketSize(from.header))
    BY <1>2, <1>3, <2>1 DEF HasBytes
  <2>3. Len(Joined(from.buffers)) = 1 /\ 1 < 2  BY OneBuffer
  <2>4. Len(Joined(from.buffers)) < 2  BY <2>3
  <2>5. CASE IsNotValid(from.header)  BY <1>2, <2>2, <2>4, <2>5
  <2>6. CASE ~IsNotValid(from.header)
    <3>1. Spread(from.buffers, PacketSize(from.header))  BY <2>2, <2>6
    <3>2. PacketSize(from.header) \in Nat
      <4>1. PacketType(from.value) # NoPacket /\ from.header = HeaderOf(from.value)
        BY <1>2, <1>3, <2>1, <2>6 DEF Coherent, Told
      <4>2. from.value \in AllValues
        BY <1>3, BufferAssumption, CodecAssumption DEF Coherent
      <4> QED  BY <4>1, <4>2, WrittenSpread
    <3>3. Spread(Joined(from.buffers), PacketSize(from.header))
      BY <3>1, <3>2, JoinedSpread
    <3> QED  BY <1>2, <2>6, <3>1, <3>3
  <2> QED  BY <2>5, <2>6
<1> QED  BY <1>1, <1>4, OtherBytes

(* write of the packet, with a writer of the program's own                 *)
LEMMA WriteElsewhereBytes ==
  ASSUME IInv, InBytes, NEW p \in P, NEW v \in work, WriteElsewhere(p, v)
  PROVE  InBytes'
<1> DEFINE x == packets[p]
           header == HeaderWritten(x.header, v)
           inStep == x.inStep /\ PacketType(v) = NoPacket
           packet == Packet(x.class, header, x.buffers, x.value, inStep)
<1>1. v \in AllValues  BY BufferAssumption DEF IInv
<1>2. Coherent(x) /\ HasBytes(x)  BY DEF IInv, InBytes
<1>3. header = IF PacketType(v) = NoPacket THEN x.header ELSE HeaderOf(v)
  BY <1>1, HeaderIsWritten
<1>5. packets' = [packets EXCEPT ![p] = packet]  BY WrittenElsewhere
<1>6. inStep => x.inStep /\ header = x.header  BY <1>3
<1>7. packet.header = header /\ packet.buffers = x.buffers /\ packet.inStep = inStep
  BY DEF Packet
<1> HIDE DEF packet, header, inStep, x
<1>8. HasBytes(packet)  BY <1>2, <1>6, <1>7 DEF HasBytes
<1> QED  BY <1>5, <1>8, OtherBytes

(* read of the packet, with a reader of the program's own                  *)
LEMMA ReadElsewhereBytes ==
  ASSUME IInv, InBytes, NEW p \in P, NEW v \in work, NEW missing \in 0 .. 1,
         ReadElsewhere(p, v, missing)
  PROVE  InBytes'
<1> DEFINE x == packets[p]
           r == NewBufferReader([lo |-> 0, hi |-> SizeOf(v) - missing], 0)
           header == ReadHeader(r, MemoryOf[v].headers).header
           packet == Packet(x.class, header, x.buffers, x.value, FALSE)
<1>3. packets' = [packets EXCEPT ![p].header = header, ![p].inStep = FALSE]
  BY DEF ReadElsewhere
<1> HIDE DEF header
<1>4. packets' = [packets EXCEPT ![p] = packet]  BY <1>3, ToldElsewhere
<1>5. HasBytes(packet)
  <2>1. packet.inStep = FALSE  BY DEF Packet
  <2> HIDE DEF packet
  <2> QED  BY <2>1 DEF HasBytes
<1> HIDE DEF packet
<1> QED  BY <1>4, <1>5, OtherBytes

(* What a packet in step that is valid was made of.                        *)
LEMMA ValueOfPacket ==
  ASSUME NEW packet, Coherent(packet)
  PROVE  /\ Told(packet)
         /\ packet.value \in Values \cup {Undefined}
         /\ packet.value \in AllValues
         /\ packet.inStep /\ ~IsNotValid(packet.header) => PacketSize(packet.header) \in Nat
<1>1. Told(packet) /\ packet.value \in Values \cup {Undefined}  BY DEF Coherent
<1>2. packet.value \in AllValues  BY <1>1, BufferAssumption, CodecAssumption
<1>3. packet.inStep /\ ~IsNotValid(packet.header) => PacketSize(packet.header) \in Nat
  BY <1>1, <1>2, WrittenSpread DEF Told
<1> QED  BY <1>1, <1>2, <1>3

(* The getter buffer                                                       *)
LEMMA LookAtBufferBytes ==
  ASSUME IInv, InBytes, NEW p \in P, LookAtBuffer(p)
  PROVE  InBytes'
<1> DEFINE x == packets[p]
           packet == Packet(x.class, x.header, Joined(x.buffers), x.value, x.inStep)
<1>1. Coherent(x) /\ HasBytes(x)  BY DEF IInv, InBytes
<1>3. packets' = [packets EXCEPT ![p] = packet]  BY LookedAt
<1>4. packet.header = x.header /\ packet.buffers = Joined(x.buffers)
      /\ packet.inStep = x.inStep
  BY DEF Packet
<1> HIDE DEF packet, x
<1>5. Len(Joined(x.buffers)) < 2
  <2>1. Len(Joined(x.buffers)) = 1 /\ 1 < 2  BY OneBuffer
  <2> QED  BY <2>1
<1>6. HasBytes(packet)
  <2>1. CASE ~x.inStep  BY <1>4, <2>1 DEF HasBytes
  <2>2. CASE x.inStep /\ IsNotValid(x.header)  BY <1>4, <1>5, <2>2 DEF HasBytes
  <2>3. CASE x.inStep /\ ~IsNotValid(x.header)
    <3>1. Spread(x.buffers, PacketSize(x.header))  BY <1>1, <2>3 DEF HasBytes
    <3>2. PacketSize(x.header) \in Nat  BY <1>1, <2>3, ValueOfPacket
    <3>3. Spread(Joined(x.buffers), PacketSize(x.header))  BY <3>1, <3>2, JoinedSpread
    <3> QED  BY <1>4, <2>3, <3>3 DEF HasBytes
  <2> QED  BY <2>1, <2>2, <2>3
<1> QED  BY <1>3, <1>6, OtherBytes

(* The array of a packet that is parsed, for all who share it: the bytes   *)
(* of its buffers are those there were.                                    *)
LEMMA MergesBytes ==
  ASSUME IInv, InBytes, NEW p \in P, NEW reader, Merges(p, reader), packets[p].inStep,
         ~(Len(packets[p].buffers) < 2) =>
           Leads(ParseReader(packets[p]), reader, PacketSize(packets[p].header))
  PROVE  InBytes'
<1> DEFINE x == packets[p]
           size == PacketSize(x.header)
           few == Len(x.buffers) < 2
           buffers == IF few THEN x.buffers ELSE reader.buffers
<1>1. packets' = [q \in P |-> IF q \in sharing[p]
                              THEN [packets[q] EXCEPT !.buffers = buffers]
                              ELSE packets[q]]
  BY DEF Merges, MergeInPlace
<1>2. HasBytes(x) /\ Coherent(x)  BY DEF IInv, InBytes
<1>3. ~few => /\ ~IsNotValid(x.header)
              /\ Spread(x.buffers, size)
              /\ size \in Nat
              /\ Spread(reader.buffers, size)
  <2>1. SUFFICES ASSUME ~few
                 PROVE  ~IsNotValid(x.header) /\ Spread(x.buffers, size)
                        /\ size \in Nat /\ Spread(reader.buffers, size)
    OBVIOUS
  <2>2. ~IsNotValid(x.header) /\ Spread(x.buffers, size)  BY <1>2, <2>1 DEF HasBytes
  <2>3. size \in Nat  BY <1>2, <2>2, ValueOfPacket
  <2>4. IsList(ParseReader(x)) /\ Leads(ParseReader(x), reader, size)
    BY <1>2, <2>1, <2>2, ValueOfPacket, ParserReady
  <2> HIDE DEF size, few, buffers
  <2>5. PICK at : At(reader, size, at)  BY <2>4 DEF Leads
  <2>6. IsList(reader)  BY <2>4 DEF Leads, Later
  <2>7. ListAt(reader, size, at)  BY <2>5, <2>6, AtPlace
  <2> QED  BY <2>2, <2>3, <2>7 DEF ListAt
<1> HIDE DEF size, few
<1>4. ASSUME NEW q \in P PROVE HasBytes(packets'[q])
  <2> DEFINE y == packets[q]
  <2>1. HasBytes(y) /\ Coherent(y)  BY DEF IInv, InBytes
  <2>2. CASE q \notin sharing[p]
    <3>1. packets'[q] = y  BY <1>1, <2>2
    <3> QED  BY <2>1, <3>1
  <2>3. CASE q \in sharing[p]
    <3>1. y.buffers = x.buffers  BY <2>3 DEF IInv, Shared
    <3>2. packets'[q] = [y EXCEPT !.buffers = buffers]  BY <1>1, <2>3
    <3>3. y = [class |-> y.class, header |-> y.header, buffers |-> y.buffers,
               value |-> y.value, inStep |-> y.inStep]
      BY <2>1, FieldsOfPacket
    <3> DEFINE z == packets'[q]
    <3> HIDE DEF buffers, y
    <3>4. z = [class |-> y.class, header |-> y.header, buffers |-> buffers,
               value |-> y.value, inStep |-> y.inStep]
      BY <3>2, <3>3
    <3> HIDE DEF z, x
    <3>5. z.header = y.header /\ z.buffers = buffers /\ z.inStep = y.inStep  BY <3>4
    <3>6. CASE few
      <4>1. buffers = y.buffers  BY <3>1, <3>6 DEF buffers
      <4>2. HasBytes(z)  BY <2>1, <3>5, <4>1 DEF HasBytes
      <4> QED  BY <4>2 DEF z
    <3>7. CASE ~few
      <4>1. SUFFICES ASSUME y.inStep
                     PROVE  ~IsNotValid(y.header) /\ Spread(buffers, PacketSize(y.header))
        BY <3>5 DEF HasBytes, z
      <4>2. ~(Len(y.buffers) < 2)  BY <3>1, <3>7 DEF few
      <4>3. ~IsNotValid(y.header) /\ Spread(y.buffers, PacketSize(y.header))
        BY <2>1, <4>1, <4>2 DEF HasBytes
      <4>4. PacketSize(y.header) = size  BY <1>3, <3>1, <3>7, <4>3 DEF Spread
      <4>5. buffers = reader.buffers  BY <3>7 DEF buffers
      <4> QED  BY <1>3, <3>7, <4>3, <4>4, <4>5
    <3> QED  BY <3>6, <3>7
  <2> QED  BY <2>2, <2>3
<1> QED  BY <1>4 DEF InBytes

(* What a packet of more buffers than one is parsed from.                  *)
LEMMA ParsedFrom ==
  ASSUME IInv, InBytes, NEW p \in P, packets[p].inStep, ~(Len(packets[p].buffers) < 2)
  PROVE  LET x == packets[p]
             f == FlattenSeq(Written(<<x.value>>))
         IN /\ WellFramed(f)
            /\ MemoryOf[x.value] = MemoryOfFields(f)
            /\ Ready(ParseReader(x), f, x.header.type, x.header.contentSize,
                     PacketSize(x.header))
<1> DEFINE x == packets[p]
           f == FlattenSeq(Written(<<x.value>>))
<1>1. HasBytes(x) /\ Coherent(x)  BY DEF IInv, InBytes
<1>2. ~IsNotValid(x.header) /\ Spread(x.buffers, PacketSize(x.header))
  BY <1>1 DEF HasBytes
<1>3. Told(x) /\ x.value \in Values \cup {Undefined} /\ x.value \in AllValues
  BY <1>1, ValueOfPacket
<1>4. WellFramed(f)  BY <1>3, WrittenIsFramed
<1>5. MemoryOf[x.value] = MemoryOfFields(f)  BY <1>3 DEF MemoryOf, Memory
<1>6. Ready(ParseReader(x), f, x.header.type, x.header.contentSize, PacketSize(x.header))
  BY <1>2, <1>3, ParserReady
<1> QED  BY <1>4, <1>5, <1>6

(* parse                                                                   *)
LEMMA ParseBytes ==
  ASSUME IInv, InBytes, NEW p \in P, Parse(p)
  PROVE  InBytes'
<1> DEFINE x == packets[p]
           f == FlattenSeq(Written(<<x.value>>))
           size == PacketSize(x.header)
<1>1. x.inStep /\ Merges(p, Parsed(x).reader)  BY DEF Parse
<1>2. ASSUME ~(Len(x.buffers) < 2)
      PROVE  Leads(ParseReader(x), Parsed(x).reader, size)
  <2>1. /\ WellFramed(f)
        /\ MemoryOf[x.value] = MemoryOfFields(f)
        /\ Ready(ParseReader(x), f, x.header.type, x.header.contentSize, size)
    BY <1>1, <1>2, ParsedFrom
  <2> HIDE DEF f, size
  <2>2. InnerLeads(Reading(MemoryOfFields(f)), size)  BY <2>1, ReadingLeads
  <2>3. Leads(ParseReader(x),
              ReadContent(ParseReader(x), MemoryOfFields(f), Reading(MemoryOfFields(f)),
                          x.header.type, x.header.contentSize).reader, size)
    BY <2>1, <2>2, ContentLeads
  <2> QED  BY <2>1, <2>3 DEF Parsed
<1> QED  BY <1>1, <1>2, MergesBytes

(* parseArrayLength                                                        *)
LEMMA ParseArrayLengthBytes ==
  ASSUME IInv, InBytes, NEW p \in P, ParseArrayLength(p)
  PROVE  InBytes'
<1> DEFINE x == packets[p]
           f == FlattenSeq(Written(<<x.value>>))
           size == PacketSize(x.header)
<1>1. x.inStep /\ x.header.type = "ArrayWithSize" /\ Merges(p, ParsedLength(x))
  BY DEF ParseArrayLength, IsArray
<1>2. ASSUME ~(Len(x.buffers) < 2)
      PROVE  Leads(ParseReader(x), ParsedLength(x), size)
  <2>1. Ready(ParseReader(x), f, x.header.type, x.header.contentSize, size)
    BY <1>1, <1>2, ParsedFrom
  <2> HIDE DEF f, size
  <2>2. Leads(ParseReader(x), NumberBy(ParseReader(x), CountSize), size)
    BY <1>1, <2>1, CountLeads
  <2> QED  BY <2>2 DEF ParsedLength
<1> QED  BY <1>1, <1>2, MergesBytes

(* parseArrayAt                                                            *)
LEMMA ParseArrayAtBytes ==
  ASSUME IInv, InBytes, NEW p \in P, NEW index \in Indices, ParseArrayAt(p, index)
  PROVE  InBytes'
<1> DEFINE x == packets[p]
           f == FlattenSeq(Written(<<x.value>>))
           size == PacketSize(x.header)
<1>1. x.inStep /\ x.header.type = "ArrayWithSize" /\ Merges(p, ParsedAt(x, index).reader)
  BY DEF ParseArrayAt, IsArray
<1>2. ASSUME ~(Len(x.buffers) < 2)
      PROVE  Leads(ParseReader(x), ParsedAt(x, index).reader, size)
  <2>1. /\ WellFramed(f)
        /\ MemoryOf[x.value] = MemoryOfFields(f)
        /\ Ready(ParseReader(x), f, x.header.type, x.header.contentSize, size)
    BY <1>1, <1>2, ParsedFrom
  <2>2. index \in Nat  BY DEF Indices
  <2> HIDE DEF f, size
  <2>3. Leads(ParseReader(x), ReadArrayAt(ParseReader(x), MemoryOfFields(f), index).reader,
              size)
    BY <1>1, <2>1, <2>2, ArrayAtLeads
  <2> QED  BY <2>1, <2>3 DEF ParsedAt
<1> QED  BY <1>1, <1>2, MergesBytes

(* parseArraySlice                                                         *)
LEMMA ParseArraySliceBytes ==
  ASSUME IInv, InBytes, NEW p \in P, NEW start \in SliceBounds, NEW end \in SliceBounds,
         ParseArraySlice(p, start, end)
  PROVE  InBytes'
<1> DEFINE x == packets[p]
           f == FlattenSeq(Written(<<x.value>>))
           size == PacketSize(x.header)
<1>1. x.inStep /\ x.header.type = "ArrayWithSize"
      /\ Merges(p, ParsedSlice(x, start, end).reader)
  BY DEF ParseArraySlice, IsArray
<1>2. ASSUME ~(Len(x.buffers) < 2)
      PROVE  Leads(ParseReader(x), ParsedSlice(x, start, end).reader, size)
  <2>1. /\ WellFramed(f)
        /\ MemoryOf[x.value] = MemoryOfFields(f)
        /\ Ready(ParseReader(x), f, x.header.type, x.header.contentSize, size)
    BY <1>1, <1>2, ParsedFrom
  <2>2. start \in Int \cup {NoLen} /\ end \in Int \cup {NoLen}  BY DEF SliceBounds
  <2> HIDE DEF f, size
  <2>3. Leads(ParseReader(x),
              ReadArraySlice(ParseReader(x), MemoryOfFields(f), start, end).reader, size)
    BY <1>1, <2>1, <2>2, ArraySliceLeads
  <2> QED  BY <2>1, <2>3 DEF ParsedSlice
<1> QED  BY <1>1, <1>2, MergesBytes

(* New packets are not valid, and have no bytes.                           *)
LEMMA InitBytes == Init => InBytes
<1> SUFFICES ASSUME Init, NEW p \in P PROVE HasBytes(packets[p])  BY DEF InBytes
<1>1. PICK class \in Classes : packets[p] = NewPacket(class)  BY DEF Init
<1>2. packets[p].header = InvalidRawHeader /\ packets[p].buffers = NoBuffers(class)
  BY <1>1 DEF NewPacket, Packet
<1>3. IsNotValid(InvalidRawHeader)  BY DEF IsNotValid, InvalidRawHeader
<1>4. Len(NoBuffers(class)) < 2  BY NoTwoBuffers
<1> QED  BY <1>2, <1>3, <1>4 DEF HasBytes

(* Every action keeps the bytes of the packets in their buffers.           *)
LEMMA NextBytes == IInv /\ InBytes /\ [Next]_vars => InBytes'
<1> SUFFICES ASSUME IInv, InBytes, [Next]_vars PROVE InBytes'  OBVIOUS
<1>1. CASE Next
  <2>1. PICK p \in P :
          \/ \E v \in work : Serialize(p, v)
          \/ \E v \in work, cuts \in SUBSET Cuts, missing \in 0 .. 1 :
               Receive(p, v, cuts, missing)
          \/ \E v \in work : DecodeFromBuffer(p, v)
          \/ Reset(p)
          \/ \E q \in P : CopyRawData(p, q)
          \/ \E v \in work : WriteElsewhere(p, v)
          \/ \E v \in work, missing \in 0 .. 1 : ReadElsewhere(p, v, missing)
          \/ LookAtBuffer(p)
          \/ Parse(p)
          \/ ParseArrayLength(p)
          \/ \E index \in Indices : ParseArrayAt(p, index)
          \/ \E start, end \in SliceBounds : ParseArraySlice(p, start, end)
    BY <1>1 DEF Next
  <2>2. CASE \E v \in work : Serialize(p, v)  BY <2>2, SerializeBytes
  <2>3. CASE \E v \in work, cuts \in SUBSET Cuts, missing \in 0 .. 1 :
               Receive(p, v, cuts, missing)
    BY <2>3, ReceiveBytes
  <2>4. CASE \E v \in work : DecodeFromBuffer(p, v)  BY <2>4, DecodeFromBufferBytes
  <2>5. CASE Reset(p)  BY <2>5, ResetBytes
  <2>6. CASE \E q \in P : CopyRawData(p, q)  BY <2>6, CopyBytes
  <2>7. CASE \E v \in work : WriteElsewhere(p, v)  BY <2>7, WriteElsewhereBytes
  <2>8. CASE \E v \in work, missing \in 0 .. 1 : ReadElsewhere(p, v, missing)
    BY <2>8, ReadElsewhereBytes
  <2>9. CASE LookAtBuffer(p)  BY <2>9, LookAtBufferBytes
  <2>10. CASE Parse(p)  BY <2>10, ParseBytes
  <2>11. CASE ParseArrayLength(p)  BY <2>11, ParseArrayLengthBytes
  <2>12. CASE \E index \in Indices : ParseArrayAt(p, index)  BY <2>12, ParseArrayAtBytes
  <2>13. CASE \E start, end \in SliceBounds : ParseArraySlice(p, start, end)
    BY <2>13, ParseArraySliceBytes
  <2> QED
    BY <2>1, <2>2, <2>3, <2>4, <2>5, <2>6, <2>7, <2>8, <2>9, <2>10, <2>11, <2>12, <2>13
<1>2. CASE UNCHANGED vars  BY <1>2 DEF vars, InBytes, HasBytes
<1> QED  BY <1>1, <1>2

(***************************************************************************)
(* What packets are parsed to                                              *)
(***************************************************************************)

(* A packet in step that is not valid stands for nothing. One of several   *)
(* buffers with an ArrayBuffer in it has them as they were written.        *)
HasValue(packet) ==
  packet.inStep =>
    IF IsNotValid(packet.header) THEN packet.value = Undefined
    ELSE HoldsArrayBuffer(packet.value) /\ ~(Len(packet.buffers) < 2) =>
           Tidy(packet.buffers, FlattenSeq(Written(<<packet.value>>)))

(* Where a packet is parsed from.                                          *)
ParsedIn(packet, f, v, c, r) ==
  /\ v \in Values \cup {Undefined} /\ v \in AllValues
  /\ PacketIsAt(f, <<>>, v, c, <<>>)
  /\ MemoryOf[v] = MemoryOfFields(f)
  /\ packet.header.type = PacketType(v)
  /\ packet.header.contentSize = ContentSizeOf(v, c)
  /\ Total(<<>>) = 0
  /\ At(r, Total(f), Total(<<>>) + HeaderSizeOf(v))
  /\ HoldsArrayBuffer(v) => Snug(r, f)

(* The reader that a packet is parsed with is behind the header of what    *)
(* was written.                                                            *)
LEMMA ParserThere ==
  ASSUME NEW packet, Coherent(packet), HasBytes(packet), HasValue(packet),
         packet.inStep, ~IsNotValid(packet.header)
  PROVE  ParsedIn(packet, FlattenSeq(Written(<<packet.value>>)), packet.value,
                  Contents[packet.value], ParseReader(packet))
<1> DEFINE v == packet.value
           h == packet.header
           b == packet.buffers
           f == FlattenSeq(Written(<<v>>))
           c == Contents[v]
           r == ParseReader(packet)
           size == PacketSize(h)
<1>1. Told(packet) /\ v \in Values \cup {Undefined} /\ v \in AllValues
  BY ValueOfPacket
<1>2. PacketType(v) # NoPacket /\ h = HeaderOf(v)  BY <1>1 DEF Told
<1>3. Spread(b, size)  BY DEF HasBytes
<1>4. /\ IsList(r) <=> ~(Len(b) < 2)
      /\ size = Bytelength(v)
      /\ At(r, size, h.headerSize)
  BY <1>1, <1>3, ParserReady
<1>5. /\ PacketIsAt(f, <<>>, v, c, <<>>)
      /\ Total(<<>>) = 0
      /\ Total(f) = Bytelength(v)
      /\ h = RawHeader(PacketType(v), HeaderSizeOf(v), ContentSizeOf(v, c))
  BY <1>1, <1>2, ValueFields
<1>6. MemoryOf[v] = MemoryOfFields(f)  BY <1>1 DEF MemoryOf, Memory
<1>7. h.type = PacketType(v) /\ h.headerSize = HeaderSizeOf(v)
      /\ h.contentSize = ContentSizeOf(v, c)
  BY <1>5 DEF RawHeader
<1>8. HeaderSizeOf(v) \in Nat /\ ContentSizeOf(v, c) \in Nat /\ size \in Nat
      /\ h.headerSize < size /\ 0 + HeaderSizeOf(v) = HeaderSizeOf(v)
  <2>1. ContentSizeOf(v, c) \in Nat /\ HeaderSizeOf(v) \in {2, 6} /\ FooterLength = 1
    <3>1. v \in AllValues /\ PacketIsAt(f, <<>>, v, c, <<>>)  BY <1>1, <1>5
    <3> HIDE DEF f, v, c
    <3> QED  BY <3>1, PacketBounds
  <2>2. size = ContentSizeOf(v, c) + (HeaderSizeOf(v) + FooterLength)
    BY <1>7 DEF PacketSize
  <2> HIDE DEF size, h, v, c
  <2> QED  BY <1>7, <2>1, <2>2
<1>9. ASSUME HoldsArrayBuffer(v) PROVE Snug(r, f)
  <2>1. CASE Len(b) < 2  BY <1>4, <2>1 DEF Snug
  <2>2. CASE ~(Len(b) < 2)
    <3>1. Tidy(b, f)  BY <1>9, <2>2 DEF HasValue
    <3>2. r = NewBufferListReader(b, h.headerSize)  BY <2>2 DEF ParseReader
    <3>3. h.headerSize \in Nat  BY <1>7, <1>8
    <3> HIDE DEF f, r, b, size, h
    <3> QED  BY <1>3, <1>8, <3>1, <3>2, <3>3, NewListNeat
  <2> QED  BY <2>1, <2>2
<1>10. At(r, Total(f), Total(<<>>) + HeaderSizeOf(v))  BY <1>4, <1>5, <1>7, <1>8
<1> HIDE DEF r, f, c, v, h
<1>11. ParsedIn(packet, f, v, c, r)
  BY <1>1, <1>5, <1>6, <1>7, <1>9, <1>10 DEF ParsedIn, h
<1> QED  BY <1>11 DEF r, f, c, v

(* Every packet stands for its value, and who shares an array shares the   *)
(* value it is of.                                                         *)
InValues ==
  /\ \A p \in P : HasValue(packets[p])
  /\ \A p \in P : \A q \in sharing[p] : packets[q].value = packets[p].value

(* One packet is another, in an array of its own.                          *)
LEMMA OwnValue ==
  ASSUME IInv, InValues, NEW p \in P, NEW packet, HasValue(packet),
         packets' = [packets EXCEPT ![p] = packet], Alone(p)
  PROVE  InValues'
<1>1. packets' = [q \in P |-> IF q = p THEN packet ELSE packets[q]]  BY DEF IInv
<1>2. sharing' = [q \in P |-> IF q = p THEN {p} ELSE sharing[q] \ {p}]  BY DEF Alone
<1>3. \A q \in P : packets'[q] = IF q = p THEN packet ELSE packets[q]  BY <1>1
<1>4. \A q \in P : sharing'[q] = IF q = p THEN {p} ELSE sharing[q] \ {p}  BY <1>2
<1>5. \A q \in P : HasValue(packets'[q])  BY <1>3 DEF InValues
<1>6. ASSUME NEW q \in P, NEW o \in sharing'[q]
      PROVE  packets'[o].value = packets'[q].value
  <2>1. CASE q = p  BY <1>4, <1>6, <2>1
  <2>2. CASE q # p
    <3>1. o \in sharing[q] /\ o # p  BY <1>4, <1>6, <2>2
    <3>2. o \in P  BY <3>1 DEF IInv, Shared
    <3>3. packets'[o] = packets[o] /\ packets'[q] = packets[q]  BY <1>3, <2>2, <3>1, <3>2
    <3> QED  BY <3>1, <3>3 DEF InValues
  <2> QED  BY <2>1, <2>2
<1> QED  BY <1>5, <1>6 DEF InValues

(* One packet is another of the same value, in the array it was in.        *)
LEMMA SameValue ==
  ASSUME IInv, InValues, NEW p \in P, NEW packet, HasValue(packet),
         packet.value = packets[p].value,
         packets' = [packets EXCEPT ![p] = packet], sharing' = sharing
  PROVE  InValues'
<1>1. packets' = [q \in P |-> IF q = p THEN packet ELSE packets[q]]  BY DEF IInv
<1>2. \A q \in P : packets'[q] = IF q = p THEN packet ELSE packets[q]  BY <1>1
<1>3. \A q \in P : HasValue(packets'[q])  BY <1>2 DEF InValues
<1>4. \A q \in P : packets'[q].value = packets[q].value  BY <1>2
<1>5. ASSUME NEW q \in P, NEW o \in sharing'[q]
      PROVE  packets'[o].value = packets'[q].value
  <2>1. o \in sharing[q]  BY <1>5
  <2>2. o \in P  BY <2>1 DEF IInv, Shared
  <2> QED  BY <1>4, <2>1, <2>2 DEF InValues
<1> QED  BY <1>3, <1>5 DEF InValues

(* What is held in place of what was held.                                 *)
LEMMA HoldValue ==
  ASSUME IInv, InValues, NEW p \in P, NEW header, NEW buffers, NEW value,
         NEW inStep \in BOOLEAN, Hold(p, header, buffers, value, inStep),
         inStep => IF header.type = "NotValid" THEN value = Undefined
                   ELSE HoldsArrayBuffer(value) /\ ~(Len(buffers) < 2) =>
                          Tidy(buffers, FlattenSeq(Written(<<value>>)))
  PROVE  InValues'
<1> DEFINE packet == Packet(packets[p].class, header, buffers, value, inStep)
<1>1. packets' = [packets EXCEPT ![p] = packet] /\ Alone(p)  BY DEF Hold
<1>2. packet.header = header /\ packet.buffers = buffers /\ packet.inStep = inStep
      /\ packet.value = value
  BY DEF Packet
<1> HIDE DEF packet
<1>3. HasValue(packet)  BY <1>2 DEF HasValue, IsNotValid
<1> QED  BY <1>1, <1>3, OwnValue

(* serialize: the buffers are those of the writer.                         *)
LEMMA SerializeValue ==
  ASSUME IInv, InValues, NEW p \in P, NEW v \in work, Serialize(p, v)
  PROVE  InValues'
<1> DEFINE places == Places(WrittenOf[v])
           header == HeaderWritten(packets[p].header, v)
           buffers == IF IsBufferList(p) THEN places ELSE Joined(places)
           inStep == PacketType(v) # NoPacket
<1>1. v \in Values /\ v \in AllValues  BY BufferAssumption DEF IInv
<1>2. Hold(p, header, buffers, v, inStep)  BY DEF Serialize
<1>3. WrittenOf[v] = Written(<<v>>)  BY <1>1 DEF WrittenOf
<1>4. Tidy(places, FlattenSeq(Written(<<v>>)))  BY <1>1, <1>3, OrderlyWritten DEF Orderly
<1>5. inStep => header.type # "NotValid"
  <2>1. SUFFICES ASSUME inStep PROVE header.type # "NotValid"  OBVIOUS
  <2>2. header = HeaderOf(v)  BY <1>1, <2>1, HeaderIsWritten
  <2>3. HeaderOf(v).type \in ValidTypes  BY <1>1, <2>1, HeaderOfSize
  <2> QED
    BY <2>2, <2>3 DEF ValidTypes, DoubleTypes, IntegerTypes, EmptyTypes, DynamicTypes
<1>6. Len(Joined(places)) < 2
  <2> HIDE DEF places
  <2>1. Len(Joined(places)) = 1 /\ 1 < 2  BY OneBuffer
  <2> QED  BY <2>1
<1>7. ~(Len(buffers) < 2) => Tidy(buffers, FlattenSeq(Written(<<v>>)))
  <2> HIDE DEF places
  <2> QED  BY <1>4, <1>6
<1>8. inStep \in BOOLEAN  OBVIOUS
<1> HIDE DEF header, buffers, inStep, places
<1> QED  BY <1>2, <1>5, <1>7, <1>8, HoldValue

(* decodeFromReader: a list of buffers that came cut has no ArrayBuffer.   *)
LEMMA ReceiveValue ==
  ASSUME IInv, InValues, NEW p \in P, NEW v \in work, NEW cuts \in SUBSET Cuts,
         NEW missing \in 0 .. 1, Receive(p, v, cuts, missing)
  PROVE  InValues'
<1>1. PICK header, buffers, value : Got(p, v, cuts, header, buffers, value)  BY Received
<1>2. Hold(p, header, buffers, value, TRUE)  BY <1>1 DEF Got
<1>3. HoldsArrayBuffer(v) => cuts = {}  BY DEF Receive
<1>4. IF header.type = "NotValid" THEN value = Undefined
      ELSE HoldsArrayBuffer(value) /\ ~(Len(buffers) < 2) =>
             Tidy(buffers, FlattenSeq(Written(<<value>>)))
  BY <1>1, <1>3 DEF Got
<1>5. TRUE \in BOOLEAN  OBVIOUS
<1> QED  BY <1>2, <1>4, <1>5, HoldValue

(* decodeFromBuffer: the header is there, so the packet is valid.          *)
LEMMA DecodeFromBufferValue ==
  ASSUME IInv, InValues, NEW p \in P, NEW v \in work, DecodeFromBuffer(p, v)
  PROVE  InValues'
<1> DEFINE f == FlattenSeq(Written(<<v>>))
           c == Contents[v]
           buffer == [lo |-> 0, hi |-> SizeOf(v)]
           r == NewBufferReader(buffer, 0)
           read == ReadHeader(r, MemoryOf[v].headers)
           header == read.header
           one == <<buffer>>
<1>1. v \in Values /\ v \in AllValues /\ PacketType(v) # NoPacket
      /\ Hold(p, header, one, v, TRUE)
  BY BufferAssumption DEF IInv, DecodeFromBuffer
<1>2. SizeOf(v) = Bytelength(v) /\ Bytelength(v) \in Nat
      /\ Bytelength(v) >= FixedHeaderSize + FooterLength
  BY <1>1, WrittenSpread DEF SizeOf, WrittenOf
<1>3. /\ PacketIsAt(f, <<>>, v, c, <<>>)
      /\ Total(<<>>) = 0
      /\ Total(f) = Bytelength(v)
  BY <1>1, ValueFields
<1>4. MemoryOf[v] = MemoryOfFields(f)  BY <1>1 DEF MemoryOf, Memory
<1>5. At(r, Bytelength(v), 0)
  <2>1. 0 \in 0 .. Bytelength(v) /\ 0 < Bytelength(v)
    <3>1. FixedHeaderSize + FooterLength = 3  BY DEF FixedHeaderSize, FooterLength
    <3> QED  BY <1>2, <3>1
  <2>2. r = NewBufferReader([lo |-> 0, hi |-> Bytelength(v)], 0)  BY <1>2
  <2> HIDE DEF r
  <2> QED  BY <1>2, <2>1, <2>2, BufferReaderAt
<1>6. header.type \in ValidTypes
  <2>1. At(r, Total(f), Total(<<>>)) /\ read = ReadHeader(r, MemoryOfFields(f).headers)
        /\ Solid(<<>>)
    BY <1>3, <1>4, <1>5 DEF Solid
  <2>2. read.header = RawHeader(PacketType(v), HeaderSizeOf(v), ContentSizeOf(v, c))
    BY <1>1, <1>3, <2>1, HeaderInFront
  <2>3. PacketType(v) \in ValidTypes  BY <1>1, TypesOfValues
  <2> HIDE DEF read
  <2> QED  BY <2>2, <2>3 DEF RawHeader
<1>7. header.type # "NotValid"
  BY <1>6 DEF ValidTypes, DoubleTypes, IntegerTypes, EmptyTypes, DynamicTypes
<1>8. Len(one) < 2
  <2>1. \A x : Len(<<x>>) = 1  OBVIOUS
  <2>2. 1 < 2  OBVIOUS
  <2> QED  BY <2>1, <2>2
<1>9. TRUE \in BOOLEAN  OBVIOUS
<1> HIDE DEF header, one
<1> QED  BY <1>1, <1>7, <1>8, <1>9, HoldValue

(* reset                                                                   *)
LEMMA ResetValue ==
  ASSUME IInv, InValues, NEW p \in P, Reset(p)
  PROVE  InValues'
<1> DEFINE none == NoBuffers(packets[p].class)
<1>1. Hold(p, InvalidRawHeader, none, Undefined, TRUE)  BY DEF Reset
<1>2. InvalidRawHeader.type = "NotValid"  BY DEF InvalidRawHeader
<1>3. TRUE \in BOOLEAN  OBVIOUS
<1> HIDE DEF none
<1> QED  BY <1>1, <1>2, <1>3, HoldValue

(* setRawData of getRawData: the value comes with the array.               *)
LEMMA CopyValue ==
  ASSUME IInv, InValues, NEW p \in P, NEW q \in P, CopyRawData(p, q)
  PROVE  InValues'
<1> DEFINE from == packets[q]
           alone == Len(from.buffers) < 2 \/ ~IsBufferList(p)
           buffers == IF alone THEN Joined(from.buffers) ELSE from.buffers
           packet == Packet(packets[p].class, from.header, buffers, from.value, from.inStep)
           all == sharing[q] \cup {p}
<1>1. packets' = [packets EXCEPT ![p] = packet]  BY DEF CopyRawData
<1>2. packet.header = from.header /\ packet.buffers = buffers
      /\ packet.inStep = from.inStep /\ packet.value = from.value
  BY DEF Packet
<1>3. HasValue(from)  BY DEF InValues
<1>4. IF alone THEN Alone(p)
      ELSE sharing' = [o \in P |-> IF o \in all THEN all ELSE sharing[o] \ {p}]
  BY DEF CopyRawData
<1> HIDE DEF packet, from
<1>5. HasValue(packet)
  <2>1. Len(Joined(from.buffers)) = 1 /\ 1 < 2  BY OneBuffer
  <2>2. Len(Joined(from.buffers)) < 2  BY <2>1
  <2> QED  BY <1>2, <1>3, <2>2 DEF HasValue
<1>6. CASE alone  BY <1>1, <1>4, <1>5, <1>6, OwnValue
<1>7. CASE ~alone
  <2>1. sharing' = [o \in P |-> IF o \in all THEN all ELSE sharing[o] \ {p}]
    BY <1>4, <1>7
  <2>2. packets' = [o \in P |-> IF o = p THEN packet ELSE packets[o]]
    BY <1>1 DEF IInv
  <2>3. \A o \in P : packets'[o] = IF o = p THEN packet ELSE packets[o]  BY <2>2
  <2>4. \A o \in P : sharing'[o] = IF o \in all THEN all ELSE sharing[o] \ {p}  BY <2>1
  <2>5. \A o \in P : HasValue(packets'[o])  BY <1>5, <2>3 DEF InValues
  <2>6. sharing \in [P -> SUBSET P]  BY DEF IInv, Shared
  <2>7. \A o \in all : o \in P /\ packets'[o].value = from.value
    <3>1. ASSUME NEW o \in all PROVE o \in P /\ packets'[o].value = from.value
      <4>1. CASE o = p  BY <1>2, <2>3, <4>1
      <4>2. CASE o # p
        <5>1. o \in sharing[q] /\ o \in P  BY <2>6, <4>2
        <5>2. packets[o].value = from.value  BY <5>1 DEF InValues, from
        <5> QED  BY <2>3, <4>2, <5>1, <5>2
      <4> QED  BY <4>1, <4>2
    <3> QED  BY <3>1
  <2>8. ASSUME NEW o \in P, NEW x \in sharing'[o]
        PROVE  packets'[x].value = packets'[o].value
    <3>1. CASE o \in all
      <4>1. x \in all  BY <2>4, <2>8, <3>1
      <4> HIDE DEF all
      <4> QED  BY <2>7, <3>1, <4>1
    <3>2. CASE o \notin all
      <4>1. x \in sharing[o] /\ x # p /\ o # p  BY <2>4, <2>8, <3>2
      <4>2. x \in P  BY <2>6, <4>1
      <4>3. packets'[x] = packets[x] /\ packets'[o] = packets[o]  BY <2>3, <4>1, <4>2
      <4> QED  BY <4>1, <4>3 DEF InValues
    <3> QED  BY <3>1, <3>2
  <2> QED  BY <2>5, <2>8 DEF InValues
<1> QED  BY <1>6, <1>7

(* write and read of the packet, elsewhere: its header may be another and  *)
(* the packet out of step, but no other value is its own.                  *)
LEMMA WriteElsewhereValue ==
  ASSUME IInv, InValues, NEW p \in P, NEW v \in work, WriteElsewhere(p, v)
  PROVE  InValues'
<1> DEFINE x == packets[p]
           header == HeaderWritten(x.header, v)
           inStep == x.inStep /\ PacketType(v) = NoPacket
           packet == Packet(x.class, header, x.buffers, x.value, inStep)
<1>1. v \in AllValues  BY BufferAssumption DEF IInv
<1>2. HasValue(x)  BY DEF InValues
<1>3. header = IF PacketType(v) = NoPacket THEN x.header ELSE HeaderOf(v)
  BY <1>1, HeaderIsWritten
<1>4. packets' = [packets EXCEPT ![p] = packet] /\ sharing' = sharing
  BY WrittenElsewhere DEF WriteElsewhere
<1>5. inStep => x.inStep /\ header = x.header  BY <1>3
<1>6. packet.header = header /\ packet.buffers = x.buffers /\ packet.inStep = inStep
      /\ packet.value = x.value
  BY DEF Packet
<1> HIDE DEF packet, header, inStep, x
<1>7. HasValue(packet)  BY <1>2, <1>5, <1>6 DEF HasValue
<1> QED  BY <1>4, <1>6, <1>7, SameValue DEF x

(* Reading other bytes takes its header out of step and keeps its value.   *)
LEMMA ReadElsewhereValue ==
  ASSUME IInv, InValues, NEW p \in P, NEW v \in work, NEW missing \in 0 .. 1,
         ReadElsewhere(p, v, missing)
  PROVE  InValues'
<1> DEFINE x == packets[p]
           r == NewBufferReader([lo |-> 0, hi |-> SizeOf(v) - missing], 0)
           header == ReadHeader(r, MemoryOf[v].headers).header
           packet == Packet(x.class, header, x.buffers, x.value, FALSE)
<1>1. packets' = [packets EXCEPT ![p].header = header, ![p].inStep = FALSE]
      /\ sharing' = sharing
  BY DEF ReadElsewhere
<1> HIDE DEF header
<1>2. packets' = [packets EXCEPT ![p] = packet]  BY <1>1, ToldElsewhere
<1>3. packet.inStep = FALSE /\ packet.value = x.value  BY DEF Packet
<1> HIDE DEF packet
<1>4. HasValue(packet)  BY <1>3 DEF HasValue
<1> QED  BY <1>1, <1>2, <1>3, <1>4, SameValue

(* The getter buffer: one buffer has nothing to be tidy.                   *)
LEMMA LookAtBufferValue ==
  ASSUME IInv, InValues, NEW p \in P, LookAtBuffer(p)
  PROVE  InValues'
<1> DEFINE x == packets[p]
           packet == Packet(x.class, x.header, Joined(x.buffers), x.value, x.inStep)
<1>1. packets' = [packets EXCEPT ![p] = packet]  BY LookedAt
<1>2. Alone(p) /\ HasValue(x)  BY DEF LookAtBuffer, InValues
<1>3. packet.header = x.header /\ packet.buffers = Joined(x.buffers)
      /\ packet.inStep = x.inStep /\ packet.value = x.value
  BY DEF Packet
<1> HIDE DEF packet, x
<1>4. Len(Joined(x.buffers)) < 2
  <2>1. Len(Joined(x.buffers)) = 1 /\ 1 < 2  BY OneBuffer
  <2> QED  BY <2>1
<1>5. HasValue(packet)  BY <1>2, <1>3, <1>4 DEF HasValue
<1> QED  BY <1>1, <1>2, <1>5, OwnValue

(* The array of a packet that is parsed, for all who share it: it is tidy  *)
(* for the value they all are of.                                          *)
LEMMA MergesValue ==
  ASSUME IInv, InBytes, InValues, NEW p \in P, NEW reader, Merges(p, reader),
         packets[p].inStep,
         ~(Len(packets[p].buffers) < 2) =>
           Keeps(ParseReader(packets[p]), reader,
                 FlattenSeq(Written(<<packets[p].value>>)))
  PROVE  InValues'
<1> DEFINE x == packets[p]
           f == FlattenSeq(Written(<<x.value>>))
           few == Len(x.buffers) < 2
           buffers == IF few THEN x.buffers ELSE reader.buffers
<1>1. packets' = [q \in P |-> IF q \in sharing[p]
                              THEN [packets[q] EXCEPT !.buffers = buffers]
                              ELSE packets[q]]
      /\ sharing' = sharing
  BY DEF Merges, MergeInPlace
<1>2. HasBytes(x) /\ Coherent(x) /\ HasValue(x)  BY DEF IInv, InBytes, InValues
<1>3. ~few /\ HoldsArrayBuffer(x.value) => Tidy(reader.buffers, f)
  <2>1. SUFFICES ASSUME ~few, HoldsArrayBuffer(x.value) PROVE Tidy(reader.buffers, f)
    OBVIOUS
  <2>2. ~IsNotValid(x.header) /\ Spread(x.buffers, PacketSize(x.header))
    BY <1>2, <2>1 DEF HasBytes
  <2>3. IsList(ParseReader(x))  BY <1>2, <2>1, <2>2, ValueOfPacket, ParserReady
  <2>4. ParsedIn(x, f, x.value, Contents[x.value], ParseReader(x))
    BY <1>2, <2>2, ParserThere
  <2>5. Snug(ParseReader(x), f)  BY <2>1, <2>4 DEF ParsedIn
  <2>6. Keeps(ParseReader(x), reader, f)  BY <2>1
  <2> HIDE DEF x, f
  <2>7. Snug(reader, f) /\ IsList(reader)  BY <2>3, <2>5, <2>6 DEF Keeps, Later
  <2> QED  BY <2>7 DEF Snug
<1> HIDE DEF few, f
<1>4. ASSUME NEW q \in P
      PROVE  HasValue(packets'[q]) /\ packets'[q].value = packets[q].value
  <2> DEFINE y == packets[q]
  <2>1. HasBytes(y) /\ Coherent(y) /\ HasValue(y)  BY DEF IInv, InBytes, InValues
  <2>2. CASE q \notin sharing[p]
    <3>1. packets'[q] = y  BY <1>1, <2>2
    <3> QED  BY <2>1, <3>1
  <2>3. CASE q \in sharing[p]
    <3>1. y.buffers = x.buffers /\ y.value = x.value  BY <2>3 DEF IInv, Shared, InValues
    <3>2. packets'[q] = [y EXCEPT !.buffers = buffers]  BY <1>1, <2>3
    <3>3. y = [class |-> y.class, header |-> y.header, buffers |-> y.buffers,
               value |-> y.value, inStep |-> y.inStep]
      BY <2>1, FieldsOfPacket
    <3> DEFINE z == packets'[q]
    <3> HIDE DEF buffers, y
    <3>4. z = [class |-> y.class, header |-> y.header, buffers |-> buffers,
               value |-> y.value, inStep |-> y.inStep]
      BY <3>2, <3>3
    <3> HIDE DEF z, x
    <3>5. z.header = y.header /\ z.buffers = buffers /\ z.inStep = y.inStep
          /\ z.value = y.value
      BY <3>4
    <3>6. CASE few
      <4>1. buffers = y.buffers  BY <3>1, <3>6 DEF buffers
      <4>2. HasValue(z)  BY <2>1, <3>5, <4>1 DEF HasValue
      <4> QED  BY <3>5, <4>2 DEF z, y
    <3>7. CASE ~few
      <4>1. buffers = reader.buffers /\ ~(Len(y.buffers) < 2)
        BY <3>1, <3>7 DEF buffers, few
      <4>2. HoldsArrayBuffer(z.value) => Tidy(buffers, FlattenSeq(Written(<<z.value>>)))
        BY <1>3, <3>1, <3>5, <3>7, <4>1 DEF f
      <4>3. HasValue(z)  BY <2>1, <3>5, <4>2 DEF HasValue
      <4> QED  BY <3>5, <4>3 DEF z, y
    <3> QED  BY <3>6, <3>7
  <2> QED  BY <2>2, <2>3
<1>5. ASSUME NEW q \in P, NEW o \in sharing'[q]
      PROVE  packets'[o].value = packets'[q].value
  <2>1. o \in sharing[q]  BY <1>1, <1>5
  <2>2. o \in P  BY <2>1 DEF IInv, Shared
  <2> QED  BY <1>4, <2>1, <2>2 DEF InValues
<1> QED  BY <1>4, <1>5 DEF InValues

(* New packets stand for nothing, each in an array of its own.             *)
LEMMA InitValues == Init => InValues
<1> SUFFICES ASSUME Init PROVE InValues  OBVIOUS
<1>1. ASSUME NEW p \in P PROVE HasValue(packets[p])
  <2>1. PICK class \in Classes : packets[p] = NewPacket(class)  BY DEF Init
  <2>2. packets[p].header = InvalidRawHeader /\ packets[p].value = Undefined
    BY <2>1 DEF NewPacket, Packet
  <2>3. IsNotValid(InvalidRawHeader)  BY DEF IsNotValid, InvalidRawHeader
  <2> QED  BY <2>2, <2>3 DEF HasValue
<1>2. \A p \in P : \A q \in sharing[p] : packets[q].value = packets[p].value
  BY DEF Init
<1> QED  BY <1>1, <1>2 DEF InValues

(* parse gives the value.                                                  *)
LEMMA ParseThere ==
  ASSUME ElementsHavePackets, NEW packet, NEW f, NEW v, NEW r,
         v = packet.value, r = ParseReader(packet),
         ParsedIn(packet, f, v, Contents[v], r)
  PROVE  Parsed(packet).value = v /\ Keeps(r, Parsed(packet).reader, f)
<1> DEFINE c == Contents[v]
           memory == MemoryOfFields(f)
           inner == Reading(memory)
           holds == HoldsArrayBuffer(v)
           none == <<>>
           size == Total(f)
           read == ReadContent(r, memory, inner, PacketType(v), ContentSizeOf(v, c))
<1>1. /\ v \in AllValues
      /\ PacketIsAt(f, none, v, c, none)
      /\ MemoryOf[v] = memory
      /\ packet.header.type = PacketType(v)
      /\ packet.header.contentSize = ContentSizeOf(v, c)
      /\ At(r, Total(f), Total(none) + HeaderSizeOf(v))
      /\ holds => Snug(r, f)
  BY DEF ParsedIn
<1>2. Parsed(packet) = read  BY <1>1 DEF Parsed
<1>3. PICK contents : Readies(inner, f, v, contents, c, holds)
  BY <1>1, EveryValueReadies
<1>4. read = ReadContent(r, MemoryOfFields(f), inner, PacketType(v), ContentSizeOf(v, c))
      /\ size = Total(f)
  OBVIOUS
<1> HIDE DEF c, inner, holds, none, read, size, memory
<1>5. At(r, size, Total(none) + HeaderSizeOf(v))  BY <1>1, <1>4
<1>6. Reads(read, r, f, size, (Total(none) + HeaderSizeOf(v)) + ContentSizeOf(v, c), v)
  BY <1>1, <1>3, <1>4, <1>5, ContentThere
<1> QED  BY <1>2, <1>6 DEF Reads

(* The reader of a packet that is an array is ahead of it.                 *)
LEMMA ArrayToParse ==
  ASSUME ElementsHavePackets, NEW packet, NEW f, NEW v, NEW r,
         ParsedIn(packet, f, v, Contents[v], r), packet.header.type = "ArrayWithSize"
  PROVE  \E contents : ArrayAhead(f, v, contents, HoldsArrayBuffer(v), r)
<1> DEFINE c == Contents[v]
           memory == MemoryOfFields(f)
           inner == Reading(memory)
           holds == HoldsArrayBuffer(v)
           none == <<>>
<1>1. /\ v \in AllValues
      /\ PacketIsAt(f, none, v, c, none)
      /\ PacketType(v) = "ArrayWithSize"
      /\ At(r, Total(f), Total(none) + HeaderSizeOf(v))
      /\ holds => Snug(r, f)
  BY DEF ParsedIn
<1>2. PICK contents : Readies(inner, f, v, contents, c, holds)
  BY <1>1, EveryValueReadies
<1>3. /\ c = ContentWith(contents, v)
      /\ \A u \in AllValues : Counted(contents[u])
      /\ ElementsRead(inner, f, v, contents, holds)
  BY <1>1, <1>2 DEF Readies
<1> HIDE DEF c, holds, none
<1>4. ArrayAhead(f, v, contents, holds, r)  BY <1>1, <1>3 DEF ArrayAhead
<1> QED  BY <1>4 DEF holds

(* parseArrayLength gives the length.                                      *)
LEMMA LengthThere ==
  ASSUME ElementsHavePackets, NEW packet, NEW f, NEW v, NEW r,
         v = packet.value, r = ParseReader(packet),
         ParsedIn(packet, f, v, Contents[v], r), packet.header.type = "ArrayWithSize"
  PROVE  /\ CountOut(r, MemoryOf[v]) = Len(v.elements)
         /\ Keeps(r, ParsedLength(packet), f)
<1> DEFINE holds == HoldsArrayBuffer(v)
           q == NumberBy(r, CountSize)
<1>1. v \in AllValues /\ MemoryOf[v] = MemoryOfFields(f)  BY DEF ParsedIn
<1>2. PICK contents : ArrayAhead(f, v, contents, holds, r)  BY ArrayToParse
<1>3. ParsedLength(packet) = q  BY DEF ParsedLength
<1>4. q = NumberBy(r, CountSize)  OBVIOUS
<1> HIDE DEF q, holds
<1>5. PICK c, w, ah, behind : CountedAhead(f, v, contents, c, w, ah, behind, holds, r, q)
  BY <1>1, <1>2, <1>4, CountIsRead
<1> QED  BY <1>1, <1>3, <1>5 DEF CountedAhead

(* parseArrayAt gives the element.                                         *)
LEMMA ElementThere ==
  ASSUME ElementsHavePackets, NEW packet, NEW f, NEW v, NEW r,
         v = packet.value, r = ParseReader(packet),
         ParsedIn(packet, f, v, Contents[v], r), packet.header.type = "ArrayWithSize",
         NEW index \in Nat
  PROVE  /\ ParsedAt(packet, index).value
              = IF index < Len(v.elements) THEN v.elements[index + 1] ELSE Undefined
         /\ Keeps(r, ParsedAt(packet, index).reader, f)
<1> DEFINE holds == HoldsArrayBuffer(v)
           read == ReadArrayAt(r, MemoryOfFields(f), index)
<1>1. v \in AllValues /\ MemoryOf[v] = MemoryOfFields(f)  BY DEF ParsedIn
<1>2. PICK contents : ArrayAhead(f, v, contents, holds, r)  BY ArrayToParse
<1>3. ParsedAt(packet, index) = read  BY <1>1 DEF ParsedAt
<1>4. read = ReadArrayAt(r, MemoryOfFields(f), index)  OBVIOUS
<1> HIDE DEF read, holds
<1>5. /\ read.value = IF index < Len(v.elements) THEN v.elements[index + 1] ELSE Undefined
      /\ Keeps(r, read.reader, f)
  BY <1>1, <1>2, <1>4, ArrayAtThere
<1> QED  BY <1>3, <1>5

(* The part that the code counts is the slice, when the bounds are not     *)
(* both before the array.                                                  *)
LEMMA PartIsSlice ==
  ASSUME NEW v \in AllValues, NEW start \in Int \cup {NoLen}, NEW end \in Int \cup {NoLen},
         ~BothBefore(Len(v.elements), start, end)
  PROVE  PartOf(v.elements, StartOf(start, Len(v.elements)),
                EndOfSlice(end, Len(v.elements)))
           = ArrayOf(SliceOf(v.elements, start, end))
<1> DEFINE es == v.elements
           n == Len(es)
           s == StartOf(start, n)
           e == EndOfSlice(end, n)
           Bound(k) == Clamp(IF k < 0 THEN n + k ELSE k, n)
           from == IF start = NoLen THEN 0 ELSE Bound(start)
           to == IF end = NoLen THEN n ELSE Bound(end)
           skipped == IF s > 0 THEN s ELSE 0
<1>1. es \in Seq(AllValues) /\ n \in Nat  BY TypesOfValues
<1>2. SliceOf(es, start, end) = SubSeq(es, from + 1, to)  BY DEF SliceOf
<1>3. PartOf(es, s, e) = IF s >= n \/ e <= s THEN ArrayOf(<<>>)
                         ELSE IF e < skipped THEN RangeError
                         ELSE ArrayOf(SubSeq(es, skipped + 1, e))
  BY DEF PartOf
<1> HIDE DEF es, n
<1>4. /\ s \in Int /\ e \in Int /\ e <= n
      /\ s = IF start = NoLen THEN 0 ELSE IF start < 0 THEN n + start ELSE start
      /\ e = IF end = NoLen THEN n ELSE IF end < 0 THEN n + end
             ELSE IF end < n THEN end ELSE n
  BY <1>1, SliceBounded
<1>5. from = (IF s < 0 THEN 0 ELSE IF s > n THEN n ELSE s)
  <2>1. CASE start = NoLen  BY <1>1, <1>4, <2>1
  <2>2. CASE start # NoLen
    <3>2. s = IF start < 0 THEN n + start ELSE start  BY <1>4, <2>2
    <3>3. from = Clamp(IF start < 0 THEN n + start ELSE start, n)  BY <2>2
    <3>4. from = Clamp(s, n)  BY <3>2, <3>3
    <3> QED  BY <3>4 DEF Clamp
  <2> QED  BY <2>1, <2>2
<1>6. to = (IF e < 0 THEN 0 ELSE e)
  <2>1. CASE end = NoLen  BY <1>1, <1>4, <2>1
  <2>2. CASE end # NoLen
    <3>1. end \in Int  BY <2>2
    <3>2. e = IF end < 0 THEN n + end ELSE IF end < n THEN end ELSE n  BY <1>4, <2>2
    <3>3. to = Clamp(IF end < 0 THEN n + end ELSE end, n)  BY <2>2
    <3> HIDE DEF e, to
    <3>4. CASE end < 0
      <4>1. to = Clamp(n + end, n) /\ e = n + end /\ ~(n + end > n)  BY <1>1, <3>1, <3>2, <3>3, <3>4
      <4> QED  BY <4>1 DEF Clamp
    <3>5. CASE ~(end < 0)
      <4>1. to = Clamp(end, n) /\ e = (IF end < n THEN end ELSE n) /\ e \in Nat
        BY <1>1, <3>1, <3>2, <3>3, <3>5
      <4>2. to = (IF end < 0 THEN 0 ELSE IF end > n THEN n ELSE end)  BY <4>1 DEF Clamp
      <4> QED  BY <1>1, <3>1, <3>5, <4>1, <4>2
    <3> QED  BY <3>4, <3>5
  <2> QED  BY <2>1, <2>2
<1>7. ~(s < 0 /\ e < 0)
  <2>1. SUFFICES ASSUME s < 0, e < 0 PROVE FALSE  OBVIOUS
  <2>2. start # NoLen /\ end # NoLen
    BY <1>1, <1>4, <2>1
  <2>3. start \in Int /\ end \in Int  BY <2>2
  <2>4. s = (IF start < 0 THEN n + start ELSE start)
        /\ e = (IF end < 0 THEN n + end ELSE IF end < n THEN end ELSE n)
    BY <1>4, <2>2
  <2> HIDE DEF s, e
  <2>5. start < -n  BY <1>1, <2>1, <2>3, <2>4
  <2>6. end < -n  BY <1>1, <2>1, <2>3, <2>4
  <2> QED  BY <2>2, <2>5, <2>6 DEF BothBefore, n, es
<1> HIDE DEF s, e, from, to
<1>8. from \in Nat /\ to \in Nat /\ from <= n /\ to <= n  BY <1>1, <1>4, <1>5, <1>6
<1>9. CASE s >= n \/ e <= s
  <2>1. to <= from
    <3>1. CASE s >= n
      <4>1. from = n  BY <1>1, <1>4, <1>5, <3>1
      <4> QED  BY <1>8, <4>1
    <3>2. CASE e <= s /\ ~(s >= n)
      <4>1. CASE s < 0
        <5>1. e < 0  BY <1>1, <1>4, <3>2, <4>1
        <5> QED  BY <1>7, <4>1, <5>1
      <4>2. CASE ~(s < 0)
        <5>1. from = s  BY <1>1, <1>4, <1>5, <3>2, <4>2
        <5> QED  BY <1>4, <1>6, <3>2, <4>2, <5>1
      <4> QED  BY <4>1, <4>2
    <3> QED  BY <1>9, <3>1, <3>2
  <2>2. SubSeq(es, from + 1, to) = <<>>
    <3>1. from + 1 > to /\ from + 1 \in Int  BY <1>8, <2>1
    <3> QED  BY <1>1, <1>8, <3>1
  <2> QED  BY <1>2, <1>3, <1>9, <2>2 DEF es, n, s, e
<1>10. CASE ~(s >= n \/ e <= s)
  <2>1. ~(e < skipped) /\ skipped = from /\ e = to
    <3>1. s < n /\ s < e /\ ~(e < 0)  BY <1>1, <1>4, <1>7, <1>10
    <3>2. e = to  BY <1>6, <3>1
    <3>3. skipped = from  BY <1>1, <1>4, <1>5, <3>1
    <3>4. ~(e < skipped)  BY <1>4, <3>1
    <3> QED  BY <3>2, <3>3, <3>4
  <2> HIDE DEF skipped
  <2>2. PartOf(es, s, e) = ArrayOf(SubSeq(es, from + 1, to))  BY <1>3, <1>10, <2>1
  <2> QED  BY <1>2, <2>2 DEF es, n, s, e
<1> QED  BY <1>9, <1>10

(* parseArraySlice gives the slice.                                        *)
LEMMA SliceThere ==
  ASSUME ElementsHavePackets, NEW packet, NEW f, NEW v, NEW r,
         v = packet.value, r = ParseReader(packet),
         ParsedIn(packet, f, v, Contents[v], r), packet.header.type = "ArrayWithSize",
         NEW start \in Int \cup {NoLen}, NEW end \in Int \cup {NoLen}
  PROVE  /\ ~BothBefore(Len(v.elements), start, end) =>
              ParsedSlice(packet, start, end).value
                = ArrayOf(SliceOf(v.elements, start, end))
         /\ Keeps(r, ParsedSlice(packet, start, end).reader, f)
<1> DEFINE holds == HoldsArrayBuffer(v)
           read == ReadArraySlice(r, MemoryOfFields(f), start, end)
<1>1. v \in AllValues /\ MemoryOf[v] = MemoryOfFields(f)  BY DEF ParsedIn
<1>2. PICK contents : ArrayAhead(f, v, contents, holds, r)  BY ArrayToParse
<1>3. ParsedSlice(packet, start, end) = read  BY <1>1 DEF ParsedSlice
<1>4. read = ReadArraySlice(r, MemoryOfFields(f), start, end)  OBVIOUS
<1> HIDE DEF read, holds
<1>5. /\ read.value = PartOf(v.elements, StartOf(start, Len(v.elements)),
                             EndOfSlice(end, Len(v.elements)))
      /\ Keeps(r, read.reader, f)
  BY <1>1, <1>2, <1>4, ArraySliceThere
<1>6. ~BothBefore(Len(v.elements), start, end) =>
        read.value = ArrayOf(SliceOf(v.elements, start, end))
  BY <1>1, <1>5, PartIsSlice
<1> QED  BY <1>3, <1>5, <1>6

(* What there is to parse of a packet of more buffers than one.            *)
LEMMA ParsedInList ==
  ASSUME IInv, InBytes, InValues, NEW p \in P, packets[p].inStep,
         ~(Len(packets[p].buffers) < 2) \/ ~IsNotValid(packets[p].header)
  PROVE  LET x == packets[p]
         IN ParsedIn(x, FlattenSeq(Written(<<x.value>>)), x.value, Contents[x.value],
                     ParseReader(x))
<1> DEFINE x == packets[p]
<1>1. Coherent(x) /\ HasBytes(x) /\ HasValue(x)  BY DEF IInv, InBytes, InValues
<1>2. ~IsNotValid(x.header)  BY <1>1 DEF HasBytes
<1> HIDE DEF x
<1>3. x.inStep  BY DEF x
<1>4. ParsedIn(x, FlattenSeq(Written(<<x.value>>)), x.value, Contents[x.value],
               ParseReader(x))
  BY <1>1, <1>2, <1>3, ParserThere
<1> QED  BY <1>4 DEF x

(* parse                                                                   *)
LEMMA ParseValue ==
  ASSUME ElementsHavePackets, IInv, InBytes, InValues, NEW p \in P, Parse(p)
  PROVE  InValues'
<1> DEFINE x == packets[p]
           v == x.value
           f == FlattenSeq(Written(<<v>>))
           r == ParseReader(x)
<1>1. x.inStep /\ Merges(p, Parsed(x).reader)  BY DEF Parse
<1>2. ASSUME ~(Len(x.buffers) < 2)
      PROVE  Keeps(ParseReader(x), Parsed(x).reader, FlattenSeq(Written(<<x.value>>)))
  <2>1. ParsedIn(x, f, v, Contents[v], r)  BY <1>1, <1>2, ParsedInList
  <2>2. v = x.value /\ r = ParseReader(x)  OBVIOUS
  <2> HIDE DEF x, v, f, r
  <2>3. Keeps(r, Parsed(x).reader, f)  BY <2>1, <2>2, ParseThere
  <2> QED  BY <2>3 DEF r, f, v
<1> QED  BY <1>1, <1>2, MergesValue

(* parseArrayLength                                                        *)
LEMMA ParseArrayLengthValue ==
  ASSUME ElementsHavePackets, IInv, InBytes, InValues, NEW p \in P, ParseArrayLength(p)
  PROVE  InValues'
<1> DEFINE x == packets[p]
           v == x.value
           f == FlattenSeq(Written(<<v>>))
           r == ParseReader(x)
<1>1. x.inStep /\ x.header.type = "ArrayWithSize" /\ Merges(p, ParsedLength(x))
  BY DEF ParseArrayLength, IsArray
<1>2. ASSUME ~(Len(x.buffers) < 2)
      PROVE  Keeps(ParseReader(x), ParsedLength(x), FlattenSeq(Written(<<x.value>>)))
  <2>1. ParsedIn(x, f, v, Contents[v], r)  BY <1>1, <1>2, ParsedInList
  <2>2. v = x.value /\ r = ParseReader(x) /\ x.header.type = "ArrayWithSize"  BY <1>1
  <2> HIDE DEF x, v, f, r
  <2>3. Keeps(r, ParsedLength(x), f)  BY <2>1, <2>2, LengthThere
  <2> QED  BY <2>3 DEF r, f, v
<1> QED  BY <1>1, <1>2, MergesValue

(* parseArrayAt                                                            *)
LEMMA ParseArrayAtValue ==
  ASSUME ElementsHavePackets, IInv, InBytes, InValues, NEW p \in P,
         NEW index \in Indices, ParseArrayAt(p, index)
  PROVE  InValues'
<1> DEFINE x == packets[p]
           v == x.value
           f == FlattenSeq(Written(<<v>>))
           r == ParseReader(x)
<1>1. x.inStep /\ x.header.type = "ArrayWithSize" /\ Merges(p, ParsedAt(x, index).reader)
  BY DEF ParseArrayAt, IsArray
<1>2. ASSUME ~(Len(x.buffers) < 2)
      PROVE  Keeps(ParseReader(x), ParsedAt(x, index).reader,
                   FlattenSeq(Written(<<x.value>>)))
  <2>1. ParsedIn(x, f, v, Contents[v], r)  BY <1>1, <1>2, ParsedInList
  <2>2. v = x.value /\ r = ParseReader(x) /\ x.header.type = "ArrayWithSize"  BY <1>1
  <2>3. index \in Nat  BY DEF Indices
  <2> HIDE DEF x, v, f, r
  <2>4. Keeps(r, ParsedAt(x, index).reader, f)  BY <2>1, <2>2, <2>3, ElementThere
  <2> QED  BY <2>4 DEF r, f, v
<1> QED  BY <1>1, <1>2, MergesValue

(* parseArraySlice                                                         *)
LEMMA ParseArraySliceValue ==
  ASSUME ElementsHavePackets, IInv, InBytes, InValues, NEW p \in P,
         NEW start \in SliceBounds, NEW end \in SliceBounds, ParseArraySlice(p, start, end)
  PROVE  InValues'
<1> DEFINE x == packets[p]
           v == x.value
           f == FlattenSeq(Written(<<v>>))
           r == ParseReader(x)
<1>1. x.inStep /\ x.header.type = "ArrayWithSize"
      /\ Merges(p, ParsedSlice(x, start, end).reader)
  BY DEF ParseArraySlice, IsArray
<1>2. ASSUME ~(Len(x.buffers) < 2)
      PROVE  Keeps(ParseReader(x), ParsedSlice(x, start, end).reader,
                   FlattenSeq(Written(<<x.value>>)))
  <2>1. ParsedIn(x, f, v, Contents[v], r)  BY <1>1, <1>2, ParsedInList
  <2>2. v = x.value /\ r = ParseReader(x) /\ x.header.type = "ArrayWithSize"  BY <1>1
  <2>3. start \in Int \cup {NoLen} /\ end \in Int \cup {NoLen}  BY DEF SliceBounds
  <2> HIDE DEF x, v, f, r
  <2>4. Keeps(r, ParsedSlice(x, start, end).reader, f)
    BY <2>1, <2>2, <2>3, SliceThere
  <2> QED  BY <2>4 DEF r, f, v
<1> QED  BY <1>1, <1>2, MergesValue

(* Every action keeps what the packets stand for in their buffers.         *)
LEMMA NextValues ==
  ASSUME ElementsHavePackets, IInv, InBytes, InValues, [Next]_vars
  PROVE  InValues'
<1>1. CASE Next
  <2>1. PICK p \in P :
          \/ \E v \in work : Serialize(p, v)
          \/ \E v \in work, cuts \in SUBSET Cuts, missing \in 0 .. 1 :
               Receive(p, v, cuts, missing)
          \/ \E v \in work : DecodeFromBuffer(p, v)
          \/ Reset(p)
          \/ \E q \in P : CopyRawData(p, q)
          \/ \E v \in work : WriteElsewhere(p, v)
          \/ \E v \in work, missing \in 0 .. 1 : ReadElsewhere(p, v, missing)
          \/ LookAtBuffer(p)
          \/ Parse(p)
          \/ ParseArrayLength(p)
          \/ \E index \in Indices : ParseArrayAt(p, index)
          \/ \E start, end \in SliceBounds : ParseArraySlice(p, start, end)
    BY <1>1 DEF Next
  <2>2. CASE \E v \in work : Serialize(p, v)  BY <2>2, SerializeValue
  <2>3. CASE \E v \in work, cuts \in SUBSET Cuts, missing \in 0 .. 1 :
               Receive(p, v, cuts, missing)
    BY <2>3, ReceiveValue
  <2>4. CASE \E v \in work : DecodeFromBuffer(p, v)  BY <2>4, DecodeFromBufferValue
  <2>5. CASE Reset(p)  BY <2>5, ResetValue
  <2>6. CASE \E q \in P : CopyRawData(p, q)  BY <2>6, CopyValue
  <2>7. CASE \E v \in work : WriteElsewhere(p, v)  BY <2>7, WriteElsewhereValue
  <2>8. CASE \E v \in work, missing \in 0 .. 1 : ReadElsewhere(p, v, missing)
    BY <2>8, ReadElsewhereValue
  <2>9. CASE LookAtBuffer(p)  BY <2>9, LookAtBufferValue
  <2>10. CASE Parse(p)  BY <2>10, ParseValue
  <2>11. CASE ParseArrayLength(p)  BY <2>11, ParseArrayLengthValue
  <2>12. CASE \E index \in Indices : ParseArrayAt(p, index)  BY <2>12, ParseArrayAtValue
  <2>13. CASE \E start, end \in SliceBounds : ParseArraySlice(p, start, end)
    BY <2>13, ParseArraySliceValue
  <2> QED
    BY <2>1, <2>2, <2>3, <2>4, <2>5, <2>6, <2>7, <2>8, <2>9, <2>10, <2>11, <2>12, <2>13
<1>2. CASE UNCHANGED vars  BY <1>2 DEF vars, InValues, HasValue
<1> QED  BY <1>1, <1>2

(***************************************************************************)
(* Theorems                                                                *)
(***************************************************************************)

(* Every action keeps the packets coherent and their sharing mutual.       *)
LEMMA NextIInv == IInv /\ [Next]_vars => IInv'
<1> SUFFICES ASSUME IInv, [Next]_vars PROVE IInv'  OBVIOUS
<1>1. CASE Next
  <2>1. PICK p \in P :
          \/ \E v \in work : Serialize(p, v)
          \/ \E v \in work, cuts \in SUBSET Cuts, missing \in 0 .. 1 :
               Receive(p, v, cuts, missing)
          \/ \E v \in work : DecodeFromBuffer(p, v)
          \/ Reset(p)
          \/ \E q \in P : CopyRawData(p, q)
          \/ \E v \in work : WriteElsewhere(p, v)
          \/ \E v \in work, missing \in 0 .. 1 : ReadElsewhere(p, v, missing)
          \/ LookAtBuffer(p)
          \/ Parse(p)
          \/ ParseArrayLength(p)
          \/ \E index \in Indices : ParseArrayAt(p, index)
          \/ \E start, end \in SliceBounds : ParseArraySlice(p, start, end)
    BY <1>1 DEF Next
  <2>2. CASE \E v \in work : Serialize(p, v)  BY <2>2, SerializeKeeps
  <2>3. CASE \E v \in work, cuts \in SUBSET Cuts, missing \in 0 .. 1 :
               Receive(p, v, cuts, missing)
    BY <2>3, ReceiveKeeps
  <2>4. CASE \E v \in work : DecodeFromBuffer(p, v)  BY <2>4, DecodeFromBufferKeeps
  <2>5. CASE Reset(p)  BY <2>5, ResetKeeps
  <2>6. CASE \E q \in P : CopyRawData(p, q)  BY <2>6, CopyKeeps
  <2>7. CASE \E v \in work : WriteElsewhere(p, v)  BY <2>7, WriteElsewhereKeeps
  <2>8. CASE \E v \in work, missing \in 0 .. 1 : ReadElsewhere(p, v, missing)
    BY <2>8, ReadElsewhereKeeps
  <2>9. CASE LookAtBuffer(p)  BY <2>9, LookAtBufferKeeps
  <2>10. CASE Parse(p)  BY <2>10, MergesKeeps DEF Parse
  <2>11. CASE ParseArrayLength(p)  BY <2>11, MergesKeeps DEF ParseArrayLength
  <2>12. CASE \E index \in Indices : ParseArrayAt(p, index)
    BY <2>12, MergesKeeps DEF ParseArrayAt
  <2>13. CASE \E start, end \in SliceBounds : ParseArraySlice(p, start, end)
    BY <2>13, MergesKeeps DEF ParseArraySlice
  <2> QED
    BY <2>1, <2>2, <2>3, <2>4, <2>5, <2>6, <2>7, <2>8, <2>9, <2>10, <2>11, <2>12, <2>13
<1>2. CASE UNCHANGED vars
  BY <1>2 DEF vars, IInv, Shared, IsBufferList
<1> QED  BY <1>1, <1>2

(* The packets stay coherent and their sharing mutual, whatever is parsed, *)
(* copied, received or written, and in whatever order.                     *)
THEOREM PacketsStayCoherent == Spec => []IInv
<1> QED  BY InitIInv, NextIInv, PTL DEF Spec

(* Every variable has its type, and the packets that share an array have   *)
(* the same buffers. (IpcPacketBufferList._buffers)                        *)
THEOREM PacketsAreTyped == Spec => []TypeOK
<1>1. IInv => TypeOK
  <2> SUFFICES ASSUME IInv PROVE TypeOK  OBVIOUS
  <2>1. ASSUME NEW p \in P
        PROVE  /\ packets[p].class \in Classes
               /\ packets[p].header.type \in ValidTypes \cup {"NotValid"}
               /\ packets[p].value \in Values \cup {Undefined}
               /\ packets[p].inStep \in BOOLEAN
               /\ p \in sharing[p]
               /\ \A q \in sharing[p] : sharing[q] = sharing[p]
                                        /\ packets[q].buffers = packets[p].buffers
               /\ ~IsBufferList(p) => sharing[p] = {p} /\ Len(packets[p].buffers) = 1
    <3>1. Coherent(packets[p])  BY DEF IInv
    <3>2. /\ p \in sharing[p]
          /\ \A q \in sharing[p] : sharing[q] = sharing[p]
                                   /\ packets[q].buffers = packets[p].buffers
          /\ ~IsBufferList(p) => sharing[p] = {p}
      BY DEF IInv, Shared
    <3> QED  BY <3>1, <3>2 DEF Coherent, IsBufferList
  <2>2. work \subseteq Values  BY DEF IInv
  <2> QED  BY <2>1, <2>2 DEF TypeOK
<1> QED  BY <1>1, PacketsStayCoherent, PTL

(* The size that IpcPacketWriterSize counts for a value is the one of the  *)
(* buffers that IpcPacketWriter writes of it, for every value, arrays in   *)
(* arrays included.                                                        *)
THEOREM CountedIsWritten ==
  \A v \in AllValues : Bytelength(v) = Length(Written(<<v>>))
BY PacketWritten

(* bytelength of the value of a valid packet is the size its header says,  *)
(* however the packet came by it. (IpcPacketWriterSize)                    *)
THEOREM BytelengthHolds == Spec => []BytelengthIsThePacketSize
<1>1. IInv => BytelengthIsThePacketSize
  <2> SUFFICES ASSUME IInv, NEW p \in P,
                      packets[p].inStep, ~IsNotValid(packets[p].header)
               PROVE  Bytelength(packets[p].value) = PacketSize(packets[p].header)
    BY DEF BytelengthIsThePacketSize
  <2> DEFINE v == packets[p].value
  <2>1. Coherent(packets[p])  BY DEF IInv
  <2>2. PacketType(v) # NoPacket /\ packets[p].header = HeaderOf(v)
    BY <2>1 DEF Coherent, Told
  <2>3. v \in AllValues
    <3>1. v \in Values \cup {Undefined}  BY <2>1 DEF Coherent
    <3> QED  BY <3>1, BufferAssumption, CodecAssumption
  <2> HIDE DEF v
  <2>4. PacketSize(HeaderOf(v)) = Bytelength(v)  BY <2>2, <2>3, HeaderOfSize
  <2> QED  BY <2>2, <2>4 DEF v
<1> QED  BY <1>1, PacketsStayCoherent, PTL

(* A packet keeps its bytes: those of its buffers, one behind another, are *)
(* the bytes its header says, whatever was parsed of it or of another that *)
(* shares its array. (_consolidate in the array of the packet)             *)
THEOREM PacketsKeepTheirBytes == Spec => []KeepsItsBytes
<1>1. Spec => []InBytes  BY PacketsStayCoherent, InitBytes, NextBytes, PTL DEF Spec
<1>2. InBytes => KeepsItsBytes
  <2>1. SUFFICES ASSUME InBytes, NEW p \in P, packets[p].inStep,
                        ~IsNotValid(packets[p].header)
                 PROVE  Whole(packets[p].buffers)
                          = [lo |-> 0, hi |-> PacketSize(packets[p].header)]
    BY DEF KeepsItsBytes
  <2>2. Spread(packets[p].buffers, PacketSize(packets[p].header))
    BY <2>1 DEF InBytes, HasBytes
  <2> QED  BY <2>2 DEF Spread, Whole
<1> QED  BY <1>1, <1>2, PTL

(* The packets stand for their values, and their buffers with them.        *)
THEOREM PacketsStandForTheirValues ==
  ASSUME ElementsHavePackets
  PROVE  Spec => [](IInv /\ InBytes /\ InValues)
<1> DEFINE All == IInv /\ InBytes /\ InValues
<1>1. Init => All  BY InitIInv, InitBytes, InitValues
<1>2. All /\ [Next]_vars => All'  BY NextIInv, NextBytes, NextValues
<1> QED  BY <1>1, <1>2, PTL DEF Spec

(* Parsing a packet gives the value it was made of, whatever was done with *)
(* it or with another that shares its array before. (parse)                *)
THEOREM ParsingGivesTheValue ==
  ASSUME ElementsHavePackets
  PROVE  Spec => []ParseGivesTheValue
<1>1. IInv /\ InBytes /\ InValues => ParseGivesTheValue
  <2> SUFFICES ASSUME IInv, InBytes, InValues, NEW p \in P, packets[p].inStep
               PROVE  Parsed(packets[p]).value = packets[p].value
    BY DEF ParseGivesTheValue
  <2> DEFINE x == packets[p]
             v == x.value
             f == FlattenSeq(Written(<<v>>))
             r == ParseReader(x)
  <2>1. CASE IsNotValid(x.header)
    <3>1. x.value = Undefined  BY <2>1 DEF InValues, HasValue
    <3>2. x.header.type = "NotValid"  BY <2>1 DEF IsNotValid
    <3>3. Parsed(x) = Gives(Undefined, ParseReader(x))
      BY <3>2 DEF Parsed, ReadContent, BufferTypes, DoubleTypes, EmptyTypes
    <3> QED  BY <3>1, <3>3 DEF Gives
  <2>2. CASE ~IsNotValid(x.header)
    <3>1. ParsedIn(x, f, v, Contents[v], r)  BY <2>2, ParsedInList
    <3>2. v = x.value /\ r = ParseReader(x)  OBVIOUS
    <3> HIDE DEF x, v, f, r
    <3>3. Parsed(x).value = v  BY <3>1, <3>2, ParseThere
    <3> QED  BY <3>3 DEF v, x
  <2> QED  BY <2>1, <2>2
<1> QED  BY <1>1, PacketsStandForTheirValues, PTL

(* The length, an element and a slice of an array, parsed each on its own, *)
(* are those of the array. (parseArrayLength, parseArrayAt,                *)
(* parseArraySlice)                                                        *)
THEOREM PartsAreThoseOfTheArray ==
  ASSUME ElementsHavePackets
  PROVE  Spec => []PartsAgreeWithParse
<1>1. IInv /\ InBytes /\ InValues => PartsAgreeWithParse
  <2> SUFFICES ASSUME IInv, InBytes, InValues, NEW p \in P, IsArray(packets[p])
               PROVE  LET elements == packets[p].value.elements
                          length == Len(elements)
                      IN /\ CountOut(ParseReader(packets[p]), MemoryOf[packets[p].value])
                              = length
                         /\ \A index \in Indices :
                              ParsedAt(packets[p], index).value
                                = IF index < length THEN elements[index + 1] ELSE Undefined
                         /\ \A start, end \in SliceBounds :
                              ~BothBefore(length, start, end) =>
                                ParsedSlice(packets[p], start, end).value
                                  = ArrayOf(SliceOf(elements, start, end))
    BY DEF PartsAgreeWithParse
  <2> DEFINE x == packets[p]
             v == x.value
             f == FlattenSeq(Written(<<v>>))
             r == ParseReader(x)
             es == v.elements
             length == Len(es)
  <2>1. x.inStep /\ x.header.type = "ArrayWithSize" /\ ~IsNotValid(x.header)
    BY DEF IsArray, IsNotValid
  <2>2. ParsedIn(x, f, v, Contents[v], r)  BY <2>1, ParsedInList
  <2>3. v = x.value /\ r = ParseReader(x)  OBVIOUS
  <2>4. CountOut(r, MemoryOf[v]) = Len(v.elements)
    <3> HIDE DEF x, v, f, r
    <3> QED  BY <2>1, <2>2, <2>3, LengthThere
  <2>5. ASSUME NEW index \in Indices
        PROVE  ParsedAt(x, index).value
                 = IF index < Len(v.elements) THEN v.elements[index + 1] ELSE Undefined
    <3>1. index \in Nat  BY DEF Indices
    <3> HIDE DEF x, v, f, r
    <3> QED  BY <2>1, <2>2, <2>3, <3>1, ElementThere, ZenonT(60)
  <2>6. ASSUME NEW start \in SliceBounds, NEW end \in SliceBounds,
               ~BothBefore(Len(v.elements), start, end)
        PROVE  ParsedSlice(x, start, end).value
                 = ArrayOf(SliceOf(v.elements, start, end))
    <3>1. start \in Int \cup {NoLen} /\ end \in Int \cup {NoLen}  BY DEF SliceBounds
    <3> HIDE DEF x, v, f, r
    <3>2. /\ ~BothBefore(Len(v.elements), start, end) =>
               ParsedSlice(x, start, end).value = ArrayOf(SliceOf(v.elements, start, end))
          /\ Keeps(r, ParsedSlice(x, start, end).reader, f)
      <4>1. x.header.type = "ArrayWithSize" /\ v = x.value /\ r = ParseReader(x)
        BY <2>1, <2>3
      <4> QED  BY ONLY ElementsHavePackets, <2>2, <3>1, <4>1, SliceThere, SMTT(30)
    <3> QED  BY <2>6, <3>2
  <2> QED  BY <2>4, <2>5, <2>6
<1> QED  BY <1>1, PacketsStandForTheirValues, PTL
=============================================================================
