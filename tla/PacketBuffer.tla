----------------------------- MODULE PacketBuffer -----------------------------
(***************************************************************************)
(* IpcPacketBuffer and IpcPacketBufferList: a packet as its header and its *)
(* bytes, in one buffer or in an array of buffers. Parsing a list through  *)
(* a BufferListReader merges buffers in the array itself, and getRawData   *)
(* and setRawData hand that array, not a copy, to another packet.          *)
(*                                                                         *)
(* The positions of a packet's bytes are counted from its first.           *)
(***************************************************************************)
EXTENDS PacketCodec

CONSTANTS
  P,        (* the packets                                                   *)
  Values,   (* what the program puts in them                                 *)
  Cuts      (* where a packet that is received may be cut                    *)

ASSUME BufferAssumption == Values \subseteq AllValues /\ Cuts \subseteq Nat \ {0}

VARIABLES
  packets,  (* the fields of each packet, and what it stands for             *)
  sharing,  (* the packets whose _buffers is the same array                  *)
  work      (* the values of this run of the program                         *)

vars == <<packets, sharing, work>>

Classes == {"IpcPacketBuffer", "IpcPacketBufferList"}
IsBufferList(p) == packets[p].class = "IpcPacketBufferList"

(* What the bytes of each value say. *)
MemoryOf == [v \in Values \cup {Undefined} |-> Memory(<<v>>)]
WrittenOf == [v \in Values \cup {Undefined} |-> Written(<<v>>)]
SizeOf(v) == Length(WrittenOf[v])

NoBuffers(class) == IF class = "IpcPacketBuffer" THEN <<EmptyBuffer>> ELSE <<>>

(* `value` is what the packet was last made of; `inStep` is that its       *)
(* header is the one of its bytes.                                         *)
Packet(class, header, buffers, value, inStep) ==
  [class |-> class, header |-> header, buffers |-> buffers, value |-> value,
   inStep |-> inStep]

NewPacket(class) ==
  Packet(class, InvalidRawHeader, NoBuffers(class), Undefined, TRUE)

Init ==
  /\ packets \in [P -> {NewPacket(class) : class \in Classes}]
  /\ sharing = [p \in P |-> {p}]
  /\ \E v \in Values : work \in {{v, w} : w \in Values}

(***************************************************************************)
(* Arrays of buffers                                                       *)
(***************************************************************************)

(* p gets an array that it shares with no other. *)
Alone(p) ==
  sharing' = [q \in P |-> IF q = p THEN {p} ELSE sharing[q] \ {p}]

Hold(p, header, buffers, value, inStep) ==
  /\ packets' = [packets EXCEPT ![p] = Packet(@.class, header, buffers, value, inStep)]
  /\ Alone(p)
  /\ UNCHANGED work

(* Buffers merged in the array are merged for all who share it.            *)
MergeInPlace(p, buffers) ==
  /\ packets' = [q \in P |-> IF q \in sharing[p]
                             THEN [packets[q] EXCEPT !.buffers = buffers]
                             ELSE packets[q]]
  /\ UNCHANGED <<sharing, work>>

(* Buffer.concat of all of them. *)
Joined(buffers) ==
  IF Len(buffers) < 2
  THEN <<IF buffers = <<>> THEN EmptyBuffer ELSE buffers[1]>>
  ELSE <<Concat(buffers, 1, Len(buffers))>>

(***************************************************************************)
(* Making packets                                                          *)
(***************************************************************************)

(* A value that cannot be written leaves the header and takes the bytes.   *)
Serialize(p, v) ==
  LET buffers == Places(WrittenOf[v])
  IN Hold(p, HeaderWritten(packets[p].header, v),
          IF IsBufferList(p) THEN buffers ELSE Joined(buffers),
          v, PacketType(v) # NoPacket)

(* decodeFromReader, the bytes that have come being in these buffers. The  *)
(* cursor goes back to the header before the packet is taken.              *)
TakeOut(class, r, packetSize) ==
  IF class = "IpcPacketBufferList"
  THEN ReadListOut(r, Taken(r, packetSize))
  ELSE <<ReadOut(r, Taken(r, packetSize))>>

Decode(p, v, start, read) ==
  LET class == packets[p].class
  IN IF read.header.contentSize >= 0
     THEN Hold(p, read.header,
               TakeOut(class, SetContext(read.reader, start), PacketSize(read.header)),
               v, TRUE)
     ELSE Hold(p, read.header, NoBuffers(class), Undefined, TRUE)

DecodeFromReader(p, v, r) ==
  Decode(p, v, GetContext(r), ReadHeader(r, MemoryOf[v].headers))

Chunks(cuts, size) ==
  LET ends == {cut \in cuts : cut < size} \cup {size}
      end(k) == IF k = 0 THEN 0
                ELSE CHOOSE e \in ends : Cardinality({d \in ends : d <= e}) = k
  IN [k \in 1 .. Cardinality(ends) |-> [lo |-> end(k - 1), hi |-> end(k)]]

(* What a list gives of an ArrayBuffer depends on where its bytes are cut. *)
Receive(p, v, cuts, missing) ==
  /\ PacketType(v) # NoPacket
  /\ HoldsArrayBuffer(v) => cuts = {}
  /\ DecodeFromReader(p, v, NewBufferListReader(Chunks(cuts, SizeOf(v) - missing), 0))

DecodeFromBuffer(p, v) ==
  LET buffer == [lo |-> 0, hi |-> SizeOf(v)]
  IN /\ PacketType(v) # NoPacket
     /\ Hold(p, ReadHeader(NewBufferReader(buffer, 0), MemoryOf[v].headers).header,
             <<buffer>>, v, TRUE)

(* As a bug: the header is not reset.                                      *)
ResetBuffersOnly(p) ==
  Hold(p, packets[p].header, NoBuffers(packets[p].class), Undefined, TRUE)

Reset(p) ==
  Hold(p, InvalidRawHeader, NoBuffers(packets[p].class), Undefined, TRUE)

(* p.setRawData(q.getRawData()): one buffer is handed over by itself, more *)
(* of them as the array they are in, which IpcPacketBuffer concatenates.   *)
CopyRawData(p, q) ==
  LET from == packets[q]
      one == Len(from.buffers) < 2
  IN /\ p # q
     /\ packets' = [packets EXCEPT
          ![p] = Packet(@.class, from.header,
                        IF one \/ ~IsBufferList(p) THEN Joined(from.buffers)
                                                   ELSE from.buffers,
                        from.value, from.inStep)]
     /\ IF one \/ ~IsBufferList(p)
        THEN Alone(p)
        ELSE LET all == sharing[q] \cup {p}
             IN sharing' = [o \in P |-> IF o \in all THEN all ELSE sharing[o] \ {p}]
     /\ UNCHANGED work

(* read and write of the packet with a reader or a writer of the program's *)
(* set its header and leave its bytes.                                     *)
WriteElsewhere(p, v) ==
  /\ packets' = [packets EXCEPT ![p].header = HeaderWritten(@, v),
                                ![p].inStep = @ /\ PacketType(v) = NoPacket]
  /\ UNCHANGED <<sharing, work>>

ReadElsewhere(p, v, missing) ==
  LET r == NewBufferReader([lo |-> 0, hi |-> SizeOf(v) - missing], 0)
  IN /\ PacketType(v) # NoPacket
     /\ packets' = [packets EXCEPT ![p].header = ReadHeader(r, MemoryOf[v].headers).header,
                                   ![p].inStep = FALSE]
     /\ UNCHANGED <<sharing, work>>

(***************************************************************************)
(* Looking into packets                                                    *)
(***************************************************************************)

(* The getter `buffer` of a list. *)
LookAtBuffer(p) ==
  /\ IsBufferList(p)
  /\ Len(packets[p].buffers) > 1
  /\ packets' = [packets EXCEPT ![p].buffers = Joined(@)]
  /\ Alone(p)
  /\ UNCHANGED work

(* _parseReader: the content behind the header. *)
ParseReader(packet) ==
  IF Len(packet.buffers) < 2
  THEN NewBufferReader(Joined(packet.buffers)[1], packet.header.headerSize)
  ELSE NewBufferListReader(packet.buffers, packet.header.headerSize)

(* Where there is one buffer only, it stays as it is. *)
Merges(p, reader) ==
  MergeInPlace(p, IF Len(packets[p].buffers) < 2 THEN packets[p].buffers
                                                 ELSE reader.buffers)

Parsed(packet) ==
  ReadContent(ParseReader(packet), MemoryOf[packet.value],
              Reading(MemoryOf[packet.value]), packet.header.type,
              packet.header.contentSize)

Parse(p) == packets[p].inStep /\ Merges(p, Parsed(packets[p]).reader)

(* The caller makes sure that the packet is an array. *)
IsArray(packet) == packet.inStep /\ packet.header.type = "ArrayWithSize"

ParsedLength(packet) == NumberBy(ParseReader(packet), CountSize)
ParsedAt(packet, index) ==
  ReadArrayAt(ParseReader(packet), MemoryOf[packet.value], index)
ParsedSlice(packet, start, end) ==
  ReadArraySlice(ParseReader(packet), MemoryOf[packet.value], start, end)

ParseArrayLength(p) == IsArray(packets[p]) /\ Merges(p, ParsedLength(packets[p]))

ParseArrayAt(p, index) ==
  IsArray(packets[p]) /\ Merges(p, ParsedAt(packets[p], index).reader)

ParseArraySlice(p, start, end) ==
  IsArray(packets[p]) /\ Merges(p, ParsedSlice(packets[p], start, end).reader)

Indices == 0 .. 2
SliceBounds == {NoLen} \cup -2 .. 3

Next ==
  \E p \in P :
    \/ \E v \in work : Serialize(p, v)
    \/ \E v \in work, cuts \in SUBSET Cuts, missing \in 0 .. 1 :
         Receive(p, v, cuts, missing)
    \/ \E v \in work : DecodeFromBuffer(p, v)
    \/ Reset(p)
    \/ \E q \in P : CopyRawData(p, q)
    \/ \E v \in work : WriteElsewhere(p, v)
    \/ \E v \in work, missing \in 0 .. 1 : ReadElsewhere(p, v, missing)
    \/ LookAtBuffer(p)
    \/ Parse(p)
    \/ ParseArrayLength(p)
    \/ \E index \in Indices : ParseArrayAt(p, index)
    \/ \E start, end \in SliceBounds : ParseArraySlice(p, start, end)

Spec == Init /\ [][Next]_vars

(***************************************************************************)
(* Properties                                                              *)
(***************************************************************************)

(* Every variable has its type, and sharing is an equivalence of packets   *)
(* that have the same buffers.                                             *)
TypeOK ==
  /\ \A p \in P :
       /\ packets[p].class \in Classes
       /\ packets[p].header.type \in ValidTypes \cup {"NotValid"}
       /\ packets[p].value \in Values \cup {Undefined}
       /\ packets[p].inStep \in BOOLEAN
       /\ p \in sharing[p]
       /\ \A q \in sharing[p] : sharing[q] = sharing[p]
                                /\ packets[q].buffers = packets[p].buffers
       /\ ~IsBufferList(p) => sharing[p] = {p} /\ Len(packets[p].buffers) = 1
  /\ work \subseteq Values

(* Whatever was parsed, of this packet or of one that shares its array,    *)
(* its buffers are the bytes of its value, all of them, once and in order. *)
(* (_consolidate in the array of the packet)                               *)
KeepsItsBytes ==
  \A p \in P :
    packets[p].inStep /\ ~IsNotValid(packets[p].header) =>
      Whole(packets[p].buffers) = [lo |-> 0, hi |-> PacketSize(packets[p].header)]

(* Parsing the packet gives the value it was made of, at any time: after   *)
(* any other parsing, copying, resetting or receiving, and nothing after   *)
(* a reset or a packet that had not arrived. (parse)                       *)
ParseGivesTheValue ==
  \A p \in P : packets[p].inStep => Parsed(packets[p]).value = packets[p].value

(* Array.prototype.slice, with bounds that are not both before the array.  *)
Clamp(n, length) == IF n < 0 THEN 0 ELSE IF n > length THEN length ELSE n
SliceOf(elements, start, end) ==
  LET length == Len(elements)
      bound(n) == Clamp(IF n < 0 THEN length + n ELSE n, length)
      from == IF start = NoLen THEN 0 ELSE bound(start)
      to == IF end = NoLen THEN length ELSE bound(end)
  IN SubSeq(elements, from + 1, to)

BothBefore(length, start, end) ==
  start # NoLen /\ end # NoLen /\ start < -length /\ end < -length

(* An element, a slice or the length of an array, parsed by skipping over  *)
(* what is before it, is the one of the whole array parsed.                *)
(* (parseArrayAt, parseArraySlice, parseArrayLength)                       *)
PartsAgreeWithParse ==
  \A p \in P :
    IsArray(packets[p]) =>
      LET elements == packets[p].value.elements
          length == Len(elements)
      IN /\ CountOut(ParseReader(packets[p]), MemoryOf[packets[p].value]) = length
         /\ \A index \in Indices :
              ParsedAt(packets[p], index).value
                = IF index < length THEN elements[index + 1] ELSE Undefined
         /\ \A start, end \in SliceBounds :
              ~BothBefore(length, start, end) =>
                ParsedSlice(packets[p], start, end).value
                  = ArrayOf(SliceOf(elements, start, end))

(* bytelength, which writes the value a second way into a writer that      *)
(* counts, is the size of the packet the value is written as. (bytelength) *)
BytelengthIsThePacketSize ==
  \A p \in P :
    packets[p].inStep /\ ~IsNotValid(packets[p].header) =>
      Bytelength(packets[p].value) = PacketSize(packets[p].header)
=============================================================================
