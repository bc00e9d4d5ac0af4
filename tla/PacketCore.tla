------------------------------ MODULE PacketCore ------------------------------
(***************************************************************************)
(* A program that writes values one after another with                     *)
(* IpcPacketCore.write, and one that reads them with IpcPacketCore.read,   *)
(* out of the same bytes in one buffer or in several. What is written is   *)
(* all there when the reading begins.                                      *)
(***************************************************************************)
EXTENDS PacketCodec

CONSTANTS
  Values,     (* what the program writes                                     *)
  MaxValues,  (* bound on how many                                           *)
  Cuts        (* where the bytes may be cut in two                           *)

ASSUME CoreAssumption ==
  /\ Values \subseteq AllValues
  /\ MaxValues \in Nat
  /\ Cuts \subseteq Nat \ {0}

VARIABLES
  values,   (* what was written, in order                                    *)
  reading,  (* whether the reading has begun                                 *)
  reader,   (* the reader                                                    *)
  header,   (* _rawHeader of the packet that writes and reads                *)
  read      (* the values read                                               *)

vars == <<values, reading, reader, header, read>>

Init ==
  /\ values = <<>>
  /\ reading = FALSE
  /\ reader = NewBufferReader(EmptyBuffer, 0)
  /\ header = InvalidRawHeader
  /\ read = <<>>

WritePacket(v) ==
  /\ ~reading
  /\ Len(values) < MaxValues
  /\ values' = Append(values, v)
  /\ header' = HeaderWritten(header, v)
  /\ UNCHANGED <<reading, reader, read>>

Open(newReader) ==
  /\ ~reading
  /\ reading' = TRUE
  /\ reader' = newReader
  /\ UNCHANGED <<values, header, read>>

OpenBuffer ==
  Open(NewBufferReader([lo |-> 0, hi |-> Length(Written(values))], 0))

OpenList == Open(NewBufferListReader(Places(Written(values)), 0))

(* What a list gives of an ArrayBuffer depends on where its bytes are cut. *)
OpenCut(cut) ==
  LET size == Length(Written(values))
  IN /\ cut < size
     /\ \A k \in DOMAIN values : ~HoldsArrayBuffer(values[k])
     /\ Open(NewBufferListReader(<<[lo |-> 0, hi |-> cut], [lo |-> cut, hi |-> size]>>, 0))

(* A value that is given no packet is not there to be read.                *)
WithPacket(packets, v) ==
  IF PacketType(v) = NoPacket THEN packets ELSE Append(packets, v)

PacketsOf(written) == FoldLeft(WithPacket, <<>>, written)

Packets == PacketsOf(values)

ReadPacket ==
  /\ reading
  /\ Len(read) <= Len(Packets)
  /\ \E memory \in {Memory(values)} :
       \E got \in {ReadValue(reader, memory)} :
         /\ read' = Append(read, got.value)
         /\ reader' = got.reader
         /\ header' = ReadHeader(reader, memory.headers).header
  /\ UNCHANGED <<values, reading>>

Next ==
  \/ \E v \in Values : WritePacket(v)
  \/ OpenBuffer
  \/ OpenList
  \/ \E cut \in Cuts : OpenCut(cut)
  \/ ReadPacket

Spec == Init /\ [][Next]_vars

(***************************************************************************)
(* Properties                                                              *)
(***************************************************************************)

(* Every variable has its type. *)
TypeOK ==
  /\ values \in Seq(Values)
  /\ Len(values) <= MaxValues
  /\ reading \in BOOLEAN
  /\ LengthOf(reader) \in Nat
  /\ reader.offset \in 0 .. LengthOf(reader)
  /\ header.type \in ValidTypes \cup {"NotValid"}
  /\ header.headerSize \in {-1, FixedHeaderSize, DynamicHeaderSize}
  /\ header.contentSize \in Int
  /\ Len(read) <= MaxValues + 1

(* The values come out as they went in, in order, whatever pieces their    *)
(* bytes are in, and after the last of them there is nothing more: the     *)
(* type given to a value, the sizes and counts written and what reading    *)
(* consumes agree, in arrays in arrays too. (read, write)                  *)
ReadsWhatWasWritten ==
  \A i \in DOMAIN read :
    read[i] = IF i <= Len(Packets) THEN Packets[i] ELSE Undefined

(* The header a packet says it has after a write, or after a read, is the  *)
(* one its bytes have, the size of its content included, which the two     *)
(* sides do not get from the same place. (_rawHeader)                      *)
HeaderIsTheOneInTheBytes ==
  LET i == IF reading THEN Len(read) ELSE Len(Packets)
      start(n) == Length(Written(SubSeq(Packets, 1, n - 1)))
      bytes == NewBufferReader([lo |-> 0, hi |-> Length(Written(Packets))], start(i))
  IN i \in 1 .. Len(Packets) =>
       header = ReadHeader(bytes, Memory(values).headers).header
=============================================================================
